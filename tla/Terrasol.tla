------------------------------ MODULE Terrasol ------------------------------
(***************************************************************************)
(* The on-chain program of program/programs/terrasol/src/lib.rs: staking   *)
(* into a vault, impact records signed by an oracle, a marketplace for the *)
(* credits, and a governance key that may rotate keys and pause.           *)
(*                                                                         *)
(* An instruction is one step: the chain runs it as a transaction and a    *)
(* failing one leaves no trace but its error code.  For every instruction  *)
(* X, XFehler names the first check that fails, in the order in which      *)
(* Anchor checks the accounts and the body checks the rest; OK if none.    *)
(*                                                                         *)
(* Keys are the users and DEFAULT, the all-zero Pubkey.  A token account   *)
(* is named by its owner and mint (associated token accounts); the vault   *)
(* is the account of the config PDA.  An impact record is named by its     *)
(* seeds (subject, index), a listing by its impact record.                 *)
(***************************************************************************)
EXTENDS Integers, FiniteSets

CONSTANTS
    NUTZER,        \* users: holders of a key and of a TRRA account
    DEFAULT,       \* Pubkey::default()
    U64,           \* 2^64
    SPERRE,        \* MIN_LOCK_SECONDS
    BESTAND,       \* TRRA each user starts with
    BETRAEGE,      \* bound: amounts asked for
    PREISE,        \* bound: prices asked for
    SCHWELLEN,     \* bound: threshold arrays submitted
    MAX_ZEIT,      \* bound of the clock
    MAX_IMPACTS    \* bound: impact records

ASSUME NutzerAnnahme   == DEFAULT \notin NUTZER /\ "config" \notin NUTZER
ASSUME U64Annahme      == U64 \in Nat \ {0}
ASSUME SperreAnnahme   == SPERRE \in Nat
ASSUME BestandAnnahme  == BESTAND \in Nat /\ IsFiniteSet(NUTZER)
                          /\ Cardinality(NUTZER) * BESTAND < U64   \* the supply is a u64
ASSUME BetraegeAnnahme == BETRAEGE \subseteq 0 .. U64 - 1 /\ PREISE \subseteq 0 .. U64 - 1
ASSUME SchwellenAnnahme == SCHWELLEN \subseteq [1 .. 4 -> 0 .. U64 - 1]
ASSUME GrenzenAnnahme  == MAX_ZEIT \in Nat /\ MAX_IMPACTS \in 0 .. U64 - 2

OK       == "Ok"
CONFIG   == "config"                    \* the PDA that owns the vault
VAULT    == "vault"                     \* the vault's own PDA
TRRA     == "TRRA"
KEY      == NUTZER \cup {DEFAULT}
MENGE    == 0 .. U64 - 1
KONTO    == [owner : NUTZER \cup {CONFIG}, mint : {TRRA}]
              \cup {[owner |-> CONFIG, mint |-> "fremd"]}
IMPACT   == NUTZER \X (0 .. MAX_IMPACTS - 1)

VARIABLES
    initialisiert,     \* the config account exists
    config,            \* governance, oracle, tier_thresholds, ...
    positionen,        \* StakePosition of each user
    impacts,           \* the impact records there are
    listings,          \* the listings there are
    tokens,            \* TRRA balance by owner; CONFIG's is the vault
    uhr,               \* unix_timestamp
    ergebnis,          \* the last instruction's error code, or OK
    signer,            \* who signed it, DEFAULT if it failed
    ereignis           \* the event it emitted, KEINS if none

konten == <<initialisiert, config, positionen, impacts, listings, tokens>>
vars == <<konten, uhr, ergebnis, signer, ereignis>>

KEINS == [art |-> "keins"]

Init ==
    /\ initialisiert = FALSE
    /\ config = [governance |-> DEFAULT, oracle |-> DEFAULT,
                 tier_thresholds |-> [i \in 1 .. 4 |-> 0], total_staked |-> 0,
                 impact_count |-> 0, paused |-> FALSE]
    /\ positionen = [u \in NUTZER |-> [angelegt |-> FALSE, amount |-> 0, locked_until |-> 0]]
    /\ impacts = <<>>
    /\ listings = <<>>
    /\ tokens = [k \in NUTZER \cup {CONFIG} |-> IF k = CONFIG THEN 0 ELSE BESTAND]
    /\ uhr = 0
    /\ ergebnis = OK
    /\ signer = DEFAULT
    /\ ereignis = KEINS
-----------------------------------------------------------------------------
(* An account is created or closed.                                        *)
Anlegen(f, x, r)    == [y \in DOMAIN f \cup {x} |-> IF y = x THEN r ELSE f[y]]
Schliessen(f, x)    == [y \in DOMAIN f \ {x} |-> f[y]]

Ausgefuehrt(s, e) ==
    /\ ergebnis' = OK
    /\ signer' = s
    /\ ereignis' = e
    /\ uhr' = uhr

Gescheitert(f) ==
    /\ f # OK
    /\ ergebnis' = f
    /\ signer' = DEFAULT
    /\ ereignis' = KEINS
    /\ UNCHANGED <<konten, uhr>>

(* The token program: who signs must be the authority named, and the       *)
(* authority must own the source account.                                  *)
TransferFehler(von, authority, unterschriften, q) ==
    IF authority \notin unterschriften THEN "PrivilegeEscalation"
    ELSE IF tokens[von] < q THEN "InsufficientFunds"
    ELSE IF authority # von THEN "OwnerMismatch"
    ELSE OK
Ueberwiesen(von, nach, q) ==
    [k \in NUTZER \cup {CONFIG} |->
        tokens[k] + (IF k = nach THEN q ELSE 0) - (IF k = von THEN q ELSE 0)]

(* Mutant: a threshold must be exceeded.                                   *)
tier_forDarueber(th, staked) ==
    LET T == {i \in 1 .. 4 : staked > th[i]}
    IN  IF T = {} THEN 0 ELSE CHOOSE i \in T : \A j \in T : j <= i

(* The tier a stake reaches: the last threshold it is not below.           *)
tier_for(th, staked) ==
    LET T == {i \in 1 .. 4 : staked >= th[i]}
    IN  IF T = {} THEN 0 ELSE CHOOSE i \in T : \A j \in T : j <= i

Steigend(th) == \A i \in 2 .. 4 : th[i] >= th[i - 1]

(* The mint and owner of the user's token account.                         *)
KontoFehler(k, wer) ==
    IF k.mint # TRRA THEN "WrongMint"
    ELSE IF k.owner # wer THEN "WrongOwner"
    ELSE OK
-----------------------------------------------------------------------------
(* Anyone may create the one config account, and names the keys.           *)
InitializeFehler(th) ==
    IF initialisiert THEN "AlreadyInUse"
    ELSE IF ~Steigend(th) THEN "ThresholdsNotIncreasing"
    ELSE OK

Initialize(payer, gov, orc, th) ==
    /\ InitializeFehler(th) = OK
    /\ initialisiert' = TRUE
    /\ config' = [governance |-> gov, oracle |-> orc, tier_thresholds |-> th,
                  total_staked |-> 0, impact_count |-> 0, paused |-> FALSE]
    /\ Ausgefuehrt(payer, [art |-> "Initialized"])
    /\ UNCHANGED <<positionen, impacts, listings, tokens>>

(* Mutants: the total grows by the whole position; the new lock is         *)
(* appended to the old one.                                                *)
NeueSummePosition(u, q) == config.total_staked + positionen[u].amount + q
SperreBisAngehaengt(u) == positionen[u].locked_until + SPERRE

NeueSumme(u, q) == config.total_staked + q
SperreBis(u)    == uhr + SPERRE

StakeFehler(u, k, q) ==
    IF ~initialisiert THEN "AccountNotInitialized"
    ELSE IF KontoFehler(k, u) # OK THEN KontoFehler(k, u)
    ELSE IF config.paused THEN "Paused"
    ELSE IF q = 0 THEN "ZeroAmount"
    ELSE IF TransferFehler(k.owner, u, {u}, q) # OK THEN TransferFehler(k.owner, u, {u}, q)
    ELSE IF positionen[u].amount + q >= U64 \/ NeueSumme(u, q) >= U64 THEN "MathOverflow"
    ELSE OK

Stake(u, k, q) ==
    LET menge == positionen[u].amount + q
    IN  /\ StakeFehler(u, k, q) = OK
        /\ tokens' = Ueberwiesen(k.owner, CONFIG, q)
        /\ positionen' = [positionen EXCEPT ![u] =
                            [angelegt |-> TRUE, amount |-> menge, locked_until |-> SperreBis(u)]]
        /\ config' = [config EXCEPT !.total_staked = NeueSumme(u, q)]
        /\ Ausgefuehrt(u, [art |-> "Staked", tier |-> tier_for(config.tier_thresholds, menge)])
        /\ UNCHANGED <<initialisiert, impacts, listings>>

(* The vault belongs to the config PDA, and the program signs the transfer *)
(* with the seeds of the vault PDA.                                        *)
UNTERSCHRIFT == VAULT

(* Mutant: the lock is not looked at.                                      *)
UnstakeFehlerOhneFrist(u, k, q) ==
    IF ~initialisiert \/ ~positionen[u].angelegt THEN "AccountNotInitialized"
    ELSE IF KontoFehler(k, u) # OK THEN KontoFehler(k, u)
    ELSE IF config.paused THEN "Paused"
    ELSE IF q = 0 THEN "ZeroAmount"
    ELSE IF positionen[u].amount < q THEN "InsufficientStake"
    ELSE IF TransferFehler(CONFIG, CONFIG, {u, UNTERSCHRIFT}, q) # OK
         THEN TransferFehler(CONFIG, CONFIG, {u, UNTERSCHRIFT}, q)
    ELSE IF config.total_staked < q THEN "MathOverflow"
    ELSE OK

UnstakeFehler(u, k, q) ==
    IF ~initialisiert \/ ~positionen[u].angelegt THEN "AccountNotInitialized"
    ELSE IF KontoFehler(k, u) # OK THEN KontoFehler(k, u)
    ELSE IF config.paused THEN "Paused"
    ELSE IF q = 0 THEN "ZeroAmount"
    ELSE IF positionen[u].amount < q THEN "InsufficientStake"
    ELSE IF uhr < positionen[u].locked_until THEN "StillLocked"
    ELSE IF TransferFehler(CONFIG, CONFIG, {u, UNTERSCHRIFT}, q) # OK
         THEN TransferFehler(CONFIG, CONFIG, {u, UNTERSCHRIFT}, q)
    ELSE IF config.total_staked < q THEN "MathOverflow"
    ELSE OK

Unstake(u, k, q) ==
    LET f    == UnstakeFehler(u, k, q)
        rest == positionen[u].amount - q
    IN  IF f # OK THEN Gescheitert(f)
        ELSE /\ tokens' = Ueberwiesen(CONFIG, k.owner, q)
             /\ positionen' = [positionen EXCEPT ![u].amount = rest]
             /\ config' = [config EXCEPT !.total_staked = @ - q]
             /\ Ausgefuehrt(u, [art |-> "Unstaked",
                                tier |-> tier_for(config.tier_thresholds, rest)])
             /\ UNCHANGED <<initialisiert, impacts, listings>>
-----------------------------------------------------------------------------
(* Mutants: the count is not part of the seeds; the record is created only *)
(* if needed, too.                                                         *)
RegisterImpactFehlerOhneSeeds(wer, subject, n, co2e, uriKurz) ==
    IF ~initialisiert THEN "AccountNotInitialized"
    ELSE IF <<subject, n>> \in DOMAIN impacts THEN "AlreadyInUse"
    ELSE IF wer # config.oracle THEN "UnauthorizedOracle"
    ELSE IF config.paused THEN "Paused"
    ELSE IF ~uriKurz \/ co2e = 0 THEN "UriTooLong"
    ELSE OK
RegisterImpactFehlerOhneInit(wer, subject, n, co2e, uriKurz) ==
    IF ~initialisiert THEN "AccountNotInitialized"
    ELSE IF wer # config.oracle THEN "UnauthorizedOracle"
    ELSE IF config.paused THEN "Paused"
    ELSE IF ~uriKurz \/ co2e = 0 THEN "UriTooLong"
    ELSE OK

(* The client derives the record's address from the count it has read: n.  *)
RegisterImpactFehler(wer, subject, n, co2e, uriKurz) ==
    IF ~initialisiert THEN "AccountNotInitialized"
    ELSE IF n # config.impact_count THEN "ConstraintSeeds"
    ELSE IF <<subject, n>> \in DOMAIN impacts THEN "AlreadyInUse"
    ELSE IF wer # config.oracle THEN "UnauthorizedOracle"
    ELSE IF config.paused THEN "Paused"
    ELSE IF ~uriKurz THEN "UriTooLong"
    ELSE IF co2e = 0 THEN "ZeroAmount"
    ELSE IF config.impact_count + 1 >= U64 THEN "MathOverflow"
    ELSE OK

RegisterImpact(wer, subject, n, co2e, uriKurz) ==
    /\ RegisterImpactFehler(wer, subject, n, co2e, uriKurz) = OK
    /\ n < MAX_IMPACTS                    \* bound of the model
    /\ impacts' = Anlegen(impacts, <<subject, n>>,
                          [oracle |-> wer, co2e_grams |-> co2e, timestamp |-> uhr,
                           subject |-> subject, index |-> config.impact_count])
    /\ config' = [config EXCEPT !.impact_count = @ + 1]
    /\ Ausgefuehrt(wer, [art |-> "ImpactRegistered"])
    /\ UNCHANGED <<initialisiert, positionen, listings, tokens>>
-----------------------------------------------------------------------------
(* Mutant: has_one is missing.                                             *)
GovernFehlerOhneSchluessel(wer) ==
    IF ~initialisiert THEN "AccountNotInitialized" ELSE OK

(* The context Govern: only the governance key of the config.              *)
GovernFehler(wer) ==
    IF ~initialisiert THEN "AccountNotInitialized"
    ELSE IF wer # config.governance THEN "UnauthorizedGovernance"
    ELSE OK

SetOracle(wer, new_oracle) ==
    /\ GovernFehler(wer) = OK
    /\ config' = [config EXCEPT !.oracle = new_oracle]
    /\ Ausgefuehrt(wer, [art |-> "OracleRotated"])
    /\ UNCHANGED <<initialisiert, positionen, impacts, listings, tokens>>

SetThresholdsFehler(wer, th) ==
    IF GovernFehler(wer) # OK THEN GovernFehler(wer)
    ELSE IF ~Steigend(th) THEN "ThresholdsNotIncreasing"
    ELSE OK

SetThresholds(wer, th) ==
    /\ SetThresholdsFehler(wer, th) = OK
    /\ config' = [config EXCEPT !.tier_thresholds = th]
    /\ Ausgefuehrt(wer, KEINS)
    /\ UNCHANGED <<initialisiert, positionen, impacts, listings, tokens>>

SetPaused(wer, paused) ==
    /\ GovernFehler(wer) = OK
    /\ config' = [config EXCEPT !.paused = paused]
    /\ Ausgefuehrt(wer, [art |-> "PauseToggled"])
    /\ UNCHANGED <<initialisiert, positionen, impacts, listings, tokens>>

SetGovernanceFehler(wer, new_governance) ==
    IF GovernFehler(wer) # OK THEN GovernFehler(wer)
    ELSE IF new_governance = DEFAULT THEN "InvalidAuthority"
    ELSE OK

SetGovernance(wer, new_governance) ==
    /\ SetGovernanceFehler(wer, new_governance) = OK
    /\ config' = [config EXCEPT !.governance = new_governance]
    /\ Ausgefuehrt(wer, [art |-> "GovernanceTransferred"])
    /\ UNCHANGED <<initialisiert, positionen, impacts, listings, tokens>>
-----------------------------------------------------------------------------
(* Mutant: anyone may offer any credit.                                    *)
ListCreditFehlerOhneSubjekt(wer, i, price) ==
    IF ~initialisiert \/ i \notin DOMAIN impacts THEN "AccountNotInitialized"
    ELSE IF i \in DOMAIN listings THEN "AlreadyInUse"
    ELSE IF config.paused THEN "Paused"
    ELSE IF price = 0 THEN "ZeroAmount"
    ELSE OK

(* Only the subject of a record may offer the credit, once at a time.      *)
ListCreditFehler(wer, i, price) ==
    IF ~initialisiert \/ i \notin DOMAIN impacts THEN "AccountNotInitialized"
    ELSE IF i \in DOMAIN listings THEN "AlreadyInUse"
    ELSE IF config.paused THEN "Paused"
    ELSE IF price = 0 THEN "ZeroAmount"
    ELSE IF impacts[i].subject # wer THEN "NotCreditOwner"
    ELSE OK

ListCredit(wer, i, price) ==
    /\ ListCreditFehler(wer, i, price) = OK
    /\ listings' = Anlegen(listings, i,
                           [seller |-> wer, impact_index |-> impacts[i].index,
                            price |-> price, buyer |-> DEFAULT, sold |-> FALSE])
    /\ Ausgefuehrt(wer, [art |-> "CreditListed"])
    /\ UNCHANGED <<initialisiert, config, positionen, impacts, tokens>>

(* The buyer pays the seller directly: kb and ks are the token accounts.   *)
BuyCreditFehler(wer, i, kb, ks) ==
    IF ~initialisiert \/ i \notin DOMAIN listings THEN "AccountNotInitialized"
    ELSE IF KontoFehler(kb, wer) # OK THEN KontoFehler(kb, wer)
    ELSE IF KontoFehler(ks, listings[i].seller) # OK
         THEN KontoFehler(ks, listings[i].seller)
    ELSE IF config.paused THEN "Paused"
    ELSE IF listings[i].sold THEN "AlreadySold"
    ELSE IF wer = listings[i].seller THEN "SelfPurchase"
    ELSE TransferFehler(kb.owner, wer, {wer}, listings[i].price)

BuyCredit(wer, i, kb, ks) ==
    /\ BuyCreditFehler(wer, i, kb, ks) = OK
    /\ tokens' = Ueberwiesen(kb.owner, ks.owner, listings[i].price)
    /\ listings' = [listings EXCEPT ![i].buyer = wer, ![i].sold = TRUE]
    /\ Ausgefuehrt(wer, [art |-> "CreditSold"])
    /\ UNCHANGED <<initialisiert, config, positionen, impacts>>

(* Mutant: a sold listing can be cancelled.                                *)
CancelListingFehlerVerkauft(wer, i) ==
    IF i \notin DOMAIN listings THEN "AccountNotInitialized"
    ELSE IF wer # listings[i].seller THEN "NotCreditOwner"
    ELSE OK

(* The seller takes an offer back; the account is closed.  This works      *)
(* while the program is paused, too.                                       *)
CancelListingFehler(wer, i) ==
    IF i \notin DOMAIN listings THEN "AccountNotInitialized"
    ELSE IF wer # listings[i].seller THEN "NotCreditOwner"
    ELSE IF listings[i].sold THEN "AlreadySold"
    ELSE OK

CancelListing(wer, i) ==
    /\ CancelListingFehler(wer, i) = OK
    /\ listings' = Schliessen(listings, i)
    /\ Ausgefuehrt(wer, [art |-> "ListingCancelled"])
    /\ UNCHANGED <<initialisiert, config, positionen, impacts, tokens>>
-----------------------------------------------------------------------------
(* Outside the program: time passes, and holders move TRRA as they please, *)
(* into the vault, too.                                                    *)
Ticken ==
    /\ uhr < MAX_ZEIT                     \* bound of the model
    /\ uhr' = uhr + 1
    /\ UNCHANGED <<konten, ergebnis, signer, ereignis>>

Ueberweisen(von, nach, q) ==
    /\ TransferFehler(von, von, {von}, q) = OK
    /\ tokens' = Ueberwiesen(von, nach, q)
    /\ Ausgefuehrt(von, KEINS)
    /\ UNCHANGED <<initialisiert, config, positionen, impacts, listings>>

Staking ==
    \E u \in NUTZER, k \in KONTO, q \in BETRAEGE :
        \/ Stake(u, k, q)
        \/ Gescheitert(StakeFehler(u, k, q))
        \/ Unstake(u, k, q)

Anrechnung ==
    \E u \in NUTZER, subject \in NUTZER, n \in 0 .. MAX_IMPACTS, co2e \in {0, 1},
       uriKurz \in BOOLEAN :
        \/ RegisterImpact(u, subject, n, co2e, uriKurz)
        \/ Gescheitert(RegisterImpactFehler(u, subject, n, co2e, uriKurz))

Governance ==
    \E u \in NUTZER :
        \/ \E x, y \in KEY, th \in SCHWELLEN : Initialize(u, x, y, th)
        \/ \E x \in KEY :
              \/ SetOracle(u, x)
              \/ SetGovernance(u, x)
              \/ Gescheitert(SetGovernanceFehler(u, x))
        \/ \E th \in SCHWELLEN :
              \/ Gescheitert(InitializeFehler(th))
              \/ SetThresholds(u, th)
              \/ Gescheitert(SetThresholdsFehler(u, th))
        \/ \E b \in BOOLEAN : SetPaused(u, b)

Markt ==
    \E u \in NUTZER :
        \/ \E i \in IMPACT :
              \/ \E price \in PREISE :
                    ListCredit(u, i, price) \/ Gescheitert(ListCreditFehler(u, i, price))
              \/ CancelListing(u, i)
              \/ Gescheitert(CancelListingFehler(u, i))
        \/ \E i \in DOMAIN listings, kb, ks \in KONTO :
              BuyCredit(u, i, kb, ks) \/ Gescheitert(BuyCreditFehler(u, i, kb, ks))

Umwelt ==
    \/ Ticken
    \/ \E u \in NUTZER, v \in NUTZER \cup {CONFIG}, q \in BETRAEGE : Ueberweisen(u, v, q)

Next == Staking \/ Anrechnung \/ Governance \/ Markt \/ Umwelt

Spec == Init /\ [][Next]_vars
-----------------------------------------------------------------------------
Config   == [governance : KEY, oracle : KEY, tier_thresholds : [1 .. 4 -> MENGE],
             total_staked : MENGE, impact_count : 0 .. MAX_IMPACTS, paused : BOOLEAN]
Position == [angelegt : BOOLEAN, amount : MENGE, locked_until : 0 .. MAX_ZEIT + SPERRE]
Impact   == [oracle : KEY, co2e_grams : Nat, timestamp : 0 .. MAX_ZEIT,
             subject : NUTZER, index : 0 .. MAX_IMPACTS - 1]
Listing  == [seller : NUTZER, impact_index : 0 .. MAX_IMPACTS - 1, price : MENGE,
             buyer : KEY, sold : BOOLEAN]
TypeOK ==
    /\ initialisiert \in BOOLEAN
    /\ config \in Config
    /\ positionen \in [NUTZER -> Position]
    /\ DOMAIN impacts \subseteq IMPACT /\ \A i \in DOMAIN impacts : impacts[i] \in Impact
    /\ DOMAIN listings \subseteq IMPACT /\ \A i \in DOMAIN listings : listings[i] \in Listing
    /\ tokens \in [NUTZER \cup {CONFIG} -> MENGE]
    /\ uhr \in 0 .. MAX_ZEIT
    /\ signer \in KEY

(* The vault always holds at least what stakers have put in, although      *)
(* anyone may move TRRA into it and the two numbers are kept by different  *)
(* programs.                                                               *)
TresorGedeckt == config.total_staked <= tokens[CONFIG]

(* The records of the oracle form one unbroken sequence: each index below  *)
(* impact_count was given once, to one subject, and clients whose address  *)
(* was derived from an outdated count created nothing.                     *)
ImpactKette ==
    /\ \A i \in DOMAIN impacts :
          /\ i[2] < config.impact_count
          /\ impacts[i].subject = i[1] /\ impacts[i].index = i[2]
    /\ \A i, j \in DOMAIN impacts : i[2] = j[2] => i = j
    /\ \A n \in 0 .. config.impact_count - 1 : \E i \in DOMAIN impacts : i[2] = n

(* What is on the market is a credit the oracle has attested, offered by   *)
(* its subject, and what is sold has a buyer other than the seller -       *)
(* through any number of cancellations and new offers of one credit.       *)
AngebotEcht ==
    \A i \in DOMAIN listings :
        /\ i \in DOMAIN impacts
        /\ listings[i].seller = impacts[i].subject
        /\ listings[i].impact_index = impacts[i].index
        /\ listings[i].price > 0
        /\ listings[i].sold <=> listings[i].buyer # DEFAULT
        /\ listings[i].buyer # listings[i].seller

(* README.md: checked arithmetic aborts on overflow.  It never has to: all *)
(* amounts are parts of a supply that fits into a u64.                     *)
KeinUeberlauf == ergebnis # "MathOverflow"

(* Attestations are append-only: no instruction changes or removes one.    *)
ImpactUnveraenderlich ==
    [][\A i \in DOMAIN impacts : i \in DOMAIN impacts' /\ impacts'[i] = impacts[i]]_vars

(* A credit is sold once: a sold listing is never cancelled, offered again *)
(* or given to another buyer.                                              *)
VerkauftBleibt ==
    [][\A i \in DOMAIN listings : listings[i].sold =>
          i \in DOMAIN listings' /\ listings'[i] = listings[i]]_vars

(* SECURITY.md, invariants 2, 3 and 6: only the oracle writes impact       *)
(* records, only governance changes the configuration once it exists, and  *)
(* nobody's stake, offer or tokens move without his signature; the vault   *)
(* pays out only what stakes shrink by.                                    *)
NurBefugte ==
    [][/\ impacts' # impacts => signer' = config.oracle /\ ~config.paused
       /\ initialisiert =>
             \A f \in {"governance", "oracle", "tier_thresholds", "paused"} :
                config'[f] # config[f] => signer' = config.governance
       /\ \A u \in NUTZER :
             positionen'[u] # positionen[u] \/ tokens'[u] < tokens[u] => signer' = u
       /\ \A i \in DOMAIN listings : i \notin DOMAIN listings' => signer' = listings[i].seller
       /\ tokens'[CONFIG] < tokens[CONFIG] =>
             tokens[CONFIG] - tokens'[CONFIG] = config.total_staked - config'.total_staked]_vars

(* The tier an event reports is the number of thresholds the stake has     *)
(* reached, although the code takes the last one in the array it is not    *)
(* below.                                                                  *)
StufeZaehlt ==
    [][ereignis'.art \in {"Staked", "Unstaked"} /\ ereignis' # ereignis =>
          ereignis'.tier = Cardinality({i \in 1 .. 4 :
                positionen'[signer'].amount >= config'.tier_thresholds[i]})]_vars

(* SECURITY.md: "Principal in == principal out."  A withdrawal that        *)
(* passes every check of unstake() then reaches the staker.                *)
AuszahlungGelingt == ergebnis # "PrivilegeEscalation"
=============================================================================
