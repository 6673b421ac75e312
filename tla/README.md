# A verification project for TerraSol

This directory holds TLA+ modules that model the TerraSol repository, TLC
configurations that check them on small instances, and proofs that TLAPS checks
for every value of the constants. Paths below are relative to the repository;
`buch.rs:289` is a line of a file. Definitions keep the names of the source,
which are largely German.

Conventions. A constant called a *bound* limits the model and not the program;
guards that use one are marked `bound of the model`. An operator that a comment
calls a *mutant* is a wrong variant of the operator it stands above; no action
uses it, and `PROJECT.json` names the property that notices when it takes the
place of the right one.

## 1. Inventory

### 1.1 Order book (`engine/src/buch.rs`) - modelled

State: per side an array of price levels (head, tail, sum), a bit field of
occupied ticks, a cached best tick; a vector of nodes linked into doubly linked
queues, a stack of free slots, an index from order number to slot; counters.
Operations: `limit` (Gtc, Ioc, NurLegen), `markt`, `stornieren`; queries.
One thread runs the book; the callers are HIP-2, the pipeline and the demos.

Hard: several redundant structures (list, index, bits, best, sum, count) must
agree after every partial fill, sweep and cancellation; slots are reused; a
sweep empties levels while it runs; sums are `u64` without overflow checks.
Correct when: price-time priority, never crossed, best price right, no order
lost or revived, quantities balance.

### 1.2 HIP-2 market maker (`engine/src/hip.rs:138-302`) - modelled

State: the price levels, per level the order number it believes to rest and its
side, two inventories, the time of the last refresh. Operations: `stellen`
places all levels with `limit(.., NurLegen)`, `ausfuehrung_verbuchen` books an
execution, `aktualisieren` redistributes the levels every three seconds. The
caller is `hip2_vorfuehrung` in `main.rs`: it places the ladder, books every
execution of a call right after the call, and refreshes.

Hard: which levels really rest in the book (the book may refuse, execute in
part or execute whole), an inventory that is kept beside the book, a refresh
that walks over levels while orders of the old distribution still rest,
truncation of prices. Correct when: every order of the ladder belongs to one
level, the inventory is what was executed, nothing is offered that is not held,
the ladder never takes, and what was executed comes back.

HIP-1 (`hip.rs:24-135`): the rules for a token and its auction are pure
functions, the auction over floating-point numbers; not modelled.

### 1.3 TCP pipeline (`engine/src/netz.rs`) - modelled, in parts

Per connection a client thread that writes signed messages and a checker thread
that reads bytes in arbitrary pieces, cuts them into messages, verifies them
and sends batches over a channel; one matcher thread; the main thread starts
and joins all. `kette` sends single messages, `kette_buendel` bundles; both have
the same loops. The measurements of single stages (`stufen`, `budget`,
`buendel_messen`) have no interaction and are not modelled.

Hard: partial reads and the rest that is moved to the front of a buffer, a
`read()` into an empty slice, batches of several senders, connections that
break, threads that end only when others have dropped their senders. Correct
when: every message is matched once, in the order of its connection, and all
threads end.

### 1.4 On-chain program (`program/programs/terrasol/src/lib.rs`) - modelled

State: the config account (keys, thresholds, total, count, pause), a stake
position per user, impact records, listings, and token balances kept by the
token program. Operations: initialize, stake, unstake, register_impact,
set_oracle, set_thresholds, set_paused, set_governance, list_credit,
buy_credit, cancel_listing. Callers: anybody, in any order.

Hard: account constraints and body checks in a fixed order, keys rotating
between instructions, addresses derived from counts read earlier, accounts
closed and created again, totals kept beside balances others may change.
Correct when: the vault covers the stakes, locks hold, attestations are
append-only and in sequence, a credit is sold once, only the entitled act.

### 1.5 Proof service (`oracle/*.ts`) - modelled, in parts

`verify.ts` checks a claim against a registry (`registry.ts`) and the ledger of
used serials (`ledger.ts`). A proof that passes goes one of two ways:

- *ledger*: the service of `oracle/README_verify.md:68-75` registers the impact
  on the chain and then calls `ledger.commit`. Its caller, `server.ts`, is not
  in the repository; the order of calls is the one of that README.
- *register*: the scripts `demo-daten.ts` and `test-pruefseite.ts` call
  `anchorProof` (`chain-memo.ts`), which writes the hash into a memo, and then
  `proofStore.add` (`proof-store.ts`). They pass a ledger file of their own that
  nobody writes.

`verify-server.ts`, another process, answers the check page
`public/pruefen.html` from the register and the chain.

Hard: requests interleave at every `await`; confirmations time out while
transactions land; both files are truncated before they are written, and the
write may throw after that while the process lives on; `load()` answers "no
rows" to every error of a read; two processes share the register; a process may
die between any two steps; `Number()` may make NaN of the registry's amount.
Correct when: a proof on the chain is backed by a retired credit, of the amount
claimed where the registry's amount can be read; every row of the ledger is
covered by the chain and has its serial for itself; what was entered stays
until a file or a process fails; a green page is backed by the chain. That one
serial backs one proof, that no proof is larger than its credit, and that the
page denies no entry, is promised and not kept (section 3).

### 1.6 Token issuance (`token/`) - not modelled

Four transactions in a row (mint, metadata, supply, giving up the rights), each
awaited with a time-out, in a script that is run once by hand. A stop between
two of them, a time-out of a transaction that lands and a second run are listed
under the hazards. `metaplex.py` and `metadaten_bauen.py` lay out bytes and
images.

### 1.7 Not modelled

HIP-1 (see 1.2), token issuance (1.6), `engine/src/main.rs` (demos and
measurements; the order of calls of its HIP-2 demo is used), the client scripts
and shell scripts under `program/` (sequential callers of 1.4), the tests and
CI.

## 2. Modules

| Module | Extends / instantiates | Content |
|---|---|---|
| `Orderbuch` | | the book with its data structure; one turn of the matching loop is one step |
| `Preisregeln` | | the rules of price-time priority as operators on a set of orders |
| `PreisZeit` | `Preisregeln` | what the book promises: atomic calls on a set of orders |
| `MCOrderbuch` | `Orderbuch`, `PreisZeit` by INSTANCE | history variables and the refinement |
| `MCBilanz` | `Orderbuch` | a history variable for the balance of quantities |
| `OrderbuchBeweis` | `Orderbuch`, TLAPS | theorems about the book |
| `VertragBeweis` | `MCOrderbuch`, `MCBilanz`, `OrderbuchBeweis`, `Summen` | theorems about the contract of the book, the refinement among them, and about its sums |
| `Summen` | TLAPS | lemmas about sums over finite sets |
| `Hip2` | `Preisregeln` | the market maker over a book that keeps its contract |
| `MCHip2` | `Hip2` | history variables, a view without order numbers |
| `Hip2Beweis` | `MCHip2`, `Summen` | theorems about the market maker |
| `Zustellung` | | what the pipeline promises |
| `Kette` | `Zustellung` by INSTANCE | the pipeline, thread by thread |
| `KetteBeweis` | `Kette`, TLAPS | theorems about the pipeline, the refinement among them |
| `Terrasol` | | the on-chain program |
| `MCTerrasol` | `Terrasol` | inputs for TLC, a history variable, properties that add up amounts or look back |
| `TerrasolBeweis` | `Terrasol`, TLAPS | theorems about the program |
| `TerrasolBestand` | `TerrasolBeweis`, `MCTerrasol`, `Summen` | theorems about amounts - where every token is - and about the lock |
| `Nachweis` | | service, ledger, register, chain and check page |
| `MCNachweis` | `Nachweis` | inputs for TLC, history variables, properties that compare requests |
| `NachweisBeweis` | `MCNachweis`, TLAPS | theorems about the proof service |

The book is composed with its caller by contract: `vertrag` checks and
`VertragBeweis` proves that `Orderbuch` implements `PreisZeit`, and `Hip2` runs
on the operators `PreisZeit` is made of.

### 2.1 How `Orderbuch` corresponds to `buch.rs`

The pairs of fields for the two sides are functions over `{kauf, verkauf}`;
`KEIN` is `u32::MAX` in a link and `None` in an option. The words of the bit
field are abstracted to the set of ticks whose bit is set. `Limit` and `Markt`
are the checks and the new order number; `GeberBleibt` and `GeberVerbraucht` are
one turn of the inner loop of `ausfuehren`, the second with `kopf_entfernen` and,
if the level is empty, its clean-up; `Legen` and `OhneRest` end the call;
`Stornieren` is one step. `nehmer` holds the arguments and locals of the running
call. Sums and volume are taken modulo `U64`, as in a release build.

The code evaluates the clean-up of an empty level after the inner loop and not
in the turn that empties it; between the two it only tests `kopf == KEIN`, so
the model puts both in one step.

### 2.2 How `Terrasol` corresponds to `lib.rs`

An instruction is one step. For each instruction `X`, `XFehler` is the first
check that fails, in Anchor's order: accounts and constraints first, then the
body; a failing instruction changes nothing but the recorded outcome
(`Gescheitert`). The token program is external and modelled by the checks of a
transfer (`TransferFehler`) and its effect. `signer` and `ereignis` record who
signed the last instruction and what event it emitted, so that properties can
speak of them. Clients choose token accounts freely, also a wrong mint or a
wrong owner, and the count from which an impact record's address was derived.
`eingezahlt` of `MCTerrasol` is history: when each user last added to a stake.

### 2.3 How `Nachweis` corresponds to `oracle/`

`phase` is the position of a request between two awaits, `eingabe` what it asks
and the way it goes (`weg`). `Anfragen`, `Nachschlagen`, `Pruefen` are
`verifyEvidence`; `Verankern`, `Bestaetigen`, `Unbestaetigt` are `anchorProof`
or `registerImpact`, with the chain free to take (`Aufnehmen`) or drop
(`Verfallen`) the transaction at any time, also after the call has thrown or the
process has died. `CommitOderAdd` loads the file of its way, looks for the key
and truncates the file, or throws before it does; `Schreiben` fills it,
`SchreibenScheitert` is `writeFileSync` throwing after the truncation. Nothing
else of that process runs in between (`AnDerReihe`: Node runs to completion),
but `Absturz` may strike it and the other processes run (`Fragen` among them).
`load` answers the rows of the file, none if it is truncated, and none as well
if the read fails. `Gegenpruefen` and `KetteUnerreichbar` are the two ends of
`readProof`; `Anzeige` is what the page shows.

`Stoerung` counts, per file, the failures of its reads and writes and of the
process that writes it; MAX_STOERUNGEN bounds their number in a run and is any
natural number in the proofs.

Data. A hash is the evidence it was made from; a signature is the request that
sent the transaction. Amounts are whole multiples of a unit, and TOLERANZ is the
`1e-9` of `verify.ts:95` in it; the rounding of floating-point numbers is left
out. LESBAR are the serials whose amount `Number()` can read, KEINE_ZAHL is NaN,
of which no comparison is true. `stillgelegt` are the serials whose row
`normalise` reads as retired; a retirement is never taken back. The mock and the
live registry are one lookup.

Assumed: one process runs the service, the scripts run one at a time, and a
failure is one of a process or a call, not of the machine: what was written is
not lost afterwards. A `commit` whose read fails saves its own row only, and the
model has the step: the properties below say what survives it.

### 2.4 How `Hip2` corresponds to `hip.rs`

`liegend`, `ist_kauf`, `basis_bestand`, `quote_bestand` and `preise` are the
fields; `Option<u64>` is a number or `KEIN`. `Stellen` and `StufeAktualisieren`
are one turn of the loops of `stellen` and `aktualisieren`, with
`stufe_ziehen` and `stufe_stellen` inside (`OhneStufe`, `StufeLegen`);
`Aktualisieren` is the check of the time and the dividing line. `Handeln` is
another trader's call together with `ausfuehrung_verbuchen` for all its
executions: the search for the level is `Getroffen`; a call executes orders of
one side only, so the loop over its executions adds one sum and subtracts,
saturating, the other.
`eigene` is history: the numbers the ladder was given. `seit` is the time since
the last refresh, capped where it makes no more difference.

Assumed: other traders cancel only orders of their own, and the caller books
every execution before it does anything else, as `main.rs` does.

### 2.5 How `Kette` corresponds to `netz.rs`

Each thread has its own program counter. `KlientStarten`, `Annehmen`,
`Loslassen` and `Warten` are the main thread: spawn the clients, accept as many
connections, drop the sender, join. `Schreiben` hands over any number of bytes
that fit into the network's window; `Schliessen` is the end of writing or its
failure. `Lesen` takes any number of bytes that are there and fit into the
slice, `LesenEndet` is an answer of 0 or an error, `Senden` is the rest of the
loop's body: cut, verify, send, and move the rest to the front (`Rest`).
`Abreissen` breaks a connection at any time. A byte is its position in the
stream, so a unit put together wrongly is seen to be wrong (`Gueltig`), with
signatures (the checker aborts) and without (the wrong unit goes on to the
matcher as `MUELL`); the run covers both. The book behind the matcher is left
out: it takes one message at a time.

Assumed: connecting to the listener on the same machine succeeds.

## 3. Runs

| Run | Question | Bounds |
|---|---|---|
| `vertrag` | does the book implement `PreisZeit`, and is a call turned away only when it must be; is it never crossed, and are its best prices right? | 2 ticks, 3 orders, quantities 0..2, u64 wraps at 4 |
| `schlange` | inductive invariant, sums, balance, priority, no revival | 1 tick, 5 orders, quantities 1 and 3, wrap at 4 |
| `leiter` | levels, orders and inventory of the market maker among other traders | 3 levels of 2 lots, 2 of them buys, 4 ticks, one stranger's order at rest, quantities 1 and 4 |
| `ausgefuehrt` | *violation*: an executed level is not placed again | as above |
| `kette` | is every message matched once and in order, and do all threads end? | 2 connections, one breakable, 3 units of 2 bytes each, buffers of 2 units, a window of 4 bytes |
| `einlagen` | stakes, total, vault, tiers, and is the lock exact to the second? | 2 users with 2 TRRA, lock of 2, clock to 2 |
| `markt` | attestations, offers, sales, authority | 2 users with 1 TRRA, 2 impact records |
| `auszahlung` | *violation*: a withdrawal fails | 2 users, lock of 1 |
| `nachweis` | what ledger, register, chain and page still guarantee | 2 requests, 3 serials: one with an amount of 3, one whose amount is no number, one unknown; claims of 4 and 5 with a tolerance of 1, 2 subjects, 1 failure, 1 tampered row |
| `doppelt` | *violation*: two proofs of one serial | as above; no failure, no tampering |
| `menge` | *violation*: a proof larger than its credit | as above; no failure, no tampering |
| `seite` | *violation*: the page denies an entry that exists | as above; no failure, no tampering |

Why the bounds are enough. In the book, two ticks give a level below and above
every price at the rim of the bit field, where the search for the next best
level is delicate; what lies between is covered by the proofs, for any number of
ticks. Five orders on one level give a head, a middle and a tail with two slots
to spare for reuse, and with quantities 1 and 3 and a wrap at 4 sums pass the
width more than once. Three levels of a ladder give one that changes sides
between two that do not; quantity 1 executes half a level, 4 two levels at once
or all that rests and leaves a stranger's order in the way. Units of two bytes
can be cut, and a buffer of two units can hold one unit and a half; three units
per connection make the rest move more than once, and a window smaller than the
stream makes writing and reading alternate. Two users suffice for every pair of
roles the program compares (signer and authority, seller and buyer, former and
new key), and a third key, the all-zero one, can be appointed. Two impact
records give a stale count and a second index. Two requests are what the ledger
check can be raced by, and what a later request can be compared with; they can
go the same way or each its own; a serial can be proved under two subjects. A
claim of 4 is the largest that passes against 3 with the tolerance, one of 5 the
smallest that does not - and it does where the amount is no number. One failure
is a read that answers nothing, a write that throws or a process that dies, at
every place; that more of them do no further harm is what the proofs add. With a
lock of 2 and a clock to 2, withdrawals are tried one second early, on the
second, and after the stake has grown again.

Views and symmetry. Users, requests and subjects are interchangeable. `MCSicht`
of `MCTerrasol` leaves out the record of the last instruction, which no guard
reads; `MCSicht` of `MCNachweis` leaves out what a request asked for that came
to an end without a transaction, how a request that did not get through ended, a
claim where the registry has no number to compare it with, and which document an
answer other than "registered" was about; nothing reads these any more. (`menge`
and `seite` look at the last two and use no view.) `MCSicht` of `MCHip2`
replaces order numbers by their order at one price, which is all that matching
reads of them, and drops the quote inventory, which decides nothing; without it
the numbers would grow for ever.

Fairness. Only `kette` assumes any: weak fairness of each thread. The threads
share no lock, each waits only in calls that return when what they wait for is
there (`read`, `write`, `recv`, `accept`, `join`), and the scheduler of the
operating system runs whoever can go on some time. Breaking connections is never
owed. The other runs are about safety; that a call of the book returns is a
matter of a sequential loop and not stated. Deadlock is checked in every run but
`kette`, where the pipeline ends; `KetteEndet` says that it stops nowhere but
there.

### What the violations show

- `ausgefuehrt`: the comment at `hip.rs:292` promises that levels which were
  executed are placed again, but an execution leaves `liegend` as it is, so the
  refresh takes the level for resting unless its side changes. It does come
  back with its next change of sides, or after the book refused it:
  `ZweiterTaktHeilt` is about the levels that are known to be missing.
- `auszahlung`: `unstake` signs with the seeds of the vault PDA
  (`lib.rs:85`), but the vault's authority is the config PDA (`lib.rs:291`).
  Every withdrawal that passes the checks fails in the token program; the tests
  only reach `StillLocked`. The success branch of `Unstake` is therefore never
  taken in the model; the properties and proofs hold with it, too.
- `doppelt`: the ledger is read before the anchoring is awaited and written
  afterwards, and nothing is reserved in between. A confirmation that times out
  while the transaction lands, and a lost row, lead to the same end.
- `menge`: `Number()` makes NaN of an amount such as `1,000` (`registry.ts:86`),
  and `quantity + 1e-9 < claim` is false of NaN (`verify.ts:95`), so any claim
  passes; `README_verify.md` promises that no proof is larger than its credit.
  `VerankertIstBelegt` keeps what is left of it: for amounts that can be read.
- `seite`: `pruefen.html` has no case for the answer `kette_offline` and tells
  the holder of a registered document that there is no entry.

Two more things the models show without a run of their own. README.md:85
promises that overflow aborts, but the release profile of `engine/Cargo.toml`
leaves overflow checks off, and `summe += menge` (`buch.rs:436`) wraps:
`SummenStimmen` and `Bilanz` are stated modulo the width. Subtractions wrap
back, and matching never reads the sum. And the ledger is append-only only while
nothing fails: a read that fails before a `commit`, a write that throws and a
crash in the middle of one all take rows away, and with them the protection of
their serials. `FertigIstEingetragen` and `NacheinanderNurEinmal` say how far it
goes: no failure harms what comes through after it, and without one between two
requests the second proof of a serial is refused.

## 4. Proofs

`OrderbuchBeweis`, for any number of ticks and orders, any quantities and width.
`IInv` is inductive; the properties a caller sees are not. `NichtGekreuzt`, for
example, needs the cached best to be the best occupied tick, which needs the
bits to agree with the heads of the lists, which needs every link to agree with
its neighbour, which needs index and free stack to tell live slots from dead
ones. The lemma for a step has one part per action; each action's part has one
step per conjunct it can disturb. From the invariant follow `TypeOK`,
`NichtGekreuzt`, `BesteStimmt` and the action properties `PreisZeitVorrang` and
`NieWiederbelebt`.

`Summen` holds what the other proofs need to know of sums over finite sets. The
sum of the community modules is a recursive function over sets; the induction
theorems of the library cannot be applied to it here, so that there is such a
function and what it computes is shown with smallest counterexamples: among the
parts of a finite set for which a claim fails there is one that has no smaller
such part (`KleinsteMenge`), and the claim is shown for it after all. From there
on sums are added up, split, bounded and renamed.

`VertragBeweis`, over the same constants. `BuchImplementiertPreisZeit` is the
refinement the run `vertrag` checks: one call of `PreisZeit` corresponds to many
turns of the matching loop, so every step of the loop but the last must be a
stutter, and the last one must produce all executions of the call at once. The
history variables of `MCOrderbuch` hold the book the call met and its arguments.
The invariant `VInv` says how far the call has come: there is a set of orders,
each with price-time priority over the rest in reach, that were executed in
full, and at most one more that was executed in part and ended the taker;
the book is what the call met less these, and the executions are theirs. A turn
of the loop takes the next order by priority - that is `PreisZeitVorrang` and
the agreement of lists, bits and best of `IInv` - and when the call ends the
sets are those `PreisZeit` chooses (`Ende`). `NurZurechtAbgelehnt` is part of
`VInv`. `SummenStimmen` and `Bilanz` are inductive together with `IInv`: a step
changes what rests, what is executed and what has gone in and out by whole
numbers that balance (`Rechnung`), and only then is everything taken modulo the
width.

`TerrasolBeweis`, for any set of users, width, lock and inputs. `Faelle` splits
a step into the instructions once; the theorems use it. `TypInv` is the part of
the types the arguments need; `TresorGedeckt` is inductive with the rule that a
transfer only leaves the vault by what the total shrinks; the sequence of impact
records needs that every index lies below the count; `SperreSchritt` prepares
what `TerrasolBestand` proves of the lock: no lock date lies further ahead than
the lock time (`FristInv`), and a step that adds to a position locks it anew for
the whole time while every other leaves its date (`PositionHaelt`);
`StufeZaehltImmer` follows from the order of the thresholds in force, since only
then is the last threshold a stake is not below also the number of those it is
not below. The proofs never look at which PDA signs `unstake`, so they also
cover a program in which withdrawals succeed.

`TerrasolBestand` proves what is about amounts. Every token of the supply is a
coin. `BestandInv` says that there is a function from coins to places (loose on
an account, or in the vault for a staker) such that balances, stakes and the
total are numbers of coins at places. It is inductive: an instruction moves some
coins from one place to another (`Umlegen`), and disjoint sets of coins add up.
As no set of coins is larger than the supply, no amount leaves its u64
(`TypenImmer`), and no checked addition or subtraction of the program can fail
(`NieUeberlauf`): what a user can stake and what is staked are disjoint parts of
the supply. `EinlagenSummeImmer` needs no coins: a step changes one position and
the total by the same amount, and with the lemmas of `Summen` the sum of the
positions with them. That a second `initialize` would clear the total is why its
refusal is part of the argument. `FristImmerGenau` is about the history variable
of `MCTerrasol`: a position that exists is locked until its owner's last payment
plus the lock time (`EingezahltInv`), and then the two answers of `unstake`
compare the clock with the same second.

`NachweisBeweis`, for any requests, serials, subjects, amounts and number of
failures. `IInv` has a part per stage of a request: the registry's answer is
true and stays true (`SatzEcht`), a request past the checks keeps the answer it
passed with (`Bestanden`, so `VerankertIstBelegt` holds though that answer is
used several awaits later), what lands on the chain is the hash of its request
(`Verankert`), and a write in progress is that of a confirmed request and will
save its row (`Vorgang`). `LedgerInv` says of the ledger that it is covered by
the chain and has each serial once, as it is read and as the write in progress
will leave it: it holds through failing reads and writes because what `load`
answers is a subset of a covered set, and the row added is one whose serial is
not in it. `GruenIstVerankert` is inductive with these.

Two theorems are about the history variables of `MCNachweis`. `Eingetragen`: who
has come through since the last failure of their file or its process has a row
in it, or in what the write in progress will save - a read or write that takes
rows away is itself such a failure, and a `commit` that finds all rows saves all
of them.
`VorherInv`: what had come through when a request was made stays so until its
checks are over, or there has been a failure; so the ledger that `Pruefen` reads
has a row for each of them, and a request that passes has another serial.

`KetteBeweis`, for any number of connections and any sizes of unit, buffer and
window. The invariant `Stroeme` says for every connection where its stream is:
the matcher has processed units 0 .. a-1, the channel holds the next ones in
order, up to unit b, and the buffer holds the bytes from b * EINHEIT to what was
read. `Faeden` relates the program counters, the senders and the joins. The
batches of one connection are spread over the channel among others'; instead of
a recursive count along the channel, the invariant says that there is a
function that gives for every position how many units of each connection lie
before it. From the invariant follow `RahmenHalten` and, step by step, the
refinement `KetteStelltZu`: every step of the pipeline is a step of `Zustellung`
or changes nothing it sees; it is over only when all threads are joined, and
then an unbroken connection has nothing left in its buffer or the channel.

`Hip2Beweis`, for any ladder, book and other traders. `ZuordnungImmer` and
`NimmtNie` - while the ladder is placed or refreshed every resting order but the
one that is drawn stays, strangers' and its own - follow order numbers, prices
and sides; sums play no part in `IInv`. `HInv` adds the quantities: no order of
the ladder is larger than a level, the loops go through the levels from below
with a dividing line that leaves no more to be sold above it than the inventory
holds, and nothing more is offered than held (`VerkaufImmerGedeckt`). The last
part is not inductive alone: in the middle of a refresh orders of the old
distribution rest beside those of the new one. An execution takes from the
orders of the ladder what is booked (the sums before and after a call differ by
it), so neither the offer exceeds the inventory nor does the saturating
subtraction cut anything off, and `BestandStimmtImmer` follows.
`ZweiterTaktHeiltImmer` needs `HeilInv`: after an undisturbed refresh the
dividing line is where the inventory wants it and every level on its side of it,
so that in the next one, as prices rise with the levels, no order of the ladder
stands in the way of another.

Two hypotheses on the ladder. `PreisePassen` - every price fits into a tick - is
needed: `stufe_stellen` cuts a price to 32 bits without a check.
`ZweiterTaktHeiltImmer` also needs `PreiseImBuch`, that the book has a tick for
every price: an order at a price beyond its last one is turned away every time.
The ladder of `hip2_vorfuehrung` and that of the runs satisfy both.

Assumptions are the `ASSUME`s of the modules: widths, sizes and bounds are
natural numbers (those the code divides by are not zero), the all-zero key and
the config are not users, the supply and the number of impact records fit into a
`u64`, the marks of `Nachweis` for NaN, for an unreadable file and for no write
in progress are no amount, no set of rows and no write (`MarkenAnnahme`), there
is at least one connection.

Every safety and action property that a passing run checks is also proved. Only
model-checked is `KetteEndet`: liveness under fairness rests
on `ENABLED`, which the prover does not handle. The properties of the five
violation runs are false, and their counterexamples are TLC's.

## 5. Plan

Done: the book and its contract, the market maker on it, the pipeline, the
program and the proof service, each with its proofs.

What would come next: the bits of the field as words, and the scan over them,
against the set of ticks `Orderbuch` uses; the step from `PreisZeit` to the book
inside `Hip2` as a theorem instead of by shared operators; token issuance with a
stop between two transactions.
