# Verification of signature-escrow

TLA+ models of the signature-escrow wallet: a host server that pairs two users,
carries their messages and exchanges their signatures, and a local client that
runs two-party key generation and co-signing. TLC checks every model on small
instances; TLAPS proves, for every instance, the safety properties the passing
runs check, three of those of the escrow under an assumption stated below. Each
definition is translated from the Go source; `PROJECT.json` gives its lines.

## Inventory

| Component | State | Operations | What is hard about it | What must hold | Module |
|---|---|---|---|---|---|
| Escrow (`server/escrow.go`) | pollination per escrow id (storage), `escrowMu` | `escrow`, `escrowCheck` | read-modify-write of one blob by concurrent deposits, a release to one side before the other, re-posts, restarts between write and answer | deposits are kept, releases are backed and usable, both sides are served or neither | `Escrow`, `FairExchange` |
| Validation (`validation`) | none | `Validate` | three outcomes: verifies, does not, error | used by the others | `Validation` |
| Sessions (`server/session.go`) | in-memory registry | `claim`, `cancel`, `prune` | claim races cancel; entries expire after 15 minutes and are lost on restart | one of the two wins, refusals have a cause | `Session` |
| Login (`auth`, `server/auth.go`) | nonce per address (memory), tokens | `authNonce`, `authLogin`, `Middleware`, `Cleanup` | a nonce used twice, replaced or expired; restart | one login per nonce, fresh and by its signer | `Login` |
| Timebox (`server/timebox.go`) | entry per key (storage) | `timeboxPost`, `timeboxGet` | a re-post restarts the delay; the pair may be deleted meanwhile | never early or to strangers; given to a member who asks once it is due | `Timebox` |
| Pairing (`server/pairing.go`) | pair per id, index per address (storage) | `pairCreate`, `pairAccept`, `pairPending`, `pairDelete` | several unlocked storage steps per request | no pair without consent; pairs and indexes agree while requests do not overlap | `Pairing`, `Index` |
| Mailbox (`server/mailbox.go`) | message per id, inbox index per address | `mailboxSend`, `mailboxPending`, `mailboxAck` | unlocked read-modify-write of the inbox index | confirmed messages are kept until acknowledged, and shown while requests do not overlap | `Mailbox`, `Index` |
| Co-signing (`client/withdrawal.go`, `client/cosign_history.go`) | presignature, history (storage), `cosignBusy`, `histMu` | `sendWithdrawalTx`, `acceptWithdrawalTx`, `completeCosign`, `clearCosignHistory`, `rotateECDSAPresign`, the record of `sendTransaction` | concurrent accepts, background rotation with a partner, a lossy relay | one ECDSA co-sign per swap while its record is there; presignatures used once, and the same on both sides, by clients that let rotations end | `Cosign` |
| Key generation, accounts (`client/keygen_*.go`, `client/accounts.go`) | share, presignature, metadata | generate, list, delete | saves and deletes one by one | a listed account can sign, a confirmed one is listed | `ClientStore` |
| Owner (`client/auth.go`) | bound owner, accounts | `authLogin`, `ownerGuard` | two first logins; the owner follows the accounts | the owner stays unless logins overlap, storage fails or a key is made for somebody else | `ClientStore` |
| Exchanges, aliases (`client/exchange.go`, `client/aliases.go`) | one list each | create, upsert, update, delete | unlocked read-modify-write | entries are kept while requests do not overlap | `ClientStore` |
| MPC protocols (`mpc`) | none | key generation, presigning, signing, encodings of signatures | a library; messages of another attempt; two encodings of one signature | runs finish; an encoded signature still verifies | `Relay`, `Cosign`, `Signatures` |
| Relay (`network`) | queue and subscription per party, gRPC stream, buffer of the client | `NewClient`, `Send`, `Next`, `Done`, `HandlerLoop` | either side comes first or leaves first, acknowledgement after delivery, a second subscription, loss, redelivery, restarts | nothing is lost or read out of order, both sides finish | `Relay` |
| Storage (`storage`) | files, directories, permits, a read-write lock | `Get`, `Put`, `Delete` | temporary file and rename, clean-up of directories, a `Get` that deletes, crashes and power loss between two system calls | an atomic map; locks are always given back | `FileStorage`, `AtomicMap` |
| Transactions, balances (`client/tx.go`, `send_tx.go`, `sig.go`, `balance.go`, `erc20.go`) | none here; the chains | `createTxHash`, `decodeTx`, `sendTransaction`, `checkBalance`, `waitForBalance` | nonce and price are read at different times; a transaction is rebuilt; 64-bit amounts; parity of a negated signature | what is paid is what was shown, nonces leave no gap, signatures are usable, no false "sufficient" | `Payments`, `Signatures` |
| Command line, configuration, routes, generated code | none | start | none | none | none |

The parts meet as follows. Users log in to the server, pair, and tell each other
by mailbox what they are about to do. A session decides whether a key generation
goes ahead; the two clients then run it over the relay. To swap, each client
co-signs the other's withdrawal over the relay, and the escrow on the server
exchanges the two signatures. The timebox gives a signature back after a delay.

## How the models correspond to the code

All modules keep the control of the handlers and reduce data to what the
properties tell apart: keys, hashes, signatures, users and ids are model values.
A handler is cut where it touches shared state: each `Get`, `Put` and `Delete`
of the storage is one step (which `FileStorage` justifies), and a section under a mutex is
either one step or holds a lock variable. Steps of different requests
interleave freely. A restart drops everything in memory and keeps the storage.
Decoding of requests and their well-formedness checks are left out, except where
a refusal matters. Variables marked *history* only record what happened and
decide nothing; only properties refer to them.

- **`Validation`** is `Validate` with its three outcomes. Which signatures
  verify for which key and hash is a constant.
- **`Escrow`**: `store` is the storage, `escrowMu` the mutex, `pc`, `req` and
  `loc` the handlers in flight; `deposits` and `released` record what was
  written and answered. A deposit is `Post`, `LockAndGet` (or `GetFails`),
  `Conflict` or `Put` (or `PutFails`), `Respond`. `escrowCheck` is one unlocked
  read. `Crash` loses everything but the storage. Flowers of old versions, which
  have no depositor, may be there at the start.
- **`FairExchange`** is the promise of the escrow: terms are settled in one step
  and never change, and only parties to the terms collect.
- **`Session`**: `m` is the registry. `claim` and `cancel` are one step each, as
  in the code, which holds one mutex throughout; both begin with `prune`.
- **`Login`**: `authNonce`, `VerifyNonce` (which deletes the nonce whatever the
  outcome), `Issue`, `Middleware` and `Cleanup`; `Sign` is the user's wallet, external.
- **`Timebox`**: a post is `parseTimeboxPost`, `Authorize`, `putTimebox`; a read
  is `getTimebox`, `timeboxGet`. Pairs are deleted and re-created meanwhile.
- **`Clock`** is the time that `Session`, `Login` and `Timebox` read; **`Host`**
  has the users and request handlers of `Escrow` and `Timebox`.
- **`Pairing`, `Mailbox`**: a request decides on what it has loaded and then
  works off a `plan` of storage operations. `Index` has what both share: the
  requests with their plans, and the read-modify-write of index lists. A failing
  operation or a restart drops what is left of a plan (`Abandon`).
- **`Cosign`**: a slot holds one request and the rotation it leaves behind.
  `sendECDSA` uses the presignature, sends, and starts the rotation. `accept` is
  the guard under `cosignMu`; `CoSign`, `RefuseMessage` or `GiveUp` follows.
  `loadCosignHistory` and `recordCosign` are the two halves of a write of the
  history under `histMu`, `Answer` the response. `CMPPreSign`, `savePresig` and
  `rotationFails` are the rotation; the last message of the protocol may reach
  one side only. FROST is one joint step, `FrostExchange`. Loading the
  presignature and using it is one step: loading changes nothing, and moving the
  use forward to the load only puts the message on the relay and the rotation in
  the background earlier, where both may wait. "Signing before a rotation ended"
  (`raced`) thus means loading before it ended. `sendTransaction` adds the record
  of a broadcast to the same history.
- **`ClientStore`**: `owner` is derived from the accounts and else from `bound`,
  as in the code. Requests pass `ownerGuard` and work off a `plan`. `disturbed`
  records which account, list or owner was touched by overlapping requests, a
  storage error, a key generation over a listed account, or one for somebody
  other than the caller.
- **`FileStorage`**: an operation is `Invoke`, `Acquire` (a permit), `Lock`
  (shared for `Get`), its calls of the file system one by one, and `Return`.
  A `Put` is `MkdirAll`, `CreateTemp`, `Encode`, `Rename`; a `Delete` is `Remove`
  and `cleanupLogicalPath` one directory at a time; a `Get` is `Stat`, then
  `Unlink` for a file of size zero or `Open`. Any call may fail (`Fail`), the
  process may end (`Restart`), perhaps to come back with another passphrase.
  `survives` is what a `PowerLoss` may leave: nothing is flushed, so it holds
  every state of a file since the system last wrote it back (`Sync`).
- **`AtomicMap`** is what all other modules take the storage to be.
- **`Relay`**: `stream` is the JetStream work queue of a party, `consumer` its
  subscription, `link` and `wire` the gRPC stream, `out` the client's buffer.
  `Subscribe`, `Deliver`, `Ack`, `Unsubscribe` are the relay's `Next`;
  `NewClient`, `Send`, `receiving`, `Done` the client. Three protocols run over it:
  rounds as in CMP and FROST key generation (`HandlerLoop`, `Finalize`), the one
  message of an ECDSA co-sign (`AcceptIncomplete`, `Timeout`), and the FROST pair
  (`FrostReceive`). `Script` lists what each party sends and receives, with the
  number of each message. The library's handling of messages (`Accepted`, `Fits`) is
  external: the first message for a round counts, and messages of different
  attempts do not fit together.
- **`Signatures`**: ECDSA over a small group in which the scalar k stands for the
  point k*G, and the two encodings: `GetSigByte` as the escrow keeps it,
  `SigEthereum` as a transaction takes it.
- **`Payments`**: a call is a sequence of requests to a node, between which
  blocks, prices and other calls move. `createEthereumTxHash` and
  `SuggestGasPrice` make a transaction, `SendTxData` or `SendFields` and
  `RebuildTx` prepare one for `SendTransaction`, `recordCosign` notes it. The
  chains (`Accepts`, `Mine`, `Evict`) are external.

## Runs

Counts are distinct states.

| Run | Instance | What it shows |
|---|---|---|
| `escrow` | six deposits of three users for one id, with or without a legacy flower, two handlers, fairness; 85,127 | `DepositsKept`, `ReleasesBacked`, `ReleasesUsable`, `OneSlotPerDepositor`, `BothOrNeither`, refinement of `FairExchange`, `EveryRequestAnswered`, `SwapCompletes`, under failures and restarts |
| `session` | one session, TTL 2, clock to 5, one restart; 193,700 | `OneWinner`, `RefusalsJustified` |
| `login` | two addresses, two requests, three nonces; 276,776 | `LoginOnce`, `LoginFresh`, `AccessBacked` |
| `timebox` | one key, two users, two requests, clock to 2; 268,809 | `ReleasesLate`, `PromisesKept` |
| `pairing` | two users, one pair, two requests; 33,947 | `Consent` always; `PairsAsConfirmed`, `AcceptedStays` until requests overlap |
| `mailbox` | three users, one pair, two messages, two requests; 300,392 | `MessagesKept`, `AckedStaysGone` always; `ShownUntilAcked` until requests overlap |
| `cosign` | two clients, two transactions of one swap, two slots, four requests, one fault; 889,595 | `OneCosignECDSA`, `RecordsKept`, `SingleUse`, `PresigsAgree` |
| `cosign_frost` | two FROST accepts of one swap | `OneCosign` is violated |
| `clientstore` | two users, an ECDSA and a FROST account, two entries per list, two slots, four requests, one fault; 178,588 | `AccountsWhole` (a listed account can sign, a confirmed one is listed), `ListsKept`, `OwnerKept` |
| `storage` | two keys in nested directories, two clients, with and without a passphrase, one fault; 945,594 | refinement of `AtomicMap`, `DirectoriesStay`, `HeldByWorkers` always; `Tidy` until something fails |
| `relay` | three protocols, two attempts of each party, one fault, fairness; 836,674 | `NothingLost`, `ReadInOrder`, `BothFinish` |
| `payments` | payments in ether, tokens and bitcoin, two of them, two calls at a time, one fault; 3,944,896 | `PaidAsShown`, `NoncesInOrder`, `SignaturesUsable`, `RecordsBacked`, `SufficientIsTrue` |

Type correctness is a conjunct of one property of each run that states it
(`ReleasesLate`, `MessagesKept`, `PairsAsConfirmed`, `RecordsKept`,
`AccountsWhole`, `NoncesInOrder`, `NothingLost`).

Every property of a passing run has a mutant: a definition changed the way a bug
would change it (an unlocked read, a dropped check, a swapped order of saves),
for which TLC finds the property violated.

**Bounds.** Races of this code are between two requests on one object, so two
handlers (or slots) per instance show them; a third only repeats one of the
roles. Ids and keys are independent of each other in the code, so one or two are
enough, two where an operation on one could damage another (lists, index
entries). Clocks run at least one step past the longest delay, so that entries
expire. `MaxRequests` is what the longest scenario needs: two sends and two
accepts, or login, key generation, deletion and another login. `MaxFaults` is one in the client runs: one storage
error, restart, lost or repeated message at any point. `HistoryMax` is 2 for
200, so that events are cut off. In `storage` one key lies in a directory of the
other's, so that a `Delete` of one can meet a `Put` of the other, and there is a
permit for each client. In `relay` two rounds let a message come a round
early, a buffer of 1 for 100 is full at once, and a second attempt meets what the
first left behind. In `payments` the group has order 11, all of whose keys,
presignatures and messages are tried, and `int64` holds four numbers (`Word`), so
that a balance of 2 overflows. Symmetry is used for slots, handlers, clients and calls, and for
the addresses of `login`; none of these runs checks liveness.

**Fairness** is used in two runs. In `escrow`, a goroutine that serves a request
goes on until it answers (weak fairness of its steps; an error return counts as
an answer). Locking is strongly fair: Go's mutex hands itself to a waiter that
has starved. Users poll `escrowCheck` until they are answered, as the protocol
asks. Nobody has to post, and failures and restarts need not stop. In `relay`,
the goroutines of a client and the relay's handler for it go on while they can
(weak fairness of `Progress` and `Serve`); nobody has to start an attempt, and
the 90 seconds of a co-sign may or may not run out.

**Deadlock** is checked in all runs but those of `Cosign`, `ClientStore` and
`Relay`, whose requests, attempts and faults are bounded in number, so that they
come to an end.

## Where code and documentation part

- `cosign_frost`: the guard "applies to ECDSA and FROST alike" by its comment,
  but a FROST accept is not recorded and a second one is let through.

Two more have no run of their own; a small change of a passing run shows them:

- A re-post with the same signature may change the hash of its flower
  (`server/escrow.go:75`). After one party was answered "complete", such a
  re-post makes the escrow invalid and it answers "pending" again, although
  "either **both** withdrawals settle or **neither** does". To see it, add a
  deposit with another hash to `MCRequests` of `MCEscrow`: `BothOrNeither` fails.
- Two sends to one user read the same inbox list, and the later write drops the
  earlier message, which was confirmed and is never listed
  (`server/mailbox.go:65`). To see it, drop `~ overlapped` in
  `ShownUntilAcked`.

Other limits show in the properties as exceptions, stated there and in the
hazards of `PROJECT.json`:

- a depositor can come to hold both slots when one has a legacy flower;
- `escrowCheck` answers "complete" without a signature for a key in neither slot;
- a session is forgotten after 15 minutes or a restart, and both sides then win;
- a second post to the timebox restarts the delay of the first;
- overlapping requests lose index entries, list entries and exchanges, and an
  accept that overlaps a deletion brings the pair back;
- a presignature stays in storage until its rotation ends, and a second send or
  accept before that uses it again; a rotation waits without a limit for a
  partner that never accepts; after a failed one neither side can sign again;
- a co-sign whose record was cleared, cut off or not written can be repeated;
- two first logins at once, an unreadable owner, or a key made for another user
  change the owner of a client;
- a key generation for an index in use overwrites the account part by part;
- nothing is flushed to the disk, so that a loss of power may undo a `Put` that
  was answered, or leave an entry that cannot be read;
- a message that was read but not acknowledged when its client left is delivered
  again to the next attempt, which may fail on it; the relay refuses a second
  subscription, which the client only logs, and then waits for nothing;
- transactions made at the same time compete for a nonce; one that is rebuilt
  from its fields (without `tx_data`) has another nonce and perhaps another
  price than the one signed, and is accepted only if they happen to agree;
- of a Bitcoin transaction with several inputs one is signed, so that it can
  never be broadcast; the record of a Bitcoin broadcast names only the account;
- a balance of 2^63 wei or more may read as insufficient; for Bitcoin
  `waitForBalance` looks every 10 minutes, later than its default timeout.

## Proofs

TLAPS checks the proof modules for all values of the constants, from the named
assumptions of the modules (`EscrowAssumption`, `PairingAssumption`,
`CosignAssumption` and so on). They say that bounds are numbers, that the inputs
have their types and that placeholders ("no message") are not values, and in
four places something about the system: an account has two clients
(`CosignAssumption`), the directories above a file form a path
(`FileStorageAssumption`), finitely many handlers run at a time and amounts
are positive numbers of a signed `int64` (`PaymentsAssumption`), and the order of
the group is an odd prime (`SignaturesAssumption`). TLC evaluates them in the runs. The bounds on
requests, transactions and faults are constants too, so that the theorems hold
for any number of them.

| Module | Proves | About |
|---|---|---|
| `ServerProofs` | `EscrowTypeCorrect`, `DepositsSafe`, `ReleasesSafe`, `ReleasesSound`, `SteadyBothOrNeither`, `SlotsApart`, `Refinement` | `Escrow`, `FairExchange` |
| `ServerProofs` | `SessionOneWinner`, `SessionRefusals`, `NonceUsedOnce`, `TokensEarned`, `AccessesBacked`, `NeverEarly`, `DueGiven` | `Session`, `Login`, `Timebox` |
| `IndexProofs` | `ConfirmedKept`, `ConfirmedShown`, `AckedGone`, `PairedByConsent`, `ConfirmedPairs`, `AcceptedPairsStay` | `Mailbox`, `Pairing` |
| `CosignProofs` | `PresigsUsedOnce`, `PresignaturesAgree`, `OneSignature`, `RecordsStay` | `Cosign` |
| `ClientStoreProofs` | `ListedAccountsWhole`, `ListEntriesKept`, `OwnerStays` | `ClientStore` |
| `FileStorageProofs` | `Refinement`, `DirectoriesKept`, `LocksReturned`, `NothingLeftBehind` | `FileStorage`, `AtomicMap` |
| `PaymentsProofs` | `PaymentsAsShown`, `NoncesOrdered`, `BroadcastsBacked`, `SufficientMeansEnough`, `EncodedSignaturesUsable` | `Payments`, `Signatures` |
| `RelayProofs` | `OrderOfReading` | `Relay` |
| `RelayLossProofs` | `MessagesNotLost` | `Relay` |

**Escrow.** None of the safety properties is inductive alone: a release is made
from the copy a handler holds, and a write puts back a pollination read earlier.
`EscrowInv` therefore adds what ties the two together: a handler past `LockAndGet`
holds the mutex and its copy is the stored pollination (`HandlersInv`); stored
pollinations are well formed, with the second slot filled only after the first
and different keys in them (`StoreInv`); every stored flower was deposited, or
found at the start (`FlowersInv`). The argument
is that a write only *extends* a pollination (`Extends`): keys, deposited
signatures and depositors stay. From that follow

- `EscrowTypeCorrect`, `DepositsSafe`, `ReleasesSafe`, `ReleasesSound`;
- `SteadyBothOrNeither` and `Refinement` (of `FairExchange`), assuming
  `SteadyRequests`: who posts again posts the same hash. The re-post described
  above shows that the assumption is needed;
- `SlotsApart`, assuming that there are no legacy flowers.

**Session.** `SessionInv` adds to the type invariant and the two properties that
a winner of the last 15 minutes since the start of the process still has its
entry in the registry, and every entry comes from a winner (`Live`): the
properties speak of answers, the code decides on entries.

**Login.** The properties speak of tokens, the code decides on the nonce store.
`LoginInv` follows a nonce from the one to the other: in the store it is the
newest of its address and unspent (`NonceStoreInv`); a request that has taken it has
it for itself, and it was in time and the newest when it was taken
(`RequestsInv`); a token inherits that (`TokensInv`).

**Timebox.** What is stored was verified (`BoxInv`), what a handler is about to
write or has read too, with the entries that were due when it read (`CallInv`);
a pair that is not there was deleted (`PairsInv`).

**Mailbox.** Ids are made once, so that an id stands for one message wherever it
turns up (`KnownInv`) and a message not yet put is known to its request alone
(`FreshInv`); what is left of a request's plan then says whether its message must
be stored or gone (`PlanInv`, `RecordInv`). `ConfirmedKept` and `AckedGone` hold
with overlapping requests, since messages have files of their own; what overlaps
may spoil is the index. Until then one request at a time has a plan (`Alone`),
so that the list it has read is still the stored one, and what it has added is
listed when it confirms (`ShownInv`): `ConfirmedShown`.

**Pairing.** A request that is about to store an accepted pair has the consent of
its partner, wherever it stands in its plan (`ConsentInv`); this needs nothing of
other requests, so `PairedByConsent` holds however they overlap. For the rest
`PointInv` says, for each point of each plan, what of the pair is stored and
listed when no other request is served; a plan that is abandoned there leaves
the index with pairs that exist (`IndexInv`). `ConfirmedPairs` and the action
property `AcceptedPairsStay` follow.

**Co-signing.** For presignatures: those in use have been made (`NextInv`), and a
stored one that was used is about to be replaced by one that was not
(`FreshInv`). While nobody signs before a rotation ended, there is one rotation
at a time, and what its two sides have saved or are about to save is one
presignature (`AgreeInv`); since there are two clients, the one that is ahead can
only be ahead of the other. For the record: accepts in progress have their swaps
in `cosignBusy`, no two the same (`BusyInv`); a request that writes the history
holds `histMu` and has read what is there (`LockInv`, `ReadInv`); an ECDSA accept
is recorded before it is answered (`AnswerInv`), and none is let in for a swap
whose signature is out (`FirstInv`). The steps are sorted by what they may do:
begin an accept, end it, move it on, or leave it alone.

**Client store.** The step a request is about to take decides what is left of its
plan (`SlotInv`). As long as an account, a list or the owner is not disturbed,
one request at a time is on it (`Alone`), and the step that request is at decides
which parts of the account are stored, and of which key (`AccountInv`), whether
the list it has loaded is still the stored one (`ListInv`), and who is bound
(`OwnerInv`). That metadata is saved last and deleted first is what makes a
listed account whole at every step in between. `OwnerStays` also uses that the
owner read from a listed account is the one bound by the login before it.

**Storage.** Who works on files holds the lock as the operation needs it
(`LockInv`), and each step determines the operation and whether it has its result
(`CallInv`); in particular a file about to be unlinked by a `Get`, which holds
the lock only shared, is still empty or already gone. `Refinement` shows that
each `Put`, `Get` and `Delete` takes effect in one step of `AtomicMap`, also
across failures, restarts and power losses; `DirectoriesKept` and `LocksReturned`
are the invariants that make it work. For `NothingLeftBehind`, `TidyInv` says
which directories beyond those needed (`Needed`) the operation that holds the
lock may have at each of its steps: a `Put` those it makes, a `Delete` those on
the path from where its clean-up is (`Spare`).

**Payments.** Signatures are of drafts only (`SigInv`), and Bitcoin drafts have no
chain id, so that a node accepts on Ethereum only what was drafted there
(`ChainInv`), whatever `sendTransaction` has rebuilt; a draft pays what its
request asks for (`DraftPays`). The nonce of a draft was the first free one when
it was asked for: all smaller ones belong to drafts (`Filled`) and, until
something fails, to transactions that are mined or waiting (`Placed`), which
stays true when another payment takes the place of one with its nonce. Counting
drafts against nonces (a pigeonhole argument) bounds the nonces and shows that
there is a free one. What is left of a balance after `Int64` is never more than
the balance (`CutBalance`).

**Signatures.** `EncodedSignaturesUsable` is arithmetic modulo the order, for every
odd prime. Two scalars whose product is zero are impossible: the least one that
takes k to zero would divide the order (`NoZeroDivisors`, with a least element
instead of an induction). So multiplication by k is injective on the scalars, and
as they are finitely many, onto: there is an inverse (`InverseExists`). That
`SigEthereum` negates S and flips the parity of R together keeps their product
(`NegatedProduct`), from which the key is recovered (`EncodingsCorrect`).

**Relay.** `OrderOfReading` rests on where the messages for a party are. Each was
sent by the other and, if it is past the queue, handed over (`QueueInv`); at most
the latest attempt has a stream that is read, and the relay's subscription belongs
to an attempt that has not been closed (`LinkInv`); the numbers of what was sent
follow the script (`SentInv`). While nothing fails, buffer, stream and queue are
each in order, nothing in the first is newer than in the second and so on, and
nothing taken is newer than what is left (`OrderInv`); what was not handed over is queued
(`KeptInv`). A cut stream drops what is in the middle and leaves the rest in order.
`MessagesNotLost` needs more as long as nothing has disturbed the attempts: they
are begun in turn and end well (`TurnInv`), messages under way belong to the
attempt the parties are in (`CurrentInv`) and are numbered without a gap from the
last one received to the last one sent (`ChainInv`), and a party that has left has
received all of them (`CountInv`). Then everything sent is taken or under way
(`FoundInv`), and the streams left behind are empty. How many sends and receives
the first entries of a script have is given in closed form, since counting them
would be an induction.

**What the theorems leave open.** They say what the properties say, with their
exceptions: `SteadyBothOrNeither` and `Refinement` assume `SteadyRequests`,
`SlotsApart` assumes that there are no legacy flowers, and several properties hold
until requests overlap or something fails.

**Model-checked only.** Liveness: `EveryRequestAnswered` and `SwapCompletes` of the
escrow, `BothFinish` of the relay. Liveness under fairness and `ENABLED` are
outside what the prover handles, as is induction over data; no module uses
`RECURSIVE`. `OneCosign` does not hold (`cosign_frost`).

## Not modelled

- The cryptography of the MPC library and of signature verification, and the
  formats of keys and addresses. `Signatures` has the arithmetic of ECDSA only.
- JetStream's internals: a queue in order, at most one consumer, and redelivery
  of what is not acknowledged are taken from how the relay uses it.
- Several attempts of one client at the same time over one subject; a client of
  `Relay` makes them one after the other.
- Storage: `List` and `Transaction`, which nothing calls; keys that `validatePath`
  refuses; collisions of temporary names; cancelled contexts, as all callers pass
  one that never is.
- The time between two looks at a balance, and answers that pass on what a node
  says (`gasPrice`).
- Authentication switched off by configuration; `deleteTimebox`, which nothing
  calls.
- Start-up, routes, configuration, generated code.

## Plan

1. `Cosign` over `Relay`, in place of its own lossy channel.
