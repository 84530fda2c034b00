# My NEAR Wallet: TLA+ models, model checking and proofs

My NEAR Wallet is a wallet for the NEAR blockchain that runs entirely in the browser
(`src/packages/frontend`). It keeps signing keys in `localStorage`, signs transactions that the
user or a dApp asks for, talks to RPC nodes and indexers, and hands accounts over to another
wallet. This directory holds TLA+ models of the parts of it that are hard to test, the TLC
configurations that check them, and proofs that TLAPS checks.

Paths below are relative to `src/packages/frontend/src` unless they start with `src/`.

## 1. Inventory

| Component | State it keeps | Operations | What makes it hard | What makes it correct |
|---|---|---|---|---|
| **Key vault** `utils/wallet.ts`, `utils/encryptedWalletData.ts` | `localStorage`: plaintext keys, one encrypted blob, list of accounts; per tab: decrypted cache, key store object, copy of the list | save, remove, list, unlock, turn the password on or off, change it, page load | asynchronous methods of several tabs over shared storage, reloads at any await, parallel imports, refused writes | a saved key can always be read back; a listed account has its key; removed keys stay removed; the last password and no other opens the blob |
| **New-key transfer** `services/newKeyTransferState.js`, `services/meteorConnect.js`, `services/meteorConnectAddKeyChain.js` | a journal of a transfer kept by the other wallet's SDK, a pending start in browser storage, access keys on chain | start, replay, add keys, verify, resume, start over, archive, reconcile | crash between a chain write and its journal entry, replays, a start-over that must not strand an account | no local signer is dropped before the destination's key is verified; a transfer is not archived while it can go on |
| **dApp signing** `redux/slices/sign`, `routes/SignWrapper.js`, `utils/wallet.ts` | request, status, hashes of what was sent | approve, send one by one, retry with more gas, cancel, refresh | failure after some of several transactions went out, double approval | a transaction of a request is sent at most once; the reported hashes are those that went out |
| **RPC access** `utils/mnw-api-js/src` | per call: the attempt, which names the connection; a paged listing at the height of its first page | call, rotate, retry, page | failover within a listing, nodes behind the others, nodes that do not know pages | a listing is of one block and has no gap; it ends |
| **Ledger connection** `utils/ledgerManager.js`, `redux/slices/ledger` | the device client, modal state, the progress of a sign-in | connect, disconnect, sign, sign in with many accounts | device events while a call waits, a dialog closed while its loop goes on | a call never uses a client that is gone; what was signed in is saved |
| **On-chain key management** `utils/wallet.ts` (`addLedgerAccessKey`, `removeNonLedgerAccessKeys`, `disableLedger`, `deleteRecoveryMethod`, `recoverAccountSecretKey`), profile screens | access keys on chain, the helper's list, the key the browser signs with, the screens' copies | add, rotate, delete, recover | a fault between the chain's change and the local save, decisions from old copies, a switch of account | the account always has a key the user holds; the browser can sign throughout |
| **Lockup and balances** `utils/account-with-lockup.ts` | the contract's balance, stake, vote and pool; the stage of a transfer | a payment that takes from the lockup, the transfer from the profile, the destruction of the contract; locked and liquid amounts | up to seven calls in a row, any of which may fail; answers some awaits old; time arithmetic at boundaries | a destroyed lockup was empty; what was fetched suffices; locked amounts only fall |
| **Caches** `utils/cache.js`, `utils/fiatValueManager.js`, `services/indexer`, slices `tokens`, `transactions`, `nft` | entries with a time stamp and a version, pending promises | get, refresh, reset | stale answer after a switch of account, version reset | an answer shown belongs to the account shown |
| **Redux slices and routing** `redux/slices`, `routes`, `app` | the UI's copy of the above | thunks and reducers | late answers | mirrors of the components above |
| **Two-factor** `utils/twoFactor.js` | requests at a contract and a helper service | deploy, confirm, disable | external services | outside: decided by the contract |
| **Staking, liquid staking, swap, NFT, history** | slices over contracts and indexers | reads, one transaction each | external contracts | outside: no state kept across steps |
| **UI components, i18n, analytics, e2e tests, CI** | none that the above does not own | rendering | - | - |

### How they interact

* Every component that signs asks the vault's signer (`wallet.signer`), which asks the Ledger
  connection first and then the store that `signerIgnoringLedger` was built over.
* Redux thunks call methods of the one `wallet` object of the tab and dispatch its results; the
  page's route guard keeps a locked tab on the unlock page.
* Tabs share nothing but `localStorage`: there is no lock and no storage listener in the vault.
* The chain is reached through RPC access only; the other wallet through an SDK whose own
  storage is namespaced in the browser's.

## 2. Plan

| Step | Modules | State |
|---|---|---|
| 1 | `KeyVault`, `KeyBook` (what it implements), `MCKeyVault`, `KeyVaultProofs`, `KeyStoreProofs` | done |
| 2 | `NewKeyTransfer`, `SafeHandover` (what it implements), `MCNewKeyTransfer`, `NewKeyTransferProofs`, `NewKeyStartProofs` | done |
| 3 | `SignRequest`, `MCSignRequest`, `SignRequestProofs` | done |
| 4 | `AccountKeys`, `MCAccountKeys`, `AccountKeysProofs`: keys on chain while the store follows | done |
| 5 | `KeyListing`, `KeySnapshot` (what it implements), `MCKeyListing`, `KeyListingProofs`: the paged listing over several nodes | done |
| 6 | `Lockup`, `MCLockup`, `LockupProofs`: payments and transfers from a lockup, the amounts | done |
| 7 | the sign-in of several Ledger accounts; the recovery of several accounts by one phrase, which share `wallet.connection` | open |
| 8 | late answers of the caches after a switch of account | open |

`AccountKeys` has the store of `KeyVault` as the two things its operations see of it: the keys in
memory and the list under the password. `KeySnapshot` is what its readers of keys, and those of
the transfer's recovery screen, rely on.

## 3. The key vault

### State

`KeyVault.tla` has one variable per piece of state of the source:

| Variable | Source |
|---|---|
| `plain` | `nearlib:keystore:<account>` entries of localStorage |
| `blob` | `MNW_WALLET_DATA`: whether it holds encrypted data, under which password, which list |
| `listed` | `_4:wallet:accounts_v2` |
| `mem[t]` | `memoryOnlyWalletData.mem` of tab `t` |
| `keyStore[t]` | `wallet.keyStore`, and the store object the signer was built over |
| `accounts[t]` | `wallet.accounts` |
| `call[c]` | the asynchronous method that lane `c` of a tab is executing, and its locals |
| `promised`, `gone`, `lastPassword` | history: what the user was told was saved, removed, set |

### Actions

A method is cut at its awaits: one action from each await to the next, with the locals that
live across it in `call[c]`.

| Method | Actions |
|---|---|
| `saveAccount` | `StartSave`, the update below when the password is on, `ListAccount` |
| `removeWalletAccount` and its callers | `StartRemove`, the update, `Deactivate`, `SwitchAway` |
| `updateEncryptedAccountList` | `Encrypt` (reads the cached password), `Commit`, `Reinit`, `SetKeys` |
| `enablePasswordEncryption` | `StartEnable`, `Commit`, `Scrub`, `SetKeys` |
| `disablePasswordEncryption` | `StartDisable`, `SetKeys`, `Drop` |
| `changeEncryptionPassword` | `StartChange`, `Commit`, `Reread`, `SetKeys` |
| `unlockWallet` | `StartUnlock`, `Decrypt`, `SetKeys` |
| a page load | `Reload`: possible at any instant, whatever runs |
| a write that localStorage refuses | `CommitRefused`, `SetKeysRefused`, `ListRefused` |

`removeAllAccountsPrivateKey` removes entries while it walks localStorage by index, so it skips
the entry after a removed one. Which entry that is depends on the browser's order: `Leftovers`
is every set that may be left. `unlockWallet` starts the writes of all entries at once
(`Promise.all`), so a refused one leaves any others written (`PartlyLoaded`).
`removeLocalKeyIfMatches` (`utils/wallet.ts:976`), another way to remove a key, is left out:
nothing in the repository calls it. It would share `updateEncryptedAccountList` with the removal
and leave the account listed.

### Runs

| Run | Instance | What it shows |
|---|---|---|
| `vault_storage_full` | one tab, one call at a time, two accounts, keys and passwords, every operation, any write may be refused | holds: saved keys stay readable, saved accounts listed, the blob under the last password; the vault implements `KeyBook` |
| `vault_password_on` | three accounts and a Ledger account, two calls in parallel, `CarefulSpec`; the password is never turned off | holds: an unlocked store has the saved keys, a removed key cannot be read back, a removal takes no other account's key; the vault implements `KeyBook` |
| `vault_ledger_removal` | one account without a local key | violated: its removal takes the last entry of the encrypted list, another account's key (`splice(-1, 1)`) |
| `vault_parallel_import` | two lanes | violated: of two accounts saved by one `Promise.all` under encryption one key is lost |

`CarefulSpec` is `Spec` without the two steps that the violated runs are about, and nothing else:
while the password is on, no account without a local key is removed, and no account is saved next
to another call (`OneByOneUnderPassword`). Without a password accounts may be saved in parallel,
and Ledger accounts come and go.

Two accounts show every interaction between the entry an operation is about and another one;
the third account in `vault_password_on` lets a removal come first, in the middle or last in
the list, and the Ledger account is one that has no entry. Two keys tell a new key from an old
one and two passwords a change from none; no action looks at a third. Two lanes are what the
parallel import needs. The passing runs use symmetry on the accounts with a local key, the Ledger
accounts, keys, passwords and lanes, which no definition tells apart, and no liveness property.

### Proofs

`KeyVaultProofs.tla`. `TypeCorrect` needs no assumption beyond those on the constants. The
others are about `CarefulSpec` and assume `OneTab`: a second tab writes its old lists over newer
ones. `OneCallIsCareful` shows that the two steps cannot be taken where there is one lane and no
Ledger account, so that there the theorems hold of every behaviour of `Spec`.

`SavedKeysAreRecoverable` is not inductive: it says nothing of what a call in the middle of its
work is about to write. `KeysKept` is the strengthening. Its parts are what the code relies on:
an unlocked cache is the blob (`CacheAgrees`); no list names an account twice (`ListsAreMaps`);
an account that is listed and is no Ledger account has a key, so a removal finds the entry it
takes (`ListedHaveKeys`), and a Ledger account has none; saved accounts are in both copies of the
list; calls that overlap are saves that only have their account to list (`CallsTakeTurns`); and,
per call, what it has established at each of its awaits (`CallsOnCourse`). For instance a call at
`drop` has every key of the blob in the plain entries, which is why the blob may go. `KeptStep`
shows that every action keeps it, on top of lemmas about the list operators (`UpsertedKeys`,
`SplicedKeys`, `ListingKeys`) and of two about calls: a step with a password on is taken alone
(`AloneStep`), and one without leaves the others parked (`ParkedStep`). The theorems
`SavedKeysStayRecoverable`, `SavedAccountsAreNeverForgotten` and `LastPasswordOpensTheBlob` are
its consequences; so is `RemovalsTakeTheirOwnKey`, for the list that a removal writes is the
blob's without the entry it has found; `RemovedKeysStayRemoved` assumes in addition that the
password is never turned off.

`VaultKeepsTheBook` is the refinement. `KeyBook.tla` says what the vault is for without its blob,
cache, calls and cuts: a map of keys and what the user was told of them; a save writes one
account's key, a removal erases one, and nothing else changes any. The mapping takes the key that
a page load would bring back (`Recoverable`) for the entry of the book and `promised` for what was
told. The proof goes through the writes of storage: the plaintext keys do not count while there is
a blob (`PlainDoesNotCount`), so only the commit of a list, the end of turning the password off,
and saves and removals without a password are steps of the book. Turning the password off is the
one step that may change several keys: entries of removed accounts come back, which is the
`Resurface` of the book and is excluded where the password stays on. `BooksKeepTheirWord` is what
follows from the book alone.

`KeyStoreProofs.tla` goes on from `KeysKept` to what the tab can use. `SettledStoreHoldsSavedKeys`
needs to know where the store in memory comes from: `StoreFollowsBlob` says that next to a blob
there is a store in memory, and that it holds the keys of the blob except between the moment a
call writes the list or builds the store and the `setKeys` after it. There the list that
`setKeys` writes is the blob's (`CallsOnCourse`). `SettledStoresHoldSavedKeys` assumes that the
password stays on once it is, or that no write is refused (`TurnsOffWhole`): a turning-off that
localStorage refuses half-way leaves the plain store in place with a part of the keys, and the
blob with all of them until the next load.

### Seen, without a run

* A key saved before the password is turned on cannot be used to sign until the next `init`: the
  signer still reads the store object whose entries were just removed (`utils/wallet.ts:420`).
* With the password turned on and off again, plaintext entries that the walk over localStorage
  skipped are read back by the browser's store, the keys of removed accounts among them
  (`utils/encryptedWalletData.ts:36`).
* A second tab keeps its own cached list and password and writes them over newer ones
  (`utils/encryptedWalletData.ts:207`): keys saved meanwhile are lost and the old password
  comes back. No text of the repository says what two tabs may expect.

Left out: which account is active, the `confirmed` flags, key metadata and the legacy account
list. The direct `keyStore.setKey` of key rotation is in `AccountKeys`.

## 4. The new-key transfer

### Parties and state

`NewKeyTransfer.tla` has this wallet, Meteor, the journal that Meteor's SDK keeps in the browser,
and the chain. The SDK and Meteor are not part of the repository: what is said of them is what
the comments and calls in `services/meteorConnect.js`, `meteorConnectAddKeyChain.js` and
`newKeyTransferState.js` rely on, marked "SDK" in the module and external in the map.

| Variable | Source |
|---|---|
| `stash` | `mnw:newKeyTransfer:pendingStart:v1`: the id to replay and for which accounts |
| `call` | the function that is running, where it waits, and its locals |
| `session`, `older`, `op`, `startResult`, `pendingVerify` | the SDK's journal: the records and their order, how far each AddKey has got, its two single slots |
| `minted`, `proven`, `secured` | Meteor: its answer to a start, what it was asked to verify, what it has imported |
| `onChain`, `inflight`, `landed`, `spent`, `expired` | the chain: keys per account, what was sent and has not landed, what landed, what never can |

### Actions

| Function | Actions |
|---|---|
| `startMeteorNewKeyAccountTransfer` | `StartTransfer` (replay, or sweep a leftover), `OpenMeteor`, `HearAnswer`, `Unstash`, `CatchStart` |
| `runMeteorNewKeyAddKeys` and `createWalletAddKeyChain` | `StartAddKeys`, `JournalIntent`, `SignAddKey`, `Broadcast`, `ProveFinal`, `FinishAddKeys` |
| `verifyMeteorNewKeyAccountTransfer` | `StartVerify`, `HearVerification` |
| `startOverMeteorNewKeyTransfer` | `DiscardStash`, `StartOverUnsent`, `RefuseStartOver`, `StartRevocation`, `SkipAbsent`, `RemoveDestination`, `SeeRemoved`, `MarkRevoked`, `ClearRecord`, `ClearResult` |
| the recovery screen | `Reconcile`, `ArchiveFenced`, `RevokeFenced`, `ArchiveRevoked` |
| Meteor | `MeteorMints`, `MeteorSecures`, `MeteorCleansUp` |
| the chain | `Land`, `Expire`, `DropDelete` |
| what cuts a call | `Throw`, `Reload`, `LoseStartResult` |

### What is assumed

* One tab runs one call at a time; a call may be cut at any await, and nothing is taken back.
* All that a source key has signed for an account since its last landed transaction bears one
  nonce, so when one lands the others never can. This is the case in which an access key is used
  by this wallet alone and each signature reads the nonce on chain.
* The journal clears its one slot for a proof when the transfer is secured in full.
* The sweep of a leftover is one step (the start-over's `clear` is two: `ClearRecord`, then
  `ClearResult`).
* `Operations` says what an instance lets happen: `startOver`, `reload`, a start `refuse`d before
  its record is written or a stash that the browser refuses, a start result that is `lose`d, a
  record left without its slot (`orphan`), and a Meteor that names the source key as its own
  (`confuse`), against which the code has a guard.

### Runs

| Run | Instance | What it shows |
|---|---|---|
| `transfer_attempts` | two accounts asked for one by one, two transfers, everything above | holds: somebody can sign for each account at every instant; the transfer implements `SafeHandover`; every fence has a way out |
| `transfer_replay` | one account, three transfers, no reload and no start-over | holds: a start that failed is replayed under its own id |
| `transfer_fence` | one account, two transfers, a lost start result | holds: Meteor mints no keys for an answer the journal cannot take; a fenced device is freed in the end |

Two transfers let an old one meet a new one at the journal's slots and at the chain, and three
give `transfer_replay` a replay after two different failures. An account meets another only
through the journal's slots and the stash, which two accounts asked for separately show; that
the AddKeys of one transfer go one account after the other is in the guards, and what they may
do to the accounts is proved for any number. `transfer_attempts` uses symmetry on accounts and
transfers: its properties are invariants and a refinement without fairness. Deadlock is not
checked: an instance stops when every id is used.

`transfer_replay` leaves reloads out because a reload between Meteor's answer and the catch
block makes Meteor mint again, a hazard without a property: no text claims otherwise.

Fairness, in `transfer_fence` only. The user of a fenced device keeps using the recovery screen:
strong fairness of `Reconcile` and `ArchiveFenced`, because other calls, which are not fenced,
may take their turn in between. A call that waits ends, since bridge sessions expire and waits
are bounded (`Throw`, `CatchStart`, `Unstash`, `ClearResult`), and what was signed does land or
expire (`Expire`): a signed transaction is bound to a recent block. Meteor's liveness is not
assumed.

### Proofs

`NewKeyTransferProofs.tla`, with no assumption beyond those on the constants: any accounts, any
number of transfers, everything switched on. `AccountsKeepAHolder` is not inductive, for a
DeleteKey of the source key in flight would break it when it lands. `HandoverInv` adds
`SourceIsNeverRemoved`, which `MayRemove` establishes when the transaction is sent, and the
types. `HandoverSteps` shows of each action which of four things it does to who may sign for an
account: nothing, Meteor joins, this wallet takes Meteor off with its own key, Meteor takes this
wallet off with its own. `HoldersAlways` follows, and `TransferHandsOverSafely`: the four are the
steps of `SafeHandover`, so the transfer implements it under the mapping
`holders[a] = Holders(a)`. `HandoversKeepAHolder` is about `SafeHandover` alone: it is enough for
`AccountsKeepAHolder`.

`FencesHaveAWayOut` is the safety half of `FenceIsLifted`. A fenced AddKey that has landed is
proved final; one that has not is archived once its bytes have expired, but only if its key is
not on the account. A key that came there in any other way would have to be revoked first, which
the screen refuses for the account's own key. That no such key is there needs the history of the
key (`WayOut`): an answer in the journal is one Meteor gave (`AnswersAreMinted`), which names a
key minted for this transfer, none, or the source key (`KeysAreNamed`); what is signed is of the
first kind, because the bytes are only made when the source key is on the account and the key to
add is not (`SignedKeysAreMinted`, `SentKeysAreMinted`); and such a key gets on the account by
its own AddKey only (`MintedKeysHaveLanded`). Without the look at the account before signing, a
record that names the source key fences the device for good. It holds under the same assumptions
as the handover; that the user gets there in the end stays with TLC.

`NewKeyStartProofs.tla` is about starts that fail and are tried again. `StepKinds` sorts the
actions into those of a start and those outside it, so that each invariant below meets seven
cases and not thirty-seven.

`SlotFits` says that while something is stashed no other transfer's answer has the journal's
slot, and that a first attempt, which sweeps, finds the slot free. With `ClearsAreWhole` (no
clear is cut between its two writes) it gives `AnswersAlwaysHaveASlot`, whatever selections the
starts are of. `PendingIsKnown` says that a record without an answer is the stashed one or the
one the call waits for, than which no record is newer, so the catch block stashes the right one.
It gives `InterruptedStartsAreReplayed` with `StartsAreTriedAgain` (no reload, no start-over, no
outright refusal) and `OneSelectionOnly` (all starts ask for the same accounts: the stash
remembers one selection). Without any one of these assumptions TLC finds a counterexample; of
them the start-over is meant, for the user asks for a new transfer. `FenceIsLifted` itself is
model-checked only: it is liveness.

### Seen, without a run

* A start that is refused before its record is written stashes the id of an earlier transfer, of
  other accounts: the catch block stashes the newest record, whoever's it is
  (`services/meteorConnect.js:395`). With every selection of two accounts TLC finds it at once.
* A start-over removes the key that Meteor's imported account runs on when the answer to the
  verification was lost, for it goes by this wallet's own record
  (`services/newKeyTransferState.js:461`). The source key still signs.
* After a reload between Meteor's record of a start and the stash, Meteor mints again
  (`services/meteorConnect.js:388`). A replay does not sweep, so it fails as long as another
  transfer's answer has the slot (`services/meteorConnect.js:356`).
* A cut between `ClearRecord` and `ClearResult` orphans a start result that no sweep finds; the
  journal's slot stays taken until a start-over of a stashed id (`services/meteorConnect.js:526-527, 575`).
* An AddKey may land after its record was cleared (`services/meteorConnect.js:584`): the account
  then has a key of Meteor's that no record names. `AccountsKeepAHolder` holds all the same.
* The recovery screen's check sends the signed bytes to learn whether they have expired
  (`services/meteorConnectAddKeyChain.js:277`).
* Starting over with one transfer drops the replay id of another (`services/meteorConnect.js:551`).

Left out: what an account can pay (an error like any other), the loss of the local source key,
archiving a finished transfer (its button is commented out), a call that goes on after its screen
is left, and everything shown.

## 5. Signing a dApp's request

### State and actions

`SignRequest.tla`: `status`, `successHashes`, `retryTransactions` and `transactionHashes` are the
slice's fields; `sending` is the loop of `Wallet.signAndSendTransactions`; `ran` (what took
effect, in order) and `starts` (how often the whole request was approved) are history. A hash is
the number of its transaction. Every list of the code is an end of the request, so a list is
where it starts and the gas of each transaction.

| Code | Actions |
|---|---|
| `SignWrapper.handleApproveTransaction`, the pending reducer | `Approve` (the whole request), `ApproveRetry` (what is left, with more gas) |
| `signAndSendTransactions` | `SendRuns` for each transaction, `Finish` |
| the rejected reducer, `removeSuccessTransactions`, `checkAbleToIncreaseGas` | `SendRunsOutOfGas`, `SendFails` through `Reject` |
| `handleRefreshUrl` | `Reload` |

A transaction that exceeds its prepaid gas takes no effect. `SendFails` is every other error,
after which the transaction may have taken effect: the answer was lost. A popup stays on the
screen for a while after a success, and its button can be used again; the reducer may then throw
on an empty list (`Overrun`), which leaves the status at in-progress.

### Runs

| Run | Instance | What it shows |
|---|---|---|
| `sign_retries` | four transactions with 2, 0, 1 and 3 calls, different nonces, gas from 1 to a limit of 4 in steps of 2, three approvals, reloads | holds: retries send each transaction once and in order and raise the gas of the one that failed, never beyond the limit; every retry gives more gas than the last; a success is complete; retrying ends |

The four transactions cover the cases of `increaseGasForFirstTransaction`: one call (all the gas
at once), several calls (a step at a time, up to the cap), none (skipped). With a limit of 4 and
steps of 2 from 1, the cap is met both below and at a full step. `MaxStarts` bounds the approvals
of the whole request; three let a failed attempt, a lost answer and a reload follow one another.

Fairness: weak fairness of `Sends`, a call to a node ends with an answer or an error; and of
`ApproveRetry`, the user answers the retry screen. `RetriesEnd` says where this leads and leaves
out the one way a request may hang, the thrown reducer after a popup's success.

### Proofs

`SignRequestProofs.tla`, for a request of any size, any calls and gas, when its transactions have
different nonces (`Distinct`). The assumption is needed: hashes are matched to the list by the
dApp's nonces. Two inductive invariants:

* `Backed`, for any number of approvals and reloads: what is recorded has run, and everything
  before the list to send is recorded, so a success has run and reports everything
  (`SuccessesAreComplete`). Its core is `RemovedIsRecorded`: `removeSuccessTransactions` takes
  away nothing that has no hash.
* `Orderly`, up to the first approval anew: the hashes recorded are exactly those before the list
  to send, which starts at the transaction that runs next (`RetriesSendOnce`, `RetriesHelp`).
  `LeftAfterPrefix` says what trimming does to a list whose hashes are such a prefix.

`FirstLeft` is defined by `CHOOSE`; that there is exactly one such position comes from `Greatest`,
by the well-foundedness of `<`. `SignTypes` rests on the same lemmas.

`RetriesRunOut` is the safety half of `RetriesEnd`, for any number of approvals, reloads and lost
answers: each retry raises the gas of a call and lowers none (`EveryRetryGivesMore`), and gas has
a limit (`SignTypes`), so the retry screen cannot come back without end. It needs to know that the
screen is only offered for a list that can be given more (`Offers`), and that trimming leaves the
gas alone (`RejectKeepsGas`). That the calls end and the user answers is fairness: `RetriesEnd`
stays with TLC.

### Seen, without a run

* An approval after an error that is not about gas sends the whole request, the transactions
  whose hashes were recorded included, although the reducer has just removed them from the list
  "so it will no be sign again" (`redux/reducers/sign/index.js:49, 81`). `RunInOrderOnce` is
  therefore about one approval and its retries.
* A dApp that gives several transactions one nonce makes a retry skip one that was never sent and
  report success (`redux/slices/sign/index.js:103`).
* Cancelling on the retry screen tells the dApp that the user rejected the request, although some
  of its transactions have run (`routes/SignWrapper.js:155`).
* A fresh approval after a lost answer or a refresh sends what has already taken effect: the
  wallet has no record of it.

Left out: private shards, amounts and fees, requests of several signers (the page refuses them),
the sunset switch (signing is taken as on), cancelling, and switching accounts, which the page
disables (`redux/slices/flowLimitation`).

## 6. The keys of an account

### State

`AccountKeys.tla` has the accounts of one browser, their keys on the chain, and the copies of
them that the code decides by.

| Variable | Source |
|---|---|
| `full`, `limited` | the chain: full access keys, and the keys for `__wallet__metadata` |
| `methods` | the helper's list of recovery methods |
| `store`, `blob`, `encrypted` | `wallet.keyStore`; the list under the password, which a reload reads |
| `marked` | the browser's note that the device's key is a Ledger's |
| `active` | `wallet.accountId` |
| `shown`, `page` | what the screens decide by: redux's keys, methods and Ledger flag, the key in use as the list of keys read it; and the screen |
| `op` | the method under way: its stage, the account object it kept, the keys it goes through |

A stage reads `active` where the code reads `this.accountId` and `op.acct` where it kept an
account. `LedgerSigns` is `getLedgerKey`: a marked device with a key on the account signs, also
where the browser's own key has full access. The code means to ask that first
(`utils/wallet.ts:316`), but reads `localKey.permission`, which is no field of a key entry
(`access_key.permission` is), so the test never says no. From the moment a Ledger is added it
signs, its key is shown, and the screens that ask for a Ledger are open: phrases may be deleted
and the Ledger disabled.

The list of keys (`FullAccessKeyRotation`, on its own page and on the profile) asks the signer
which key is in use when it is shown, and offers to remove the others. `shown.inUse` is that
answer: it is read again by every action that empties redux's account or leaves for another page,
and stays otherwise. One copy stands for those of all entries.

### Actions

| Code | Actions |
|---|---|
| `addLedgerAccessKey`, from the setup and from "connect" | `StartAddLedger`, `AddLedgerReads`, `AddLedgerAdds`, `AddLedgerPosts` |
| `removeNonLedgerAccessKeys` | `StartRemoveOthers`, `RemoveOthersReads`, `RemoveOthersAddsKey`, `RemoveOthersDeletes`, `RemoveOthersReplacesKey`, `RemoveOthersReadsMethods`, then the drops |
| `deleteRecoveryMethod` | `DropReads`, `DropKey`, `DropMethod`, `DropEnds`; `StartDeletePhrase` from the screen |
| `disableLedger` | `StartDisableLedger`, `DisableLedgerAddsKey`, `DisableLedgerAsksDevice`, `DisableLedgerDeletes`, then the drops |
| `FullAccessKeyRotation` | `StartDeauthorize`, `DeauthorizeDeletes`; "use as current key" is `ImportPhrase` |
| `addAccessKeySeedPhrase` | `StartAddPhrase`, `AddPhrasePosts`, `AddPhraseAdds` |
| accounts brought in again | `ImportPhrase`, `StartImportLedger`, `ImportLedgerAddsKey`, `ImportLedgerSaves` |
| the navigation and the screens' refreshes | `Visit`, `Switch`, and `Reads` in every action that ends on a screen |
| what goes wrong | `Refused` (the node), `Fault` (any call, with or without its effect), `Reload` |

### Runs

| Run | Instance | What it shows |
|---|---|---|
| `keys_rotation` | two accounts of one phrase, another phrase, a device, two keys the wallet makes; every operation, each of which may fail at any await or lose an answer; reloads, switches of account anywhere, the way back to the page after adding a Ledger; `Careful` | holds: a key the user can recover from remains; the browser can sign throughout; a removal that succeeds leaves the device alone |
| `keys_switch` | nothing fails; a Ledger is added and other keys removed while the account may be switched (`RemovalOnly`) | violated: "Remove existing keys" on the page after adding a Ledger takes all the keys of another account, which has no Ledger |

`Careful` is what the code leaves to the user, and `CarefulSpec` is `Spec` of such a user. TLC
finds a violation when one of its clauses is dropped:

* The other keys are removed only of an account the Ledger signs for. `removeNonLedgerAccessKeys`
  does not look: a switch on that page (`keys_switch`), or the way back to it after the Ledger was
  disabled, leaves the account with a limited key.
* After a lost answer a list still has a phrase whose key has left the chain. It serves as proof
  that the last key may go (`components/profile/full_access_key_rotations/FullAccessKeyRotation.js:234`),
  and as the other method that lets the Ledger be disabled.
* After `disableLedger`, or "connect" on the profile, the list of keys stays with the key in use
  that it had read: the one that signs from then on is offered for removal (`:119`).
* `removeNonLedgerAccessKeys`, `disableLedger` and `deleteRecoveryMethod` take `this.accountId`
  anew at every step: a switch between two of them has one account's keys deleted on behalf of
  the other.

Everything else may happen: switches while a key is added or removed from the list and on every
page, reloads at every await, and decisions by every other out-of-date copy. The configuration
has `Careful` as an action constraint, which for invariants and action properties is the same as
`CarefulSpec`.

Two accounts show what an operation does to an account it is not about, two phrases that one is
left when the other goes, two fresh keys a replacement of a replacement. `OneAtATime`: only one
account at a time has more than one key or listed method, as the operations that matter are on
one account and the other is the one they must leave alone; which of the two it is changes.
Symmetry on accounts and fresh keys is sound for invariants and action properties; the phrases
differ, for the accounts start with the first.

`SignerKept` holds with and without a password, for every operation: only a rebuilding of the
store from the list under the password (`Rebuilt`: a reload, or the next account saved) takes the
ability to sign away.

### Proofs

`AccountKeysProofs.tla`, for any accounts, phrases and keys. `Typed` needs no assumption: whatever
is switched, lost or cut, an operation's stage finds the locals it reads. The other theorems are
about `CarefulSpec`. `RecoveryRemains` alone says nothing of what an operation is about to delete;
`IInv` adds, per operation, what its stages have established (`OperationOK`: the device keeps its
access while the other keys go, and of those only the ones in `op.keys` are left; a phrase has
access while the device loses it); that no key has both kinds of access (`OneAccess`); and how far
the flag that a Ledger is there may be trusted (`LedgerShown`). It is checked by TLC as an
invariant first.

`Effect` says once what the chain does with each kind of transaction, and `Frame` what a step
cannot have changed. `TransactionOK` then goes through the stages that send one, `ShownStep`
through the ways a screen is read again, and `StartOK` through the beginnings, where `Careful` is
used. `SignerStays` is an action property from the same invariant: `SignsWith` says who signs,
`DeletedKey` that no stage deletes that key before another signs, and `SavesAKey` what an account
saved does to the key store. `RemovalCompletes` follows from what the last stages of a removal
have established.

### Seen, without a run

* After "connect" the list of keys may remove the device's key that signs; the flag that a Ledger
  is there stays, and with it the last phrase may be deleted. (Excluded by the clause on the key
  in use.)
* With a password, the key that `disableLedger` and `removeNonLedgerAccessKeys` put in the key
  store is in memory only (`utils/wallet.ts:1103`): a reload brings the old one back, which was
  just deleted from the chain.
* The helper goes on listing phrases whose keys were removed with the others: they are looked up
  after their keys have left the chain.
* The path of the device is written before its key is added (`components/accounts/ledger/SetupLedger.js:185`).
* `recoverAccountSecretKey` puts a temporary connection and account in the wallet for the time of
  its awaits (`utils/wallet.ts:1712`). An await that rejects leaves the connection there until
  the page is loaded again; when every account fails the last one stays as `accountId`.

Left out: two-factor accounts, `exportToLedgerWallet`, the keys dApps are given, the paths of the
device, amounts and allowances.

## 7. Listing access keys

### State and actions

`KeyListing.tla`: `blocks` is the history of one account's keys, `head` how far each node has
got, `kind` what it makes of `limit` and `after_key`: it pages, it has never heard of pages, or it
strays (starts over, sends nothing but a cursor, leaves the height out). `call` is one
`queryAccessKeyList` over `sendJsonRpc`.

| Code | Actions |
|---|---|
| `RpcProvider.query` for a list | `Asks`, with or without a block |
| `sendJsonRpc` and `RpcRotator.getConnection` | `AttemptFails`, `AttemptsEnd`, `Refused` |
| the loop of `queryAccessKeyList` | `LastPage`, `NextPage`, `Incomplete`, `NoKeys` |
| outside | `NewBlock`, `CatchesUp` |

### Run, fairness, bounds

`rpc_listing`: three keys, one to a page, three connections to two nodes of any kind, two
attempts, two blocks. It holds that all pages are of one block and nothing before the cursor is
missed (`OneBlock`), that no key comes twice when the nodes agree on pages (`ListedOnce`), that
every list ends, and that the listing implements `KeySnapshot`: all the keys of one block, or an
error. A page limit of four is one more than the keys, so both the limit and the natural end are
met; three connections and two attempts are the default's "more connections than attempts"; a
second block is enough for a key to come or go between two pages. Fairness: weak fairness of
`Proceeds`, a request ends with an answer or an error. No deadlock check: with all blocks made
and a list that came, nothing has to happen.

### Proofs

`KeyListingProofs.tla`, for any nodes, connections, keys, page size and limits. `OneBlock` needs
`Fresh` (nothing is read before the height is known) and `Bounded`; `ListedOnce` needs `Ordered`.
`PageIsFull` says what a page is.
`ImplementsSnapshot` is the refinement. `ListingEnds` is liveness and stays with TLC.

### Seen, without a run

* A page from a node that knows pages followed by one from a node that does not lists the first
  keys twice: `ListedOnce` says "nodes that agree".
* A stray answer that is a page of its own, with keys left out, cannot be told from a right one.
* With the default of two attempts, only two of five connections are ever tried by a request.

Left out: queries that are one request, errors and their parsing, the list of known providers
(deleting a default one resets the list), `accessKeysDataLoader.ts`, which nothing uses.

## 8. Lockups

### State and actions

`Lockup.tla`: `terms` is the agreement of `getLockupInfo`; `main`, `held`, `staked`, `known`,
`rewards`, `pool`, `enabled` and `exists` are the main account's tokens, the contract's, its
stake, what it knows of its stake, and whether transfers are enabled; `op` is one run of
`signAndSendTransaction` or `transferAllFromLockup`. A view is one action and so is a call.

| Code | Actions |
|---|---|
| `decorateWithLockup`'s `signAndSendTransaction` | `StartPay`, `AsksExists`, and the payment itself in `Called` |
| `transferAllFromLockup` | `StartClaim`, `AsksEnabled`, `AsksPool`, `AsksLiquid`, `AsksLocked`, `AsksKnown`, `AsksRewards` |
| its transactions and those of `deleteLockupAccount` | `Called`, by stage: `Votes`, `Refreshes`, `Transfers`, `Unselects`, `AddsKey`, `Deletes`, `Pays`; `Refused` |
| a call that fails or loses its answer, a reload | `Fault` |
| around it | `Tick`, `Receives`, `Earns`, `Stakes`, `Withdraws`, `ClaimsRewards` |

`LockedAmount` is `getLockedTokenAmount`: the release, linear after the start, from the vote in
early versions of the contract; the vesting schedule with its cliff, or what a termination left.

### Assumptions

The contract is external: its functions are what the code takes them for, its locked amount is
the wallet's formula, and its own refusal to be destroyed is not counted on. One operation runs
at a time, and the staking pages are used between operations. The five calls that may precede a
payment attach 300 Tgas between them, which with the payment's own cost less than the 0.05 NEAR
kept for gas (`6 * Fee <= Gas`; every transaction is taken to cost the same). The banner's
threshold of 0.01 NEAR is abstracted to "more than nothing".

### Run, fairness, bounds

`lockup_claims`: four agreements (linear release in both versions, a schedule with a cliff, a
termination), four units of time, one payment, at most two staked, one fault. It holds that what
the lockup gave suffices for the payment and its gas, that a destroyed lockup had nothing locked, staked or
farmed, that locked amounts fall with time, and that who keeps transferring gets everything in
the end. Four instants put the vote, start, cliff and end at different ones; a second unit of
stake is one that came as earnings and which the contract does not know of; one fault is enough
to leave every intermediate state, from which the next operation starts like any other. Eleven
tokens in all (`Most`) are what a payment needs to be given some: the account has to be short of
the reserve of six, and the lockup has to have more free than it is short of. So payments of two
units go through with the lockup's tokens, with and without a pool to leave, from a lockup that
is destroyed (ten tokens) and from one that stays, where earnings are free (eleven), and others
end with too few. Fairness:
weak fairness of `Step`, every await ends; `ClaimedInTheEnd` assumes in its hypothesis that the
user goes on claiming and that the lockup stays claimable. No deadlock check: with the lockup gone
and the bounds reached the wallet stops.

### Proofs

`LockupProofs.tla`, for any sound agreements, fees and bounds. `LockedAmountFalls` rests on
division by the release and vesting times being monotone. `PaymentCovered` needs the ledger of
fees `Funds`: per stage, how many calls may have been paid so far, against the reserve.
`NothingLost` needs `Emptied`: without a pool nothing is staked or farmed; the stake that the
contract knows of is right once it was asked to refresh; what was looked at stays so until the
account is deleted, as nothing locked is ever locked again. `ClaimedInTheEnd` is liveness and stays
with TLC.

### Seen, without a run

* A payment is refused when the lockup holds exactly what is missing (`utils/account-with-lockup.ts:139`),
  and when a lockup that could be destroyed holds it only together with its storage reserve,
  which the balance shown counts (`:372-397`).
* When the pool has stake, the error is thrown after the tokens were moved (`:174`): the user's
  transaction is not sent although it could be paid. Trying again succeeds.
* An agreement without a release duration divides by zero at the instant of its start.
* A schedule known by its hash only counts as vested.
* A cut in `deleteLockupAccount` leaves on the lockup a full access key that nobody has.
* Staking from another tab between the last look and the deletion is not excluded by the wallet.

Left out: the decoding of the contract's state, the rounding of the time in nanoseconds, the
totals of accounts without a lockup.

## 9. Not modelled

* **Ledger connection.** What happens depends on the events of a browser library and a device,
  and nothing in the repository says in which order they come. Seen by reading: `disconnect`
  removes a listener that was never registered, so a late event of an old transport marks the new
  connection as gone; a sign-in dialog that is closed leaves its loop running, and accounts it
  has signed for are not saved to the list (`redux/slices/ledger/index.js:128`).
* **Caches.** Values of indexers, kept for a time and shown. A late balance may be merged into
  the next account after a switch; no transaction is decided by it.
* **Two-factor accounts, staking, liquid staking, swap, NFT, history.** A contract or a service
  decides; the code makes one call, or a few in a row, and keeps nothing between requests. Their
  part in a lockup's stake is in `Lockup` as `Stakes`, `Withdraws` and `ClaimsRewards`.
* **Account export by secrets, sunset configuration, slices and routing, screens.** One call over
  what `KeyVault` has; a table fixed at build time with tests for every entry; mirrors of the
  state of the components above. The parts that decide something are modelled with those: the
  refresh of a request, the unlock guard, the screens' copies in `AccountKeys`.
* `src/.yarn/releases` (two thirds of the lines of the repository) is a vendored tool; landing
  page, styles, translations and patterns of the history are layout and data.

## 10. Running

    tlc -workers 2 -config KeyVault_storageFull.cfg MCKeyVault.tla
    tlapm KeyVaultProofs.tla

`runs` in `PROJECT.json` pairs each configuration with its module, and `mutants` gives, for every
property of a passing run, a change to the model after which TLC finds it violated. A mutant is
defined beside the definition it changes and marked so.

What stays with TLC in every component is liveness, for the prover has no fairness
(`FenceIsLifted`, `RetriesEnd`, `ListingEnds`, `ClaimedInTheEnd`). Every other property of a
passing run that is not one of these is stated by a theorem. No module uses `RECURSIVE`.
