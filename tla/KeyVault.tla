------------------------------ MODULE KeyVault ------------------------------
(***************************************************************************)
(* Where My NEAR Wallet keeps the signing keys of the accounts a browser   *)
(* has imported (utils/wallet.ts, utils/encryptedWalletData.ts).           *)
(*                                                                         *)
(* localStorage is shared by every tab and survives a reload: one entry    *)
(* per plaintext key, one encrypted blob with the whole list of keys, and  *)
(* the list of imported accounts.  Each tab holds, in memory only, the     *)
(* cached decryption of the blob, the key store object `wallet' signs      *)
(* from, and its copy of the account list.                                 *)
(*                                                                         *)
(* An asynchronous method is a call that runs in a lane of its tab, one    *)
(* action per stretch of code between two awaits; Tabs \X Lanes calls may  *)
(* interleave, and a reload may cut any of them at any await.  A tab with  *)
(* two lanes is a tab whose code awaits several methods with Promise.all.  *)
(*                                                                         *)
(* Left out: which account is active, the `confirmed' flags, key metadata, *)
(* the store writes that go past the list (listed in the README), and      *)
(* removeLocalKeyIfMatches, which nothing in the repository calls.         *)
(***************************************************************************)
EXTENDS Naturals, FiniteSets, Sequences, SequencesExt

CONSTANTS
    Accounts,        \* account ids
    Keys,            \* secret keys
    Passwords,       \* passwords, up to their hash
    Tabs,            \* browser tabs of the wallet's origin
    Lanes,           \* calls a tab runs at a time
    LedgerAccounts,  \* accounts whose key is on a device: imported without a key
    Operations,      \* the user's operations that an instance explores
    StorageFills,    \* whether localStorage may refuse a write (quota)
    NoKey, NoPassword, NoAccount

ASSUME SentinelsAssumption ==
    NoKey \notin Keys /\ NoPassword \notin Passwords /\ NoAccount \notin Accounts
ASSUME LedgerAssumption == LedgerAccounts \subseteq Accounts
ASSUME FiniteAccountsAssumption == IsFiniteSet(Accounts)
ASSUME TabsAssumption == Tabs # {}
ASSUME LanesAssumption == Lanes # {}

VARIABLES
    \* localStorage
    plain,         \* nearlib:keystore:<account>, account -> key
    blob,          \* MNW_WALLET_DATA
    listed,        \* _4:wallet:accounts_v2
    \* memory of each tab
    mem,           \* memoryOnlyWalletData.mem
    keyStore,      \* wallet.keyStore and the store wallet.signerIgnoringLedger reads
    accounts,      \* wallet.accounts
    call,          \* the method each lane is executing
    \* history: what the user has been told
    promised,      \* account -> keys one of which the wallet must still hold
    gone,          \* accounts whose removal was reported done
    lastPassword   \* the password set last

storageVars == <<plain, blob, listed>>
historyVars == <<promised, gone, lastPassword>>
vars == <<plain, blob, listed, mem, keyStore, accounts, call, promised, gone, lastPassword>>

-----------------------------------------------------------------------------
(* Lists of decrypted accounts.                                            *)

Entry == [id : Accounts, key : Keys]
MaybeKey == Keys \union {NoKey}
EmptyStore == [a \in Accounts |-> NoKey]

Positions(list, a) == {i \in DOMAIN list : list[i].id = a}
FirstPosition(list, a) ==
    CHOOSE i \in Positions(list, a) : \A j \in Positions(list, a) : i <= j

\* Mutant: splice(index, 1, entry) without a look at an index of -1.
UpsertedOverTheLast(list, a, k) ==
    IF Positions(list, a) = {} /\ list = <<>> THEN <<[id |-> a, key |-> k]>>
    ELSE [list EXCEPT ![IF Positions(list, a) = {} THEN Len(list) ELSE FirstPosition(list, a)] =
             [id |-> a, key |-> k]]

\* updateEncryptedAccountList, action 'add'
Upserted(list, a, k) ==
    IF Positions(list, a) = {}
    THEN Append(list, [id |-> a, key |-> k])
    ELSE [list EXCEPT ![FirstPosition(list, a)] = [id |-> a, key |-> k]]

\* Mutant: an index of 0 taken for "not found".
SplicedUnlessFirst(list, a) ==
    IF Positions(list, a) # {} /\ FirstPosition(list, a) > 1
    THEN RemoveAt(list, FirstPosition(list, a)) ELSE list

\* Mutant: splice without a count, which takes all that follows too.
SplicedToTheEnd(list, a) ==
    IF Positions(list, a) # {} THEN SubSeq(list, 1, FirstPosition(list, a) - 1) ELSE list

\* updateEncryptedAccountList, action 'remove': findIndex gives -1 for an
\* account without an entry, and splice(-1, 1) then takes the last entry.
Spliced(list, a) ==
    IF Positions(list, a) # {} THEN RemoveAt(list, FirstPosition(list, a))
    ELSE IF list = <<>> THEN list
    ELSE RemoveAt(list, Len(list))

\* The key that setKey, called once per entry, leaves for an account.
KeyIn(list, a) ==
    IF Positions(list, a) = {} THEN NoKey ELSE list[FirstPosition(list, a)].key

Loaded(store, list) ==
    [a \in Accounts |-> IF Positions(list, a) = {} THEN store[a] ELSE KeyIn(list, a)]

\* The calls of setKey are all started; some of them are refused.
PartlyLoaded(store, list) ==
    {[a \in Accounts |-> IF a \in refused THEN store[a] ELSE Loaded(store, list)[a]] :
        refused \in (SUBSET {b \in Accounts : Positions(list, b) # {}}) \ {{}}}

\* Mutant: entries that are no keys are taken along.
PlainEntriesUnfiltered == {[id |-> a, key |-> plain[a]] : a \in Accounts}

\* retrieveAllAccountsPrivateKey: every plaintext key, in the browser's order.
PlainEntries ==
    {[id |-> a, key |-> plain[a]] : a \in {b \in Accounts : plain[b] # NoKey}}

\* removeAllAccountsPrivateKey removes while it walks the storage by index, so
\* the entry that follows a removed one is skipped.  The order of the entries
\* is the browser's and other entries may stand between two keys: what may be
\* left is any set of keys each of which follows a removed one.
Leftovers(S) == {R \in SUBSET S : Cardinality(R) <= Cardinality(S \ R)}

ScrubPlain ==
    \E left \in Leftovers({a \in Accounts : plain[a] # NoKey}) :
        plain' = [a \in Accounts |-> IF a \in left THEN plain[a] ELSE NoKey]

-----------------------------------------------------------------------------
(* The memory of a tab.                                                    *)

Calls == Tabs \X Lanes
NoCall == [pc |-> "idle", op |-> "none", id |-> NoAccount, key |-> NoKey,
           pw |-> NoPassword, list |-> <<>>, rest |-> {}]

Locked(t) == mem[t].hasEnc /\ ~mem[t].open

\* The key that wallet.keyStore, and the one that the signer's store, holds.
StoreKey(t, a) == IF keyStore[t].kind = "browser" THEN plain[a] ELSE keyStore[t].ram[a]
SignerKey(t, a) ==
    CASE keyStore[t].signer = "keyStore" -> StoreKey(t, a)
      [] keyStore[t].signer = "browser" -> plain[a]
      [] OTHER -> keyStore[t].frozen[a]

\* wallet.init builds the store and the signer over it.
NewStore(encrypted) ==
    [kind |-> IF encrypted THEN "memory" ELSE "browser", ram |-> EmptyStore,
     signer |-> "keyStore", frozen |-> EmptyStore]

\* enable- and disablePasswordEncryption replace wallet.keyStore alone: the
\* signer keeps reading the object it was built over.
ReplacedStore(ks, kind) ==
    [kind |-> kind, ram |-> EmptyStore,
     signer |-> IF ks.signer # "keyStore" THEN ks.signer
                ELSE IF ks.kind = "browser" THEN "browser" ELSE "frozen",
     frozen |-> IF ks.signer = "keyStore" THEN ks.ram ELSE ks.frozen]

\* wallet.keyStore.setKey
PutKey(t, a, k) ==
    IF keyStore[t].kind = "browser"
    THEN plain' = [plain EXCEPT ![a] = k] /\ UNCHANGED keyStore
    ELSE keyStore' = [keyStore EXCEPT ![t].ram[a] = k] /\ UNCHANGED plain

Idle(c) == call[c].pc = "idle"
Finish(c) == call' = [call EXCEPT ![c] = NoCall]
Resume(c, pc) == call' = [call EXCEPT ![c].pc = pc]

\* A tab runs one operation at a time, except that an import of several accounts
\* starts its saves together, before any of them goes past its first await.
Alone(c) == \A d \in Calls : d[1] = c[1] => d = c \/ Idle(d)
Together(c, a) ==
    \A d \in Calls : d[1] = c[1] /\ d # c /\ ~Idle(d) =>
        call[d].op = "save" /\ call[d].pc \in {"encrypt", "list"} /\ call[d].id # a

\* A user reaches an operation only past the unlock page.
MayStart(c, op) == op \in Operations /\ Idle(c) /\ ~Locked(c[1]) /\ (op = "save" \/ Alone(c))

-----------------------------------------------------------------------------
(* updateEncryptedAccountList, shared by saving and removing.  It reads    *)
(* the cached list when it is called, encrypts a changed copy, writes it   *)
(* and rebuilds the wallet.                                                *)

Changed(c) ==
    LET k == call[c]
    IN CASE k.op = "remove" -> Spliced(k.list, k.id)
         [] k.op = "save" /\ k.key # NoKey -> Upserted(k.list, k.id, k.key)
         [] OTHER -> k.list

\* updateEncryptedData takes the password of the cache now, and throws
\* without one; the list is the one read at the start.
Encrypt(c) ==
    /\ call[c].pc = "encrypt"
    /\ IF mem[c[1]].open
       THEN call' = [call EXCEPT ![c].pc = "commit", ![c].pw = mem[c[1]].pw,
                                 ![c].list = Changed(c)]
       ELSE Finish(c)
    /\ UNCHANGED <<storageVars, mem, keyStore, accounts, historyVars>>

\* encryptAndSetData after its await: the blob first, then the cache.
Commit(c) ==
    LET t == c[1] IN
    /\ call[c].pc = "commit"
    /\ blob' = [on |-> TRUE, pw |-> call[c].pw, list |-> call[c].list]
    /\ mem' = [mem EXCEPT ![t] =
                  [hasEnc |-> TRUE, open |-> TRUE, pw |-> call[c].pw, list |-> call[c].list]]
    /\ Resume(c, CASE call[c].op = "enable" -> "scrub"
                   [] call[c].op = "change" -> "reread"
                   [] OTHER -> "reinit")
    /\ lastPassword' = IF call[c].op \in {"enable", "change"} THEN call[c].pw ELSE lastPassword
    /\ UNCHANGED <<plain, listed, keyStore, accounts, promised, gone>>

\* Mutant: the cache is filled before the write that is refused.
CommitRefusedAfterCache(c) ==
    /\ StorageFills /\ call[c].pc = "commit"
    /\ mem' = [mem EXCEPT ![c[1]] =
                  [hasEnc |-> TRUE, open |-> TRUE, pw |-> call[c].pw, list |-> call[c].list]]
    /\ Finish(c)
    /\ UNCHANGED <<storageVars, keyStore, accounts, historyVars>>

\* Mutant: the plaintext keys are removed before the write that is refused.
CommitRefusedAfterScrub(c) ==
    /\ StorageFills /\ call[c].pc = "commit"
    /\ IF call[c].op = "enable" THEN ScrubPlain ELSE UNCHANGED plain
    /\ Finish(c)
    /\ UNCHANGED <<blob, listed, mem, keyStore, accounts, historyVars>>

\* localStorage.setItem throws before anything has changed.
CommitRefused(c) ==
    /\ StorageFills /\ call[c].pc = "commit"
    /\ Finish(c)
    /\ UNCHANGED <<storageVars, mem, keyStore, accounts, historyVars>>

\* unlockWallet reads the cache and goes on to set its keys; with no cache and
\* no password getEncryptedData throws.
LoadFromCache(c) ==
    IF mem[c[1]].open
    THEN call' = [call EXCEPT ![c].pc = "setKeys", ![c].list = mem[c[1]].list]
    ELSE Finish(c)

\* Mutants: the wallet is rebuilt but not unlocked; the account list is not read.
ReinitWithoutUnlock(c) ==
    LET t == c[1] IN
    /\ call[c].pc = "reinit"
    /\ keyStore' = [keyStore EXCEPT ![t] = NewStore(mem[t].hasEnc)]
    /\ IF mem[t].hasEnc THEN ScrubPlain ELSE UNCHANGED plain
    /\ accounts' = [accounts EXCEPT ![t] = listed]
    /\ Resume(c, IF call[c].op = "save" THEN "list" ELSE "deactivate")
    /\ UNCHANGED <<blob, listed, mem, historyVars>>

ReinitForgetsAccounts(c) ==
    LET t == c[1] IN
    /\ call[c].pc = "reinit"
    /\ keyStore' = [keyStore EXCEPT ![t] = NewStore(mem[t].hasEnc)]
    /\ IF mem[t].hasEnc THEN ScrubPlain ELSE UNCHANGED plain
    /\ accounts' = [accounts EXCEPT ![t] = {}]
    /\ LoadFromCache(c)
    /\ UNCHANGED <<blob, listed, mem, historyVars>>

\* wallet.init, then unlockWallet.
Reinit(c) ==
    LET t == c[1] IN
    /\ call[c].pc = "reinit"
    /\ keyStore' = [keyStore EXCEPT ![t] = NewStore(mem[t].hasEnc)]
    /\ IF mem[t].hasEnc THEN ScrubPlain ELSE UNCHANGED plain
    /\ accounts' = [accounts EXCEPT ![t] = listed]
    /\ LoadFromCache(c)
    /\ UNCHANGED <<blob, listed, mem, historyVars>>

\* unlockWallet's setKey of every entry: one stretch, in the store of the moment.
SetKeys(c) ==
    LET t == c[1] IN
    /\ call[c].pc = "setKeys"
    /\ IF keyStore[t].kind = "browser"
       THEN plain' = Loaded(plain, call[c].list) /\ UNCHANGED keyStore
       ELSE /\ keyStore' = [keyStore EXCEPT ![t].ram = Loaded(@, call[c].list)]
            /\ UNCHANGED plain
    /\ CASE call[c].op = "save" -> Resume(c, "list")
         [] call[c].op = "remove" -> Resume(c, "deactivate")
         [] call[c].op = "disable" -> Resume(c, "drop")
         [] OTHER -> Finish(c)
    /\ UNCHANGED <<blob, listed, mem, accounts, historyVars>>

\* Mutant: a refused setKey is not waited for (Promise.allSettled).
SetKeysRefusalIgnored(c) ==
    /\ StorageFills /\ call[c].pc = "setKeys" /\ keyStore[c[1]].kind = "browser"
    /\ plain' \in PartlyLoaded(plain, call[c].list)
    /\ IF call[c].op = "disable" THEN Resume(c, "drop") ELSE Finish(c)
    /\ UNCHANGED <<blob, listed, mem, keyStore, accounts, historyVars>>

\* A setKey of the browser store is refused, whichever others are written.
SetKeysRefused(c) ==
    /\ StorageFills /\ call[c].pc = "setKeys" /\ keyStore[c[1]].kind = "browser"
    /\ plain' \in PartlyLoaded(plain, call[c].list)
    /\ Finish(c)
    /\ UNCHANGED <<blob, listed, mem, keyStore, accounts, historyVars>>

-----------------------------------------------------------------------------
(* saveAccount, and addLedgerAccountId followed by saveAccount for an      *)
(* account without a key.                                                  *)

StartSave(c, a, k) ==
    LET t == c[1] IN
    /\ MayStart(c, "save") /\ Together(c, a)
    /\ (k = NoKey) <=> (a \in LedgerAccounts)
    /\ accounts' = IF k = NoKey THEN accounts ELSE [accounts EXCEPT ![t] = listed]
    /\ promised' = [promised EXCEPT ![a] = IF @ = {} \/ k = NoKey THEN @ ELSE @ \union {k}]
    /\ gone' = gone \ {a}
    /\ call' = [call EXCEPT ![c] =
                   [NoCall EXCEPT !.pc = IF mem[t].hasEnc THEN "encrypt" ELSE "list",
                                  !.op = "save", !.id = a, !.key = k,
                                  !.list = IF mem[t].hasEnc THEN mem[t].list ELSE <<>>]]
    /\ IF mem[t].hasEnc \/ k = NoKey
       THEN UNCHANGED <<plain, keyStore>>
       ELSE PutKey(t, a, k)
    /\ UNCHANGED <<blob, listed, mem, lastPassword>>

\* this.accounts[accountId] = true; this.save(): the list is written from the
\* copy that the tab holds by now.
ListAccount(c) ==
    LET t == c[1]
        a == call[c].id
        known == (IF call[c].key = NoKey THEN listed ELSE accounts[t]) \union {a} IN
    /\ call[c].pc = "list"
    /\ accounts' = [accounts EXCEPT ![t] = known]
    /\ listed' = known
    /\ promised' = IF call[c].key = NoKey THEN promised
                   ELSE [promised EXCEPT ![a] = {call[c].key}]
    /\ Finish(c)
    /\ UNCHANGED <<plain, blob, mem, keyStore, gone, lastPassword>>

\* save() is refused: the key is kept, the account is in the tab's copy alone.
ListRefused(c) ==
    LET t == c[1] IN
    /\ StorageFills /\ call[c].pc = "list"
    /\ accounts' = [accounts EXCEPT ![t] =
                       (IF call[c].key = NoKey THEN listed ELSE @) \union {call[c].id}]
    /\ Finish(c)
    /\ UNCHANGED <<storageVars, mem, keyStore, historyVars>>

\* makeAccountActive, whose save() also writes the tab's copy of the list.
SwitchAccount(t) ==
    /\ "switch" \in Operations /\ ~Locked(t)
    /\ accounts[t] # {}
    /\ listed' = accounts[t]
    /\ UNCHANGED <<plain, blob, mem, keyStore, accounts, call, historyVars>>

-----------------------------------------------------------------------------
(* removeWalletAccount, and what its callers do next.                      *)

\* The account leaves the list before its key leaves the store.  A caller
\* removing several accounts goes from one to the next (pc "switch").
StartRemove(c, a) ==
    LET t == c[1]
        rest == listed \ {a} IN
    /\ "remove" \in Operations /\ ~Locked(t)
    /\ call[c].pc \in {"idle", "switch"} /\ Alone(c)
    /\ a \in listed
    /\ accounts' = [accounts EXCEPT ![t] = rest]
    /\ listed' = rest
    /\ promised' = [promised EXCEPT ![a] = {}]
    /\ call' = [call EXCEPT ![c] =
                   [NoCall EXCEPT !.pc = IF mem[t].hasEnc THEN "encrypt" ELSE "deactivate",
                                  !.op = "remove", !.id = a, !.rest = rest,
                                  !.list = IF mem[t].hasEnc THEN mem[t].list ELSE <<>>]]
    /\ IF mem[t].hasEnc
       THEN UNCHANGED <<plain, keyStore>>
       ELSE PutKey(t, a, NoKey)
    /\ UNCHANGED <<blob, mem, gone, lastPassword>>

\* removeActiveAccount and removeAccountConfirmed; the removal is reported.
Deactivate(c) ==
    /\ call[c].pc = "deactivate"
    /\ gone' = gone \union {call[c].id}
    /\ Resume(c, "switch")
    /\ UNCHANGED <<storageVars, mem, keyStore, accounts, promised, lastPassword>>

-----------------------------------------------------------------------------
(* Loading the page, and the operations on the password.                   *)

\* A tab loads or reloads, whatever it was doing: initializeStoredWalletData,
\* then the Wallet constructor.
Load(t) ==
    /\ mem' = [mem EXCEPT ![t] = [hasEnc |-> blob.on, open |-> FALSE,
                                  pw |-> NoPassword, list |-> <<>>]]
    /\ keyStore' = [keyStore EXCEPT ![t] = NewStore(blob.on)]
    /\ IF blob.on THEN ScrubPlain ELSE UNCHANGED plain
    /\ accounts' = [accounts EXCEPT ![t] = listed]
    /\ call' = [c \in Calls |-> IF c[1] = t THEN NoCall ELSE call[c]]
    /\ UNCHANGED <<blob, historyVars>>

Reload(t) == Load(t) /\ UNCHANGED listed

\* After a removal: switchAccount to an account left in the list the removal
\* returned, or a reload when none is left.
SwitchAway(c) ==
    LET t == c[1] IN
    /\ call[c].pc = "switch"
    /\ IF call[c].rest = {}
       THEN Load(t) /\ UNCHANGED listed
       ELSE /\ \E a \in call[c].rest :
                  listed' = IF a \in accounts[t] THEN accounts[t] ELSE listed
            /\ Finish(c)
            /\ UNCHANGED <<plain, blob, mem, keyStore, accounts, historyVars>>

\* UnlockWalletPage: a cache, once there, is used whatever the password.
StartUnlock(c, pw) ==
    /\ "unlock" \in Operations /\ Idle(c) /\ Alone(c) /\ mem[c[1]].hasEnc
    /\ call' = [call EXCEPT ![c] =
                   [NoCall EXCEPT !.op = "unlock", !.pw = pw,
                                  !.pc = IF mem[c[1]].open THEN "setKeys" ELSE "decrypt",
                                  !.list = mem[c[1]].list]]
    /\ UNCHANGED <<storageVars, mem, keyStore, accounts, historyVars>>

\* getEncryptedData past the hash of the password: the blob is read now.
Decrypt(c) ==
    LET t == c[1] IN
    /\ call[c].pc = "decrypt"
    /\ IF blob.on /\ blob.pw = call[c].pw
       THEN /\ mem' = [mem EXCEPT ![t].open = TRUE, ![t].pw = blob.pw, ![t].list = blob.list]
            /\ call' = [call EXCEPT ![c].pc = "setKeys", ![c].list = blob.list]
       ELSE Finish(c) /\ UNCHANGED mem
    /\ UNCHANGED <<storageVars, keyStore, accounts, historyVars>>

\* enablePasswordEncryption reads the plaintext keys before its first await.
StartEnable(c, pw) ==
    /\ MayStart(c, "enable") /\ ~mem[c[1]].hasEnc
    /\ \E list \in SetToSeqs(PlainEntries) :
          call' = [call EXCEPT ![c] = [NoCall EXCEPT !.pc = "commit", !.op = "enable",
                                                     !.pw = pw, !.list = list]]
    /\ UNCHANGED <<storageVars, mem, keyStore, accounts, historyVars>>

Scrub(c) ==
    LET t == c[1] IN
    /\ call[c].pc = "scrub"
    /\ ScrubPlain
    /\ keyStore' = [keyStore EXCEPT ![t] = ReplacedStore(@, "memory")]
    /\ LoadFromCache(c)
    /\ UNCHANGED <<blob, listed, mem, accounts, historyVars>>

\* disablePasswordEncryption, entered with a password that isPasswordGood.
StartDisable(c) ==
    LET t == c[1] IN
    /\ MayStart(c, "disable") /\ mem[t].hasEnc
    /\ keyStore' = [keyStore EXCEPT ![t] = ReplacedStore(@, "browser")]
    /\ call' = [call EXCEPT ![c] = [NoCall EXCEPT !.pc = "setKeys", !.op = "disable",
                                                  !.list = mem[t].list]]
    /\ UNCHANGED <<storageVars, mem, accounts, historyVars>>

\* removeEncryptedData, once every key is in the browser's store.
Drop(c) ==
    LET t == c[1] IN
    /\ call[c].pc = "drop"
    /\ blob' = [on |-> FALSE, pw |-> NoPassword, list |-> <<>>]
    /\ mem' = [mem EXCEPT ![t] = [hasEnc |-> FALSE, open |-> FALSE,
                                  pw |-> NoPassword, list |-> <<>>]]
    /\ Finish(c)
    /\ UNCHANGED <<plain, listed, keyStore, accounts, historyVars>>

\* changeEncryptionPassword, entered with the old password confirmed.
StartChange(c, pw) ==
    LET t == c[1] IN
    /\ MayStart(c, "change") /\ mem[t].hasEnc
    /\ call' = [call EXCEPT ![c] = [NoCall EXCEPT !.pc = "commit", !.op = "change",
                                                  !.pw = pw, !.list = mem[t].list]]
    /\ UNCHANGED <<storageVars, mem, keyStore, accounts, historyVars>>

\* Its unlockWallet, past the write.
Reread(c) ==
    /\ call[c].pc = "reread"
    /\ LoadFromCache(c)
    /\ UNCHANGED <<storageVars, mem, keyStore, accounts, historyVars>>

-----------------------------------------------------------------------------
Init ==
    /\ plain = EmptyStore
    /\ blob = [on |-> FALSE, pw |-> NoPassword, list |-> <<>>]
    /\ listed = {}
    /\ mem = [t \in Tabs |-> [hasEnc |-> FALSE, open |-> FALSE,
                              pw |-> NoPassword, list |-> <<>>]]
    /\ keyStore = [t \in Tabs |-> NewStore(FALSE)]
    /\ accounts = [t \in Tabs |-> {}]
    /\ call = [c \in Calls |-> NoCall]
    /\ promised = [a \in Accounts |-> {}]
    /\ gone = {}
    /\ lastPassword = NoPassword

\* The user starts an operation, in a tab that is free to take it.
Start(c) ==
    \/ \E a \in Accounts, k \in MaybeKey : StartSave(c, a, k)
    \/ \E a \in Accounts : StartRemove(c, a)
    \/ \E pw \in Passwords : StartUnlock(c, pw) \/ StartEnable(c, pw) \/ StartChange(c, pw)
    \/ StartDisable(c)

\* A call goes on past an await.
Continue(c) ==
    \/ Encrypt(c) \/ Commit(c) \/ CommitRefused(c) \/ Reinit(c)
    \/ SetKeys(c) \/ SetKeysRefused(c) \/ ListAccount(c) \/ ListRefused(c)
    \/ Deactivate(c) \/ SwitchAway(c)
    \/ Decrypt(c) \/ Scrub(c) \/ Drop(c) \/ Reread(c)

Next ==
    \/ \E c \in Calls : Start(c) \/ Continue(c)
    \/ \E t \in Tabs : SwitchAccount(t) \/ Reload(t)

Spec == Init /\ [][Next]_vars

-----------------------------------------------------------------------------
(* Properties.                                                             *)

List == Seq(Entry)
MaybePassword == Passwords \union {NoPassword}
StoreType == [Accounts -> MaybeKey]
BlobType == [on : BOOLEAN, pw : MaybePassword, list : List]
MemType == [hasEnc : BOOLEAN, open : BOOLEAN, pw : MaybePassword, list : List]
KeyStoreType == [kind : {"memory", "browser"}, ram : StoreType,
                 signer : {"keyStore", "browser", "frozen"}, frozen : StoreType]
CallType ==
    [pc : {"idle", "encrypt", "commit", "reinit", "setKeys", "list", "deactivate",
           "switch", "decrypt", "scrub", "drop", "reread"},
     op : {"none", "save", "remove", "unlock", "enable", "disable", "change"},
     id : Accounts \union {NoAccount}, key : MaybeKey, pw : MaybePassword,
     list : List, rest : SUBSET Accounts]

\* Every variable holds a value the program's data types allow, and a call that
\* saves or removes an account names one.
TypeOK ==
    /\ plain \in StoreType
    /\ blob \in BlobType
    /\ listed \in SUBSET Accounts
    /\ mem \in [Tabs -> MemType]
    /\ keyStore \in [Tabs -> KeyStoreType]
    /\ accounts \in [Tabs -> SUBSET Accounts]
    /\ call \in [Calls -> CallType]
    /\ \A c \in Calls :
          call[c].op \in {"save", "remove"} \/ call[c].pc \in {"list", "deactivate"}
              => call[c].id \in Accounts
    /\ promised \in [Accounts -> SUBSET Keys]
    /\ gone \in SUBSET Accounts
    /\ lastPassword \in MaybePassword

\* What a page load, and an unlock with the right password, would bring back.
Recoverable(a) == IF blob.on THEN KeyIn(blob.list, a) ELSE plain[a]

\* A key that the wallet reported as saved can be read back from what is stored,
\* at every instant: in the middle of turning the password on or off, of
\* changing it, of saving or removing other accounts, wherever a reload cuts in.
SavedKeysAreRecoverable ==
    \A a \in Accounts : promised[a] # {} => Recoverable(a) \in promised[a]

\* An account whose key was reported as saved is in the list of imported
\* accounts, without which the wallet never shows it again.
SavedAccountsAreListed ==
    \A a \in Accounts : promised[a] # {} => a \in listed

Settled(t) == ~Locked(t) /\ \A l \in Lanes : call[<<t, l>>].pc \in {"idle", "switch"}

\* An unlocked tab with nothing under way holds in its key store, for every
\* saved account, the key that was saved (the comment of step 4 of
\* updateEncryptedAccountList: the right key store with the updated keys).
SettledStoreHoldsSavedKeys ==
    \A t \in Tabs : Settled(t) =>
        \A a \in Accounts : promised[a] # {} => StoreKey(t, a) \in promised[a]

\* The blob opens with the password that was set last and with no other: no
\* later save or removal brings an older password back.
BlobHasLastPassword == blob.on => blob.pw = lastPassword

\* Removing an account permanently deletes its locally stored keys
\* (the warning of the removal screen): none can be read back.
RemovedKeysAreNotRecoverable == \A a \in gone : Recoverable(a) = NoKey

\* One account's stored keys are never touched on behalf of another: a removal
\* takes the key of the removed account alone.
RemovalTakesItsOwnKey ==
    [][\A c \in Calls, b \in Accounts :
          call[c].pc = "commit" /\ call[c].op = "remove" /\ call'[c].pc = "reinit"
          /\ b # call[c].id
              => KeyIn(blob'.list, b) = KeyIn(blob.list, b)]_vars

\* The vault is a book of keys: a step of it writes or erases the key of the one account
\* that is saved or removed, or changes no key; turning the password off may bring keys
\* of removed accounts back.
PasswordStaysOn == "disable" \notin Operations
Book == INSTANCE KeyBook WITH
            book <- [a \in Accounts |-> Recoverable(a)], told <- promised,
            Resurfaces <- ~PasswordStaysOn
KeepsTheBook == Book!Spec

-----------------------------------------------------------------------------
(* Why the saved keys stay recoverable in a single tab: the inductive      *)
(* invariant that KeyVaultProofs proves.  Each part is what the code       *)
(* relies on silently.                                                     *)

OneTab == \A s, t \in Tabs : s = t
OneCallAtATime == OneTab /\ (\A l, m \in Lanes : l = m)
NoLedgerAccounts == LedgerAccounts = {}
\* What the code does not survive, as the runs on parallel imports and on removing a
\* Ledger account show, does not happen: while the password is on no account without
\* a local key is removed, and no account is imported next to another call.
OneByOneUnderPassword ==
    /\ \A c \in Calls, a \in LedgerAccounts : StartRemove(c, a) => ~blob.on
    /\ \A c \in Calls, a \in Accounts, k \in MaybeKey :
          StartSave(c, a, k) => ~blob.on \/ Alone(c)

CarefulSpec == Init /\ [][Next /\ OneByOneUnderPassword]_vars

UniqueIds(list) == \A i, j \in DOMAIN list : list[i].id = list[j].id => i = j

\* The tab knows whether the keys are encrypted; an unlocked cache is the blob;
\* without a blob the key store is the browser's.
CacheAgrees ==
    \A t \in Tabs :
        /\ mem[t].hasEnc = blob.on
        /\ mem[t].open => blob.on /\ mem[t].pw = blob.pw /\ mem[t].list = blob.list
        /\ ~blob.on => keyStore[t].kind = "browser"

\* No list of accounts names an account twice.
ListsAreMaps ==
    /\ UniqueIds(blob.list)
    /\ \A t \in Tabs : UniqueIds(mem[t].list)
    /\ \A c \in Calls : UniqueIds(call[c].list)

\* Every account that storage or a tab lists has a key, unless it is a Ledger account:
\* without it, removing the account would take another one's.
ListedHaveKeys ==
    \A a \in Accounts \ LedgerAccounts, t \in Tabs :
        a \in listed \union accounts[t] => Recoverable(a) # NoKey

\* No key is ever stored for a Ledger account.
LedgerAccountsHaveNoKey ==
    \A a \in LedgerAccounts : plain[a] = NoKey /\ KeyIn(blob.list, a) = NoKey

SavedAccountsStayListed ==
    \A a \in Accounts, t \in Tabs : promised[a] # {} => a \in listed \intersect accounts[t]

\* Calls run one at a time, but for saves without a password: each has its key in the
\* browser's store and is about to list its account.
Parked(c) == ~blob.on /\ call[c].op = "save" /\ call[c].pc = "list"
CallsTakeTurns ==
    \A c, d \in Calls : c # d =>
        Idle(c) \/ Idle(d) \/ (Parked(c) /\ Parked(d) /\ call[c].id # call[d].id)

\* What a call has established at each of its awaits.
SaveOnCourse(c) ==
    LET k == call[c] IN
    k.op = "save" =>
        /\ (k.key = NoKey) <=> (k.id \in LedgerAccounts)
        /\ k.id \notin gone
        /\ promised[k.id] # {} => k.key \in promised[k.id]
        /\ k.pc \in {"encrypt", "commit", "reinit", "setKeys", "list"}
        /\ k.pc = "encrypt" => k.list = blob.list
        /\ k.pc = "commit" =>
              /\ k.pw = blob.pw
              /\ k.list = IF k.key = NoKey THEN blob.list
                          ELSE Upserted(blob.list, k.id, k.key)
        /\ k.pc \in {"reinit", "setKeys", "list"} => Recoverable(k.id) = k.key

RemovalOnCourse(c) ==
    LET k == call[c] IN
    k.op = "remove" =>
        /\ promised[k.id] = {} /\ k.id \notin listed \union accounts[c[1]]
        /\ k.pc \in {"encrypt", "commit", "reinit", "setKeys", "deactivate", "switch"}
        /\ k.pc \in {"encrypt", "commit"} => Positions(blob.list, k.id) # {}
        /\ k.pc = "encrypt" => k.list = blob.list
        /\ k.pc = "commit" => k.pw = blob.pw /\ k.list = Spliced(blob.list, k.id)
        /\ k.pc \in {"reinit", "setKeys", "deactivate", "switch"} => Recoverable(k.id) = NoKey

PasswordCallOnCourse(c) ==
    LET k == call[c] IN
    /\ k.op = "none" => k.pc = "idle"
    /\ k.op = "unlock" => k.pc \in {"decrypt", "setKeys"}
    /\ k.op = "enable" => k.pc \in {"commit", "scrub", "setKeys"}
    /\ k.op = "change" => k.pc \in {"commit", "reread", "setKeys"}
    /\ k.op = "disable" =>
          "disable" \in Operations /\ k.pc \in {"setKeys", "drop"} /\ keyStore[c[1]].kind = "browser"
    /\ k.op = "enable" /\ k.pc = "commit" =>
          ~blob.on /\ \A a \in Accounts : KeyIn(k.list, a) = plain[a]
    /\ k.op = "change" /\ k.pc = "commit" => k.list = blob.list
    /\ k.pc = "drop" =>
          \A a \in Accounts : KeyIn(blob.list, a) # NoKey => plain[a] = KeyIn(blob.list, a)

\* Past its first await no call but that of "enable" runs without a blob; and
\* what a call sets as keys is what the blob holds.
OnCourse(c) ==
    /\ SaveOnCourse(c) /\ RemovalOnCourse(c) /\ PasswordCallOnCourse(c)
    /\ call[c].pc \in {"encrypt", "commit", "reinit", "setKeys", "scrub", "reread"} /\
       ~(call[c].op = "enable" /\ call[c].pc = "commit") => blob.on /\ mem[c[1]].open
    /\ call[c].pc \in {"setKeys", "drop"} => blob.on
    /\ call[c].pc = "setKeys" => call[c].list = blob.list

CallsOnCourse == \A c \in Calls : OnCourse(c)

\* While no one turns the password off, a removed key is nowhere.
RemovedStayRemoved == PasswordStaysOn => RemovedKeysAreNotRecoverable

KeysKept ==
    /\ CacheAgrees /\ ListsAreMaps /\ ListedHaveKeys /\ LedgerAccountsHaveNoKey
    /\ SavedAccountsStayListed /\ CallsTakeTurns /\ CallsOnCourse
    /\ SavedKeysAreRecoverable /\ BlobHasLastPassword /\ RemovedStayRemoved
=============================================================================
