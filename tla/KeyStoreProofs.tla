--------------------------- MODULE KeyStoreProofs ---------------------------
(***************************************************************************)
(* The key store of a tab, which is rebuilt and filled again whenever the  *)
(* encrypted list was written, agrees with what is stored by the time a    *)
(* call is over.                                                           *)
(***************************************************************************)
EXTENDS KeyVaultProofs

\* The instants at which the store has not been filled since it was built.
Refilling == {"scrub", "reinit", "setKeys"}

\* The store in memory is filled with the keys of the blob.
HoldsBlob(t) ==
    \A a \in Accounts : KeyIn(blob.list, a) # NoKey => keyStore[t].ram[a] = KeyIn(blob.list, a)

\* What must not happen: localStorage refuses a key while the password is turned off,
\* and the tab goes on signing from the store it has half filled.
TurnsOffWhole == PasswordStaysOn \/ ~StorageFills

\* Next to a blob there is a store in memory, but for the instant at which the
\* password is turned on and while it is turned off; an unlocked tab has it filled,
\* but for the instants above.
StoreFollowsBlob ==
    \A t \in Tabs : blob.on /\ (\A c \in Calls : call[c].op # "disable") =>
        /\ (\A c \in Calls : call[c].pc # "scrub") => keyStore[t].kind = "memory"
        /\ mem[t].open /\ (\A c \in Calls : call[c].pc \notin Refilling) => HoldsBlob(t)

StoreInv == TypeOK /\ KeysKept /\ StoreFollowsBlob

-----------------------------------------------------------------------------
(* Each step keeps it.                                                     *)

\* What the tab has, seen from the call that is about to go on.
LEMMA StoreHere ==
  ASSUME Good, StoreFollowsBlob, NEW c \in Calls, blob.on, call[c].op # "disable",
         \A d \in Calls : d # c => Idle(d)
  PROVE  /\ call[c].pc # "scrub" => keyStore[c[1]].kind = "memory"
         /\ mem[c[1]].open /\ call[c].pc \notin Refilling => HoldsBlob(c[1])
<1>1. \A d \in Calls : Idle(d) => call[d].op # "disable" /\ call[d].pc = "idle"
  BY DEF Good, KeysKept, CallsOnCourse, OnCourse, PasswordCallOnCourse, Idle
<1>2. c[1] \in Tabs
  BY DEF Calls
<1> QED  BY <1>1, <1>2 DEF StoreFollowsBlob, Refilling

\* What the call that took the step leaves is what there is to show.
LEMMA StoreOfTheCall ==
  ASSUME OneTab, NEW c \in Calls,
         blob'.on /\ call'[c].op # "disable" /\ call'[c].pc # "scrub" =>
            keyStore'[c[1]].kind = "memory",
         blob'.on /\ mem'[c[1]].open /\ call'[c].op # "disable" /\ call'[c].pc \notin Refilling =>
            HoldsBlob(c[1])'
  PROVE  StoreFollowsBlob'
<1>1. \A t \in Tabs : t = c[1]
  BY OnlyTab
<1> QED  BY <1>1 DEF StoreFollowsBlob

\* A call that leaves the store alone, and neither unlocks nor rewrites the list, may
\* wait wherever the store is filled, or end.
LEMMA StoreUntouched ==
  ASSUME Good, StoreFollowsBlob, NEW c \in Calls,
         blob.on => \A d \in Calls : d # c => Idle(d),
         UNCHANGED keyStore, mem'[c[1]].open => mem[c[1]].open, blob' = blob,
         call[c].pc \notin Refilling \/ ~mem[c[1]].open,
         call[c].pc # "scrub", call[c].op # "disable"
  PROVE  StoreFollowsBlob'
<1>1. blob'.on => keyStore'[c[1]].kind = "memory"
  BY StoreHere
<1>2. blob'.on /\ mem'[c[1]].open => HoldsBlob(c[1])'
  <2>1. blob.on /\ mem[c[1]].open => HoldsBlob(c[1])
    BY StoreHere
  <2> QED  BY <2>1 DEF HoldsBlob
<1> QED  BY <1>1, <1>2, StoreOfTheCall DEF Good

\* Where a call that turns the password off can be, and from what it follows.
LEMMA Disabling ==
  ASSUME Good, NEW c \in Calls, call[c].op = "disable"
  PROVE  call[c].pc \in {"setKeys", "drop"} /\ ~PasswordStaysOn
BY DEF Good, KeysKept, CallsOnCourse, OnCourse, PasswordCallOnCourse, PasswordStaysOn

\* The start of an operation.
LEMMA StoreAtStart ==
  ASSUME Good, StoreFollowsBlob, NEW c \in Calls, Start(c), OneByOneUnderPassword
  PROVE  StoreFollowsBlob'
<1> USE DEF Good
<1>1. ASSUME NEW a \in Accounts, NEW k \in MaybeKey, StartSave(c, a, k)
      PROVE  StoreFollowsBlob'
  <2>1. CASE mem[c[1]].hasEnc
    <3>1. blob.on
      BY <2>1, GoodCall
    <3>2. \A d \in Calls : d # c => Idle(d)
      BY <1>1, <3>1, OthersIdle DEF OneByOneUnderPassword
    <3>3. call[c].pc = "idle" /\ blob' = blob /\ mem' = mem /\ keyStore' = keyStore
      BY <1>1, <2>1 DEF StartSave, MayStart, Idle
    <3> QED  BY <3>2, <3>3, Disabling, StoreUntouched DEF Refilling
  <2>2. CASE ~mem[c[1]].hasEnc
    <3>1. ~blob'.on
      BY <1>1, <2>2, GoodCall DEF StartSave
    <3> QED  BY <3>1, StoreOfTheCall
  <2> QED  BY <2>1, <2>2
<1>2. ASSUME NEW a \in Accounts, StartRemove(c, a)
      PROVE  StoreFollowsBlob'
  <2>1. CASE mem[c[1]].hasEnc
    <3>1. \A d \in Calls : d # c => Idle(d)
      BY <1>2, OthersIdle DEF StartRemove
    <3>2. call[c].pc \in {"idle", "switch"} /\ blob' = blob /\ mem' = mem /\ keyStore' = keyStore
      BY <1>2, <2>1 DEF StartRemove
    <3> QED  BY <3>1, <3>2, Disabling, StoreUntouched DEF Refilling
  <2>2. CASE ~mem[c[1]].hasEnc
    <3>1. ~blob'.on
      BY <1>2, <2>2, GoodCall DEF StartRemove
    <3> QED  BY <3>1, StoreOfTheCall
  <2> QED  BY <2>1, <2>2
<1>3. ASSUME NEW pw \in Passwords, StartUnlock(c, pw) \/ StartEnable(c, pw) \/ StartChange(c, pw)
      PROVE  StoreFollowsBlob'
  <2>1. \A d \in Calls : d # c => Idle(d)
    BY <1>3, OthersIdle DEF StartUnlock, StartEnable, StartChange, MayStart
  <2>2. call[c].pc = "idle" /\ blob' = blob /\ mem' = mem /\ keyStore' = keyStore
    BY <1>3 DEF StartUnlock, StartEnable, StartChange, MayStart, Idle, storageVars
  <2> QED  BY <2>1, <2>2, Disabling, StoreUntouched DEF Refilling
<1>4. CASE StartDisable(c)
  <2>1. call'[c].op = "disable"
    BY <1>4 DEF StartDisable, NoCall, TypeOK
  <2> QED  BY <2>1, StoreOfTheCall
<1> QED  BY <1>1, <1>2, <1>3, <1>4 DEF Start

\* A rebuilt store is one in memory when the password is on; it is filled next, or
\* the tab has no cache to fill it from.
LEMMA StoreRebuilt ==
  ASSUME Good, NEW c \in Calls, Reinit(c) \/ Scrub(c)
  PROVE  StoreFollowsBlob'
<1> USE DEF Good
<1>1. blob'.on => keyStore'[c[1]].kind = "memory"
  <2>1. c[1] \in Tabs
    BY DEF Calls
  <2>2. CASE Reinit(c)
    BY <2>1, <2>2 DEF Reinit, NewStore, KeysKept, CacheAgrees, TypeOK
  <2>3. CASE Scrub(c)
    BY <2>1, <2>3 DEF Scrub, ReplacedStore, TypeOK
  <2> QED  BY <2>2, <2>3
<1>2. mem' = mem /\ (mem[c[1]].open => call'[c].pc = "setKeys")
  BY DEF Reinit, Scrub, LoadFromCache, TypeOK, CallType
<1> QED  BY <1>1, <1>2, StoreOfTheCall DEF Refilling

\* What setKeys writes is the list of the blob; it is refused only where the password
\* stays on, and then not in memory.
LEMMA StoreFilled ==
  ASSUME Good, StoreFollowsBlob, TurnsOffWhole, NEW c \in Calls, SetKeys(c) \/ SetKeysRefused(c)
  PROVE  StoreFollowsBlob'
<1> USE DEF Good
<1>1. c[1] \in Tabs /\ call[c].pc = "setKeys" /\ blob' = blob
  BY DEF Calls, SetKeys, SetKeysRefused
<1>2. blob.on /\ call[c].list = blob.list
  BY <1>1 DEF KeysKept, CallsOnCourse, OnCourse
<1>3. CASE call[c].op = "disable"
  <2>1. SetKeys(c)
    BY <1>3, Disabling DEF TurnsOffWhole, SetKeysRefused
  <2>2. call'[c].op = "disable"
    BY <1>3, <2>1 DEF SetKeys, Resume, TypeOK, CallType
  <2> QED  BY <2>2, StoreOfTheCall
<1>4. CASE call[c].op # "disable"
  <2>1. keyStore[c[1]].kind = "memory"
    BY <1>1, <1>2, <1>4, StoreHere, OthersIdle DEF Idle
  <2>2. keyStore' = [keyStore EXCEPT ![c[1]].ram = Loaded(@, blob.list)]
    BY <1>2, <2>1 DEF SetKeys, SetKeysRefused
  <2>3. keyStore'[c[1]].kind = "memory"
        /\ keyStore'[c[1]].ram = Loaded(keyStore[c[1]].ram, blob.list)
    BY <1>1, <2>1, <2>2 DEF TypeOK, KeyStoreType
  <2>4. HoldsBlob(c[1])'
    BY <1>1, <2>3 DEF HoldsBlob, Loaded, KeyIn
  <2> QED  BY <1>1, <2>3, <2>4, StoreOfTheCall
<1> QED  BY <1>3, <1>4

\* After the list is written the store is to be rebuilt; a new password alone leaves
\* the list as it was.
LEMMA StoreAtCommit ==
  ASSUME Good, StoreFollowsBlob, NEW c \in Calls, Commit(c)
  PROVE  StoreFollowsBlob'
<1> USE DEF Good
<1>1. c[1] \in Tabs /\ call[c].pc = "commit" /\ keyStore' = keyStore
      /\ blob'.list = call[c].list /\ OnCourse(c) /\ call[c].op # "disable"
  BY Disabling DEF Calls, Commit, KeysKept, CallsOnCourse
<1>2. call'[c].pc = CASE call[c].op = "enable" -> "scrub"
                      [] call[c].op = "change" -> "reread"
                      [] OTHER -> "reinit"
  BY DEF Commit, Resume, TypeOK, CallType
<1>3. CASE call[c].op = "enable"
  BY <1>2, <1>3, StoreOfTheCall DEF Refilling
<1>4. CASE call[c].op # "enable"
  <2>1. blob.on /\ mem[c[1]].open
    BY <1>1, <1>4 DEF OnCourse
  <2>2. keyStore'[c[1]].kind = "memory" /\ HoldsBlob(c[1])
    BY <1>1, <2>1, StoreHere, OthersIdle DEF Idle, Refilling
  <2>3. CASE call[c].op = "change"
    <3>1. blob'.list = blob.list
      BY <1>1, <2>3 DEF OnCourse, PasswordCallOnCourse
    <3>2. keyStore' = keyStore
      BY <1>1
    <3>3. HoldsBlob(c[1])
      BY <2>2
    <3>4. HoldsBlob(c[1])'
      BY <3>1, <3>2, <3>3 DEF HoldsBlob
    <3> QED  BY <2>2, <3>4, StoreOfTheCall
  <2>4. CASE call[c].op # "change"
    BY <1>2, <1>4, <2>2, <2>4, StoreOfTheCall DEF Refilling
  <2> QED  BY <2>3, <2>4
<1> QED  BY <1>3, <1>4

\* A page that was loaded is locked, or has no password.
LEMMA StoreAtLoad ==
  ASSUME Good, NEW t \in Tabs, Load(t)
  PROVE  StoreFollowsBlob'
<1>1. PICK l \in Lanes : TRUE
  BY LanesAssumption
<1>2. <<t, l>> \in Calls /\ <<t, l>>[1] = t
  BY DEF Calls
<1>3. blob' = blob /\ mem'[t].open = FALSE /\ (blob.on => keyStore'[t].kind = "memory")
  BY DEF Load, NewStore, Good, TypeOK
<1> QED  BY <1>2, <1>3, StoreOfTheCall DEF Good

\* The rest of a call.
LEMMA StoreGoesOn ==
  ASSUME Good, StoreFollowsBlob, TurnsOffWhole, NEW c \in Calls, Continue(c)
  PROVE  StoreFollowsBlob'
<1> USE DEF Good
<1>1. CASE Encrypt(c) \/ CommitRefused(c) \/ ListAccount(c) \/ ListRefused(c) \/ Deactivate(c)
           \/ Reread(c)
  <2>1. /\ call[c].pc \in {"encrypt", "commit", "list", "deactivate", "reread"}
        /\ blob' = blob /\ mem' = mem /\ keyStore' = keyStore
    BY <1>1 DEF Encrypt, CommitRefused, ListAccount, ListRefused, Deactivate, Reread, storageVars
  <2>2. blob.on => \A d \in Calls : d # c => Idle(d)
    BY <2>1, OthersIdle DEF Idle
  <2> QED  BY <2>1, <2>2, Disabling, StoreUntouched DEF Refilling
<1>2. CASE Commit(c)
  BY <1>2, StoreAtCommit
<1>3. CASE Reinit(c) \/ Scrub(c)
  BY <1>3, StoreRebuilt
<1>4. CASE SetKeys(c) \/ SetKeysRefused(c)
  BY <1>4, StoreFilled
<1>5. CASE SwitchAway(c)
  <2>1. CASE Load(c[1])
    BY <2>1, StoreAtLoad DEF Calls
  <2>2. CASE ~Load(c[1])
    <3>1. call[c].pc = "switch" /\ blob' = blob /\ mem' = mem /\ keyStore' = keyStore
      BY <1>5, <2>2 DEF SwitchAway
    <3> QED  BY <3>1, OthersIdle, Disabling, StoreUntouched DEF Refilling, Idle
  <2> QED  BY <2>1, <2>2
<1>6. CASE Decrypt(c)
  <2>1. call[c].pc = "decrypt" /\ blob' = blob /\ keyStore' = keyStore
        /\ (call'[c].pc = "setKeys" \/ mem' = mem)
    BY <1>6 DEF Decrypt, storageVars, TypeOK, CallType
  <2>2. CASE mem' = mem
    BY <2>1, <2>2, OthersIdle, Disabling, StoreUntouched DEF Refilling, Idle
  <2>3. CASE call'[c].pc = "setKeys"
    <3>1. blob.on => keyStore'[c[1]].kind = "memory"
      BY <2>1, OthersIdle, Disabling, StoreHere DEF Idle
    <3> QED  BY <2>1, <2>3, <3>1, StoreOfTheCall DEF Refilling
  <2> QED  BY <2>1, <2>2, <2>3
<1>7. CASE Drop(c)
  BY <1>7, StoreOfTheCall DEF Drop
<1> QED  BY <1>1, <1>2, <1>3, <1>4, <1>5, <1>6, <1>7 DEF Continue

LEMMA StoreStep ==
  ASSUME OneTab, TurnsOffWhole, StoreInv, [Next /\ OneByOneUnderPassword]_vars
  PROVE  StoreInv'
<1>1. Good
  BY DEF Good, StoreInv
<1>2. TypeOK' /\ KeysKept'
  BY <1>1, TypeStep, KeptStep DEF Good
<1>3. StoreFollowsBlob'
  <2>1. ASSUME NEW c \in Calls, Start(c), OneByOneUnderPassword
        PROVE  StoreFollowsBlob'
    BY <1>1, <2>1, StoreAtStart DEF StoreInv
  <2>5. ASSUME NEW c \in Calls, Continue(c)
        PROVE  StoreFollowsBlob'
    BY <1>1, <2>5, StoreGoesOn DEF StoreInv
  <2>2. ASSUME NEW t \in Tabs, SwitchAccount(t)
        PROVE  StoreFollowsBlob'
    BY <2>2 DEF SwitchAccount, StoreInv, StoreFollowsBlob, HoldsBlob
  <2>3. ASSUME NEW t \in Tabs, Reload(t)
        PROVE  StoreFollowsBlob'
    BY <1>1, <2>3, StoreAtLoad DEF Reload
  <2>4. CASE UNCHANGED vars
    BY <2>4 DEF vars, StoreInv, StoreFollowsBlob, HoldsBlob
  <2> QED  BY <2>1, <2>2, <2>3, <2>4, <2>5 DEF Next
<1> QED  BY <1>2, <1>3 DEF StoreInv

-----------------------------------------------------------------------------
(* What follows for the user.                                              *)

\* Without a password the store is the plain one, with a password it is filled with
\* what the blob holds: either way with what a load would bring back.
LEMMA SettledStores ==
  ASSUME OneTab, StoreInv, NEW t \in Tabs, Settled(t), NEW a \in Accounts, promised[a] # {}
  PROVE  StoreKey(t, a) \in promised[a]
<1>1. Recoverable(a) \in promised[a] /\ promised[a] \subseteq Keys
  BY DEF StoreInv, KeysKept, SavedKeysAreRecoverable, TypeOK
<1>2. CASE ~blob.on
  BY <1>1, <1>2 DEF StoreInv, KeysKept, CacheAgrees, StoreKey, Recoverable
<1>3. CASE blob.on
  <2>2. ASSUME NEW c \in Calls
        PROVE  call[c].pc \in {"idle", "switch"} /\ call[c].op # "disable"
    <3>1. PICK l \in Lanes : c = <<t, l>>
      BY OnlyTab DEF Calls
    <3>2. call[c].pc \in {"idle", "switch"}
      BY <3>1 DEF Settled
    <3> QED  BY <3>2, Disabling DEF Good, StoreInv
  <2>3. mem[t].open
    BY <1>3 DEF Settled, Locked, StoreInv, KeysKept, CacheAgrees
  <2>4. keyStore[t].kind = "memory" /\ HoldsBlob(t)
    BY <1>3, <2>2, <2>3 DEF StoreInv, StoreFollowsBlob, Refilling
  <2>5. KeyIn(blob.list, a) # NoKey
    BY <1>1, <1>3, SentinelsAssumption DEF Recoverable
  <2> QED  BY <1>1, <1>3, <2>4, <2>5 DEF HoldsBlob, StoreKey, Recoverable
<1> QED  BY <1>2, <1>3

\* In a single tab that is used as CarefulSpec has it, and in which the password is not
\* turned off or no write is refused, an unlocked tab with nothing under way holds every
\* saved key in its store, wherever the page is loaded again.
THEOREM SettledStoresHoldSavedKeys ==
  ASSUME OneTab, TurnsOffWhole
  PROVE  CarefulSpec => []SettledStoreHoldsSavedKeys
<1>1. Init => StoreInv
  BY TypeInit, KeptInit DEF Init, StoreInv, StoreFollowsBlob
<1>2. StoreInv /\ [Next /\ OneByOneUnderPassword]_vars => StoreInv'
  BY StoreStep
<1>3. StoreInv => SettledStoreHoldsSavedKeys
  BY SettledStores DEF SettledStoreHoldsSavedKeys
<1> QED  BY <1>1, <1>2, <1>3, PTL DEF CarefulSpec
=============================================================================
