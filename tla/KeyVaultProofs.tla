--------------------------- MODULE KeyVaultProofs ---------------------------
(* Theorems about KeyVault, for every value of its constants. *)
EXTENDS KeyVault, SequenceTheorems, FiniteSetTheorems, TLAPS

-----------------------------------------------------------------------------
(* Lists of decrypted accounts.                                            *)

LEMMA ListProperties ==
  ASSUME NEW list \in List
  PROVE  /\ Len(list) \in Nat
         /\ DOMAIN list = 1 .. Len(list)
         /\ \A i \in DOMAIN list : list[i] \in Entry
BY LenProperties, ElementOfSeq DEF List

\* A set of naturals has a least element: the intervals below its elements are
\* finite sets, on which strict inclusion is well-founded.
LEMMA LeastElement ==
  ASSUME NEW S, S \subseteq Nat, S # {}
  PROVE  \E i \in S : \A j \in S : i <= j
<1> DEFINE T == {1 .. i : i \in S}
<1>1. T \subseteq FiniteSubsetsOf(Nat) /\ T # {}
  <2>1. ASSUME NEW i \in S
        PROVE  1 .. i \in FiniteSubsetsOf(Nat)
    <3>1. IsFiniteSet(1 .. i)
      BY FS_Interval
    <3> QED  BY <3>1 DEF FiniteSubsetsOf
  <2> QED  BY <2>1
<1>2. IsWellFoundedOn(StrictSubsetOrdering(Nat), FiniteSubsetsOf(Nat))
  BY FS_StrictSubsetOrderingWellFounded
<1>3. \E x \in T : \A y \in T : ~ (<<y, x>> \in StrictSubsetOrdering(Nat))
  <2> HIDE DEF T
  <2> QED  BY <1>1, <1>2, WFMin
<1>4. PICK i \in S : \A j \in S : ~ (<<1 .. j, 1 .. i>> \in StrictSubsetOrdering(Nat))
  BY <1>3
<1>5. ASSUME NEW j \in S, j < i
      PROVE  FALSE
  <2>1. 1 .. j \subseteq 1 .. i /\ 1 .. j # 1 .. i
    <3>1. i \in 1 .. i /\ i \notin 1 .. j
      BY <1>5
    <3> QED  BY <1>5, <3>1
  <2>2. 1 .. j \in SUBSET Nat /\ 1 .. i \in SUBSET Nat
    OBVIOUS
  <2> QED  BY <1>4, <2>1, <2>2 DEF StrictSubsetOrdering
<1> QED  BY <1>5

\* The first entry of an account that has one.
LEMMA FirstPositionIs ==
  ASSUME NEW list \in List, NEW a, Positions(list, a) # {}
  PROVE  /\ FirstPosition(list, a) \in Positions(list, a)
         /\ \A j \in Positions(list, a) : FirstPosition(list, a) <= j
<1>1. Positions(list, a) \subseteq Nat
  BY ListProperties DEF Positions
<1>2. \E i \in Positions(list, a) : \A j \in Positions(list, a) : i <= j
  BY <1>1, LeastElement
<1> QED  BY <1>2 DEF FirstPosition

LEMMA RemoveAtProperties ==
  ASSUME NEW list \in List, NEW i \in 1 .. Len(list)
  PROVE  /\ RemoveAt(list, i) \in List
         /\ Len(RemoveAt(list, i)) = Len(list) - 1
         /\ \A j \in 1 .. Len(list) - 1 :
               RemoveAt(list, i)[j] = IF j < i THEN list[j] ELSE list[j + 1]
<1> DEFINE front == SubSeq(list, 1, i - 1)
           back == SubSeq(list, i + 1, Len(list))
<1>1. Len(list) \in Nat /\ \A j \in 1 .. Len(list) : list[j] \in Entry
  BY ListProperties
<1>2. /\ front \in List /\ Len(front) = i - 1
      /\ \A j \in 1 .. i - 1 : front[j] = list[j]
  <2>1. \A j \in 1 .. i - 1 : list[j] \in Entry
    BY <1>1
  <2> QED  BY <1>1, <2>1, SubSeqProperties DEF List
<1>3. /\ back \in List /\ Len(back) = Len(list) - i
      /\ \A j \in 1 .. Len(list) - i : back[j] = list[j + i]
  <2>1. \A j \in i + 1 .. Len(list) : list[j] \in Entry
    BY <1>1
  <2>2. /\ back \in List
        /\ Len(back) = IF i + 1 <= Len(list) THEN Len(list) - (i + 1) + 1 ELSE 0
        /\ \A j \in 1 .. Len(list) - (i + 1) + 1 : back[j] = list[(i + 1) + j - 1]
    BY <1>1, <2>1, SubSeqProperties DEF List
  <2> QED  BY <1>1, <2>2
<1>4. /\ front \o back \in List
      /\ Len(front \o back) = Len(front) + Len(back)
      /\ \A j \in 1 .. Len(front) + Len(back) :
            (front \o back)[j] = IF j <= Len(front) THEN front[j] ELSE back[j - Len(front)]
  BY <1>2, <1>3, ConcatProperties DEF List
<1>5. RemoveAt(list, i) = front \o back
  BY DEF RemoveAt
<1> HIDE DEF front, back
<1>6. Len(front) + Len(back) = Len(list) - 1
  BY <1>1, <1>2, <1>3
<1>7. \A j \in 1 .. Len(list) - 1 :
         (front \o back)[j] = IF j < i THEN list[j] ELSE list[j + 1]
  <2> TAKE j \in 1 .. Len(list) - 1
  <2>1. (front \o back)[j] = IF j <= Len(front) THEN front[j] ELSE back[j - Len(front)]
    BY <1>4, <1>6
  <2>2. CASE j < i
    BY <1>1, <1>2, <2>1, <2>2
  <2>3. CASE ~ (j < i)
    <3>1. j - Len(front) \in 1 .. Len(list) - i /\ (j - Len(front)) + i = j + 1
      BY <1>1, <1>2, <2>3
    <3> QED  BY <1>1, <1>2, <1>3, <2>1, <2>3, <3>1
  <2> QED  BY <2>2, <2>3
<1> QED  BY <1>4, <1>5, <1>6, <1>7

LEMMA UpsertedType ==
  ASSUME NEW list \in List, NEW a \in Accounts, NEW k \in Keys
  PROVE  Upserted(list, a, k) \in List
<1>1. [id |-> a, key |-> k] \in Entry
  BY DEF Entry
<1>2. CASE Positions(list, a) = {}
  BY <1>1, <1>2, AppendProperties DEF Upserted, List
<1>3. CASE Positions(list, a) # {}
  <2>1. FirstPosition(list, a) \in 1 .. Len(list)
    BY <1>3, FirstPositionIs, ListProperties DEF Positions
  <2> QED  BY <1>1, <1>3, <2>1, ExceptSeq DEF Upserted, List
<1> QED  BY <1>2, <1>3

LEMMA SplicedType ==
  ASSUME NEW list \in List, NEW a
  PROVE  Spliced(list, a) \in List
<1>1. CASE Positions(list, a) # {}
  <2>1. FirstPosition(list, a) \in 1 .. Len(list)
    BY <1>1, FirstPositionIs, ListProperties DEF Positions
  <2> QED  BY <1>1, <2>1, RemoveAtProperties DEF Spliced
<1>2. CASE Positions(list, a) = {} /\ list = <<>>
  BY <1>2 DEF Spliced
<1>3. CASE Positions(list, a) = {} /\ list # <<>>
  <2>1. Len(list) \in 1 .. Len(list)
    BY <1>3, EmptySeq DEF List
  <2> QED  BY <1>3, <2>1, RemoveAtProperties DEF Spliced
<1> QED  BY <1>1, <1>2, <1>3

LEMMA KeyInType ==
  ASSUME NEW list \in List, NEW a
  PROVE  KeyIn(list, a) \in MaybeKey
<1>1. CASE Positions(list, a) # {}
  <2>1. list[FirstPosition(list, a)] \in Entry
    BY <1>1, FirstPositionIs, ListProperties DEF Positions
  <2> QED  BY <1>1, <2>1 DEF KeyIn, Entry, MaybeKey
<1> QED  BY <1>1 DEF KeyIn, MaybeKey

LEMMA LoadedType ==
  ASSUME NEW list \in List, NEW store \in StoreType
  PROVE  Loaded(store, list) \in StoreType
BY KeyInType DEF Loaded, StoreType

-----------------------------------------------------------------------------
(* Type correctness.                                                       *)

LEMMA EmptyStoreType == EmptyStore \in StoreType
BY DEF EmptyStore, StoreType, MaybeKey

LEMMA NewStoreType == \A encrypted : NewStore(encrypted) \in KeyStoreType
BY EmptyStoreType DEF NewStore, KeyStoreType

LEMMA ReplacedStoreType ==
  ASSUME NEW ks \in KeyStoreType, NEW kind \in {"memory", "browser"}
  PROVE  ReplacedStore(ks, kind) \in KeyStoreType
BY EmptyStoreType DEF ReplacedStore, KeyStoreType

LEMMA NoCallType == NoCall \in CallType
BY EmptySeq DEF NoCall, CallType, MaybeKey, MaybePassword, List

LEMMA ScrubPlainType ==
  ASSUME plain \in StoreType, ScrubPlain
  PROVE  plain' \in StoreType
BY DEF ScrubPlain, StoreType, MaybeKey

\* The order in which the browser lists the plaintext keys.
LEMMA PlainEntriesFinite ==
  ASSUME plain \in StoreType
  PROVE  IsFiniteSet(PlainEntries) /\ PlainEntries \subseteq Entry
<1> DEFINE S == {b \in Accounts : plain[b] # NoKey}
           f == [a \in S |-> [id |-> a, key |-> plain[a]]]
<1>1. IsFiniteSet(S)
  BY FiniteAccountsAssumption, FS_Subset
<1>2. f \in Surjection(S, PlainEntries)
  BY DEF Surjection, PlainEntries
<1>3. IsFiniteSet(PlainEntries)
  <2> HIDE DEF S, f
  <2> QED  BY <1>1, <1>2, FS_Surjection
<1>4. PlainEntries \subseteq Entry
  BY DEF PlainEntries, Entry, StoreType, MaybeKey
<1> QED  BY <1>3, <1>4

LEMMA ListingType ==
  ASSUME plain \in StoreType, NEW list \in SetToSeqs(PlainEntries)
  PROVE  list \in List
<1>1. list \in [1 .. Cardinality(PlainEntries) -> PlainEntries]
  BY DEF SetToSeqs
<1>2. Cardinality(PlainEntries) \in Nat
  BY PlainEntriesFinite, FS_CardinalityType
<1>3. list \in [1 .. Cardinality(PlainEntries) -> Entry]
  BY <1>1, PlainEntriesFinite
<1> QED  BY <1>2, <1>3, SeqDef DEF List

\* A call that one step replaces leaves the table of calls well-typed.
CallOK(k) ==
    /\ k \in CallType
    /\ k.op \in {"save", "remove"} \/ k.pc \in {"list", "deactivate"} => k.id \in Accounts

LEMMA NoCallOK == CallOK(NoCall)
BY NoCallType DEF CallOK, NoCall

\* What the typing of one step needs, and what it gives.
TypeRest ==
    /\ plain \in StoreType
    /\ blob \in BlobType
    /\ listed \in SUBSET Accounts
    /\ mem \in [Tabs -> MemType]
    /\ keyStore \in [Tabs -> KeyStoreType]
    /\ accounts \in [Tabs -> SUBSET Accounts]
    /\ promised \in [Accounts -> SUBSET Keys]
    /\ gone \in SUBSET Accounts
    /\ lastPassword \in MaybePassword

LEMMA OneCallChanges ==
  ASSUME TypeOK, NEW c \in Calls, NEW k, CallOK(k), call' = [call EXCEPT ![c] = k], TypeRest'
  PROVE  TypeOK'
BY DEF TypeOK, TypeRest, CallOK

\* The three ways in which a call goes on.
LEMMA FinishType ==
  ASSUME TypeOK, NEW c \in Calls, Finish(c), TypeRest'
  PROVE  TypeOK'
BY NoCallOK, OneCallChanges DEF Finish

LEMMA ResumeType ==
  ASSUME TypeOK, NEW c \in Calls, NEW pc \in {"scrub", "reread", "reinit", "list", "deactivate",
                                              "drop", "switch"},
         Resume(c, pc), TypeRest', pc \in {"list", "deactivate"} => call[c].op \in {"save", "remove"}
  PROVE  TypeOK'
<1> DEFINE k == [call[c] EXCEPT !.pc = pc]
<1>1. CallOK(k)
  BY DEF CallOK, CallType, TypeOK
<1>2. call' = [call EXCEPT ![c] = k]
  BY DEF Resume, TypeOK
<1> HIDE DEF k
<1> QED  BY <1>1, <1>2, OneCallChanges

LEMMA LoadFromCacheType ==
  ASSUME TypeOK, NEW c \in Calls, LoadFromCache(c), TypeRest'
  PROVE  TypeOK'
<1>1. CASE mem[c[1]].open
  <2> DEFINE k == [call[c] EXCEPT !.pc = "setKeys", !.list = mem[c[1]].list]
  <2>1. mem[c[1]].list \in List
    BY DEF TypeOK, Calls, MemType
  <2>2. CallOK(k)
    <3>1. CallOK(call[c])
      BY DEF CallOK, TypeOK
    <3> QED  BY <2>1, <3>1 DEF CallOK, CallType
  <2>3. call' = [call EXCEPT ![c] = k]
    BY <1>1 DEF LoadFromCache, TypeOK
  <2> HIDE DEF k
  <2> QED  BY <2>2, <2>3, OneCallChanges
<1>2. CASE ~ mem[c[1]].open
  BY <1>2, FinishType DEF LoadFromCache
<1> QED  BY <1>1, <1>2

LEMMA TypeInit == Init => TypeOK
<1> SUFFICES ASSUME Init PROVE TypeOK
  OBVIOUS
<1>1. <<>> \in List /\ CallOK(NoCall)
  BY EmptySeq, NoCallOK DEF List
<1>2. promised \in [Accounts -> SUBSET Keys] /\ accounts \in [Tabs -> SUBSET Accounts]
  BY DEF Init
<1>3. mem \in [Tabs -> MemType] /\ blob \in BlobType /\ lastPassword \in MaybePassword
  BY <1>1 DEF Init, MemType, BlobType, MaybePassword
<1>4. plain \in StoreType /\ keyStore \in [Tabs -> KeyStoreType]
  BY EmptyStoreType, NewStoreType DEF Init
<1>5. listed \in SUBSET Accounts /\ gone \in SUBSET Accounts
  BY DEF Init
<1>6. call \in [Calls -> CallType] /\ \A c \in Calls : call[c] = NoCall
  BY <1>1 DEF Init, CallOK
<1> QED
  BY <1>1, <1>2, <1>3, <1>4, <1>5, <1>6 DEF TypeOK, CallOK

\* What the steps below know of the tab and the call they are about.
LEMMA TypeOfCall ==
  ASSUME TypeOK, NEW c \in Calls
  PROVE  /\ c[1] \in Tabs /\ mem[c[1]] \in MemType /\ keyStore[c[1]] \in KeyStoreType
         /\ CallOK(call[c]) /\ call[c].list \in List /\ call[c].pw \in MaybePassword
         /\ call[c].key \in MaybeKey /\ TypeRest
BY DEF Calls, CallType, TypeOK, CallOK, TypeRest

\* The actions that the calls of save and removal share.
LEMMA TypeUpdate ==
  ASSUME TypeOK, NEW c \in Calls,
         Encrypt(c) \/ Commit(c) \/ CommitRefused(c) \/ Reinit(c) \/ SetKeys(c)
         \/ SetKeysRefused(c)
  PROVE  TypeOK'
<1> DEFINE t == c[1]
<1> USE TypeOfCall
<1>1. CASE Encrypt(c)
  <2>1. Changed(c) \in List
    BY UpsertedType, SplicedType DEF Changed, CallType, MaybeKey, CallOK
  <2>2. TypeRest'
    BY <1>1 DEF Encrypt, TypeRest, storageVars, historyVars
  <2>3. CASE mem[t].open
    <3> DEFINE k == [call[c] EXCEPT !.pc = "commit", !.pw = mem[t].pw, !.list = Changed(c)]
    <3>1. CallOK(k)
      BY <2>1 DEF CallOK, CallType, MemType
    <3>2. call' = [call EXCEPT ![c] = k]
      BY <1>1, <2>3 DEF Encrypt, TypeOK
    <3> QED  BY <2>2, <3>1, <3>2, OneCallChanges
  <2>4. CASE ~ mem[t].open
    BY <1>1, <2>2, <2>4, FinishType DEF Encrypt
  <2> QED  BY <2>3, <2>4
<1>2. CASE Commit(c)
  <2> DEFINE pc == CASE call[c].op = "enable" -> "scrub"
                     [] call[c].op = "change" -> "reread"
                     [] OTHER -> "reinit"
  <2>1. pc \in {"scrub", "reread", "reinit"} /\ Resume(c, pc)
    BY <1>2 DEF Commit
  <2>2. blob' \in BlobType /\ mem' \in [Tabs -> MemType] /\ lastPassword' \in MaybePassword
    BY <1>2 DEF Commit, BlobType, MemType, TypeRest
  <2>3. TypeRest'
    BY <1>2, <2>2 DEF Commit, TypeRest
  <2> HIDE DEF pc
  <2> QED  BY <2>1, <2>3, ResumeType
<1>3. CASE CommitRefused(c)
  <2>1. TypeRest'
    BY <1>3 DEF CommitRefused, TypeRest, storageVars, historyVars
  <2> QED  BY <1>3, <2>1, FinishType DEF CommitRefused
<1>4. CASE Reinit(c)
  <2>1. plain' \in StoreType
    BY <1>4, ScrubPlainType DEF Reinit, TypeRest
  <2>2. keyStore' \in [Tabs -> KeyStoreType] /\ accounts' \in [Tabs -> SUBSET Accounts]
    BY <1>4, NewStoreType DEF Reinit, TypeRest
  <2>3. TypeRest'
    BY <1>4, <2>1, <2>2 DEF Reinit, TypeRest, historyVars
  <2> QED  BY <1>4, <2>3, LoadFromCacheType DEF Reinit
<1>5. CASE SetKeys(c)
  <2>1. plain' \in StoreType
    BY <1>5, LoadedType DEF SetKeys, TypeRest
  <2>2. keyStore' \in [Tabs -> KeyStoreType]
    <3>1. Loaded(keyStore[t].ram, call[c].list) \in StoreType
      BY LoadedType DEF KeyStoreType
    <3>2. [keyStore[t] EXCEPT !.ram = Loaded(keyStore[t].ram, call[c].list)] \in KeyStoreType
      BY <3>1 DEF KeyStoreType
    <3> QED  BY <1>5, <3>2 DEF SetKeys, TypeRest
  <2>3. TypeRest'
    BY <1>5, <2>1, <2>2 DEF SetKeys, TypeRest, historyVars
  <2>4. \/ Finish(c)
        \/ \E pc \in {"list", "deactivate", "drop"} :
              /\ Resume(c, pc)
              /\ pc \in {"list", "deactivate"} => call[c].op \in {"save", "remove"}
    BY <1>5 DEF SetKeys
  <2> QED  BY <2>3, <2>4, FinishType, ResumeType
<1>6. CASE SetKeysRefused(c)
  <2>1. PartlyLoaded(plain, call[c].list) \subseteq StoreType
    BY LoadedType DEF PartlyLoaded, StoreType, TypeRest
  <2>2. TypeRest'
    BY <1>6, <2>1 DEF SetKeysRefused, TypeRest, historyVars
  <2> QED  BY <1>6, <2>2, FinishType DEF SetKeysRefused
<1> QED  BY <1>1, <1>2, <1>3, <1>4, <1>5, <1>6

LEMMA TypeSave ==
  ASSUME TypeOK, NEW c \in Calls,
         \/ \E a \in Accounts, k \in MaybeKey : StartSave(c, a, k)
         \/ ListAccount(c) \/ ListRefused(c)
  PROVE  TypeOK'
<1> DEFINE t == c[1]
<1> USE TypeOfCall
<1>1. ASSUME NEW a \in Accounts, NEW k \in MaybeKey, StartSave(c, a, k)
      PROVE  TypeOK'
  <2>1. plain' \in StoreType
    BY <1>1 DEF StartSave, PutKey, StoreType, TypeRest
  <2>2. keyStore' \in [Tabs -> KeyStoreType]
    <3>1. [keyStore[t] EXCEPT !.ram = [@ EXCEPT ![a] = k]] \in KeyStoreType
      BY <1>1 DEF KeyStoreType, StoreType
    <3> QED  BY <1>1, <3>1 DEF StartSave, PutKey, TypeRest
  <2>3. promised' \in [Accounts -> SUBSET Keys]
    BY <1>1 DEF StartSave, MaybeKey, TypeRest
  <2>4. accounts' \in [Tabs -> SUBSET Accounts] /\ gone' \in SUBSET Accounts
    BY <1>1 DEF StartSave, TypeRest
  <2>5. TypeRest'
    BY <1>1, <2>1, <2>2, <2>3, <2>4 DEF StartSave, TypeRest
  <2> DEFINE pc == IF mem[t].hasEnc THEN "encrypt" ELSE "list"
             ls == IF mem[t].hasEnc THEN mem[t].list ELSE <<>>
             new == [NoCall EXCEPT !.pc = pc, !.op = "save", !.id = a, !.key = k, !.list = ls]
  <2>7. call' = [call EXCEPT ![c] = new]
    BY <1>1 DEF StartSave
  <2>8. pc \in {"encrypt", "list"} /\ ls \in List
    BY EmptySeq DEF MemType, List
  <2> HIDE DEF pc, ls
  <2>6. CallOK(new)
    BY <2>8 DEF CallOK, CallType, NoCall, MaybePassword, MaybeKey
  <2> HIDE DEF new
  <2> QED  BY <2>5, <2>6, <2>7, OneCallChanges
<1>2. CASE ListAccount(c)
  <2>1. call[c].id \in Accounts
    BY <1>2 DEF ListAccount, CallOK
  <2>2. promised' \in [Accounts -> SUBSET Keys]
    BY <1>2, <2>1 DEF ListAccount, MaybeKey, TypeRest
  <2>3. accounts' \in [Tabs -> SUBSET Accounts] /\ listed' \in SUBSET Accounts
    BY <1>2, <2>1 DEF ListAccount, TypeRest
  <2>4. TypeRest'
    BY <1>2, <2>2, <2>3 DEF ListAccount, TypeRest
  <2> QED  BY <1>2, <2>4, FinishType DEF ListAccount
<1>3. CASE ListRefused(c)
  <2>1. call[c].id \in Accounts
    BY <1>3 DEF ListRefused, CallOK
  <2>2. accounts' \in [Tabs -> SUBSET Accounts]
    BY <1>3, <2>1 DEF ListRefused, TypeRest
  <2>3. TypeRest'
    BY <1>3, <2>2 DEF ListRefused, TypeRest, storageVars, historyVars
  <2> QED  BY <1>3, <2>3, FinishType DEF ListRefused
<1> QED  BY <1>1, <1>2, <1>3

LEMMA LoadType ==
  ASSUME TypeOK, NEW t \in Tabs, Load(t), listed' \in SUBSET Accounts
  PROVE  TypeOK'
<1>1. plain' \in StoreType
  BY ScrubPlainType DEF Load, TypeOK
<1>2. mem' \in [Tabs -> MemType]
  BY EmptySeq DEF Load, TypeOK, BlobType, MemType, MaybePassword, List
<1>3. keyStore' \in [Tabs -> KeyStoreType] /\ accounts' \in [Tabs -> SUBSET Accounts]
  BY NewStoreType DEF Load, TypeOK
<1>4. call' \in [Calls -> CallType] /\ \A c \in Calls : CallOK(call'[c])
  BY NoCallOK DEF Load, TypeOK, CallOK
<1>5. TypeRest'
  BY <1>1, <1>2, <1>3 DEF Load, TypeOK, TypeRest, historyVars
<1> QED  BY <1>4, <1>5 DEF TypeOK, TypeRest, CallOK

LEMMA TypeRemove ==
  ASSUME TypeOK, NEW c \in Calls,
         (\E a \in Accounts : StartRemove(c, a)) \/ Deactivate(c) \/ SwitchAway(c)
  PROVE  TypeOK'
<1> DEFINE t == c[1]
<1> USE TypeOfCall
<1>1. ASSUME NEW a \in Accounts, StartRemove(c, a)
      PROVE  TypeOK'
  <2>1. plain' \in StoreType
    BY <1>1 DEF StartRemove, PutKey, StoreType, MaybeKey, TypeRest
  <2>2. keyStore' \in [Tabs -> KeyStoreType]
    <3>1. [keyStore[t] EXCEPT !.ram = [@ EXCEPT ![a] = NoKey]] \in KeyStoreType
      BY DEF KeyStoreType, StoreType, MaybeKey
    <3> QED  BY <1>1, <3>1 DEF StartRemove, PutKey, TypeRest
  <2>3. promised' \in [Accounts -> SUBSET Keys]
    BY <1>1 DEF StartRemove, TypeRest
  <2>4. accounts' \in [Tabs -> SUBSET Accounts] /\ listed' \in SUBSET Accounts
    BY <1>1 DEF StartRemove, TypeRest
  <2>5. TypeRest'
    BY <1>1, <2>1, <2>2, <2>3, <2>4 DEF StartRemove, TypeRest
  <2> DEFINE pc == IF mem[t].hasEnc THEN "encrypt" ELSE "deactivate"
             ls == IF mem[t].hasEnc THEN mem[t].list ELSE <<>>
             new == [NoCall EXCEPT !.pc = pc, !.op = "remove", !.id = a,
                                   !.rest = listed \ {a}, !.list = ls]
  <2>7. call' = [call EXCEPT ![c] = new]
    BY <1>1 DEF StartRemove
  <2>8. pc \in {"encrypt", "deactivate"} /\ ls \in List /\ listed \ {a} \in SUBSET Accounts
    BY EmptySeq DEF MemType, List, TypeRest
  <2> HIDE DEF pc, ls
  <2>6. CallOK(new)
    BY <2>8 DEF CallOK, CallType, NoCall, MaybePassword, MaybeKey
  <2> HIDE DEF new
  <2> QED  BY <2>5, <2>6, <2>7, OneCallChanges
<1>2. CASE Deactivate(c)
  <2>1. gone' \in SUBSET Accounts
    BY <1>2 DEF Deactivate, CallOK, TypeRest
  <2>2. TypeRest'
    BY <1>2, <2>1 DEF Deactivate, TypeRest, storageVars
  <2> QED  BY <1>2, <2>2, ResumeType DEF Deactivate
<1>3. CASE SwitchAway(c)
  <2>1. CASE call[c].rest = {}
    BY <1>3, <2>1, LoadType DEF SwitchAway, TypeRest
  <2>2. CASE call[c].rest # {}
    <3>1. listed' \in SUBSET Accounts
      BY <1>3, <2>2 DEF SwitchAway, TypeRest
    <3>2. TypeRest'
      BY <1>3, <2>2, <3>1 DEF SwitchAway, TypeRest, historyVars
    <3> QED  BY <1>3, <2>2, <3>2, FinishType DEF SwitchAway
  <2> QED  BY <2>1, <2>2
<1> QED  BY <1>1, <1>2, <1>3

LEMMA TypePassword ==
  ASSUME TypeOK, NEW c \in Calls,
         \/ \E pw \in Passwords : StartUnlock(c, pw) \/ StartEnable(c, pw) \/ StartChange(c, pw)
         \/ StartDisable(c) \/ Decrypt(c) \/ Scrub(c) \/ Drop(c) \/ Reread(c)
  PROVE  TypeOK'
<1> DEFINE t == c[1]
<1> USE TypeOfCall
<1>1. ASSUME NEW pw \in Passwords, StartUnlock(c, pw)
      PROVE  TypeOK'
  <2> DEFINE pc == IF mem[t].open THEN "setKeys" ELSE "decrypt"
             new == [NoCall EXCEPT !.op = "unlock", !.pw = pw, !.pc = pc, !.list = mem[t].list]
  <2>2. call' = [call EXCEPT ![c] = new]
    BY <1>1 DEF StartUnlock
  <2>4. pc \in {"setKeys", "decrypt"} /\ mem[t].list \in List
    BY DEF MemType
  <2> HIDE DEF pc
  <2>1. CallOK(new)
    BY <2>4 DEF CallOK, CallType, NoCall, MaybePassword, MaybeKey
  <2>3. TypeRest'
    BY <1>1 DEF StartUnlock, TypeRest, storageVars, historyVars
  <2> HIDE DEF new
  <2> QED  BY <2>1, <2>2, <2>3, OneCallChanges
<1>2. ASSUME NEW pw \in Passwords, StartEnable(c, pw)
      PROVE  TypeOK'
  <2>1. PICK list \in SetToSeqs(PlainEntries) :
           call' = [call EXCEPT ![c] = [NoCall EXCEPT !.pc = "commit", !.op = "enable",
                                                      !.pw = pw, !.list = list]]
    BY <1>2 DEF StartEnable
  <2> DEFINE new == [NoCall EXCEPT !.pc = "commit", !.op = "enable", !.pw = pw, !.list = list]
  <2>2. CallOK(new)
    <3>1. list \in List
      BY ListingType DEF TypeRest
    <3> QED  BY <3>1, NoCallType DEF CallOK, CallType, NoCall, MaybePassword
  <2>3. TypeRest'
    BY <1>2 DEF StartEnable, TypeRest, storageVars, historyVars
  <2> HIDE DEF new
  <2> QED  BY <2>1, <2>2, <2>3, OneCallChanges DEF new
<1>3. ASSUME NEW pw \in Passwords, StartChange(c, pw)
      PROVE  TypeOK'
  <2> DEFINE new == [NoCall EXCEPT !.pc = "commit", !.op = "change", !.pw = pw,
                                   !.list = mem[t].list]
  <2>1. CallOK(new)
    BY NoCallType DEF CallOK, CallType, NoCall, MemType, MaybePassword
  <2>2. call' = [call EXCEPT ![c] = new]
    BY <1>3 DEF StartChange
  <2>3. TypeRest'
    BY <1>3 DEF StartChange, TypeRest, storageVars, historyVars
  <2> HIDE DEF new
  <2> QED  BY <2>1, <2>2, <2>3, OneCallChanges
<1>4. CASE StartDisable(c)
  <2> DEFINE new == [NoCall EXCEPT !.pc = "setKeys", !.op = "disable", !.list = mem[t].list]
  <2>1. CallOK(new)
    BY NoCallType DEF CallOK, CallType, NoCall, MemType
  <2>2. call' = [call EXCEPT ![c] = new]
    BY <1>4 DEF StartDisable
  <2>3. keyStore' \in [Tabs -> KeyStoreType]
    BY <1>4, ReplacedStoreType DEF StartDisable, TypeRest
  <2>4. TypeRest'
    BY <1>4, <2>3 DEF StartDisable, TypeRest, storageVars, historyVars
  <2> HIDE DEF new
  <2> QED  BY <2>1, <2>2, <2>4, OneCallChanges
<1>5. CASE Decrypt(c)
  <2>1. CASE blob.on /\ blob.pw = call[c].pw
    <3> DEFINE new == [call[c] EXCEPT !.pc = "setKeys", !.list = blob.list]
    <3>1. [mem[t] EXCEPT !.open = TRUE, !.pw = blob.pw, !.list = blob.list] \in MemType
      BY DEF TypeRest, BlobType, MemType
    <3>2. TypeRest'
      BY <1>5, <2>1, <3>1 DEF Decrypt, TypeRest, storageVars, historyVars
    <3>3. CallOK(new)
      BY DEF CallOK, CallType, TypeRest, BlobType
    <3>4. call' = [call EXCEPT ![c] = new]
      BY <1>5, <2>1 DEF Decrypt, TypeOK
    <3> HIDE DEF new
    <3> QED  BY <3>2, <3>3, <3>4, OneCallChanges
  <2>2. CASE ~ (blob.on /\ blob.pw = call[c].pw)
    <3>1. TypeRest'
      BY <1>5, <2>2 DEF Decrypt, TypeRest, storageVars, historyVars
    <3> QED  BY <1>5, <2>2, <3>1, FinishType DEF Decrypt
  <2> QED  BY <2>1, <2>2
<1>6. CASE Scrub(c)
  <2>1. plain' \in StoreType
    BY <1>6, ScrubPlainType DEF Scrub, TypeRest
  <2>2. keyStore' \in [Tabs -> KeyStoreType]
    BY <1>6, ReplacedStoreType DEF Scrub, TypeRest
  <2>3. TypeRest'
    BY <1>6, <2>1, <2>2 DEF Scrub, TypeRest, historyVars
  <2> QED  BY <1>6, <2>3, LoadFromCacheType DEF Scrub
<1>7. CASE Drop(c)
  <2>1. blob' \in BlobType /\ mem' \in [Tabs -> MemType]
    BY <1>7, EmptySeq DEF Drop, TypeRest, BlobType, MemType, MaybePassword, List
  <2>2. TypeRest'
    BY <1>7, <2>1 DEF Drop, TypeRest, historyVars
  <2> QED  BY <1>7, <2>2, FinishType DEF Drop
<1>8. CASE Reread(c)
  <2>1. TypeRest'
    BY <1>8 DEF Reread, TypeRest, storageVars, historyVars
  <2> QED  BY <1>8, <2>1, LoadFromCacheType DEF Reread
<1> QED  BY <1>1, <1>2, <1>3, <1>4, <1>5, <1>6, <1>7, <1>8

LEMMA TypeStep == TypeOK /\ [Next]_vars => TypeOK'
<1> SUFFICES ASSUME TypeOK, [Next]_vars
             PROVE  TypeOK'
  OBVIOUS
<1>1. ASSUME NEW c \in Calls, Start(c) \/ Continue(c)
      PROVE  TypeOK'
  BY <1>1, TypeUpdate, TypeSave, TypeRemove, TypePassword DEF Start, Continue
<1>2. ASSUME NEW t \in Tabs, SwitchAccount(t)
      PROVE  TypeOK'
  BY <1>2 DEF SwitchAccount, TypeOK, historyVars
<1>3. ASSUME NEW t \in Tabs, Reload(t)
      PROVE  TypeOK'
  BY <1>3, LoadType DEF Reload, TypeOK
<1>4. CASE UNCHANGED vars
  BY <1>4 DEF vars, TypeOK
<1> QED  BY <1>1, <1>2, <1>3, <1>4 DEF Next

\* Every reachable state is well-typed, whatever the accounts, the tabs and the
\* calls a tab runs at a time, and whether or not localStorage refuses writes.
THEOREM TypeCorrect == Spec => []TypeOK
BY TypeInit, TypeStep, PTL DEF Spec

-----------------------------------------------------------------------------
(* Lists in which no account is named twice.                               *)

LEMMA NoKeyIsNoEntry ==
  ASSUME NEW list \in List, NEW a
  PROVE  KeyIn(list, a) = NoKey <=> Positions(list, a) = {}
<1>1. CASE Positions(list, a) # {}
  <2>1. list[FirstPosition(list, a)] \in Entry
    BY <1>1, FirstPositionIs, ListProperties DEF Positions
  <2> QED  BY <1>1, <2>1, SentinelsAssumption DEF KeyIn, Entry
<1> QED  BY <1>1 DEF KeyIn

LEMMA KeyInIs ==
  ASSUME NEW list \in List, UniqueIds(list), NEW i \in DOMAIN list
  PROVE  KeyIn(list, list[i].id) = list[i].key
<1> DEFINE a == list[i].id
<1>1. Positions(list, a) = {i}
  BY DEF Positions, UniqueIds
<1>2. FirstPosition(list, a) = i
  BY <1>1, FirstPositionIs
<1> QED  BY <1>1, <1>2 DEF KeyIn

LEMMA KeyInAbsent ==
  ASSUME NEW list \in List, NEW a, \A i \in DOMAIN list : list[i].id # a
  PROVE  KeyIn(list, a) = NoKey
BY DEF KeyIn, Positions

\* Adding an account sets its key and leaves every other one's.
LEMMA UpsertedKeys ==
  ASSUME NEW list \in List, UniqueIds(list), NEW a \in Accounts, NEW k \in Keys
  PROVE  /\ UniqueIds(Upserted(list, a, k))
         /\ \A b \in Accounts :
               KeyIn(Upserted(list, a, k), b) = IF b = a THEN k ELSE KeyIn(list, b)
<1> DEFINE e == [id |-> a, key |-> k]
           new == Upserted(list, a, k)
<1>1. e \in Entry /\ e.id = a /\ e.key = k
  BY DEF Entry
<1>2. new \in List
  BY UpsertedType
<1>3. /\ Len(list) \in Nat /\ DOMAIN list = 1 .. Len(list)
      /\ Len(new) \in Nat /\ DOMAIN new = 1 .. Len(new)
  BY <1>2, ListProperties
<1>4. PICK n \in 1 .. Len(new) :
         /\ new[n] = e
         /\ \A i \in 1 .. Len(list) : list[i].id # a => i \in 1 .. Len(new) /\ i # n /\ new[i] = list[i]
         /\ \A i \in 1 .. Len(new) : i # n => i \in 1 .. Len(list) /\ new[i] = list[i] /\ list[i].id # a
  <2>1. CASE Positions(list, a) = {}
    <3>1. new = Append(list, e)
      BY <2>1 DEF Upserted
    <3>2. Len(new) = Len(list) + 1 /\ new[Len(list) + 1] = e
          /\ \A i \in 1 .. Len(list) : new[i] = list[i]
      BY <1>1, <3>1, AppendProperties DEF List
    <3>3. \A i \in 1 .. Len(list) : list[i].id # a
      BY <1>3, <2>1 DEF Positions
    <3> HIDE DEF new, e
    <3> QED  BY <1>3, <3>2, <3>3
  <2>2. CASE Positions(list, a) # {}
    <3> DEFINE n == FirstPosition(list, a)
    <3>1. n \in 1 .. Len(list) /\ list[n].id = a
      BY <1>3, <2>2, FirstPositionIs DEF Positions
    <3>2. new = [list EXCEPT ![n] = e]
      BY <2>2 DEF Upserted
    <3>3. Len(new) = Len(list) /\ \A i \in 1 .. Len(list) : new[i] = IF i = n THEN e ELSE list[i]
      BY <1>1, <3>1, <3>2, ExceptSeq DEF List
    <3>4. \A i \in 1 .. Len(list) : i # n => list[i].id # a
      BY <1>3, <3>1 DEF UniqueIds
    <3> HIDE DEF new, e, n
    <3> QED  BY <1>3, <3>1, <3>3, <3>4
  <2> QED  BY <2>1, <2>2
<1> HIDE DEF e, new
<1>5. UniqueIds(new)
  BY <1>1, <1>3, <1>4 DEF UniqueIds
<1>6. ASSUME NEW b \in Accounts
      PROVE  KeyIn(new, b) = IF b = a THEN k ELSE KeyIn(list, b)
  <2>1. CASE b = a
    BY <1>1, <1>2, <1>3, <1>4, <1>5, <2>1, KeyInIs
  <2>2. CASE b # a /\ \E i \in 1 .. Len(list) : list[i].id = b
    BY <1>2, <1>3, <1>4, <1>5, <2>2, KeyInIs
  <2>3. CASE b # a /\ \A i \in 1 .. Len(list) : list[i].id # b
    BY <1>1, <1>2, <1>3, <1>4, <2>3, KeyInAbsent
  <2> QED  BY <2>1, <2>2, <2>3
<1> QED  BY <1>5, <1>6 DEF new

\* Removing an account that has an entry takes its key and no other one's.
LEMMA SplicedKeys ==
  ASSUME NEW list \in List, UniqueIds(list), NEW a, Positions(list, a) # {}
  PROVE  /\ UniqueIds(Spliced(list, a))
         /\ \A b \in Accounts :
               KeyIn(Spliced(list, a), b) = IF b = a THEN NoKey ELSE KeyIn(list, b)
<1> DEFINE n == FirstPosition(list, a)
           new == Spliced(list, a)
<1>1. new = RemoveAt(list, n) /\ new \in List
  BY SplicedType DEF Spliced
<1>2. /\ Len(list) \in Nat /\ DOMAIN list = 1 .. Len(list)
      /\ Len(new) \in Nat /\ DOMAIN new = 1 .. Len(new)
  BY <1>1, ListProperties
<1>3. n \in 1 .. Len(list) /\ list[n].id = a
  BY <1>2, FirstPositionIs DEF Positions
<1>4. /\ Len(new) = Len(list) - 1
      /\ \A j \in 1 .. Len(list) - 1 : new[j] = IF j < n THEN list[j] ELSE list[j + 1]
  BY <1>1, <1>3, RemoveAtProperties
<1> HIDE DEF n, new
<1>5. UniqueIds(new)
  <2> SUFFICES ASSUME NEW i \in 1 .. Len(list) - 1, NEW j \in 1 .. Len(list) - 1,
                      new[i].id = new[j].id
               PROVE  i = j
    BY <1>2, <1>4 DEF UniqueIds
  <2> DEFINE from(x) == IF x < n THEN x ELSE x + 1
  <2>1. from(i) \in 1 .. Len(list) /\ from(j) \in 1 .. Len(list)
    BY <1>2, <1>3
  <2>2. new[i] = list[from(i)] /\ new[j] = list[from(j)]
    BY <1>4
  <2>3. from(i) = from(j)
    BY <1>2, <2>1, <2>2 DEF UniqueIds
  <2> QED  BY <1>2, <1>3, <2>3
<1>6. ASSUME NEW b \in Accounts, b # a, NEW i \in 1 .. Len(list), list[i].id = b
      PROVE  KeyIn(new, b) = KeyIn(list, b)
  <2> DEFINE j == IF i < n THEN i ELSE i - 1
  <2>1. i # n
    BY <1>3, <1>6
  <2>2. j \in 1 .. Len(list) - 1 /\ new[j] = list[i]
    BY <1>2, <1>3, <1>4, <2>1
  <2> HIDE DEF j
  <2>3. KeyIn(new, b) = new[j].key
    BY <1>1, <1>2, <1>4, <1>5, <1>6, <2>2, KeyInIs
  <2>4. KeyIn(list, b) = list[i].key
    BY <1>2, <1>6, KeyInIs
  <2> QED  BY <2>2, <2>3, <2>4
<1>7. ASSUME NEW b \in Accounts, b = a \/ \A i \in 1 .. Len(list) : list[i].id # b
      PROVE  \A j \in DOMAIN new : new[j].id # b
  <2> SUFFICES ASSUME NEW j \in 1 .. Len(list) - 1
               PROVE  new[j].id # b
    BY <1>2, <1>4
  <2>1. PICK i \in 1 .. Len(list) : i # n /\ new[j] = list[i]
    BY <1>2, <1>3, <1>4
  <2>2. list[i].id # a
    BY <1>2, <1>3, <2>1 DEF UniqueIds
  <2> QED  BY <1>7, <2>1, <2>2
<1>8. \A b \in Accounts : KeyIn(new, b) = IF b = a THEN NoKey ELSE KeyIn(list, b)
  BY <1>1, <1>2, <1>6, <1>7, KeyInAbsent
<1> QED  BY <1>5, <1>8 DEF new

\* The list that turning the password on encrypts holds every plaintext key.
LEMMA ListingKeys ==
  ASSUME plain \in StoreType, NEW list \in SetToSeqs(PlainEntries)
  PROVE  UniqueIds(list) /\ \A a \in Accounts : KeyIn(list, a) = plain[a]
<1> DEFINE n == Cardinality(PlainEntries)
<1>1. /\ list \in [1 .. n -> PlainEntries]
      /\ \A i, j \in 1 .. n : i # j => list[i] # list[j]
  BY DEF SetToSeqs
<1>2. n \in Nat /\ IsFiniteSet(PlainEntries)
  BY PlainEntriesFinite, FS_CardinalityType
<1>3. list \in Injection(1 .. n, PlainEntries)
  BY <1>1 DEF Injection, IsInjective
<1>4. list \in Surjection(1 .. n, PlainEntries)
  <2>1. Cardinality(1 .. n) = n
    BY <1>2, FS_Interval
  <2> QED  BY <1>2, <1>3, <2>1, FS_Injection
<1>5. list \in List
  BY ListingType
<1>6. UniqueIds(list)
  <2>1. \A e, f \in PlainEntries : e.id = f.id => e = f
    BY DEF PlainEntries
  <2> QED  BY <1>1, <2>1 DEF UniqueIds
<1>7. ASSUME NEW a \in Accounts
      PROVE  KeyIn(list, a) = plain[a]
  <2>1. CASE plain[a] # NoKey
    <3>1. [id |-> a, key |-> plain[a]] \in PlainEntries
      BY <2>1 DEF PlainEntries
    <3>2. PICK i \in 1 .. n : list[i] = [id |-> a, key |-> plain[a]]
      BY <1>4, <3>1 DEF Surjection
    <3>3. i \in DOMAIN list /\ list[i].id = a /\ list[i].key = plain[a]
      BY <1>1, <3>2
    <3>4. KeyIn(list, list[i].id) = list[i].key
      BY <1>5, <1>6, <3>3, KeyInIs
    <3> QED  BY <3>3, <3>4
  <2>2. CASE plain[a] = NoKey
    <3>1. \A e \in PlainEntries : e.id # a
      BY <2>2 DEF PlainEntries
    <3>2. \A i \in DOMAIN list : list[i].id # a
      BY <1>1, <3>1
    <3> QED  BY <1>5, <2>2, <3>2, KeyInAbsent
  <2> QED  BY <2>1, <2>2
<1> QED  BY <1>6, <1>7

-----------------------------------------------------------------------------
(* The saved keys stay recoverable (KeysKept), in one tab that imports one *)
(* account at a time and removes no Ledger account while the password is on. *)

\* The invariant, and the assumption on the instance.
Good == TypeOK /\ KeysKept /\ OneTab

LEMMA OnlyTab ==
  ASSUME OneTab, NEW c \in Calls
  PROVE  c[1] \in Tabs /\ \A t \in Tabs : t = c[1]
BY DEF OneTab, Calls

LEMMA KeptInit == Init => KeysKept
<1> SUFFICES ASSUME Init PROVE KeysKept
  OBVIOUS
<1>1. /\ plain = EmptyStore /\ blob = [on |-> FALSE, pw |-> NoPassword, list |-> <<>>]
      /\ listed = {} /\ gone = {} /\ \A a \in Accounts : promised[a] = {}
  BY DEF Init
<1>2. \A t \in Tabs : /\ mem[t] = [hasEnc |-> FALSE, open |-> FALSE, pw |-> NoPassword, list |-> <<>>]
                      /\ accounts[t] = {} /\ keyStore[t].kind = "browser"
  BY DEF Init, NewStore
<1>3. \A c \in Calls : call[c] = NoCall
  BY DEF Init
<1>4. UniqueIds(<<>>)
  BY DEF UniqueIds
<1>5. CacheAgrees /\ ListsAreMaps
  <2>1. CacheAgrees
    <3> SUFFICES ASSUME NEW t \in Tabs
                 PROVE  /\ mem[t].hasEnc = blob.on
                        /\ mem[t].open => blob.on /\ mem[t].pw = blob.pw /\ mem[t].list = blob.list
                        /\ ~blob.on => keyStore[t].kind = "browser"
      BY DEF CacheAgrees
    <3>1. blob.on = FALSE /\ mem[t].hasEnc = FALSE /\ mem[t].open = FALSE
      BY <1>1, <1>2
    <3> QED  BY <1>2, <3>1
  <2>2. ListsAreMaps
    BY <1>1, <1>2, <1>3, <1>4 DEF ListsAreMaps, NoCall
  <2> QED  BY <2>1, <2>2
<1>6. ListedHaveKeys /\ SavedAccountsStayListed /\ SavedKeysAreRecoverable
  BY <1>1, <1>2 DEF ListedHaveKeys, SavedAccountsStayListed, SavedKeysAreRecoverable
<1>7. BlobHasLastPassword /\ RemovedStayRemoved
  BY <1>1 DEF BlobHasLastPassword, RemovedStayRemoved, RemovedKeysAreNotRecoverable
<1>8. CallsOnCourse /\ CallsTakeTurns
  BY <1>3 DEF CallsOnCourse, OnCourse, SaveOnCourse, RemovalOnCourse, PasswordCallOnCourse, NoCall,
     CallsTakeTurns, Idle
<1>9. LedgerAccountsHaveNoKey
  BY <1>1, LedgerAssumption DEF LedgerAccountsHaveNoKey, EmptyStore, KeyIn, Positions
<1> QED  BY <1>5, <1>6, <1>7, <1>8, <1>9 DEF KeysKept

\* While the blob stands, or neither it nor the plaintext keys change, a page
\* load would bring back the same keys.
LEMMA SameKeys ==
  ASSUME blob' = blob, blob.on \/ plain' = plain
  PROVE  \A a \in Accounts : Recoverable(a)' = Recoverable(a)
BY DEF Recoverable

\* What a step of one call leaves of the others.
OthersOnCourse(c) ==
    /\ CallsTakeTurns'
    /\ \A d \in Calls : d # c => OnCourse(d)' /\ UniqueIds(call'[d].list)

\* An idle call is on course whatever happens.
LEMMA IdleOnCourse ==
  ASSUME Good, NEW d \in Calls, Idle(d), call'[d] = call[d]
  PROVE  OnCourse(d)' /\ Idle(d)'
<1>1. call[d].op = "none" /\ call[d].pc = "idle"
  BY DEF Good, KeysKept, CallsOnCourse, OnCourse, SaveOnCourse, RemovalOnCourse,
         PasswordCallOnCourse, Idle, TypeOK, CallType
<1> QED  BY <1>1 DEF OnCourse, SaveOnCourse, RemovalOnCourse, PasswordCallOnCourse, Idle

\* A call that is under way is the only one, but for saves about to list their account.
LEMMA OthersIdle ==
  ASSUME Good, NEW c \in Calls,
         \/ Alone(c)
         \/ ~Idle(c) /\ (call[c].pc # "list" \/ blob.on)
  PROVE  \A d \in Calls : d # c => Idle(d)
<1>1. CASE Alone(c)
  <2>1. \A d \in Calls : d[1] = c[1]
    BY OnlyTab DEF Good
  <2> QED  BY <1>1, <2>1 DEF Alone
<1>2. CASE ~Idle(c) /\ (call[c].pc # "list" \/ blob.on)
  BY <1>2 DEF Good, KeysKept, CallsTakeTurns, Parked
<1> QED  BY <1>1, <1>2

LEMMA AloneStep ==
  ASSUME Good, NEW c \in Calls, \A d \in Calls : d # c => Idle(d) /\ call'[d] = call[d]
  PROVE  OthersOnCourse(c)
<1>1. \A d \in Calls : d # c => OnCourse(d)' /\ Idle(d)' /\ UniqueIds(call'[d].list)
  BY IdleOnCourse DEF Good, KeysKept, ListsAreMaps
<1> QED  BY <1>1 DEF OthersOnCourse, CallsTakeTurns

\* A save next to others: without a password, and with an account of its own.
LEMMA ParkedStep ==
  ASSUME Good, NEW c \in Calls, \A d \in Calls : d # c => call'[d] = call[d],
         ~blob.on, UNCHANGED blob,
         \A d \in Calls : d # c => Idle(d) \/ Parked(d),
         Idle(c)' \/ Parked(c)',
         \A d \in Calls : d # c /\ Parked(d) =>
            LET i == call[d].id IN
            /\ Idle(c)' \/ call'[c].id # i
            /\ plain'[i] = plain[i] /\ promised'[i] = promised[i] /\ i \notin gone'
  PROVE  OthersOnCourse(c)
<1>1. ASSUME NEW d \in Calls, d # c, Parked(d)
      PROVE  OnCourse(d)' /\ Parked(d)' /\ call'[d].id = call[d].id
  <2>1. call'[d] = call[d] /\ call[d].op = "save" /\ call[d].pc = "list" /\ blob' = blob
    BY <1>1 DEF Parked
  <2>2. SaveOnCourse(d)'
    <3>1. SaveOnCourse(d)
      BY DEF Good, KeysKept, CallsOnCourse, OnCourse
    <3> QED  BY <1>1, <2>1, <3>1 DEF SaveOnCourse, Recoverable
  <2> QED  BY <2>1, <2>2 DEF OnCourse, RemovalOnCourse, PasswordCallOnCourse, Parked
<1>2. \A d \in Calls : d # c => OnCourse(d)' /\ UniqueIds(call'[d].list)
  BY <1>1, IdleOnCourse DEF Good, KeysKept, ListsAreMaps
<1>3. CallsTakeTurns'
  <2> SUFFICES ASSUME NEW d \in Calls, NEW e \in Calls, d # e, ~Idle(d)', ~Idle(e)'
               PROVE  Parked(d)' /\ Parked(e)' /\ call'[d].id # call'[e].id
    BY DEF CallsTakeTurns
  <2>1. \A x \in {d, e} : x # c => ~Idle(x) /\ Parked(x) /\ Parked(x)' /\ call'[x].id = call[x].id
    BY <1>1 DEF Idle
  <2>2. CASE d # c /\ e # c
    BY <2>1, <2>2 DEF Good, KeysKept, CallsTakeTurns
  <2>3. CASE d = c \/ e = c
    BY <2>1, <2>3
  <2> QED  BY <2>2, <2>3
<1> QED  BY <1>2, <1>3 DEF OthersOnCourse

\* No key for a Ledger account comes into localStorage.
LEMMA LedgerKeepsNoKey ==
  ASSUME Good,
         \/ plain' = plain \/ ScrubPlain \/ plain' = Loaded(plain, blob.list)
         \/ plain' \in PartlyLoaded(plain, blob.list)
  PROVE  \A a \in LedgerAccounts : plain'[a] = NoKey
<1> SUFFICES ASSUME NEW a \in LedgerAccounts
             PROVE  plain'[a] = NoKey
  OBVIOUS
<1>1. a \in Accounts /\ plain[a] = NoKey /\ KeyIn(blob.list, a) = NoKey /\ blob.list \in List
  BY LedgerAssumption DEF Good, KeysKept, LedgerAccountsHaveNoKey, TypeOK, BlobType
<1>2. Positions(blob.list, a) = {}
  BY <1>1, NoKeyIsNoEntry
<1>3. CASE ScrubPlain
  BY <1>1, <1>3 DEF ScrubPlain
<1>4. CASE plain' = Loaded(plain, blob.list)
  BY <1>1, <1>2, <1>4 DEF Loaded
<1>5. CASE plain' \in PartlyLoaded(plain, blob.list)
  BY <1>1, <1>2, <1>5 DEF PartlyLoaded, Loaded
<1> QED  BY <1>1, <1>3, <1>4, <1>5

\* A step that leaves the blob, the cache and the account list alone keeps the
\* invariant if its call stays on course.
LEMMA CalmStep ==
  ASSUME Good, NEW c \in Calls,
         UNCHANGED <<blob, mem, listed, promised, gone, lastPassword>>,
         blob.on \/ (plain' = plain /\ keyStore'[c[1]].kind = "browser"),
         \A a \in LedgerAccounts : plain'[a] = NoKey,
         accounts'[c[1]] = accounts[c[1]] \/ accounts'[c[1]] = listed,
         UniqueIds(call'[c].list), OnCourse(c)', OthersOnCourse(c)
  PROVE  KeysKept'
<1> DEFINE t == c[1]
<1>1. (\A s \in Tabs : s = t) /\ t \in Tabs
  BY OnlyTab DEF Good
<1>2. \A a \in Accounts : Recoverable(a)' = Recoverable(a)
  BY SameKeys
<1>3. CacheAgrees'
  BY <1>1 DEF Good, KeysKept, CacheAgrees
<1>4. ListsAreMaps'
  BY <1>1 DEF Good, KeysKept, ListsAreMaps, OthersOnCourse
<1>5. ListedHaveKeys' /\ SavedAccountsStayListed' /\ LedgerAccountsHaveNoKey'
  BY <1>1, <1>2 DEF Good, KeysKept, ListedHaveKeys, SavedAccountsStayListed,
     LedgerAccountsHaveNoKey
<1>6. CallsOnCourse' /\ CallsTakeTurns'
  BY DEF CallsOnCourse, OthersOnCourse
<1>7. SavedKeysAreRecoverable' /\ BlobHasLastPassword' /\ RemovedStayRemoved'
  BY <1>2, TypeStep DEF Good, KeysKept, SavedKeysAreRecoverable, BlobHasLastPassword,
     RemovedStayRemoved, RemovedKeysAreNotRecoverable, TypeOK
<1> QED  BY <1>3, <1>4, <1>5, <1>6, <1>7 DEF KeysKept

\* What the steps below know of the one call and the one tab.
LEMMA GoodCall ==
  ASSUME Good, NEW c \in Calls
  PROVE  /\ OnCourse(c) /\ CallOK(call[c]) /\ call[c].list \in List /\ UniqueIds(call[c].list)
         /\ c[1] \in Tabs /\ mem[c[1]] \in MemType /\ UniqueIds(mem[c[1]].list)
         /\ mem[c[1]].hasEnc = blob.on
         /\ mem[c[1]].open =>
               blob.on /\ mem[c[1]].pw = blob.pw /\ mem[c[1]].list = blob.list
         /\ ~blob.on => keyStore[c[1]].kind = "browser"
         /\ blob.list \in List /\ UniqueIds(blob.list)
BY TypeOfCall DEF Good, KeysKept, CallsOnCourse, ListsAreMaps, CacheAgrees, TypeRest, BlobType

\* The parts of the invariant that saving and removing have to carry over.
LEMMA GoodKeys ==
  ASSUME Good, NEW c \in Calls
  PROVE  /\ listed \subseteq Accounts /\ accounts[c[1]] \subseteq Accounts /\ gone \subseteq Accounts
         /\ \A a \in Accounts : promised[a] # {} =>
               Recoverable(a) \in promised[a] /\ a \in listed \intersect accounts[c[1]]
         /\ \A a \in (listed \union accounts[c[1]]) \ LedgerAccounts : Recoverable(a) # NoKey
         /\ \A a \in LedgerAccounts : /\ a \in Accounts /\ Recoverable(a) = NoKey
                                      /\ plain[a] = NoKey /\ KeyIn(blob.list, a) = NoKey
         /\ PasswordStaysOn => \A a \in gone : Recoverable(a) = NoKey
<1>1. c[1] \in Tabs
  BY DEF Calls
<1>2. listed \subseteq Accounts /\ accounts[c[1]] \subseteq Accounts /\ gone \subseteq Accounts
  BY <1>1 DEF Good, TypeOK
<1>3. \A a \in (listed \union accounts[c[1]]) \ LedgerAccounts : Recoverable(a) # NoKey
  BY <1>1, <1>2 DEF Good, KeysKept, ListedHaveKeys
<1>4. \A a \in Accounts : promised[a] # {} =>
         Recoverable(a) \in promised[a] /\ a \in listed \intersect accounts[c[1]]
  BY <1>1 DEF Good, KeysKept, SavedKeysAreRecoverable, SavedAccountsStayListed
<1>5. PasswordStaysOn => \A a \in gone : Recoverable(a) = NoKey
  BY DEF Good, KeysKept, RemovedStayRemoved, RemovedKeysAreNotRecoverable
<1>6. \A a \in LedgerAccounts : /\ a \in Accounts /\ Recoverable(a) = NoKey
                                /\ plain[a] = NoKey /\ KeyIn(blob.list, a) = NoKey
  BY LedgerAssumption DEF Good, KeysKept, LedgerAccountsHaveNoKey, Recoverable
<1> QED  BY <1>2, <1>3, <1>4, <1>5, <1>6

\* A call that ends, or goes on with an empty list of its own, is on course.
LEMMA FinishOnCourse ==
  ASSUME Good, NEW c \in Calls, Finish(c)
  PROVE  /\ UniqueIds(call'[c].list) /\ OnCourse(c)' /\ Idle(c)'
         /\ \A d \in Calls : d # c => call'[d] = call[d]
<1>1. call'[c] = NoCall /\ \A d \in Calls : d # c => call'[d] = call[d]
  BY DEF Finish, Good, TypeOK
<1> QED  BY <1>1 DEF NoCall, Idle, UniqueIds, OnCourse, SaveOnCourse, RemovalOnCourse, PasswordCallOnCourse

LEMMA LoadFromCacheOnCourse ==
  ASSUME Good, NEW c \in Calls, LoadFromCache(c), UNCHANGED <<blob, mem, listed, promised, gone>>,
         blob.on, call[c].pc \in {"reinit", "scrub", "reread"},
         call[c].op = "remove" => accounts'[c[1]] = accounts[c[1]] \/ accounts'[c[1]] = listed
  PROVE  UniqueIds(call'[c].list) /\ OnCourse(c)' /\ OthersOnCourse(c)
<1> USE GoodCall
<1>1. mem[c[1]].open
  BY DEF OnCourse, PasswordCallOnCourse, CallOK, CallType
<1>2. call'[c] = [call[c] EXCEPT !.pc = "setKeys", !.list = blob.list]
  BY <1>1 DEF LoadFromCache, Good, TypeOK
<1>3. /\ call'[c].pc = "setKeys" /\ call'[c].op = call[c].op /\ call'[c].id = call[c].id
      /\ call'[c].key = call[c].key /\ call'[c].list = blob.list
  BY <1>2 DEF CallOK, CallType
<1>4. \A a \in Accounts : Recoverable(a)' = Recoverable(a)
  BY SameKeys
<1>5. SaveOnCourse(c)'
  <2>1. CASE call[c].op = "save"
    <3>1. /\ call[c].key = NoKey <=> call[c].id \in LedgerAccounts
          /\ call[c].id \notin gone /\ call[c].id \in Accounts
          /\ promised[call[c].id] # {} => call[c].key \in promised[call[c].id]
          /\ Recoverable(call[c].id) = call[c].key
      BY <2>1 DEF OnCourse, SaveOnCourse, CallOK
    <3> QED  BY <1>3, <1>4, <3>1 DEF SaveOnCourse
  <2> QED  BY <1>3, <2>1 DEF SaveOnCourse
<1>6. RemovalOnCourse(c)'
  <2>1. CASE call[c].op = "remove"
    <3>1. /\ promised[call[c].id] = {} /\ call[c].id \notin listed \union accounts[c[1]]
          /\ call[c].id \in Accounts /\ Recoverable(call[c].id) = NoKey
      BY <2>1 DEF OnCourse, RemovalOnCourse, CallOK
    <3> QED  BY <1>3, <1>4, <2>1, <3>1 DEF RemovalOnCourse
  <2> QED  BY <1>3, <2>1 DEF RemovalOnCourse
<1>7. PasswordCallOnCourse(c)'
  <2>1. call[c].op \in {"save", "remove", "enable", "change"}
    BY DEF OnCourse, PasswordCallOnCourse, CallOK, CallType
  <2> QED  BY <1>3, <2>1 DEF PasswordCallOnCourse
<1>8. OthersOnCourse(c)
  <2>1. \A d \in Calls : d # c => call'[d] = call[d]
    BY <1>1 DEF LoadFromCache, Good, TypeOK
  <2> QED  BY <2>1, OthersIdle, AloneStep DEF Idle
<1> QED  BY <1>1, <1>3, <1>5, <1>6, <1>7, <1>8 DEF OnCourse

LEMMA KeptEncrypt ==
  ASSUME Good, NEW c \in Calls, Encrypt(c)
  PROVE  KeysKept'
<1> USE GoodCall
<1> DEFINE k == call[c]
<1>1. /\ blob.on /\ mem[c[1]].open /\ k.op \in {"save", "remove"} /\ k.id \in Accounts
      /\ k.pc = "encrypt" /\ k.list = blob.list
  BY DEF Encrypt, OnCourse, SaveOnCourse, RemovalOnCourse, PasswordCallOnCourse, CallOK, CallType
<1>2. call'[c] = [k EXCEPT !.pc = "commit", !.pw = blob.pw, !.list = Changed(c)]
  BY <1>1 DEF Encrypt, Good, TypeOK
<1>3. /\ call'[c].pc = "commit" /\ call'[c].op = k.op /\ call'[c].id = k.id
      /\ call'[c].key = k.key /\ call'[c].pw = blob.pw /\ call'[c].list = Changed(c)
  BY <1>2 DEF CallOK, CallType
<1>4. /\ UNCHANGED <<plain, blob, listed, mem, keyStore, accounts, promised, gone, lastPassword>>
      /\ \A a \in Accounts : Recoverable(a)' = Recoverable(a)
  BY SameKeys DEF Encrypt, storageVars, historyVars
<1>7. OthersOnCourse(c) /\ \A a \in LedgerAccounts : plain'[a] = NoKey
  <2>1. \A d \in Calls : d # c => call'[d] = call[d]
    BY <1>1 DEF Encrypt, Good, TypeOK
  <2> QED  BY <1>1, <1>4, <2>1, OthersIdle, AloneStep, LedgerKeepsNoKey DEF Idle
<1>5. CASE k.op = "save"
  <2>1. /\ k.key # NoKey => k.key \in Keys
        /\ Changed(c) = IF k.key = NoKey THEN blob.list ELSE Upserted(blob.list, k.id, k.key)
    BY <1>1, <1>5 DEF Changed, OnCourse, SaveOnCourse, CallOK, CallType, MaybeKey
  <2>2. UniqueIds(call'[c].list)
    <3>1. blob.list \in List /\ UniqueIds(blob.list)
      OBVIOUS
    <3>2. k.key # NoKey => UniqueIds(Upserted(blob.list, k.id, k.key))
      BY <1>1, <2>1, <3>1, UpsertedKeys
    <3> QED  BY <1>3, <2>1, <3>2
  <2>3. SaveOnCourse(c)'
    <3>1. /\ k.id \notin gone /\ (k.key = NoKey <=> k.id \in LedgerAccounts)
          /\ promised[k.id] # {} => k.key \in promised[k.id]
      BY <1>5 DEF OnCourse, SaveOnCourse
    <3> QED  BY <1>3, <1>4, <2>1, <3>1 DEF SaveOnCourse
  <2>4. OnCourse(c)'
    BY <1>1, <1>3, <1>4, <1>5, <2>3 DEF OnCourse, RemovalOnCourse, PasswordCallOnCourse
  <2> QED  BY <1>1, <1>4, <1>7, <2>2, <2>4, CalmStep
<1>6. CASE k.op = "remove"
  <2>1. Changed(c) = Spliced(blob.list, k.id) /\ Positions(blob.list, k.id) # {}
    BY <1>1, <1>6 DEF Changed, OnCourse, RemovalOnCourse
  <2>2. UniqueIds(call'[c].list)
    <3>1. blob.list \in List /\ UniqueIds(blob.list)
      OBVIOUS
    <3>2. UniqueIds(Spliced(blob.list, k.id))
      BY <2>1, <3>1, SplicedKeys
    <3> QED  BY <1>3, <2>1, <3>2
  <2>3. OnCourse(c)'
    BY <1>1, <1>3, <1>4, <1>6, <2>1
       DEF OnCourse, SaveOnCourse, RemovalOnCourse, PasswordCallOnCourse
  <2> QED  BY <1>1, <1>4, <1>7, <2>2, <2>3, CalmStep
<1> QED  BY <1>1, <1>5, <1>6

LEMMA KeptReload ==
  ASSUME Good, NEW c \in Calls,
         Reinit(c) \/ Scrub(c) \/ Reread(c)
  PROVE  KeysKept'
<1> USE GoodCall
<1>1. blob.on /\ call[c].pc \in {"reinit", "scrub", "reread"}
  BY DEF Reinit, Scrub, Reread, OnCourse
<1>2. /\ UNCHANGED <<blob, mem, listed, promised, gone, lastPassword>> /\ LoadFromCache(c)
      /\ accounts'[c[1]] = accounts[c[1]] \/ accounts'[c[1]] = listed
  BY DEF Reinit, Scrub, Reread, storageVars, historyVars, Good, TypeOK
<1>3. UniqueIds(call'[c].list) /\ OnCourse(c)' /\ OthersOnCourse(c)
  BY <1>1, <1>2, LoadFromCacheOnCourse
<1>4. \A a \in LedgerAccounts : plain'[a] = NoKey
  BY <1>1, LedgerKeepsNoKey DEF Reinit, Scrub, Reread, storageVars
<1> QED  BY <1>1, <1>2, <1>3, <1>4, CalmStep

LEMMA KeptSetKeys ==
  ASSUME Good, NEW c \in Calls, SetKeys(c)
  PROVE  KeysKept'
<1> USE GoodCall
<1> DEFINE k == call[c]
<1>1. blob.on /\ k.pc = "setKeys" /\ k.list = blob.list
  BY DEF SetKeys, OnCourse
<1>2. /\ UNCHANGED <<blob, listed, mem, accounts, promised, gone, lastPassword>>
      /\ \A a \in Accounts : Recoverable(a)' = Recoverable(a)
  BY <1>1, SameKeys DEF SetKeys, historyVars
<1>5. \A a \in LedgerAccounts : plain'[a] = NoKey
  BY <1>1, LedgerKeepsNoKey DEF SetKeys
<1>6. \A d \in Calls : d # c => Idle(d)
  BY <1>1, OthersIdle DEF Idle
<1>3. CASE Finish(c)
  <2>1. OthersOnCourse(c)
    BY <1>3, <1>6, FinishOnCourse, AloneStep
  <2> QED  BY <1>1, <1>2, <1>3, <1>5, <2>1, FinishOnCourse, CalmStep
<1>4. ASSUME NEW pc \in {"list", "deactivate", "drop"}, Resume(c, pc),
             k.op = CASE pc = "list" -> "save" [] pc = "deactivate" -> "remove" [] OTHER -> "disable"
      PROVE  KeysKept'
  <2>1. call'[c] = [k EXCEPT !.pc = pc]
    BY <1>4 DEF Resume, Good, TypeOK
  <2>2. /\ call'[c].pc = pc /\ call'[c].op = k.op /\ call'[c].id = k.id
        /\ call'[c].key = k.key /\ call'[c].list = k.list
    BY <2>1 DEF CallOK, CallType
  <2>3. SaveOnCourse(c)'
    <3>1. CASE k.op = "save"
      <4>1. /\ k.key = NoKey <=> k.id \in LedgerAccounts
            /\ k.id \notin gone /\ k.id \in Accounts /\ Recoverable(k.id) = k.key
            /\ promised[k.id] # {} => k.key \in promised[k.id]
        BY <1>1, <3>1 DEF OnCourse, SaveOnCourse, CallOK
      <4>2. pc = "list"
        BY <1>4, <3>1
      <4> QED  BY <1>2, <2>2, <3>1, <4>1, <4>2 DEF SaveOnCourse
    <3> QED  BY <2>2, <3>1 DEF SaveOnCourse
  <2>4. RemovalOnCourse(c)'
    <3>1. CASE k.op = "remove"
      <4>1. /\ promised[k.id] = {} /\ k.id \notin listed \union accounts[c[1]]
            /\ k.id \in Accounts /\ Recoverable(k.id) = NoKey
        BY <1>1, <3>1 DEF OnCourse, RemovalOnCourse, CallOK
      <4>2. pc = "deactivate"
        BY <1>4, <3>1
      <4> QED  BY <1>2, <2>2, <3>1, <4>1, <4>2 DEF RemovalOnCourse
    <3> QED  BY <2>2, <3>1 DEF RemovalOnCourse
  <2>5. PasswordCallOnCourse(c)'
    <3>1. CASE pc # "drop"
      BY <1>4, <2>2, <3>1 DEF PasswordCallOnCourse
    <3>2. CASE pc = "drop"
      <4>1. keyStore[c[1]].kind = "browser" /\ "disable" \in Operations /\ k.op = "disable"
        BY <1>4, <3>2 DEF OnCourse, PasswordCallOnCourse
      <4>2. plain' = Loaded(plain, blob.list) /\ keyStore' = keyStore
        BY <1>1, <4>1 DEF SetKeys
      <4>3. \A a \in Accounts : KeyIn(blob.list, a) # NoKey => plain'[a] = KeyIn(blob.list, a)
        BY <4>2, NoKeyIsNoEntry DEF Loaded
      <4> QED  BY <1>2, <2>2, <3>2, <4>1, <4>2, <4>3 DEF PasswordCallOnCourse
    <3> QED  BY <3>1, <3>2
  <2>6. OnCourse(c)'
    BY <1>1, <1>2, <1>4, <2>2, <2>3, <2>4, <2>5 DEF OnCourse
  <2>7. OthersOnCourse(c)
    <3>1. \A d \in Calls : d # c => call'[d] = call[d]
      BY <1>4 DEF Resume, Good, TypeOK
    <3> QED  BY <1>6, <3>1, AloneStep
  <2> QED  BY <1>1, <1>2, <1>5, <2>2, <2>6, <2>7, CalmStep
<1> QED  BY <1>3, <1>4 DEF SetKeys

\* A refused write ends its call; the blob stands.
LEMMA KeptRefused ==
  ASSUME Good, NEW c \in Calls, CommitRefused(c) \/ SetKeysRefused(c)
  PROVE  KeysKept'
<1> USE GoodCall
<1>1. Finish(c) /\ UNCHANGED <<blob, listed, mem, keyStore, accounts, promised, gone, lastPassword>>
  BY DEF CommitRefused, SetKeysRefused, storageVars, historyVars
<1>2. blob.on \/ plain' = plain
  BY DEF CommitRefused, SetKeysRefused, storageVars, OnCourse
<1>3. OthersOnCourse(c)
  <2>1. \A d \in Calls : d # c => Idle(d)
    BY OthersIdle DEF CommitRefused, SetKeysRefused, Idle
  <2> QED  BY <1>1, <2>1, FinishOnCourse, AloneStep
<1>4. \A a \in LedgerAccounts : plain'[a] = NoKey
  <2>1. SetKeysRefused(c) => call[c].list = blob.list
    BY DEF SetKeysRefused, OnCourse
  <2> QED  BY <2>1, LedgerKeepsNoKey DEF CommitRefused, SetKeysRefused, storageVars
<1> QED  BY <1>1, <1>2, <1>3, <1>4, FinishOnCourse, CalmStep

\* The operations on the password that only set a call going.
LEMMA KeptPasswordStart ==
  ASSUME Good, NEW c \in Calls, NEW pw \in Passwords,
         StartUnlock(c, pw) \/ StartEnable(c, pw) \/ StartChange(c, pw)
  PROVE  KeysKept'
<1> USE GoodCall
<1>4. OthersOnCourse(c)
  <2>1. \A d \in Calls : d # c => call'[d] = call[d]
    BY DEF StartUnlock, StartEnable, StartChange, Good, TypeOK
  <2> QED  BY <2>1, OthersIdle, AloneStep DEF StartUnlock, StartEnable, StartChange, MayStart
<1>5. \A a \in LedgerAccounts : plain'[a] = NoKey
  BY LedgerKeepsNoKey DEF StartUnlock, StartEnable, StartChange, storageVars
<1>1. CASE StartUnlock(c, pw)
  <2>1. call'[c] = [NoCall EXCEPT !.op = "unlock", !.pw = pw, !.list = mem[c[1]].list,
                                  !.pc = IF mem[c[1]].open THEN "setKeys" ELSE "decrypt"]
    BY <1>1 DEF StartUnlock, Good, TypeOK
  <2>2. /\ call'[c].op = "unlock" /\ call'[c].list = mem[c[1]].list
        /\ call'[c].pc = IF mem[c[1]].open THEN "setKeys" ELSE "decrypt"
    BY <2>1 DEF NoCall
  <2>3. UNCHANGED <<plain, blob, listed, mem, keyStore, accounts, promised, gone, lastPassword>>
    BY <1>1 DEF StartUnlock, storageVars, historyVars
  <2>4. OnCourse(c)'
    BY <2>2, <2>3 DEF OnCourse, SaveOnCourse, RemovalOnCourse, PasswordCallOnCourse
  <2> QED  BY <1>4, <1>5, <2>2, <2>3, <2>4, CalmStep
<1>2. CASE StartEnable(c, pw)
  <2>1. PICK list \in SetToSeqs(PlainEntries) :
           call' = [call EXCEPT ![c] = [NoCall EXCEPT !.pc = "commit", !.op = "enable",
                                                      !.pw = pw, !.list = list]]
    BY <1>2 DEF StartEnable
  <2>2. call'[c] = [NoCall EXCEPT !.pc = "commit", !.op = "enable", !.pw = pw, !.list = list]
    BY <2>1 DEF Good, TypeOK
  <2>3. call'[c].op = "enable" /\ call'[c].pc = "commit" /\ call'[c].list = list
    BY <2>2 DEF NoCall
  <2>4. UNCHANGED <<plain, blob, listed, mem, keyStore, accounts, promised, gone, lastPassword>>
    BY <1>2 DEF StartEnable, storageVars, historyVars
  <2>5. ~blob.on
    BY <1>2 DEF StartEnable
  <2>6. UniqueIds(list) /\ \A a \in Accounts : KeyIn(list, a) = plain[a]
    BY ListingKeys DEF Good, TypeOK
  <2>7. OnCourse(c)'
    BY <2>3, <2>4, <2>5, <2>6 DEF OnCourse, SaveOnCourse, RemovalOnCourse, PasswordCallOnCourse
  <2> QED  BY <1>4, <1>5, <2>3, <2>4, <2>5, <2>6, <2>7, CalmStep
<1>3. CASE StartChange(c, pw)
  <2>1. call'[c] = [NoCall EXCEPT !.pc = "commit", !.op = "change", !.pw = pw,
                                  !.list = mem[c[1]].list]
    BY <1>3 DEF StartChange, Good, TypeOK
  <2>2. call'[c].op = "change" /\ call'[c].pc = "commit" /\ call'[c].list = mem[c[1]].list
    BY <2>1 DEF NoCall
  <2>3. mem[c[1]].open /\ blob.on
    BY <1>3 DEF StartChange, MayStart, Locked
  <2>4. UNCHANGED <<plain, blob, listed, mem, keyStore, accounts, promised, gone, lastPassword>>
    BY <1>3 DEF StartChange, storageVars, historyVars
  <2>5. OnCourse(c)'
    BY <2>2, <2>3, <2>4 DEF OnCourse, SaveOnCourse, RemovalOnCourse, PasswordCallOnCourse
  <2> QED  BY <1>4, <1>5, <2>2, <2>3, <2>4, <2>5, CalmStep
<1> QED  BY <1>1, <1>2, <1>3

LEMMA KeptStartDisable ==
  ASSUME Good, NEW c \in Calls, StartDisable(c)
  PROVE  KeysKept'
<1> USE GoodCall
<1>1. call'[c] = [NoCall EXCEPT !.pc = "setKeys", !.op = "disable", !.list = mem[c[1]].list]
  BY DEF StartDisable, Good, TypeOK
<1>2. call'[c].op = "disable" /\ call'[c].pc = "setKeys" /\ call'[c].list = mem[c[1]].list
  BY <1>1 DEF NoCall
<1>3. mem[c[1]].open /\ blob.on /\ "disable" \in Operations
  BY DEF StartDisable, MayStart, Locked
<1>4. UNCHANGED <<plain, blob, listed, mem, accounts, promised, gone, lastPassword>>
  BY DEF StartDisable, storageVars, historyVars
<1>5. keyStore'[c[1]].kind = "browser"
  BY DEF StartDisable, ReplacedStore, Good, TypeOK
<1>6. OnCourse(c)'
  BY <1>2, <1>3, <1>4, <1>5 DEF OnCourse, SaveOnCourse, RemovalOnCourse, PasswordCallOnCourse
<1>7. OthersOnCourse(c)
  <2>1. \A d \in Calls : d # c => call'[d] = call[d]
    BY DEF StartDisable, Good, TypeOK
  <2> QED  BY <2>1, OthersIdle, AloneStep DEF StartDisable, MayStart
<1> QED  BY <1>2, <1>3, <1>4, <1>6, <1>7, LedgerKeepsNoKey, CalmStep

\* A step that keeps the password, the list and the saved keys as they are, but
\* may fill or empty the cache, or swap where the same keys are stored.
LEMMA CacheStep ==
  ASSUME Good, NEW c \in Calls,
         UNCHANGED <<listed, accounts, promised, gone>>,
         \A a \in Accounts : promised[a] # {} => Recoverable(a)' \in promised[a],
         \A a \in (listed \union accounts[c[1]]) \ LedgerAccounts : Recoverable(a)' # NoKey,
         LedgerAccountsHaveNoKey',
         PasswordStaysOn => \A a \in gone : Recoverable(a)' = NoKey,
         mem'[c[1]].hasEnc = blob'.on,
         mem'[c[1]].open => blob'.on /\ mem'[c[1]].pw = blob'.pw /\ mem'[c[1]].list = blob'.list,
         ~blob'.on => keyStore'[c[1]].kind = "browser",
         UniqueIds(blob'.list), UniqueIds(mem'[c[1]].list), UniqueIds(call'[c].list),
         BlobHasLastPassword', OnCourse(c)', OthersOnCourse(c)
  PROVE  KeysKept'
<1> DEFINE t == c[1]
<1>1. (\A s \in Tabs : s = t) /\ t \in Tabs
  BY OnlyTab DEF Good
<1>2. CacheAgrees'
  BY <1>1 DEF CacheAgrees
<1>3. ListsAreMaps'
  BY <1>1 DEF ListsAreMaps, OthersOnCourse
<1>4. ListedHaveKeys' /\ SavedAccountsStayListed'
  BY <1>1 DEF Good, KeysKept, ListedHaveKeys, SavedAccountsStayListed
<1>5. CallsOnCourse' /\ CallsTakeTurns'
  BY DEF CallsOnCourse, OthersOnCourse
<1>6. SavedKeysAreRecoverable' /\ RemovedStayRemoved'
  BY DEF SavedKeysAreRecoverable, RemovedStayRemoved, RemovedKeysAreNotRecoverable, PasswordStaysOn
<1> QED  BY <1>2, <1>3, <1>4, <1>5, <1>6 DEF KeysKept

LEMMA KeptDecrypt ==
  ASSUME Good, NEW c \in Calls, Decrypt(c)
  PROVE  KeysKept'
<1> USE GoodCall
<1> DEFINE t == c[1]
<1>1. UNCHANGED <<plain, blob, listed, keyStore, accounts, promised, gone, lastPassword>>
      /\ \A a \in Accounts : Recoverable(a)' = Recoverable(a)
  BY SameKeys DEF Decrypt, storageVars, historyVars
<1>4. \A d \in Calls : d # c => Idle(d)
  BY OthersIdle DEF Decrypt, Idle
<1>2. CASE blob.on /\ blob.pw = call[c].pw
  <2>1. call'[c] = [call[c] EXCEPT !.pc = "setKeys", !.list = blob.list]
    BY <1>2 DEF Decrypt, Good, TypeOK
  <2>2. /\ call'[c].pc = "setKeys" /\ call'[c].list = blob.list /\ call'[c].op = call[c].op
    BY <2>1 DEF CallOK, CallType
  <2>3. call[c].op = "unlock"
    BY DEF Decrypt, OnCourse, SaveOnCourse, RemovalOnCourse, PasswordCallOnCourse, CallOK, CallType
  <2>4. mem'[t] = [mem[t] EXCEPT !.open = TRUE, !.pw = blob.pw, !.list = blob.list]
    BY <1>2 DEF Decrypt, Good, TypeOK
  <2>5. /\ mem'[t].open /\ mem'[t].pw = blob.pw /\ mem'[t].list = blob.list
        /\ mem'[t].hasEnc = mem[t].hasEnc
    BY <2>4 DEF MemType
  <2>6. OnCourse(c)'
    BY <1>1, <1>2, <2>2, <2>3, <2>5 DEF OnCourse, SaveOnCourse, RemovalOnCourse, PasswordCallOnCourse
  <2>7. /\ \A a \in Accounts : promised[a] # {} => Recoverable(a)' \in promised[a]
        /\ PasswordStaysOn => \A a \in gone : Recoverable(a)' = NoKey
        /\ \A a \in (listed \union accounts[t]) \ LedgerAccounts : Recoverable(a)' # NoKey
    BY <1>1 DEF Good, TypeOK, KeysKept, SavedKeysAreRecoverable, RemovedStayRemoved,
       RemovedKeysAreNotRecoverable, ListedHaveKeys
  <2>8. BlobHasLastPassword'
    BY <1>1 DEF Good, KeysKept, BlobHasLastPassword
  <2>9. OthersOnCourse(c) /\ LedgerAccountsHaveNoKey'
    <3>1. \A d \in Calls : d # c => call'[d] = call[d]
      BY <1>2 DEF Decrypt, Good, TypeOK
    <3> QED  BY <1>1, <1>4, <3>1, AloneStep DEF Good, KeysKept, LedgerAccountsHaveNoKey
  <2> QED  BY <1>1, <1>2, <2>2, <2>5, <2>6, <2>7, <2>8, <2>9, CacheStep
<1>3. CASE ~ (blob.on /\ blob.pw = call[c].pw)
  <2>1. Finish(c) /\ mem' = mem
    BY <1>3 DEF Decrypt
  <2>2. OthersOnCourse(c)
    BY <1>4, <2>1, FinishOnCourse, AloneStep
  <2> QED  BY <1>1, <2>1, <2>2, FinishOnCourse, LedgerKeepsNoKey, CalmStep
<1> QED  BY <1>2, <1>3

\* Every key is in the browser's store when the blob is dropped.
LEMMA KeptDrop ==
  ASSUME Good, NEW c \in Calls, Drop(c)
  PROVE  KeysKept'
<1> USE GoodCall
<1> DEFINE t == c[1]
<1>1. /\ blob.on /\ keyStore[t].kind = "browser" /\ "disable" \in Operations
      /\ \A a \in Accounts : KeyIn(blob.list, a) # NoKey => plain[a] = KeyIn(blob.list, a)
  BY DEF Drop, OnCourse, SaveOnCourse, RemovalOnCourse, PasswordCallOnCourse, CallOK, CallType
<1>2. /\ blob' = [on |-> FALSE, pw |-> NoPassword, list |-> <<>>]
      /\ mem'[t] = [hasEnc |-> FALSE, open |-> FALSE, pw |-> NoPassword, list |-> <<>>]
      /\ UNCHANGED <<plain, listed, keyStore, accounts, promised, gone, lastPassword>> /\ Finish(c)
  BY DEF Drop, Good, TypeOK, historyVars
<1>3. /\ blob'.on = FALSE /\ blob'.list = <<>> /\ mem'[t].hasEnc = FALSE /\ mem'[t].open = FALSE
      /\ mem'[t].list = <<>> /\ UniqueIds(<<>>)
  BY <1>2 DEF UniqueIds
<1>4. \A a \in Accounts : Recoverable(a)' = plain[a] /\ Recoverable(a) = KeyIn(blob.list, a)
  BY <1>1, <1>2, <1>3 DEF Recoverable
<1>5. \A a \in Accounts : promised[a] # {} => Recoverable(a)' \in promised[a]
  <2>1. \A a \in Accounts : NoKey \notin promised[a]
    BY SentinelsAssumption DEF Good, TypeOK
  <2> QED  BY <1>1, <1>4, <2>1 DEF Good, KeysKept, SavedKeysAreRecoverable
<1>6. \A a \in (listed \union accounts[t]) \ LedgerAccounts : Recoverable(a)' # NoKey
  <2>1. listed \union accounts[t] \subseteq Accounts /\ t \in Tabs
    BY DEF Good, TypeOK
  <2>2. \A a \in (listed \union accounts[t]) \ LedgerAccounts : Recoverable(a) # NoKey
    BY <2>1 DEF Good, KeysKept, ListedHaveKeys
  <2> QED  BY <1>1, <1>4, <2>1, <2>2
<1>7. BlobHasLastPassword' /\ UniqueIds(call'[c].list) /\ OnCourse(c)'
  BY <1>2, <1>3, FinishOnCourse DEF BlobHasLastPassword
<1>8. OthersOnCourse(c)
  <2>1. \A d \in Calls : d # c => Idle(d)
    BY OthersIdle DEF Drop, Idle
  <2> QED  BY <1>2, <2>1, FinishOnCourse, AloneStep
<1>9. LedgerAccountsHaveNoKey'
  BY <1>2, <1>3 DEF Good, KeysKept, LedgerAccountsHaveNoKey, KeyIn, Positions
<1> QED  BY <1>1, <1>2, <1>3, <1>5, <1>6, <1>7, <1>8, <1>9, CacheStep DEF PasswordStaysOn

\* The write of the blob: whatever it was for, the new list has the saved keys.
LEMMA KeptCommit ==
  ASSUME Good, NEW c \in Calls, Commit(c)
  PROVE  KeysKept'
<1> USE GoodCall, GoodKeys
<1> DEFINE t == c[1]
           k == call[c]
<1>1. /\ k.pc = "commit" /\ k \in CallType /\ t \in Tabs
      /\ k.op \in {"save", "remove", "enable", "change"}
      /\ k.op # "enable" => blob.on
      /\ listed \union accounts[t] \subseteq Accounts
  BY DEF Commit, OnCourse, SaveOnCourse, RemovalOnCourse, PasswordCallOnCourse, CallOK, CallType,
         Good, TypeOK
<1>2. /\ blob' = [on |-> TRUE, pw |-> k.pw, list |-> k.list]
      /\ mem'[t] = [hasEnc |-> TRUE, open |-> TRUE, pw |-> k.pw, list |-> k.list]
      /\ UNCHANGED <<plain, listed, keyStore, accounts, promised, gone>>
      /\ lastPassword' = IF k.op \in {"enable", "change"} THEN k.pw ELSE lastPassword
  BY DEF Commit, Good, TypeOK
<1>3. /\ blob'.on = TRUE /\ blob'.pw = k.pw /\ blob'.list = k.list
      /\ mem'[t].hasEnc = TRUE /\ mem'[t].open = TRUE /\ mem'[t].pw = k.pw /\ mem'[t].list = k.list
  BY <1>2
<1>4. \A a \in Accounts : Recoverable(a)' = KeyIn(k.list, a)
  BY <1>3 DEF Recoverable
<1>5. call'[c] = [k EXCEPT !.pc = CASE k.op = "enable" -> "scrub"
                                    [] k.op = "change" -> "reread"
                                    [] OTHER -> "reinit"]
  BY DEF Commit, Resume, Good, TypeOK
<1>6. /\ call'[c].op = k.op /\ call'[c].id = k.id /\ call'[c].key = k.key /\ call'[c].list = k.list
      /\ k.op = "enable" => call'[c].pc = "scrub"
      /\ k.op = "change" => call'[c].pc = "reread"
      /\ k.op \in {"save", "remove"} => call'[c].pc = "reinit"
  BY <1>1, <1>5 DEF CallType
<1>7. /\ \A a \in Accounts : promised[a] # {} => Recoverable(a) \in promised[a]
      /\ \A a \in (listed \union accounts[t]) \ LedgerAccounts : Recoverable(a) # NoKey
      /\ PasswordStaysOn => \A a \in gone : Recoverable(a) = NoKey
      /\ blob.on => blob.pw = lastPassword
      /\ gone \subseteq Accounts
  BY <1>1 DEF Good, KeysKept, SavedKeysAreRecoverable, ListedHaveKeys, RemovedStayRemoved,
              RemovedKeysAreNotRecoverable, BlobHasLastPassword, TypeOK
<1>11. OthersOnCourse(c)
  <2>1. \A d \in Calls : d # c => call'[d] = call[d]
    BY DEF Commit, Resume, Good, TypeOK
  <2> QED  BY <1>1, <2>1, OthersIdle, AloneStep DEF Idle
<1>12. (\A a \in LedgerAccounts : Recoverable(a)' = NoKey) => LedgerAccountsHaveNoKey'
  BY <1>2, <1>3 DEF LedgerAccountsHaveNoKey, Recoverable
<1>8. CASE k.op = "enable" \/ k.op = "change"
  <2>1. \A a \in Accounts : Recoverable(a)' = Recoverable(a)
    <3>1. CASE k.op = "enable"
      BY <1>1, <1>4, <3>1 DEF OnCourse, PasswordCallOnCourse, Recoverable
    <3>2. CASE k.op = "change"
      BY <1>1, <1>4, <3>2 DEF OnCourse, PasswordCallOnCourse, Recoverable
    <3> QED  BY <1>8, <3>1, <3>2
  <2>2. OnCourse(c)'
    <3>1. call'[c].op \in {"enable", "change"} /\ call'[c].pc \in {"scrub", "reread"}
          /\ (call'[c].op = "enable" <=> call'[c].pc = "scrub")
      BY <1>6, <1>8
    <3>2. SaveOnCourse(c)' /\ RemovalOnCourse(c)'
      BY <3>1 DEF SaveOnCourse, RemovalOnCourse
    <3>3. PasswordCallOnCourse(c)'
      BY <3>1 DEF PasswordCallOnCourse
    <3> QED  BY <1>3, <3>1, <3>2, <3>3 DEF OnCourse
  <2>3. BlobHasLastPassword'
    BY <1>2, <1>3, <1>8 DEF BlobHasLastPassword
  <2>4. /\ \A a \in Accounts : promised[a] # {} => Recoverable(a)' \in promised[a]
        /\ \A a \in (listed \union accounts[t]) \ LedgerAccounts : Recoverable(a)' # NoKey
        /\ \A a \in LedgerAccounts : Recoverable(a)' = NoKey
        /\ PasswordStaysOn => \A a \in gone : Recoverable(a)' = NoKey
    BY <1>1, <1>7, <2>1
  <2> QED  BY <1>1, <1>2, <1>3, <1>6, <1>11, <1>12, <2>2, <2>3, <2>4, CacheStep
<1>9. CASE k.op = "save"
  <2>1. /\ k.id \in Accounts /\ k.pw = blob.pw /\ k.id \notin gone
        /\ k.key # NoKey => k.key \in Keys
        /\ k.key = NoKey <=> k.id \in LedgerAccounts
        /\ k.list = IF k.key = NoKey THEN blob.list ELSE Upserted(blob.list, k.id, k.key)
        /\ promised[k.id] # {} => k.key \in promised[k.id]
    BY <1>1, <1>9 DEF OnCourse, SaveOnCourse, CallOK, CallType, MaybeKey
  <2>2. \A a \in Accounts : Recoverable(a)' = IF a = k.id THEN k.key ELSE Recoverable(a)
    <3>1. CASE k.key # NoKey
      BY <1>1, <1>4, <1>9, <2>1, <3>1, UpsertedKeys DEF Recoverable
    <3>2. CASE k.key = NoKey
      <4>1. \A a \in Accounts : Recoverable(a)' = Recoverable(a)
        BY <1>1, <1>4, <1>9, <2>1, <3>2 DEF Recoverable
      <4> QED  BY <2>1, <3>2, <4>1
    <3> QED  BY <3>1, <3>2
  <2>3. /\ \A a \in Accounts : promised[a] # {} => Recoverable(a)' \in promised[a]
        /\ \A a \in (listed \union accounts[t]) \ LedgerAccounts : Recoverable(a)' # NoKey
        /\ \A a \in LedgerAccounts : Recoverable(a)' = NoKey
        /\ PasswordStaysOn => \A a \in gone : Recoverable(a)' = NoKey
    BY <1>1, <1>7, <2>1, <2>2, SentinelsAssumption
  <2>4. OnCourse(c)'
    <3>1. Recoverable(call[c].id)' = k.key
      BY <1>6, <2>1, <2>2
    <3>2. SaveOnCourse(c)'
      BY <1>2, <1>6, <1>9, <2>1, <3>1 DEF SaveOnCourse
    <3> QED  BY <1>3, <1>6, <1>9, <3>2 DEF OnCourse, RemovalOnCourse, PasswordCallOnCourse
  <2>5. BlobHasLastPassword'
    BY <1>1, <1>2, <1>3, <1>7, <1>9, <2>1 DEF BlobHasLastPassword
  <2> QED  BY <1>1, <1>2, <1>3, <1>6, <1>11, <1>12, <2>3, <2>4, <2>5, CacheStep
<1>10. CASE k.op = "remove"
  <2>1. /\ k.id \in Accounts /\ k.pw = blob.pw /\ promised[k.id] = {}
        /\ k.id \notin listed \union accounts[t]
        /\ k.list = Spliced(blob.list, k.id) /\ Positions(blob.list, k.id) # {}
    BY <1>1, <1>10 DEF OnCourse, RemovalOnCourse, CallOK
  <2>2. \A a \in Accounts : Recoverable(a)' = IF a = k.id THEN NoKey ELSE Recoverable(a)
    BY <1>1, <1>4, <1>10, <2>1, SplicedKeys DEF Recoverable
  <2>3. /\ \A a \in Accounts : promised[a] # {} => Recoverable(a)' \in promised[a]
        /\ \A a \in (listed \union accounts[t]) \ LedgerAccounts : Recoverable(a)' # NoKey
        /\ \A a \in LedgerAccounts : Recoverable(a)' = NoKey
        /\ PasswordStaysOn => \A a \in gone : Recoverable(a)' = NoKey
    BY <1>1, <1>7, <2>1, <2>2
  <2>4. OnCourse(c)'
    <3>1. Recoverable(call[c].id)' = NoKey
      BY <1>6, <2>1, <2>2
    <3>2. RemovalOnCourse(c)'
      BY <1>2, <1>6, <1>10, <2>1, <3>1 DEF RemovalOnCourse
    <3> QED  BY <1>3, <1>6, <1>10, <3>2 DEF OnCourse, SaveOnCourse, PasswordCallOnCourse
  <2>5. BlobHasLastPassword'
    BY <1>1, <1>2, <1>3, <1>7, <1>10, <2>1 DEF BlobHasLastPassword
  <2> QED  BY <1>1, <1>2, <1>3, <1>6, <1>11, <1>12, <2>3, <2>4, <2>5, CacheStep
<1> QED  BY <1>1, <1>8, <1>9, <1>10

\* A step of saving or removing that leaves the blob and the cache alone.
LEMMA ListStep ==
  ASSUME Good, NEW c \in Calls,
         UNCHANGED <<blob, mem, lastPassword>>,
         ~blob.on => keyStore'[c[1]].kind = "browser",
         \A a \in Accounts : promised'[a] # {} =>
             Recoverable(a)' \in promised'[a] /\ a \in listed' \intersect accounts'[c[1]],
         \A a \in (listed' \union accounts'[c[1]]) \ LedgerAccounts : Recoverable(a)' # NoKey,
         \A a \in LedgerAccounts : plain'[a] = NoKey,
         PasswordStaysOn => \A a \in gone' : Recoverable(a)' = NoKey,
         UniqueIds(call'[c].list), OnCourse(c)', OthersOnCourse(c)
  PROVE  KeysKept'
<1> DEFINE t == c[1]
<1>1. (\A s \in Tabs : s = t) /\ t \in Tabs
  BY OnlyTab DEF Good
<1>2. CacheAgrees'
  BY <1>1 DEF Good, KeysKept, CacheAgrees
<1>3. ListsAreMaps'
  BY <1>1 DEF Good, KeysKept, ListsAreMaps, OthersOnCourse
<1>4. ListedHaveKeys' /\ SavedAccountsStayListed' /\ LedgerAccountsHaveNoKey'
  BY <1>1 DEF ListedHaveKeys, SavedAccountsStayListed, LedgerAccountsHaveNoKey, Good, KeysKept
<1>5. CallsOnCourse' /\ CallsTakeTurns'
  BY DEF CallsOnCourse, OthersOnCourse
<1>6. SavedKeysAreRecoverable' /\ RemovedStayRemoved' /\ BlobHasLastPassword'
  BY DEF SavedKeysAreRecoverable, RemovedStayRemoved, RemovedKeysAreNotRecoverable,
         PasswordStaysOn, BlobHasLastPassword, Good, KeysKept
<1> QED  BY <1>2, <1>3, <1>4, <1>5, <1>6 DEF KeysKept

LEMMA KeptStartSave ==
  ASSUME Good, NEW c \in Calls, NEW a \in Accounts, NEW k \in MaybeKey, StartSave(c, a, k),
         ~blob.on \/ Alone(c)
  PROVE  KeysKept'
<1> USE GoodCall, GoodKeys
<1> DEFINE t == c[1]
<1>1. /\ k # NoKey => k \in Keys
      /\ k = NoKey <=> a \in LedgerAccounts
      /\ blob.on => mem[t].open
  BY DEF StartSave, MaybeKey, MayStart, Locked
<1>2. /\ UNCHANGED <<blob, mem, listed, lastPassword>> /\ accounts'[t] \in {listed, accounts[t]}
      /\ promised' = [promised EXCEPT ![a] = IF @ = {} \/ k = NoKey THEN @ ELSE @ \union {k}]
      /\ gone' = gone \ {a}
  BY <1>1 DEF StartSave, Good, TypeOK
<1>3. \A b \in Accounts : promised'[b] = IF b = a /\ promised[b] # {} /\ k # NoKey
                                        THEN promised[b] \union {k} ELSE promised[b]
  BY <1>1, <1>2 DEF Good, TypeOK
<1>4. call'[c] = [NoCall EXCEPT !.pc = IF mem[t].hasEnc THEN "encrypt" ELSE "list",
                                !.op = "save", !.id = a, !.key = k,
                                !.list = IF mem[t].hasEnc THEN mem[t].list ELSE <<>>]
  BY DEF StartSave, Good, TypeOK
<1>5. /\ call'[c].op = "save" /\ call'[c].id = a /\ call'[c].key = k
      /\ call'[c].pc = IF mem[t].hasEnc THEN "encrypt" ELSE "list"
      /\ call'[c].list = IF mem[t].hasEnc THEN mem[t].list ELSE <<>>
  BY <1>4 DEF NoCall
<1>6. UniqueIds(<<>>)
  BY DEF UniqueIds
<1>9. /\ a \notin gone' /\ (promised'[a] # {} => k \in promised'[a])
      /\ call'[c].pc \in {"encrypt", "list"}
  <2>1. a \notin gone'
    BY <1>2
  <2>2. promised'[a] # {} => k \in promised'[a]
    <3>1. CASE k # NoKey
      BY <1>3, <3>1
    <3>2. CASE k = NoKey
      <4>1. Recoverable(a) = NoKey
        BY <1>1, <3>2
      <4>2. promised[a] = {}
        <5>1. NoKey \notin promised[a]
          BY SentinelsAssumption DEF Good, TypeOK
        <5> QED  BY <4>1, <5>1
      <4> QED  BY <1>3, <3>2, <4>2
    <3> QED  BY <3>1, <3>2
  <2>3. call'[c].pc \in {"encrypt", "list"}
    BY <1>5
  <2> QED  BY <1>1, <2>1, <2>2, <2>3
<1>10. \A d \in Calls : d # c => call'[d] = call[d]
  BY DEF StartSave, Good, TypeOK
<1>7. CASE blob.on
  <2>1. UNCHANGED <<plain, keyStore>> /\ mem[t].hasEnc /\ mem[t].open /\ mem[t].list = blob.list
    BY <1>1, <1>7 DEF StartSave
  <2>2. \A b \in Accounts : Recoverable(b)' = Recoverable(b)
    BY <1>2, <1>7, SameKeys
  <2>3. OnCourse(c)'
    <3>1. SaveOnCourse(c)'
      <4>1. call'[c].pc = "encrypt" /\ call'[c].list = blob'.list
        BY <1>2, <1>5, <2>1
      <4> QED  BY <1>1, <1>5, <1>9, <4>1 DEF SaveOnCourse
    <3> QED  BY <1>2, <1>5, <1>7, <2>1, <3>1 DEF OnCourse, RemovalOnCourse, PasswordCallOnCourse
  <2>4. UniqueIds(call'[c].list)
    BY <1>5, <2>1
  <2>5. \A b \in Accounts : promised'[b] # {} =>
           Recoverable(b)' \in promised'[b] /\ b \in listed' \intersect accounts'[t]
    BY <1>2, <1>3, <2>2
  <2>6. OthersOnCourse(c)
    BY <1>7, <1>10, OthersIdle, AloneStep
  <2>7. \A b \in (listed' \union accounts'[t]) \ LedgerAccounts : Recoverable(b)' # NoKey
    BY <1>2, <2>2
  <2>8. PasswordStaysOn => \A b \in gone' : Recoverable(b)' = NoKey
    BY <1>2, <2>2
  <2>9. \A b \in LedgerAccounts : plain'[b] = NoKey
    BY <2>1
  <2> QED  BY <1>2, <1>7, <2>1, <2>3, <2>4, <2>5, <2>6, <2>7, <2>8, <2>9, ListStep
<1>8. CASE ~blob.on
  <2>1. ~mem[t].hasEnc /\ keyStore[t].kind = "browser"
    BY <1>8
  <2>2. keyStore' = keyStore /\ plain' = [plain EXCEPT ![a] = k]
    <3>1. CASE k # NoKey
      BY <2>1, <3>1 DEF StartSave, PutKey
    <3>2. CASE k = NoKey
      <4>1. plain[a] = NoKey /\ plain \in StoreType
        BY <1>1, <3>2 DEF Good, TypeOK
      <4> QED  BY <3>2, <4>1 DEF StartSave, StoreType
    <3> QED  BY <3>1, <3>2
  <2>10. \A b \in Accounts : plain'[b] = IF b = a THEN k ELSE plain[b]
    BY <2>2 DEF Good, TypeOK, StoreType
  <2>3. \A b \in Accounts : Recoverable(b)' = IF b = a THEN k ELSE Recoverable(b)
    BY <1>2, <1>8, <2>10 DEF Recoverable
  <2>4. OnCourse(c)'
    <3>1. Recoverable(call[c].id)' = k
      BY <1>5, <2>3
    <3>2. SaveOnCourse(c)'
      <4>1. call'[c].pc = "list"
        BY <1>5, <2>1
      <4> QED  BY <1>1, <1>5, <1>9, <3>1, <4>1 DEF SaveOnCourse
    <3> QED  BY <1>5, <2>1, <3>2 DEF OnCourse, RemovalOnCourse, PasswordCallOnCourse
  <2>5. UniqueIds(call'[c].list)
    BY <1>5, <1>6, <2>1
  <2>6. \A b \in Accounts : promised'[b] # {} =>
           Recoverable(b)' \in promised'[b] /\ b \in listed' \intersect accounts'[t]
    <3> TAKE b \in Accounts
    <3> HAVE promised'[b] # {}
    <3>1. promised[b] # {}
      BY <1>3
    <3>2. b \in listed' \intersect accounts'[t]
      BY <1>2, <3>1
    <3>3. CASE b = a
      BY <1>9, <2>3, <3>2, <3>3
    <3>4. CASE b # a
      BY <1>3, <2>3, <3>1, <3>2, <3>4
    <3> QED  BY <3>2, <3>3, <3>4
  <2>7. ASSUME NEW b \in (listed' \union accounts'[t]) \ LedgerAccounts
        PROVE  Recoverable(b)' # NoKey
    <3>1. \/ b \in Accounts /\ Recoverable(b) # NoKey
          \/ b \notin listed \union accounts[t]
      OBVIOUS
    <3>2. b \in listed \union accounts[t]
      BY <1>2
    <3>3. b = a => k # NoKey
      BY <1>1
    <3> QED  BY <2>3, <3>1, <3>2, <3>3
  <2>8. PasswordStaysOn => \A b \in gone' : Recoverable(b)' = NoKey
    BY <1>2, <2>3
  <2>9. \A b \in LedgerAccounts : plain'[b] = NoKey
    BY <1>1, <2>10
  <2>11. OthersOnCourse(c)
    <3>1. \A d \in Calls : d # c => Idle(d) \/ (Parked(d) /\ call[d].id # a)
      <4>1. Together(c, a) /\ \A d \in Calls : d[1] = t
        BY OnlyTab DEF StartSave, Good
      <4>2. ASSUME NEW d \in Calls, d # c, ~Idle(d)
            PROVE  Parked(d) /\ call[d].id # a
        <5>1. call[d].op = "save" /\ call[d].pc \in {"encrypt", "list"} /\ call[d].id # a
          BY <4>1, <4>2 DEF Together
        <5>2. call[d].pc = "list"
          BY <1>8, <5>1 DEF Good, KeysKept, CallsOnCourse, OnCourse
        <5> QED  BY <1>8, <5>1, <5>2 DEF Parked
      <4> QED  BY <4>2
    <3>2. Parked(c)'
      BY <1>2, <1>5, <1>8, <2>1 DEF Parked
    <3>3. ASSUME NEW d \in Calls, d # c, Parked(d)
          PROVE  /\ call'[c].id # call[d].id /\ plain'[call[d].id] = plain[call[d].id]
                 /\ promised'[call[d].id] = promised[call[d].id] /\ call[d].id \notin gone'
      <4>1. call[d].id \in Accounts /\ call[d].id # a /\ call[d].id \notin gone
        BY <3>1, <3>3 DEF Parked, Idle, Good, TypeOK, KeysKept, CallsOnCourse, OnCourse,
           SaveOnCourse
      <4> QED  BY <1>2, <1>3, <1>5, <2>10, <4>1
    <3> QED  BY <1>2, <1>8, <1>10, <3>1, <3>2, <3>3, ParkedStep
  <2> QED  BY <1>2, <2>1, <2>2, <2>4, <2>5, <2>6, <2>7, <2>8, <2>9, <2>11, ListStep
<1> QED  BY <1>7, <1>8

LEMMA KeptList ==
  ASSUME Good, NEW c \in Calls, ListAccount(c) \/ ListRefused(c)
  PROVE  KeysKept'
<1> USE GoodCall, GoodKeys
<1> DEFINE t == c[1]
           a == call[c].id
           k == call[c].key
<1>1. /\ a \in Accounts /\ (k = NoKey <=> a \in LedgerAccounts) /\ Recoverable(a) = k
      /\ a \notin gone /\ call[c].pc = "list" /\ call[c].op = "save"
  BY DEF ListAccount, ListRefused, OnCourse, SaveOnCourse, RemovalOnCourse, PasswordCallOnCourse,
         CallOK, CallType
<1>2. /\ UNCHANGED <<plain, blob, mem, keyStore, gone, lastPassword>> /\ Finish(c)
      /\ accounts'[t] \in {accounts[t] \union {a}, listed \union {a}}
      /\ \/ /\ promised' = [promised EXCEPT ![a] = {k}] /\ k # NoKey
            /\ listed' = accounts'[t]
         \/ promised' = promised /\ listed' \in {listed, accounts'[t]}
  <2>1. CASE ListAccount(c)
    <3> DEFINE known == (IF k = NoKey THEN listed ELSE accounts[t]) \union {a}
    <3>1. /\ UNCHANGED <<plain, blob, mem, keyStore, gone, lastPassword>> /\ Finish(c)
          /\ accounts' = [accounts EXCEPT ![t] = known] /\ listed' = known
          /\ promised' = IF k = NoKey THEN promised ELSE [promised EXCEPT ![a] = {k}]
      BY <2>1 DEF ListAccount
    <3> HIDE DEF a, k, known
    <3>2. accounts'[t] = known
      BY <3>1 DEF Good, TypeOK
    <3> QED  BY <3>1, <3>2 DEF known
  <2>2. CASE ListRefused(c)
    <3> DEFINE known == (IF k = NoKey THEN listed ELSE accounts[t]) \union {a}
    <3>1. /\ UNCHANGED <<plain, blob, mem, keyStore, gone, lastPassword, listed, promised>>
          /\ Finish(c) /\ accounts' = [accounts EXCEPT ![t] = known]
      BY <2>2 DEF ListRefused, storageVars, historyVars
    <3> HIDE DEF a, k, known
    <3>2. accounts'[t] = known
      BY <3>1 DEF Good, TypeOK
    <3> QED  BY <3>1, <3>2 DEF known
  <2> QED  BY <2>1, <2>2
<1>3. \A b \in Accounts : Recoverable(b)' = Recoverable(b)
  BY <1>2, SameKeys
<1>4. UniqueIds(call'[c].list) /\ OnCourse(c)'
  BY <1>2, FinishOnCourse
<1>5. \A b \in Accounts : promised'[b] # {} =>
         Recoverable(b)' \in promised'[b] /\ b \in listed' \intersect accounts'[t]
  BY <1>1, <1>2, <1>3 DEF Good, TypeOK
<1>6. \A b \in (listed' \union accounts'[t]) \ LedgerAccounts : Recoverable(b)' # NoKey
  BY <1>1, <1>2, <1>3
<1>7. PasswordStaysOn => \A b \in gone' : Recoverable(b)' = NoKey
  BY <1>2, <1>3
<1>8. OthersOnCourse(c)
  <2>1. CASE blob.on
    BY <1>1, <1>2, <2>1, FinishOnCourse, OthersIdle, AloneStep DEF Idle
  <2>2. CASE ~blob.on
    <3>1. ASSUME NEW d \in Calls, d # c
          PROVE  Idle(d) \/ (Parked(d) /\ call[d].id # a /\ call[d].id \in Accounts)
      BY <1>1, <3>1 DEF Good, KeysKept, CallsTakeTurns, Idle, TypeOK, Parked
    <3>2. ASSUME NEW d \in Calls, d # c, Parked(d)
          PROVE  /\ plain'[call[d].id] = plain[call[d].id] /\ call[d].id \notin gone'
                 /\ promised'[call[d].id] = promised[call[d].id]
      <4>1. call[d].id \in Accounts /\ call[d].id # a /\ call[d].id \notin gone
        BY <3>1, <3>2 DEF Parked, Idle, Good, KeysKept, CallsOnCourse, OnCourse, SaveOnCourse
      <4> HIDE DEF a, k
      <4> QED  BY <1>2, <4>1 DEF Good, TypeOK
    <3> HIDE DEF a, k
    <3> QED  BY <1>2, <2>2, <3>1, <3>2, FinishOnCourse, ParkedStep
  <2> QED  BY <2>1, <2>2
<1> HIDE DEF a, k
<1> QED  BY <1>2, <1>4, <1>5, <1>6, <1>7, <1>8, ListStep

\* Removing an account starts with its entry in the blob, which is the one that
\* is then taken: this is where the proof needs every account to have a key.
LEMMA KeptStartRemove ==
  ASSUME Good, NEW c \in Calls, NEW a \in Accounts, StartRemove(c, a),
         a \in LedgerAccounts => ~blob.on
  PROVE  KeysKept'
<1> USE GoodCall, GoodKeys
<1> DEFINE t == c[1]
<1>1. /\ UNCHANGED <<blob, mem, gone, lastPassword>> /\ a \in listed
      /\ accounts'[t] = listed \ {a} /\ listed' = listed \ {a}
      /\ promised' = [promised EXCEPT ![a] = {}]
      /\ blob.on => mem[t].open
  BY DEF StartRemove, Good, TypeOK, Locked
<1>2. promised'[a] = {} /\ \A b \in Accounts : b # a => promised'[b] = promised[b]
  BY <1>1 DEF Good, TypeOK
<1>3. call'[c] = [NoCall EXCEPT !.pc = IF mem[t].hasEnc THEN "encrypt" ELSE "deactivate",
                                !.op = "remove", !.id = a, !.rest = listed \ {a},
                                !.list = IF mem[t].hasEnc THEN mem[t].list ELSE <<>>]
  BY DEF StartRemove, Good, TypeOK
<1>4. /\ call'[c].op = "remove" /\ call'[c].id = a
      /\ call'[c].pc = IF mem[t].hasEnc THEN "encrypt" ELSE "deactivate"
      /\ call'[c].list = IF mem[t].hasEnc THEN mem[t].list ELSE <<>>
  BY <1>3 DEF NoCall
<1>5. /\ promised'[a] = {} /\ a \notin listed' \union accounts'[t]
      /\ a \notin LedgerAccounts => Recoverable(a) # NoKey
  BY <1>1, <1>2
<1>6. UniqueIds(<<>>)
  BY DEF UniqueIds
<1>9. OthersOnCourse(c)
  <2>1. \A d \in Calls : d # c => call'[d] = call[d]
    BY DEF StartRemove, Good, TypeOK
  <2> QED  BY <2>1, OthersIdle, AloneStep DEF StartRemove
<1>7. CASE blob.on
  <2>1. UNCHANGED <<plain, keyStore>> /\ mem[t].hasEnc /\ mem[t].open /\ mem[t].list = blob.list
    BY <1>1, <1>7 DEF StartRemove
  <2>2. \A b \in Accounts : Recoverable(b)' = Recoverable(b)
    BY <1>1, <1>7, SameKeys
  <2>3. Positions(blob.list, a) # {}
    BY <1>5, <1>7, NoKeyIsNoEntry DEF Recoverable
  <2>4. OnCourse(c)'
    <3>1. call'[c].pc = "encrypt" /\ call'[c].list = blob.list
      BY <1>4, <2>1
    <3>2. RemovalOnCourse(c)'
      BY <1>1, <1>4, <1>5, <2>3, <3>1 DEF RemovalOnCourse
    <3> QED  BY <1>1, <1>4, <1>7, <2>1, <3>1, <3>2 DEF OnCourse, SaveOnCourse, PasswordCallOnCourse
  <2>5. UniqueIds(call'[c].list)
    BY <1>4, <2>1
  <2>6. /\ \A b \in Accounts : promised'[b] # {} =>
              Recoverable(b)' \in promised'[b] /\ b \in listed' \intersect accounts'[t]
        /\ \A b \in (listed' \union accounts'[t]) \ LedgerAccounts : Recoverable(b)' # NoKey
        /\ \A b \in LedgerAccounts : plain'[b] = NoKey
        /\ PasswordStaysOn => \A b \in gone' : Recoverable(b)' = NoKey
    BY <1>1, <1>2, <2>1, <2>2
  <2> QED  BY <1>1, <1>7, <2>1, <1>9, <2>4, <2>5, <2>6, ListStep
<1>8. CASE ~blob.on
  <2>1. ~mem[t].hasEnc /\ keyStore[t].kind = "browser"
    BY <1>8
  <2>2. plain' = [plain EXCEPT ![a] = NoKey] /\ keyStore' = keyStore
    BY <2>1 DEF StartRemove, PutKey
  <2>7. \A b \in Accounts : plain'[b] = IF b = a THEN NoKey ELSE plain[b]
    BY <2>2 DEF Good, TypeOK, StoreType
  <2>3. \A b \in Accounts : Recoverable(b)' = IF b = a THEN NoKey ELSE Recoverable(b)
    BY <1>1, <1>8, <2>7 DEF Recoverable
  <2>4. OnCourse(c)'
    <3>1. call'[c].pc = "deactivate" /\ Recoverable(call[c].id)' = NoKey
      BY <1>4, <2>1, <2>3
    <3>2. RemovalOnCourse(c)'
      BY <1>4, <1>5, <3>1 DEF RemovalOnCourse
    <3> QED  BY <1>4, <3>1, <3>2 DEF OnCourse, SaveOnCourse, PasswordCallOnCourse
  <2>5. UniqueIds(call'[c].list)
    BY <1>4, <1>6, <2>1
  <2>6. /\ \A b \in Accounts : promised'[b] # {} =>
              Recoverable(b)' \in promised'[b] /\ b \in listed' \intersect accounts'[t]
        /\ \A b \in (listed' \union accounts'[t]) \ LedgerAccounts : Recoverable(b)' # NoKey
        /\ \A b \in LedgerAccounts : plain'[b] = NoKey
        /\ PasswordStaysOn => \A b \in gone' : Recoverable(b)' = NoKey
    BY <1>1, <1>2, <2>3, <2>7
  <2> QED  BY <1>1, <2>1, <2>2, <1>9, <2>4, <2>5, <2>6, ListStep
<1> QED  BY <1>7, <1>8

LEMMA KeptDeactivate ==
  ASSUME Good, NEW c \in Calls, Deactivate(c)
  PROVE  KeysKept'
<1> USE GoodCall, GoodKeys
<1> DEFINE t == c[1]
           k == call[c]
<1>1. /\ UNCHANGED <<plain, blob, listed, mem, keyStore, accounts, promised, lastPassword>>
      /\ gone' = gone \union {k.id} /\ k.pc = "deactivate" /\ k.id \in Accounts
  BY DEF Deactivate, storageVars, CallOK
<1>2. call'[c] = [k EXCEPT !.pc = "switch"]
  BY DEF Deactivate, Resume, Good, TypeOK
<1>3. call'[c].pc = "switch" /\ call'[c].op = k.op /\ call'[c].id = k.id /\ call'[c].list = k.list
  BY <1>2 DEF CallOK, CallType
<1>4. k.op = "remove"
  BY <1>1 DEF OnCourse, SaveOnCourse, RemovalOnCourse, PasswordCallOnCourse, CallOK, CallType
<1>5. promised[k.id] = {} /\ k.id \notin listed \union accounts[t] /\ Recoverable(k.id) = NoKey
  BY <1>1, <1>4 DEF OnCourse, RemovalOnCourse
<1>6. \A b \in Accounts : Recoverable(b)' = Recoverable(b)
  BY <1>1, SameKeys
<1>7. OnCourse(c)'
  <2>1. Recoverable(call[c].id)' = NoKey
    BY <1>1, <1>3, <1>5, <1>6
  <2>2. RemovalOnCourse(c)'
    BY <1>1, <1>3, <1>5, <2>1 DEF RemovalOnCourse
  <2> QED  BY <1>3, <1>4, <2>2 DEF OnCourse, SaveOnCourse, PasswordCallOnCourse
<1>8. UniqueIds(call'[c].list)
  BY <1>3
<1>9. PasswordStaysOn => \A b \in gone' : Recoverable(b)' = NoKey
  BY <1>1, <1>5, <1>6
<1>10. /\ \A b \in Accounts : promised'[b] # {} =>
              Recoverable(b)' \in promised'[b] /\ b \in listed' \intersect accounts'[t]
       /\ \A b \in (listed' \union accounts'[t]) \ LedgerAccounts : Recoverable(b)' # NoKey
  BY <1>1, <1>6
<1>11. OthersOnCourse(c)
  <2>1. \A d \in Calls : d # c => call'[d] = call[d]
    BY DEF Deactivate, Resume, Good, TypeOK
  <2> QED  BY <1>1, <2>1, OthersIdle, AloneStep DEF Idle
<1> QED  BY <1>1, <1>7, <1>8, <1>9, <1>10, <1>11, ListStep

\* A page load forgets the cache and builds the store that the blob calls for.
LEMMA KeptLoad ==
  ASSUME Good, NEW t \in Tabs, Load(t), listed' = listed
  PROVE  KeysKept'
<1>1. PICK c \in Calls : c[1] = t
  <2>1. PICK l \in Lanes : TRUE
    BY LanesAssumption
  <2>2. <<t, l>> \in Calls /\ <<t, l>>[1] = t
    BY DEF Calls
  <2> QED  BY <2>2
<1> USE GoodCall, GoodKeys
<1>2. /\ UNCHANGED <<blob, promised, gone, lastPassword>> /\ (blob.on \/ plain' = plain)
      /\ mem'[t] = [hasEnc |-> blob.on, open |-> FALSE, pw |-> NoPassword, list |-> <<>>]
      /\ keyStore'[t] = NewStore(blob.on) /\ accounts'[t] = listed
      /\ \A d \in Calls : call'[d] = NoCall
  BY <1>1, OnlyTab DEF Load, Good, TypeOK, historyVars
<1>3. /\ mem'[t].hasEnc = blob.on /\ mem'[t].open = FALSE /\ mem'[t].list = <<>>
      /\ ~blob.on => keyStore'[t].kind = "browser"
  BY <1>2 DEF NewStore
<1>4. \A a \in Accounts : Recoverable(a)' = Recoverable(a)
  BY <1>2, SameKeys
<1>5. UniqueIds(<<>>) /\ \A d \in Calls : UniqueIds(call'[d].list) /\ OnCourse(d)' /\ Idle(d)'
  BY <1>2 DEF UniqueIds, NoCall, Idle, OnCourse, SaveOnCourse, RemovalOnCourse, PasswordCallOnCourse
<1>6. \A s \in Tabs : s = t
  BY <1>1, OnlyTab DEF Good
<1>7. CacheAgrees'
  BY <1>2, <1>3, <1>6 DEF CacheAgrees
<1>8. ListsAreMaps'
  BY <1>2, <1>3, <1>5, <1>6 DEF ListsAreMaps
<1>9. ListedHaveKeys' /\ SavedAccountsStayListed'
  BY <1>1, <1>2, <1>4, <1>6 DEF ListedHaveKeys, SavedAccountsStayListed
<1>12. LedgerAccountsHaveNoKey'
  BY <1>2, LedgerKeepsNoKey DEF Load, LedgerAccountsHaveNoKey
<1>10. CallsOnCourse' /\ CallsTakeTurns'
  BY <1>5 DEF CallsOnCourse, CallsTakeTurns
<1>11. SavedKeysAreRecoverable' /\ RemovedStayRemoved' /\ BlobHasLastPassword'
  BY <1>2, <1>4 DEF SavedKeysAreRecoverable, RemovedStayRemoved, RemovedKeysAreNotRecoverable,
                    PasswordStaysOn, BlobHasLastPassword, Good, KeysKept
<1> QED  BY <1>7, <1>8, <1>9, <1>10, <1>11, <1>12 DEF KeysKept

LEMMA KeptSwitchAway ==
  ASSUME Good, NEW c \in Calls, SwitchAway(c)
  PROVE  KeysKept'
<1> USE GoodCall, GoodKeys
<1> DEFINE t == c[1]
<1>1. CASE call[c].rest = {}
  BY <1>1, KeptLoad DEF SwitchAway
<1>2. CASE call[c].rest # {}
  <2>1. /\ UNCHANGED <<plain, blob, mem, keyStore, accounts, promised, gone, lastPassword>>
        /\ Finish(c) /\ listed' \in {accounts[t], listed}
    BY <1>2 DEF SwitchAway, historyVars
  <2>2. \A b \in Accounts : Recoverable(b)' = Recoverable(b)
    BY <2>1, SameKeys
  <2>3. UniqueIds(call'[c].list) /\ OnCourse(c)'
    BY <2>1, FinishOnCourse
  <2>4. /\ \A b \in Accounts : promised'[b] # {} =>
              Recoverable(b)' \in promised'[b] /\ b \in listed' \intersect accounts'[t]
        /\ \A b \in (listed' \union accounts'[t]) \ LedgerAccounts : Recoverable(b)' # NoKey
        /\ PasswordStaysOn => \A b \in gone' : Recoverable(b)' = NoKey
    BY <2>1, <2>2
  <2>5. OthersOnCourse(c)
    <3>1. \A d \in Calls : d # c => Idle(d)
      BY OthersIdle DEF SwitchAway, Idle
    <3> QED  BY <2>1, <3>1, FinishOnCourse, AloneStep
  <2> QED  BY <2>1, <2>3, <2>4, <2>5, ListStep
<1> QED  BY <1>1, <1>2

\* Another account becomes the active one: the list is written again.
LEMMA KeptSwitchAccount ==
  ASSUME Good, NEW t \in Tabs, SwitchAccount(t)
  PROVE  KeysKept'
<1>1. /\ UNCHANGED <<plain, blob, mem, keyStore, accounts, call, promised, gone, lastPassword>>
      /\ listed' = accounts[t] /\ \A s \in Tabs : s = t
  BY DEF SwitchAccount, historyVars, Good, OneTab
<1>2. \A b \in Accounts : Recoverable(b)' = Recoverable(b)
  BY <1>1, SameKeys
<1>3. CacheAgrees' /\ ListsAreMaps' /\ ListedHaveKeys' /\ SavedAccountsStayListed'
  BY <1>1, <1>2 DEF Good, KeysKept, CacheAgrees, ListsAreMaps, ListedHaveKeys, SavedAccountsStayListed
<1>6. CallsTakeTurns' /\ LedgerAccountsHaveNoKey'
  BY <1>1 DEF Good, KeysKept, CallsTakeTurns, Parked, Idle, LedgerAccountsHaveNoKey
<1>4. CallsOnCourse'
  <2> SUFFICES ASSUME NEW c \in Calls
               PROVE  OnCourse(c)'
    BY DEF CallsOnCourse
  <2>1. OnCourse(c) /\ CallOK(call[c]) /\ call[c] \in CallType
    BY GoodCall DEF CallOK
  <2>2. SaveOnCourse(c)'
    <3>1. CASE call[c].op = "save"
      BY <1>1, <1>2, <2>1, <3>1 DEF OnCourse, SaveOnCourse, CallOK
    <3> QED  BY <1>1, <3>1 DEF SaveOnCourse
  <2>3. RemovalOnCourse(c)'
    <3>1. CASE call[c].op = "remove"
      <4>1. c[1] = t
        BY <1>1 DEF Calls
      <4> QED  BY <1>1, <1>2, <2>1, <3>1, <4>1 DEF OnCourse, RemovalOnCourse, CallOK
    <3> QED  BY <1>1, <3>1 DEF RemovalOnCourse
  <2>4. PasswordCallOnCourse(c)'
    BY <1>1, <2>1 DEF OnCourse, PasswordCallOnCourse
  <2> QED  BY <1>1, <2>1, <2>2, <2>3, <2>4 DEF OnCourse
<1>5. SavedKeysAreRecoverable' /\ BlobHasLastPassword' /\ RemovedStayRemoved'
  BY <1>1, <1>2 DEF Good, KeysKept, TypeOK, SavedKeysAreRecoverable, BlobHasLastPassword,
                    RemovedStayRemoved, RemovedKeysAreNotRecoverable, PasswordStaysOn
<1> QED  BY <1>3, <1>4, <1>5, <1>6 DEF KeysKept

LEMMA KeptIdle ==
  ASSUME KeysKept, UNCHANGED vars
  PROVE  KeysKept'
<1>1. UNCHANGED <<plain, blob, listed, mem, keyStore, accounts, call, promised, gone, lastPassword>>
  BY DEF vars
<1>2. CallsOnCourse'
  BY <1>1 DEF KeysKept, CallsOnCourse, OnCourse, SaveOnCourse, RemovalOnCourse,
              PasswordCallOnCourse, Recoverable
<1>3. CacheAgrees' /\ ListsAreMaps' /\ CallsTakeTurns' /\ LedgerAccountsHaveNoKey'
  BY <1>1 DEF KeysKept, CacheAgrees, ListsAreMaps, CallsTakeTurns, Parked, Idle,
              LedgerAccountsHaveNoKey
<1>4. ListedHaveKeys' /\ SavedAccountsStayListed' /\ SavedKeysAreRecoverable'
  BY <1>1 DEF KeysKept, ListedHaveKeys, SavedAccountsStayListed, SavedKeysAreRecoverable, Recoverable
<1>5. BlobHasLastPassword' /\ RemovedStayRemoved'
  BY <1>1 DEF KeysKept, BlobHasLastPassword, RemovedStayRemoved, RemovedKeysAreNotRecoverable,
              PasswordStaysOn, Recoverable
<1> QED  BY <1>2, <1>3, <1>4, <1>5 DEF KeysKept

LEMMA KeptStep == Good /\ [Next /\ OneByOneUnderPassword]_vars => KeysKept'
<1> SUFFICES ASSUME Good, [Next /\ OneByOneUnderPassword]_vars
             PROVE  KeysKept'
  OBVIOUS
<1>1. ASSUME NEW c \in Calls, Start(c), OneByOneUnderPassword
      PROVE  KeysKept'
  <2>1. ASSUME NEW a \in Accounts, NEW k \in MaybeKey, StartSave(c, a, k)
        PROVE  KeysKept'
    BY <1>1, <2>1, KeptStartSave DEF OneByOneUnderPassword
  <2>2. ASSUME NEW a \in Accounts, StartRemove(c, a)
        PROVE  KeysKept'
    BY <1>1, <2>2, KeptStartRemove DEF OneByOneUnderPassword
  <2>3. ASSUME NEW pw \in Passwords, StartUnlock(c, pw) \/ StartEnable(c, pw) \/ StartChange(c, pw)
        PROVE  KeysKept'
    BY <2>3, KeptPasswordStart
  <2>4. CASE StartDisable(c)
    BY <2>4, KeptStartDisable
  <2> QED  BY <1>1, <2>1, <2>2, <2>3, <2>4 DEF Start
<1>2. ASSUME NEW c \in Calls, Continue(c)
      PROVE  KeysKept'
  BY <1>2, KeptEncrypt, KeptCommit, KeptRefused, KeptReload, KeptSetKeys, KeptList, KeptDeactivate,
     KeptSwitchAway, KeptDecrypt, KeptDrop DEF Continue
<1>3. ASSUME NEW t \in Tabs, SwitchAccount(t)
      PROVE  KeysKept'
  BY <1>3, KeptSwitchAccount
<1>4. ASSUME NEW t \in Tabs, Reload(t)
      PROVE  KeysKept'
  BY <1>4, KeptLoad DEF Reload
<1>5. CASE UNCHANGED vars
  BY <1>5, KeptIdle DEF Good
<1> QED  BY <1>1, <1>2, <1>3, <1>4, <1>5 DEF Next

\* A single tab, whatever calls it has under way: as long as, while the password is on,
\* accounts are imported one by one and no Ledger account is removed, everything the
\* code relies on (KeysKept) holds in every reachable state, for any number of accounts,
\* keys and passwords, wherever the page is reloaded and whichever writes localStorage
\* refuses.
THEOREM KeysAreKept ==
  ASSUME OneTab
  PROVE  CarefulSpec => []KeysKept
<1>1. Init => TypeOK /\ KeysKept
  BY TypeInit, KeptInit
<1>2. TypeOK /\ KeysKept /\ [Next /\ OneByOneUnderPassword]_vars => (TypeOK /\ KeysKept)'
  BY TypeStep, KeptStep DEF Good
<1> QED  BY <1>1, <1>2, PTL DEF CarefulSpec

\* A tab that runs one call at a time, with no Ledger account, takes no other step: what
\* is proved of CarefulSpec is so of every behaviour of the specification.
THEOREM OneCallIsCareful ==
  ASSUME OneCallAtATime, NoLedgerAccounts
  PROVE  Spec => CarefulSpec
<1>1. ASSUME NEW c \in Calls
      PROVE  Alone(c)
  BY DEF Alone, OneCallAtATime, OneTab, Calls
<1>2. OneByOneUnderPassword
  BY <1>1 DEF OneByOneUnderPassword, NoLedgerAccounts
<1>3. [Next]_vars => [Next /\ OneByOneUnderPassword]_vars
  BY <1>2
<1> QED  BY <1>3, PTL DEF Spec, CarefulSpec

\* Under the same assumption a key that was reported as saved can be read back at every
\* instant.
THEOREM SavedKeysStayRecoverable ==
  ASSUME OneTab
  PROVE  CarefulSpec => []SavedKeysAreRecoverable
<1>1. KeysKept => SavedKeysAreRecoverable
  BY DEF KeysKept
<1> QED  BY <1>1, KeysAreKept, PTL

\* Under the same assumption an account whose key was reported as saved stays in the
\* list of imported accounts.
THEOREM SavedAccountsAreNeverForgotten ==
  ASSUME OneTab
  PROVE  CarefulSpec => []SavedAccountsAreListed
<1>1. KeysKept => SavedAccountsAreListed
  BY TabsAssumption DEF KeysKept, SavedAccountsStayListed, SavedAccountsAreListed
<1> QED  BY <1>1, KeysAreKept, PTL

\* Under the same assumption the blob opens with the password set last.
THEOREM LastPasswordOpensTheBlob ==
  ASSUME OneTab
  PROVE  CarefulSpec => []BlobHasLastPassword
<1>1. KeysKept => BlobHasLastPassword
  BY DEF KeysKept
<1> QED  BY <1>1, KeysAreKept, PTL

\* If, moreover, the password is never turned off, the keys of a removed account
\* cannot be read back.
THEOREM RemovedKeysStayRemoved ==
  ASSUME OneTab, PasswordStaysOn
  PROVE  CarefulSpec => []RemovedKeysAreNotRecoverable
<1>1. KeysKept => RemovedKeysAreNotRecoverable
  BY DEF KeysKept, RemovedStayRemoved
<1> QED  BY <1>1, KeysAreKept, PTL

\* Only the write of a new list, and turning the password off, change the blob.
LEMMA BlobWriters ==
  ASSUME Next, blob' # blob
  PROVE  \E c \in Calls : Commit(c) \/ Drop(c)
<1>1. ASSUME NEW c \in Calls, Start(c)
      PROVE  blob' = blob
  <2>1. ASSUME NEW a \in Accounts, NEW k \in MaybeKey, StartSave(c, a, k) PROVE blob' = blob
    BY <2>1 DEF StartSave, storageVars
  <2>2. ASSUME NEW a \in Accounts, StartRemove(c, a) PROVE blob' = blob
    BY <2>2 DEF StartRemove, storageVars
  <2>3. ASSUME NEW pw \in Passwords, StartUnlock(c, pw) \/ StartEnable(c, pw) \/ StartChange(c, pw)
        PROVE  blob' = blob
    BY <2>3 DEF StartUnlock, StartEnable, StartChange, storageVars
  <2>4. CASE StartDisable(c)
    BY <2>4 DEF StartDisable, storageVars
  <2> QED BY <1>1, <2>1, <2>2, <2>3, <2>4 DEF Start
<1>2. ASSUME NEW c \in Calls, Continue(c), ~Commit(c), ~Drop(c)
      PROVE  blob' = blob
  BY <1>2 DEF Continue, Encrypt, CommitRefused, Reinit, SetKeys, SetKeysRefused, ListAccount,
     ListRefused, Deactivate, SwitchAway, Load, Decrypt, Scrub, Reread, storageVars
<1>3. ASSUME NEW t \in Tabs, SwitchAccount(t) \/ Reload(t)
      PROVE  blob' = blob
  BY <1>3 DEF SwitchAccount, Reload, Load
<1>4. CASE \E c \in Calls : Start(c) \/ Continue(c)
  BY <1>1, <1>2, <1>4
<1>5. CASE \E t \in Tabs : SwitchAccount(t) \/ Reload(t)
  BY <1>3, <1>5
<1> QED  BY <1>4, <1>5 DEF Next

\* The list that a removal writes is the blob's without the entry of the account removed.
LEMMA RemovalCommit ==
  ASSUME Good, NEW c \in Calls, call[c].pc = "commit", call[c].op = "remove",
         NEW b \in Accounts, b # call[c].id, [Next]_vars
  PROVE  KeyIn(blob'.list, b) = KeyIn(blob.list, b)
<1>1. CASE blob' = blob
  BY <1>1
<1>2. CASE blob' # blob
  <2>1. PICK d \in Calls : Commit(d) \/ Drop(d)
    BY <1>2, BlobWriters DEF vars
  <2>2. d = c
    <3>1. ~Idle(d) /\ \A e \in Calls : e # c => Idle(e)
      BY <2>1, OthersIdle DEF Commit, Drop, Idle
    <3> QED  BY <3>1
  <2>3. blob'.list = call[c].list
    BY <2>1, <2>2 DEF Commit, Drop
  <2>4. /\ call[c].list = Spliced(blob.list, call[c].id)
        /\ Positions(blob.list, call[c].id) # {}
    BY GoodCall DEF OnCourse, RemovalOnCourse
  <2>5. blob.list \in List /\ UniqueIds(blob.list)
    BY GoodCall
  <2> QED  BY <2>3, <2>4, <2>5, SplicedKeys
<1> QED  BY <1>1, <1>2

\* Under the same assumption the entry that splice takes is the removed account's: no
\* removal takes the key of another account.
THEOREM RemovalsTakeTheirOwnKey ==
  ASSUME OneTab
  PROVE  CarefulSpec => RemovalTakesItsOwnKey
<1>1. TypeOK /\ KeysKept /\ [Next /\ OneByOneUnderPassword]_vars =>
         [\A c \in Calls, b \in Accounts :
             call[c].pc = "commit" /\ call[c].op = "remove" /\ call'[c].pc = "reinit"
             /\ b # call[c].id
                 => KeyIn(blob'.list, b) = KeyIn(blob.list, b)]_vars
  BY RemovalCommit DEF Good
<1>2. CarefulSpec => Spec
  BY PTL DEF CarefulSpec, Spec
<1> QED  BY <1>1, <1>2, KeysAreKept, TypeCorrect, PTL DEF CarefulSpec, RemovalTakesItsOwnKey

-----------------------------------------------------------------------------
(* The vault keeps the book.                                               *)

\* No key that can be read back changes but that of one account.
SameKeysBut(a) == \A b \in Accounts \ {a} : Recoverable(b)' = Recoverable(b)

SameBook == \A b \in Accounts : Recoverable(b)' = Recoverable(b)

\* The step of the book that changes one account's entry.
LEMMA BookEntry ==
  ASSUME NEW a \in Accounts, SameKeysBut(a)
  PROVE  [b \in Accounts |-> Recoverable(b)]'
            = [[b \in Accounts |-> Recoverable(b)] EXCEPT ![a] = Recoverable(a)']
BY DEF SameKeysBut

\* Nothing is said and no key changes.
LEMMA BookUntouched ==
  ASSUME SameBook, UNCHANGED promised
  PROVE  [Book!Next]_(Book!vars)
BY DEF SameBook, Book!vars

\* With a blob the plaintext keys do not count.
LEMMA PlainDoesNotCount ==
  ASSUME blob' = blob, blob.on \/ plain' = plain
  PROVE  SameBook
BY DEF SameBook, Recoverable

LEMMA BookWritten ==
  ASSUME NEW a \in Accounts, NEW k \in Keys, SameKeysBut(a), Recoverable(a)' = k,
         promised' = IF promised[a] = {} THEN promised
                     ELSE [promised EXCEPT ![a] = @ \union {k}]
  PROVE  Book!Next
<1>1. Book!Write(a, k)
  BY BookEntry DEF Book!Write
<1> QED  BY <1>1 DEF Book!Next

LEMMA BookErased ==
  ASSUME NEW a \in Accounts, SameKeysBut(a), Recoverable(a)' = NoKey,
         promised' = [promised EXCEPT ![a] = {}]
  PROVE  Book!Next
<1>1. Book!Erase(a)
  BY BookEntry DEF Book!Erase
<1> QED  BY <1>1 DEF Book!Next

\* The list that is written has one entry put in, one taken out, or the keys that could
\* be read back before.
LEMMA BookAtCommit ==
  ASSUME Good, NEW c \in Calls, Commit(c)
  PROVE  [Book!Next]_(Book!vars)
<1> DEFINE k == call[c]
<1>1. /\ k.pc = "commit" /\ blob'.on /\ blob'.list = k.list /\ promised' = promised
      /\ OnCourse(c) /\ CallOK(k) /\ blob.list \in List /\ UniqueIds(blob.list)
  BY GoodCall DEF Commit
<1>2. \A a \in Accounts : Recoverable(a)' = KeyIn(k.list, a)
  BY <1>1 DEF Recoverable
<1>3. k.op # "enable" => blob.on
  BY <1>1 DEF OnCourse
<1>4. k.op # "enable" => \A a \in Accounts : Recoverable(a) = KeyIn(blob.list, a)
  BY <1>3 DEF Recoverable
<1>5. CASE k.op = "enable"
  <2>1. ~blob.on /\ \A a \in Accounts : KeyIn(k.list, a) = plain[a]
    BY <1>1, <1>5 DEF OnCourse, PasswordCallOnCourse
  <2>2. SameBook
    BY <1>2, <2>1 DEF SameBook, Recoverable
  <2> QED  BY <1>1, <2>2, BookUntouched
<1>6. CASE k.op = "change" \/ (k.op = "save" /\ k.key = NoKey)
  <2>1. k.list = blob.list
    BY <1>1, <1>6 DEF OnCourse, PasswordCallOnCourse, SaveOnCourse
  <2>2. SameBook
    BY <1>2, <1>4, <1>6, <2>1 DEF SameBook
  <2> QED  BY <1>1, <2>2, BookUntouched
<1>7. CASE k.op = "save" /\ k.key # NoKey
  <2>1. PICK a \in Accounts, key \in Keys : a = k.id /\ key = k.key
    BY <1>1, <1>7 DEF CallOK, CallType, MaybeKey
  <2>2. k.list = Upserted(blob.list, a, key) /\ (promised[a] # {} => key \in promised[a])
    BY <1>1, <1>7, <2>1 DEF OnCourse, SaveOnCourse
  <2>3. \A b \in Accounts : KeyIn(k.list, b) = IF b = a THEN key ELSE KeyIn(blob.list, b)
    BY <1>1, <2>2, UpsertedKeys
  <2>4. SameKeysBut(a) /\ Recoverable(a)' = key
    BY <1>2, <1>4, <1>7, <2>3 DEF SameKeysBut
  <2>5. promised' = IF promised[a] = {} THEN promised
                    ELSE [promised EXCEPT ![a] = @ \union {key}]
    BY <1>1, <2>2 DEF Good, TypeOK
  <2> QED  BY <2>4, <2>5, BookWritten
<1>8. CASE k.op = "remove"
  <2>1. PICK a \in Accounts : a = k.id
    BY <1>1, <1>8 DEF CallOK
  <2>2. k.list = Spliced(blob.list, a) /\ Positions(blob.list, a) # {} /\ promised[a] = {}
    BY <1>1, <1>8, <2>1 DEF OnCourse, RemovalOnCourse
  <2>3. \A b \in Accounts : KeyIn(k.list, b) = IF b = a THEN NoKey ELSE KeyIn(blob.list, b)
    BY <1>1, <2>2, SplicedKeys
  <2>4. SameKeysBut(a) /\ Recoverable(a)' = NoKey
    BY <1>2, <1>4, <1>8, <2>3 DEF SameKeysBut
  <2>5. promised' = [promised EXCEPT ![a] = {}]
    BY <1>1, <2>2 DEF Good, TypeOK
  <2> QED  BY <2>4, <2>5, BookErased
<1>9. k.op \in {"save", "remove", "enable", "change"}
  <2>1. k.op \in {"none", "save", "remove", "unlock", "enable", "disable", "change"}
    BY <1>1 DEF CallOK, CallType
  <2> QED  BY <1>1, <2>1 DEF OnCourse, PasswordCallOnCourse
<1> QED  BY <1>5, <1>6, <1>7, <1>8, <1>9

\* When the blob goes, each of its keys is in the plain entries; where it has none an
\* entry that was skipped may count again.
LEMMA BookAtDrop ==
  ASSUME Good, NEW c \in Calls, Drop(c)
  PROVE  Book!Next
<1>1. /\ call[c].pc = "drop" /\ OnCourse(c) /\ CallOK(call[c]) /\ ~blob'.on /\ plain' = plain
      /\ promised' = promised
  BY GoodCall DEF Drop, historyVars
<1>2. call[c].op = "disable"
  <2>1. call[c].op \in {"none", "save", "remove", "unlock", "enable", "disable", "change"}
    BY <1>1 DEF CallOK, CallType
  <2> QED  BY <1>1, <2>1 DEF OnCourse, SaveOnCourse, RemovalOnCourse, PasswordCallOnCourse
<1>3. ~PasswordStaysOn /\ blob.on
  BY <1>1, <1>2 DEF OnCourse, PasswordCallOnCourse, PasswordStaysOn
<1>4. \A a \in Accounts : Recoverable(a) # NoKey => Recoverable(a)' = Recoverable(a)
  BY <1>1, <1>3 DEF OnCourse, PasswordCallOnCourse, Recoverable
<1>5. \A a \in Accounts : promised[a] # {} => Recoverable(a) # NoKey
  BY SentinelsAssumption DEF Good, KeysKept, SavedKeysAreRecoverable, TypeOK
<1>6. \A a \in Accounts : Recoverable(a)' \in Keys \union {NoKey}
  BY <1>1 DEF Recoverable, Good, TypeOK, StoreType, MaybeKey
<1>7. Book!Resurface
  BY <1>1, <1>3, <1>4, <1>5, <1>6 DEF Book!Resurface
<1> QED  BY <1>7 DEF Book!Next

\* Without a password the key is written at once; with one it is on offer until the list
\* is written.
LEMMA BookAtSave ==
  ASSUME Good, NEW c \in Calls, NEW a \in Accounts, NEW k \in MaybeKey, StartSave(c, a, k)
  PROVE  [Book!Next]_(Book!vars)
<1>1. blob' = blob
  BY DEF StartSave
<1>2. CASE k = NoKey
  BY <1>1, <1>2, PlainDoesNotCount, BookUntouched DEF historyVars, StartSave, Good, TypeOK
<1>3. CASE k # NoKey
  <2>1. k \in Keys
    BY <1>3 DEF MaybeKey
  <2>2. promised' = IF promised[a] = {} THEN promised
                    ELSE [promised EXCEPT ![a] = @ \union {k}]
    BY <1>3 DEF StartSave, Good, TypeOK
  <2>3. CASE mem[c[1]].hasEnc
    <3>1. SameBook
      BY <1>1, <2>3, PlainDoesNotCount DEF StartSave
    <3>2. CASE promised[a] = {}
      BY <2>2, <3>1, <3>2, BookUntouched
    <3>3. CASE promised[a] # {}
      <4>1. Book!Offer(a, k)
        BY <2>2, <3>1, <3>3 DEF Book!Offer, SameBook
      <4> QED  BY <2>1, <4>1 DEF Book!Next
    <3> QED  BY <3>2, <3>3
  <2>4. CASE ~mem[c[1]].hasEnc
    <3>1. ~blob.on /\ keyStore[c[1]].kind = "browser"
      BY <2>4, GoodCall
    <3>2. plain' = [plain EXCEPT ![a] = k]
      BY <1>3, <2>4, <3>1 DEF StartSave, PutKey
    <3>3. SameKeysBut(a) /\ Recoverable(a)' = k
      BY <1>1, <3>1, <3>2 DEF SameKeysBut, Recoverable, Good, TypeOK, StoreType
    <3> QED  BY <2>1, <2>2, <3>3, BookWritten
  <2> QED  BY <2>3, <2>4
<1> QED  BY <1>2, <1>3

\* A removal takes back what the user was told, and without a password the key with it.
LEMMA BookAtRemoval ==
  ASSUME Good, NEW c \in Calls, NEW a \in Accounts, StartRemove(c, a)
  PROVE  [Book!Next]_(Book!vars)
<1>1. blob' = blob /\ promised' = [promised EXCEPT ![a] = {}]
  BY DEF StartRemove
<1>2. CASE mem[c[1]].hasEnc
  <2>1. SameBook
    BY <1>1, <1>2, PlainDoesNotCount DEF StartRemove
  <2>2. Book!Withdraw(a)
    BY <1>1, <2>1 DEF Book!Withdraw, SameBook
  <2> QED  BY <2>2 DEF Book!Next
<1>3. CASE ~mem[c[1]].hasEnc
  <2>1. ~blob.on /\ keyStore[c[1]].kind = "browser"
    BY <1>3, GoodCall
  <2>2. plain' = [plain EXCEPT ![a] = NoKey]
    BY <1>3, <2>1 DEF StartRemove, PutKey
  <2>3. SameKeysBut(a) /\ Recoverable(a)' = NoKey
    BY <1>1, <2>1, <2>2 DEF SameKeysBut, Recoverable, Good, TypeOK, StoreType
  <2> QED  BY <1>1, <2>3, BookErased
<1> QED  BY <1>2, <1>3

\* The save is reported when its key can be read back.
LEMMA BookAtList ==
  ASSUME Good, NEW c \in Calls, ListAccount(c)
  PROVE  [Book!Next]_(Book!vars)
<1> DEFINE k == call[c]
<1>1. k.pc = "list" /\ blob' = blob /\ plain' = plain /\ OnCourse(c) /\ CallOK(k)
  BY GoodCall DEF ListAccount
<1>2. SameBook
  BY <1>1, PlainDoesNotCount
<1>3. CASE k.key = NoKey
  BY <1>2, <1>3, BookUntouched DEF ListAccount
<1>4. CASE k.key # NoKey
  <2>1. k.op = "save" /\ k.id \in Accounts
    <3>1. k.op \in {"none", "save", "remove", "unlock", "enable", "disable", "change"}
      BY <1>1 DEF CallOK, CallType
    <3> QED  BY <1>1, <3>1 DEF OnCourse, RemovalOnCourse, PasswordCallOnCourse, CallOK
  <2>2. PICK a \in Accounts : a = k.id
    BY <2>1
  <2>3. Recoverable(a) = k.key
    BY <1>1, <2>1, <2>2 DEF OnCourse, SaveOnCourse
  <2>4. promised' = [promised EXCEPT ![a] = {k.key}]
    BY <1>4, <2>2 DEF ListAccount
  <2>5. Book!Tell(a)
    BY <1>2, <1>4, <2>3, <2>4 DEF Book!Tell, SameBook
  <2> QED  BY <2>5 DEF Book!Next
<1> QED  BY <1>3, <1>4

\* A page that is loaded scrubs plaintext keys next to a blob only.
LEMMA BookAtLoad ==
  ASSUME NEW t \in Tabs, Load(t)
  PROVE  [Book!Next]_(Book!vars)
BY PlainDoesNotCount, BookUntouched DEF historyVars, Load

\* The other awaits change no key that counts.
LEMMA BookGoesOn ==
  ASSUME Good, NEW c \in Calls, Continue(c)
  PROVE  [Book!Next]_(Book!vars)
<1>1. CASE Encrypt(c) \/ CommitRefused(c) \/ ListRefused(c) \/ Deactivate(c) \/ Decrypt(c)
           \/ Reread(c)
  BY <1>1, PlainDoesNotCount, BookUntouched
     DEF historyVars, Encrypt, CommitRefused, ListRefused, Deactivate, Decrypt, Reread, storageVars
<1>2. CASE Reinit(c)
  <2>1. blob.on \/ plain' = plain
    BY <1>2, GoodCall DEF Reinit
  <2> QED  BY <1>2, <2>1, PlainDoesNotCount, BookUntouched DEF historyVars, Reinit
<1>3. CASE SetKeys(c) \/ SetKeysRefused(c) \/ Scrub(c)
  <2>1. call[c].pc \in {"setKeys", "scrub"} /\ blob' = blob /\ promised' = promised
    BY <1>3 DEF SetKeys, SetKeysRefused, Scrub, historyVars
  <2>2. blob.on
    BY <2>1, GoodCall DEF OnCourse
  <2> QED  BY <2>1, <2>2, PlainDoesNotCount, BookUntouched
<1>4. CASE Commit(c)
  BY <1>4, BookAtCommit
<1>5. CASE Drop(c)
  BY <1>5, BookAtDrop
<1>6. CASE ListAccount(c)
  BY <1>6, BookAtList
<1>7. CASE SwitchAway(c)
  <2>1. CASE Load(c[1])
    BY <2>1, BookAtLoad DEF Calls
  <2>2. CASE ~Load(c[1])
    BY <1>7, <2>2, PlainDoesNotCount, BookUntouched DEF historyVars, SwitchAway
  <2> QED  BY <2>1, <2>2
<1> QED  BY <1>1, <1>2, <1>3, <1>4, <1>5, <1>6, <1>7 DEF Continue

LEMMA BookStep ==
  ASSUME Good, [Next]_vars
  PROVE  [Book!Next]_(Book!vars)
<1>1. ASSUME NEW c \in Calls, Start(c)
      PROVE  [Book!Next]_(Book!vars)
  <2>1. ASSUME NEW pw \in Passwords, StartUnlock(c, pw) \/ StartEnable(c, pw) \/ StartChange(c, pw)
        PROVE  [Book!Next]_(Book!vars)
    BY <2>1, PlainDoesNotCount, BookUntouched
       DEF historyVars, StartUnlock, StartEnable, StartChange, storageVars
  <2>2. CASE StartDisable(c)
    BY <2>2, PlainDoesNotCount, BookUntouched DEF historyVars, StartDisable, storageVars
  <2> QED  BY <1>1, <2>1, <2>2, BookAtSave, BookAtRemoval DEF Start
<1>2. ASSUME NEW t \in Tabs, SwitchAccount(t)
      PROVE  [Book!Next]_(Book!vars)
  BY <1>2, PlainDoesNotCount, BookUntouched DEF historyVars, SwitchAccount
<1>3. ASSUME NEW t \in Tabs, Reload(t)
      PROVE  [Book!Next]_(Book!vars)
  BY <1>3, BookAtLoad DEF Reload
<1>4. CASE UNCHANGED vars
  BY <1>4, PlainDoesNotCount, BookUntouched DEF historyVars, vars
<1> QED  BY <1>1, <1>2, <1>3, <1>4, BookGoesOn DEF Next

\* Under the same assumption the vault implements the book: no step, wherever a method is
\* cut, refused or overlapped, changes a key but on behalf of its own account, and what the
\* user was told stays true until the user asks for something else.
THEOREM VaultKeepsTheBook ==
  ASSUME OneTab
  PROVE  CarefulSpec => KeepsTheBook
<1>1. Init => Book!Init
  BY DEF Init, Book!Init, Recoverable, EmptyStore
<1>2. TypeOK /\ KeysKept /\ [Next /\ OneByOneUnderPassword]_vars => [Book!Next]_(Book!vars)
  BY BookStep DEF Good
<1>3. CarefulSpec => Spec
  BY PTL DEF CarefulSpec, Spec
<1> QED  BY <1>1, <1>2, <1>3, KeysAreKept, TypeCorrect, PTL
           DEF CarefulSpec, KeepsTheBook, Book!Spec

\* What the book is for: in every behaviour of it, what the user was told can be read back.
THEOREM BooksKeepTheirWord == KeepsTheBook => []Book!KeepsItsWord
<1> DEFINE BookOK == /\ promised \in [Accounts -> SUBSET Keys]
                     /\ \A a \in Accounts : Recoverable(a) \in Keys \union {NoKey}
                     /\ Book!KeepsItsWord
<1>1. Book!Init => BookOK
  BY DEF Book!Init, Book!KeepsItsWord
<1>2. BookOK /\ [Book!Next]_(Book!vars) => BookOK'
  <2> SUFFICES ASSUME BookOK, [Book!Next]_(Book!vars)
               PROVE  BookOK'
    OBVIOUS
  <2>1. ASSUME SameBook, promised' = promised
        PROVE  BookOK'
    BY <2>1 DEF Book!KeepsItsWord, SameBook
  <2>2. ASSUME NEW a \in Accounts, NEW k \in Keys, Book!Offer(a, k)
        PROVE  BookOK'
    <3>1. SameBook
      BY <2>2 DEF Book!Offer, SameBook
    <3>2. promised' = [promised EXCEPT ![a] = @ \union {k}] /\ promised[a] # {}
      BY <2>2 DEF Book!Offer
    <3> QED  BY <3>1, <3>2 DEF Book!KeepsItsWord, SameBook
  <2>3. ASSUME NEW a \in Accounts, NEW k \in Keys, Book!Write(a, k)
        PROVE  BookOK'
    <3>1. SameKeysBut(a) /\ Recoverable(a)' = k
      BY <2>3 DEF Book!Write, SameKeysBut
    <3>2. promised' = IF promised[a] = {} THEN promised
                      ELSE [promised EXCEPT ![a] = @ \union {k}]
      BY <2>3 DEF Book!Write
    <3> QED  BY <3>1, <3>2 DEF Book!KeepsItsWord, SameKeysBut
  <2>4. ASSUME NEW a \in Accounts, Book!Tell(a)
        PROVE  BookOK'
    <3>1. SameBook
      BY <2>4 DEF Book!Tell, SameBook
    <3>2. promised' = [promised EXCEPT ![a] = {Recoverable(a)}]
      BY <2>4 DEF Book!Tell
    <3>3. Recoverable(a) \in Keys
      BY <2>4 DEF Book!Tell
    <3> QED  BY <3>1, <3>2, <3>3 DEF Book!KeepsItsWord, SameBook
  <2>5. ASSUME NEW a \in Accounts, Book!Withdraw(a)
        PROVE  BookOK'
    <3>1. SameBook
      BY <2>5 DEF Book!Withdraw, SameBook
    <3> QED  BY <2>5, <3>1 DEF Book!Withdraw, Book!KeepsItsWord, SameBook
  <2>6. ASSUME NEW a \in Accounts, Book!Erase(a)
        PROVE  BookOK'
    <3>1. SameKeysBut(a) /\ Recoverable(a)' = NoKey
      BY <2>6 DEF Book!Erase, SameKeysBut
    <3> QED  BY <2>6, <3>1 DEF Book!Erase, Book!KeepsItsWord, SameKeysBut
  <2>7. ASSUME Book!Resurface
        PROVE  BookOK'
    <3>1. \A a \in Accounts :
            /\ promised[a] # {} => Recoverable(a)' = Recoverable(a)
            /\ Recoverable(a)' \in Keys \union {NoKey}
      BY <2>7 DEF Book!Resurface
    <3> QED  BY <2>7, <3>1 DEF Book!Resurface, Book!KeepsItsWord
  <2>8. CASE UNCHANGED Book!vars
    <3>1. SameBook
      BY <2>8 DEF Book!vars, SameBook
    <3> QED  BY <2>1, <2>8, <3>1 DEF Book!vars
  <2> QED  BY <2>2, <2>3, <2>4, <2>5, <2>6, <2>7, <2>8 DEF Book!Next
<1> QED  BY <1>1, <1>2, PTL DEF KeepsTheBook, Book!Spec
=============================================================================
