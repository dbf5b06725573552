-------------------------- MODULE SecretCacheProofs --------------------------
(***************************************************************************)
(* Proofs about SecretCache, for any number of processes, accounts, ttls   *)
(* and any margin larger than the keyring's rounding. The inductive        *)
(* invariant has three layers: who holds the lock (Shape), what is listed  *)
(* (Listing) and which generation a running command saw (Freshness).       *)
(***************************************************************************)
EXTENDS SecretCache, TLAPS

\* Exactly the processes inside withSecretCacheLock hold the flock.
LockInv == \A p \in Proc : pc[p] \in LockedPC <=> lock = p

\* A reading process works on an account.
ReaderInv == \A p \in Proc : pc[p] \in ReadPC => acct[p] \in Account

\* The index outlives every expiry it lists by the margin.
IndexInv == \A a \in Account :
    index[a] > 0 => indexDies >= index[a] + IndexExpiryMargin

\* A cached value is listed with an expiry at least its own, and the keyring
\* keeps it at most Rounding ticks longer than that.
EntryInv == \A a \in Account : Live(a) =>
    /\ keyring[a].exp > 0
    /\ keyring[a].dies <= keyring[a].exp + Rounding
    /\ keyring[a].exp <= index[a]

\* Between writing the index and writing the entry the account stays listed, at
\* least until the entry is not worth writing any more.
StoreInv == \A p \in Proc :
    pc[p] = "storeEntry" /\ now < expires[p] => expires[p] <= index[acct[p]]

\* What a purge leaves in the keychain stays pending until its expiry or later,
\* and then the purge failed.
PendingInv == \A p \in Proc : pc[p] = "purgeIndex" =>
    /\ \A a \in Account : Live(a) => keyring[a].exp <= pending[p][a]
    /\ err[p] = "nil" => pending[p] = NothingListed

\* A process whose command is running or whose output is about to be cached.
Running(p) == pc[p] \in {"command", "storeLock", "storeCheck", "storeIndex",
                         "storeEntry"}

\* A process that bumped the generation and has not finished evicting.
Evicting(p) == \/ pc[p] = "evictDelete"
               \/ pc[p] \in {"purgeDelete", "purgeIndex"} /\ err[p] = "nil"

\* A generation read by a process is never ahead of the file; when it is still
\* current, nothing was evicted since. Once checked it stays current, because
\* the file changes only under the lock.
GenInv == \A p \in Proc :
    /\ Running(p) /\ snap[p] # Corrupt /\ gen # Corrupt =>
         /\ snap[p] <= gen
         /\ snap[p] = gen => since[p] = evicted[acct[p]]
    /\ Running(p) /\ pc[p] # "command" => snap[p] # Corrupt
    /\ pc[p] \in {"storeIndex", "storeEntry"} => snap[p] = gen

\* While a purge that bumped the generation holds the lock, every running
\* command has an older generation.
BumpedInv == \A p \in Proc : Evicting(p) =>
    /\ gen # Corrupt
    /\ \A q \in Proc : Running(q) => snap[q] # gen

Shape == TypeOK /\ LockInv /\ ReaderInv
Listing == IndexInv /\ EntryInv /\ StoreInv /\ PendingInv
Freshness == GenInv /\ BumpedInv /\ EvictedStaysGone
-----------------------------------------------------------------------------
LEMMA ShapeInit == Init => Shape
  BY ConstantsAssumption
     DEF Init, Shape, TypeOK, LockInv, ReaderInv, NoEntry, NothingListed,
         CachedValue, Generation, LockedPC, ReadPC, PurgePC

\* Counting up never reaches the mark of an unreadable generation.
LEMMA CountIsReadable == \A n \in Nat : n + 1 # Corrupt
  BY ConstantsAssumption

\* The flock admits one process: while one is inside, no other is.
LEMMA OneInside ==
  ASSUME Shape, NEW p \in Proc, pc[p] \in LockedPC
  PROVE  \A q \in Proc : q # p => pc[q] \notin LockedPC
  <1>1. lock = p
    BY Zenon DEF Shape, LockInv
  <1> QED BY Zenon, <1>1 DEF Shape, LockInv

\* What the keychain operators return.
LEMMA WithoutType ==
  ASSUME TypeOK, NEW D
  PROVE  /\ Without(D) \in [Account -> CachedValue]
         /\ \A a \in Account : Without(D)[a] = IF a \in D THEN NoEntry ELSE keyring[a]
  BY Zenon DEF TypeOK, Without, NoEntry, CachedValue

LEMMA ListedExpiryType ==
  ASSUME TypeOK
  PROVE  /\ ListedExpiry \in [Account -> Nat]
         /\ \A a \in Account : a \in Listed => ListedExpiry[a] = index[a] /\ index[a] > 0
         /\ \A a \in Account : a \notin Listed => ListedExpiry[a] = 0
  BY Zenon DEF TypeOK, ListedExpiry, Listed

LEMMA WriteIndexType ==
  ASSUME TypeOK, NEW exp \in [Account -> Nat], WriteIndex(exp)
  PROVE  /\ index' = exp
         /\ indexDies' \in Nat
         /\ \A a \in Account : exp[a] > 0 => indexDies' >= exp[a] + IndexExpiryMargin
  <1>1. CASE \A a \in Account : exp[a] = 0
    BY <1>1 DEF WriteIndex
  <1>2. CASE ~ \A a \in Account : exp[a] = 0
    <2>1. PICK d \in {now + IndexRetryTTL} \cup
                     {exp[a] + IndexExpiryMargin : a \in Account} :
            /\ \A a \in Account : exp[a] > 0 => d >= exp[a] + IndexExpiryMargin
            /\ indexDies' = d
      BY Zenon, <1>2 DEF WriteIndex
    <2>2. d \in Nat
      BY ConstantsAssumption DEF TypeOK
    <2> QED BY Zenon, <2>1, <2>2 DEF WriteIndex
  <1> QED BY Zenon, <1>1, <1>2

LEMMA RecordedType ==
  ASSUME TypeOK, NEW p \in Proc, NEW D
  PROVE  Recorded(p, D) \in [Account -> Nat]
  BY Zenon, ListedExpiryType DEF Recorded, TypeOK

LEMMA NothingListedType == NothingListed \in [Account -> Nat]
  BY Zenon DEF NothingListed

LEMMA ToPurgeType ==
  ASSUME TypeOK, NEW configured, NEW ttl \in [configured -> TTLs]
  PROVE  /\ ToPurge(ttl) \in [Account -> Nat]
         /\ \A a \in Listed : a \in Account => ToPurge(ttl)[a] = index[a]
         /\ \A a \in Account \ (Listed \cup configured) : ToPurge(ttl)[a] = 0
  <1>1. \A a \in Account \cap configured : ttl[a] \in Nat
    BY Zenon, ConstantsAssumption
  <1> QED BY <1>1 DEF ToPurge, TypeOK

\* A call that returns leaves the processes in shape.
LEMMA ReturnShape ==
  ASSUME Shape, NEW p \in Proc, Return(p)
  PROVE  /\ acct' \in [Proc -> Account \cup {None}]
         /\ snap' \in [Proc -> Generation]
         /\ since' \in [Proc -> Nat] /\ expires' \in [Proc -> Nat]
         /\ pending' \in [Proc -> [Account -> Nat]]
         /\ err' \in [Proc -> {"nil", "error"}]
         /\ pc' \in [Proc -> {"idle"} \cup ReadPC \cup PurgePC]
         /\ lock' \in Proc \cup {None}
         /\ LockInv' /\ ReaderInv'
         /\ pc'[p] = "idle"
         /\ \A q \in Proc : q # p => /\ pc'[q] = pc[q] /\ acct'[q] = acct[q]
                                     /\ snap'[q] = snap[q] /\ since'[q] = since[q]
                                     /\ expires'[q] = expires[q]
                                     /\ pending'[q] = pending[q] /\ err'[q] = err[q]
  <1> USE ConstantsAssumption DEF Shape, Return
  <1>1. LockInv'
    BY Zenon DEF TypeOK, LockInv, LockedPC
  <1>2. ReaderInv'
    BY Zenon DEF TypeOK, ReaderInv, ReadPC, PurgePC
  <1> QED BY Zenon, <1>1, <1>2, NothingListedType DEF TypeOK, Generation

LEMMA ShapeNext == Shape /\ [Next]_vars => Shape'
  <1> SUFFICES ASSUME Shape, [Next]_vars PROVE Shape'
    BY Zenon
  <1> USE ConstantsAssumption DEF Shape, ReadPC, PurgePC, Goto, locals
  <1>0. CASE UNCHANGED vars
    BY Zenon, <1>0 DEF vars, TypeOK, LockInv, ReaderInv
  <1>1. ASSUME NEW p \in Proc, StartRead(p) PROVE Shape'
    <2>1. TypeOK'
      BY <1>1, WithoutType DEF TypeOK, ReaderInv, StartRead, Generation
    <2>2. LockInv'
      BY Zenon, <1>1 DEF TypeOK, LockInv, LockedPC, StartRead
    <2>3. ReaderInv'
      BY Zenon, <1>1 DEF TypeOK, ReaderInv, StartRead
    <2> QED BY Zenon, <2>1, <2>2, <2>3
  <1>2. ASSUME NEW p \in Proc, Acquire(p) PROVE Shape'
    <2>1. TypeOK'
      BY SMTT(30), <1>2, WithoutType DEF TypeOK, ReaderInv, Acquire, Generation
    <2>2. LockInv'
      BY Zenon, <1>2 DEF TypeOK, LockInv, LockedPC, Acquire
    <2>3. ReaderInv'
      BY <1>2 DEF TypeOK, ReaderInv, Acquire
    <2> QED BY Zenon, <2>1, <2>2, <2>3
  <1>3. ASSUME NEW p \in Proc, LookupHit(p) PROVE Shape'
    <2>1. TypeOK'
      BY Zenon, <1>3, WithoutType, ReturnShape DEF TypeOK, LookupHit, Generation
    <2>2. LockInv'
      BY Zenon, <1>3 DEF TypeOK, LockInv, LockedPC, LookupHit, Return
    <2>3. ReaderInv'
      BY Zenon, <1>3 DEF TypeOK, ReaderInv, LookupHit, Return
    <2> QED BY Zenon, <2>1, <2>2, <2>3
  <1>4. ASSUME NEW p \in Proc, LookupMiss(p) PROVE Shape'
    <2>1. TypeOK'
      BY Zenon, <1>4, WithoutType DEF TypeOK, ReaderInv, LookupMiss, Generation
    <2>2. LockInv'
      BY Zenon, <1>4 DEF TypeOK, LockInv, LockedPC, LookupMiss
    <2>3. ReaderInv'
      BY Zenon, <1>4 DEF TypeOK, ReaderInv, LookupMiss
    <2> QED BY Zenon, <2>1, <2>2, <2>3
  <1>5. ASSUME NEW p \in Proc, EvictBump(p) PROVE Shape'
    <2>1. TypeOK'
      BY <1>5, WithoutType, ReturnShape DEF TypeOK, EvictBump, BumpOK, BumpError, Generation
    <2>2. LockInv'
      BY <1>5 DEF TypeOK, LockInv, LockedPC, EvictBump, Return
    <2>3. ReaderInv'
      BY <1>5 DEF TypeOK, ReaderInv, EvictBump, Return
    <2> QED BY Zenon, <2>1, <2>2, <2>3
  <1>6. ASSUME NEW p \in Proc, EvictDelete(p) PROVE Shape'
    <2>1. TypeOK'
      <3>1. CASE Return(p)
        BY <1>6, <3>1, ReturnShape, WithoutType DEF TypeOK, EvictDelete
      <3>2. CASE UNCHANGED <<lock, locals>> /\ Goto(p, "readGen")
        BY <1>6, <3>2, WithoutType DEF TypeOK, ReaderInv, EvictDelete
      <3> QED BY Zenon, <1>6, <3>1, <3>2 DEF EvictDelete
    <2>2. LockInv'
      BY <1>6 DEF TypeOK, LockInv, LockedPC, EvictDelete, Return
    <2>3. ReaderInv'
      BY <1>6 DEF TypeOK, ReaderInv, EvictDelete, Return
    <2> QED BY Zenon, <2>1, <2>2, <2>3
  <1>7. ASSUME NEW p \in Proc, ReadGen(p) PROVE Shape'
    <2>1. TypeOK'
      BY <1>7, WithoutType DEF TypeOK, ReaderInv, ReadGen, Generation
    <2>2. LockInv'
      BY Zenon, <1>7 DEF TypeOK, LockInv, LockedPC, ReadGen
    <2>3. ReaderInv'
      BY Zenon, <1>7 DEF TypeOK, ReaderInv, ReadGen
    <2> QED BY Zenon, <2>1, <2>2, <2>3
  <1>8. ASSUME NEW p \in Proc, CommandDone(p) PROVE Shape'
    <2>1. TypeOK'
      <3>1. CASE Return(p)
        BY Zenon, <1>8, <3>1, ReturnShape DEF TypeOK, CommandDone
      <3>2. CASE UNCHANGED <<lock, locals>> /\ Goto(p, "storeLock")
        BY Zenon, <1>8, <3>2 DEF TypeOK, CommandDone
      <3> QED BY Zenon, <1>8, <3>1, <3>2 DEF CommandDone
    <2>2. LockInv'
      BY <1>8 DEF TypeOK, LockInv, LockedPC, CommandDone, Return
    <2>3. ReaderInv'
      BY <1>8 DEF TypeOK, ReaderInv, CommandDone, Return
    <2> QED BY Zenon, <2>1, <2>2, <2>3
  <1>9. ASSUME NEW p \in Proc, StoreCheck(p) PROVE Shape'
    <2>1. TypeOK'
      BY SMTT(30), <1>9, WithoutType, ReturnShape DEF TypeOK, StoreCheck, Generation
    <2>2. LockInv'
      BY <1>9 DEF TypeOK, LockInv, LockedPC, StoreCheck, Return
    <2>3. ReaderInv'
      BY <1>9 DEF TypeOK, ReaderInv, StoreCheck, Return
    <2> QED BY Zenon, <2>1, <2>2, <2>3
  <1>10. ASSUME NEW p \in Proc, StoreIndex(p) PROVE Shape'
    <2>1. PICK D \in SUBSET {a \in Listed : index[a] <= now} :
            /\ keyring' = Without(D)
            /\ \/ WriteIndex(Recorded(p, D)) /\ Goto(p, "storeEntry")
                  /\ UNCHANGED <<lock, locals>>
               \/ UNCHANGED <<index, indexDies>> /\ Return(p)
      BY Zenon, <1>10 DEF StoreIndex
    <2>2. keyring' \in [Account -> CachedValue]
      BY Zenon, <2>1, WithoutType
    <2>3. CASE UNCHANGED <<index, indexDies>> /\ Return(p)
      BY Zenon, <1>10, <2>2, <2>3, ReturnShape DEF StoreIndex, TypeOK
    <2>4. CASE WriteIndex(Recorded(p, D)) /\ Goto(p, "storeEntry") /\ UNCHANGED <<lock, locals>>
      <3>1. index' \in [Account -> Nat] /\ indexDies' \in Nat
        BY <2>4, RecordedType, WriteIndexType
      <3>2. TypeOK' /\ ReaderInv'
        BY Zenon, <1>10, <2>2, <2>4, <3>1 DEF StoreIndex, TypeOK, ReaderInv
      <3>3. LockInv'
        BY Zenon, <1>10, <2>4 DEF StoreIndex, TypeOK, LockInv, LockedPC
      <3> QED BY Zenon, <3>2, <3>3
    <2> QED BY Zenon, <2>1, <2>3, <2>4
  <1>11. ASSUME NEW p \in Proc, StoreEntry(p) PROVE Shape'
    <2>1. TypeOK'
      <3>1. Return(p) /\ UNCHANGED <<now, gen, index, indexDies, evicted>>
        BY Zenon, <1>11 DEF StoreEntry
      <3>2. keyring' \in [Account -> CachedValue]
        <4>1. \A r \in 0..Rounding : [exp |-> expires[p], dies |-> expires[p] + r,
                                       since |-> since[p]] \in CachedValue
          BY DEF TypeOK, CachedValue
        <4> QED BY SMTT(30), <1>11, <4>1 DEF StoreEntry, TypeOK
      <3> QED BY SMTT(30), <3>1, <3>2, ReturnShape DEF TypeOK
    <2>2. LockInv'
      BY Zenon, <1>11 DEF TypeOK, LockInv, LockedPC, StoreEntry, Return
    <2>3. ReaderInv'
      BY Zenon, <1>11 DEF TypeOK, ReaderInv, StoreEntry, Return
    <2> QED BY Zenon, <2>1, <2>2, <2>3
  <1>12. ASSUME NEW p \in Proc, StartPurge(p) PROVE Shape'
    <2>1. TypeOK'
      BY Zenon, <1>12, WithoutType DEF TypeOK, ReaderInv, StartPurge, Generation
    <2>2. LockInv'
      BY Zenon, <1>12 DEF TypeOK, LockInv, LockedPC, StartPurge
    <2>3. ReaderInv'
      BY Zenon, <1>12 DEF TypeOK, ReaderInv, StartPurge
    <2> QED BY Zenon, <2>1, <2>2, <2>3
  <1>13. ASSUME NEW p \in Proc, PurgeBump(p) PROVE Shape'
    <2>1. TypeOK'
      BY <1>13, WithoutType DEF TypeOK, ReaderInv, PurgeBump, BumpOK, BumpError, Generation
    <2>2. LockInv'
      BY Zenon, <1>13 DEF TypeOK, LockInv, LockedPC, PurgeBump
    <2>3. ReaderInv'
      BY Zenon, <1>13 DEF TypeOK, ReaderInv, PurgeBump
    <2> QED BY Zenon, <2>1, <2>2, <2>3
  <1>14. ASSUME NEW p \in Proc, PurgeDelete(p) PROVE Shape'
    <2>1. TypeOK'
      <3>1. CASE Return(p)
        <4>1. UNCHANGED <<now, gen, index, indexDies, evicted>> /\ \E D : keyring' = Without(D)
          BY Zenon, <1>14 DEF PurgeDelete
        <4>2. keyring' \in [Account -> CachedValue]
          BY <4>1, WithoutType DEF Shape
        <4> QED BY Zenon, <3>1, <4>1, <4>2, ReturnShape DEF TypeOK
      <3>2. ASSUME NEW configured \in SUBSET Account, NEW ttl \in [configured -> TTLs],
                   NEW D, keyring' = Without(D),
                   pending' = [pending EXCEPT ![p] =
                                 [a \in Account |-> IF a \in D THEN 0 ELSE ToPurge(ttl)[a]]],
                   err' = [err EXCEPT ![p] = IF D = Listed \cup configured THEN @
                                             ELSE "error"],
                   Goto(p, "purgeIndex"),
                   UNCHANGED <<now, gen, index, indexDies, evicted, lock, acct, snap,
                               since, expires>>
            PROVE  TypeOK'
        <4>1. [a \in Account |-> IF a \in D THEN 0 ELSE ToPurge(ttl)[a]] \in [Account -> Nat]
          BY ToPurgeType
        <4> QED BY Zenon, <3>2, <4>1, WithoutType DEF TypeOK, Goto, PurgePC
      <3> QED BY SMTT(30), <1>14, <3>1, <3>2 DEF PurgeDelete
    <2>2. LockInv'
      BY Zenon, <1>14, ReturnShape DEF TypeOK, LockInv, LockedPC, PurgeDelete, Goto
    <2>3. ReaderInv'
      BY <1>14 DEF TypeOK, ReaderInv, PurgeDelete, Return
    <2> QED BY Zenon, <2>1, <2>2, <2>3
  <1>15. ASSUME NEW p \in Proc, PurgeIndex(p) PROVE Shape'
    <2>1. Return(p) /\ UNCHANGED <<now, gen, keyring>>
      BY Zenon, <1>15 DEF PurgeIndex
    <2>2. index' \in [Account -> Nat] /\ indexDies' \in Nat /\ evicted' \in [Account -> Nat]
      BY <1>15, WriteIndexType DEF PurgeIndex, TypeOK
    <2> QED BY Zenon, <2>1, <2>2, ReturnShape DEF TypeOK
  <1>16. ASSUME NEW p \in Proc, Crash(p) PROVE Shape'
    <2>1. TypeOK'
      BY <1>16, WithoutType, ReturnShape DEF TypeOK, Crash, Generation
    <2>2. LockInv'
      BY Zenon, <1>16 DEF TypeOK, LockInv, LockedPC, Crash, Return
    <2>3. ReaderInv'
      BY Zenon, <1>16 DEF TypeOK, ReaderInv, Crash, Return
    <2> QED BY Zenon, <2>1, <2>2, <2>3
  <1>17. CASE Tick
    BY <1>17, WithoutType DEF Tick, NothingListed, TypeOK, LockInv, ReaderInv
  <1> QED
    BY Zenon, <1>0, <1>1, <1>2, <1>3, <1>4, <1>5, <1>6, <1>7, <1>8, <1>9, <1>10, <1>11,
       <1>12, <1>13, <1>14, <1>15, <1>16, <1>17 DEF Next, Step
-----------------------------------------------------------------------------
(* The listing: whatever is in the keychain is in a live index.            *)

LEMMA ListingInit == Init => Listing
  BY ConstantsAssumption
     DEF Init, Listing, IndexInv, EntryInv, StoreInv, PendingInv, Live, NoEntry,
         NothingListed

\* CachedIsListed follows from the margin being larger than the rounding.
LEMMA EntryListed == Shape /\ Listing => CachedIsListed
  BY ConstantsAssumption
     DEF Shape, TypeOK, Listing, IndexInv, EntryInv, CachedIsListed, Live, Listed,
         IndexLive, CachedValue

\* After deleting D (and, possibly, some time) only entries outside D are left.
LEMMA LiveWithout ==
  ASSUME TypeOK, NEW D, keyring' = Without(D), now' \in Nat, now' >= now
  PROVE  \A a \in Account : Live(a)' => Live(a) /\ a \notin D /\ keyring'[a] = keyring[a]
  BY WithoutType DEF TypeOK, Live, NoEntry, CachedValue

\* A step that leaves the keychain and the clock alone and moves no process into
\* the window after an index write keeps the listing.
LEMMA QuietListing ==
  ASSUME Shape, Listing, UNCHANGED <<now, keyring, index, indexDies>>,
         \A q \in Proc : pc'[q] = "storeEntry" =>
             pc[q] = "storeEntry" /\ expires'[q] = expires[q] /\ acct'[q] = acct[q],
         \A q \in Proc : pc'[q] = "purgeIndex" =>
             pc[q] = "purgeIndex" /\ pending'[q] = pending[q] /\ err'[q] = err[q]
  PROVE  Listing'
  BY Zenon DEF Listing, IndexInv, EntryInv, StoreInv, PendingInv, Live

LEMMA ListingNext == Shape /\ Listing /\ [Next]_vars => Listing'
  <1> SUFFICES ASSUME Shape, Listing, [Next]_vars PROVE Listing'
    BY Zenon
  <1>c. CachedIsListed
    BY Zenon, EntryListed
  <1>0. CASE UNCHANGED vars
    BY Zenon, <1>0, QuietListing DEF vars, locals
  <1>1. ASSUME NEW p \in Proc, StartRead(p) PROVE Listing'
    BY Zenon, <1>1, QuietListing DEF StartRead, Goto, locals, Shape, TypeOK
  <1>2. ASSUME NEW p \in Proc, Acquire(p) PROVE Listing'
    BY Zenon, <1>2, QuietListing DEF Acquire, Goto, locals, Shape, TypeOK
  <1>3. ASSUME NEW p \in Proc, LookupHit(p) PROVE Listing'
    BY Zenon, <1>3, QuietListing, ReturnShape DEF LookupHit, Goto, locals, Shape, TypeOK
  <1>4. ASSUME NEW p \in Proc, LookupMiss(p) PROVE Listing'
    BY Zenon, <1>4, QuietListing DEF LookupMiss, Goto, locals, Shape, TypeOK
  <1>5. ASSUME NEW p \in Proc, EvictBump(p) PROVE Listing'
    BY Zenon, <1>5, QuietListing, ReturnShape DEF EvictBump, Goto, locals, Shape, TypeOK
  <1>6. ASSUME NEW p \in Proc, ReadGen(p) PROVE Listing'
    BY Zenon, <1>6, QuietListing DEF ReadGen, Goto, locals, Shape, TypeOK
  <1>7. ASSUME NEW p \in Proc, CommandDone(p) PROVE Listing'
    BY Zenon, <1>7, QuietListing, ReturnShape DEF CommandDone, Goto, locals, Shape, TypeOK
  <1>8. ASSUME NEW p \in Proc, StoreCheck(p) PROVE Listing'
    BY Zenon, <1>8, QuietListing, ReturnShape DEF StoreCheck, Goto, locals, Shape, TypeOK
  <1>9. ASSUME NEW p \in Proc, StartPurge(p) PROVE Listing'
    BY Zenon, <1>9, QuietListing DEF StartPurge, Goto, locals, Shape, TypeOK
  <1>10. ASSUME NEW p \in Proc, PurgeBump(p) PROVE Listing'
    BY Zenon, <1>10, QuietListing DEF PurgeBump, Goto, locals, Shape, TypeOK
  <1>11. ASSUME NEW p \in Proc, Crash(p) PROVE Listing'
    BY Zenon, <1>11, QuietListing, ReturnShape DEF Crash, Goto, locals, Shape, TypeOK
  <1>12. ASSUME NEW p \in Proc, EvictDelete(p) PROVE Listing'
    <2>1. CASE Return(p) /\ UNCHANGED <<keyring, evicted>>
      BY Zenon, <1>12, <2>1, QuietListing, ReturnShape DEF EvictDelete
    <2>2. CASE keyring' = Without({acct[p]}) /\ Goto(p, "readGen") /\ UNCHANGED <<lock, locals>>
      <3>0. UNCHANGED <<now, index, indexDies>>
        BY Zenon, <1>12 DEF EvictDelete
      <3>a. now' \in Nat /\ now' >= now
        BY <3>0 DEF Shape, TypeOK
      <3>b. \A a \in Account : Live(a)' => Live(a) /\ keyring'[a] = keyring[a]
        BY Zenon, <2>2, <3>a, LiveWithout DEF Shape
      <3>1. IndexInv' /\ EntryInv'
        BY Zenon, <3>0, <3>b DEF Listing, IndexInv, EntryInv
      <3>2. StoreInv' /\ PendingInv'
        BY Zenon, <1>12, <2>2 DEF EvictDelete, Listing, StoreInv, PendingInv, Goto, locals, Shape,
                            TypeOK, LockInv, LockedPC
      <3> QED BY Zenon, <3>1, <3>2 DEF Listing
    <2> QED BY Zenon, <1>12, <2>1, <2>2 DEF EvictDelete
  <1>13. ASSUME NEW p \in Proc, StoreIndex(p) PROVE Listing'
    <2>1. PICK D \in SUBSET {a \in Listed : index[a] <= now} :
            /\ keyring' = Without(D)
            /\ \/ WriteIndex(Recorded(p, D)) /\ Goto(p, "storeEntry")
                  /\ UNCHANGED <<lock, locals>>
               \/ UNCHANGED <<index, indexDies>> /\ Return(p)
      BY Zenon, <1>13 DEF StoreIndex
    <2>2. now' = now /\ pc[p] = "storeIndex"
      BY Zenon, <1>13 DEF StoreIndex
    <2>3. \A a \in Account : Live(a)' => Live(a) /\ a \notin D /\ keyring'[a] = keyring[a]
      BY <2>1, <2>2, LiveWithout DEF Shape, TypeOK
    <2>4. \A q \in Proc : pc[q] # "purgeIndex" /\ (q # p => pc[q] # "storeEntry")
      BY Zenon, <2>2, OneInside DEF LockedPC
    <2>5. CASE UNCHANGED <<index, indexDies>> /\ Return(p)
      <3>1. IndexInv' /\ EntryInv'
        BY Zenon, <2>3, <2>5 DEF Listing, IndexInv, EntryInv
      <3>2. StoreInv' /\ PendingInv'
        BY ZenonT(30), <2>4, <2>5, ReturnShape DEF StoreInv, PendingInv
      <3> QED BY SMTT(30), <3>1, <3>2 DEF Listing
    <2>6. CASE WriteIndex(Recorded(p, D)) /\ Goto(p, "storeEntry") /\ UNCHANGED <<lock, locals>>
      <3>1. /\ index' = Recorded(p, D)
            /\ \A a \in Account : index'[a] > 0 => indexDies' >= index'[a] + IndexExpiryMargin
        BY Zenon, <2>6, RecordedType, WriteIndexType DEF Shape
      <3>2. \A a \in Account : a \notin D => index'[a] >= ListedExpiry[a]
        BY <3>1, ListedExpiryType DEF Recorded, Shape, TypeOK
      <3>3. \A a \in Account : Live(a) => ListedExpiry[a] = index[a]
        BY Zenon, <1>c, ListedExpiryType DEF CachedIsListed, Shape
      <3>4. EntryInv'
        <4>1. \A a \in Account : keyring[a].exp \in Nat /\ index[a] \in Nat /\ index'[a] \in Nat
          BY Zenon, <3>1, RecordedType DEF Shape, TypeOK, CachedValue
        <4>2. \A a \in Account : Live(a)' => index'[a] >= index[a]
          BY Zenon, <2>3, <3>2, <3>3
        <4> QED BY <2>3, <4>1, <4>2 DEF Listing, EntryInv
      <3>5. expires[p] <= index'[acct[p]]
        BY <2>2, <3>1, ListedExpiryType DEF Recorded, Shape, TypeOK, ReaderInv, ReadPC
      <3>6. StoreInv' /\ PendingInv'
        BY Zenon, <2>4, <2>6, <3>5 DEF StoreInv, PendingInv, Goto, locals, Shape, TypeOK
      <3> QED BY Zenon, <3>1, <3>4, <3>6 DEF Listing, IndexInv
    <2> QED BY Zenon, <2>1, <2>5, <2>6
  <1>14. ASSUME NEW p \in Proc, StoreEntry(p) PROVE Listing'
    <2>1. /\ Return(p) /\ UNCHANGED <<now, index, indexDies>> /\ pc[p] = "storeEntry"
          /\ acct[p] \in Account
      BY Zenon, <1>14 DEF StoreEntry, Shape, ReaderInv, ReadPC
    <2>2. \A q \in Proc : pc[q] # "purgeIndex" /\ (q # p => pc[q] # "storeEntry")
      BY Zenon, <2>1, OneInside DEF LockedPC
    <2>3. IndexInv'
      BY Zenon, <2>1 DEF Listing, IndexInv
    <2>4. EntryInv'
      <3>1. CASE UNCHANGED keyring
        BY Zenon, <2>1, <3>1 DEF Listing, EntryInv, Live
      <3>2. ASSUME NEW r \in 0..Rounding, now < expires[p],
                   keyring' = [keyring EXCEPT ![acct[p]] =
                                 [exp |-> expires[p], dies |-> expires[p] + r,
                                  since |-> since[p]]]
            PROVE  EntryInv'
        <4>1. ASSUME NEW a \in Account, a # acct[p] PROVE keyring'[a] = keyring[a]
          BY Zenon, <2>1, <3>2, <4>1 DEF Shape, TypeOK
        <4>2. /\ keyring'[acct[p]].exp = expires[p]
              /\ keyring'[acct[p]].dies = expires[p] + r
          BY Zenon, <2>1, <3>2 DEF Shape, TypeOK
        <4>3. expires[p] > 0 /\ expires[p] <= index[acct[p]] /\ r <= Rounding
          BY <2>1, <3>2, ConstantsAssumption DEF Listing, StoreInv, Shape, TypeOK
        <4> QED
          BY <2>1, <4>1, <4>2, <4>3, ConstantsAssumption
             DEF Listing, EntryInv, Live, Shape, TypeOK
      <3> QED BY Zenon, <1>14, <3>1, <3>2 DEF StoreEntry
    <2>5. StoreInv' /\ PendingInv'
      BY Zenon, <2>1, <2>2, ReturnShape DEF StoreInv, PendingInv
    <2> QED BY SMTT(30), <2>3, <2>4, <2>5 DEF Listing
  <1>15. ASSUME NEW p \in Proc, PurgeDelete(p) PROVE Listing'
    <2>1. /\ pc[p] = "purgeDelete" /\ UNCHANGED <<now, index, indexDies>>
      BY Zenon, <1>15 DEF PurgeDelete
    <2>2. \A q \in Proc : pc[q] # "purgeIndex" /\ pc[q] # "storeEntry"
      BY Zenon, <2>1, OneInside DEF LockedPC
    <2>3. ASSUME NEW D, keyring' = Without(D)
          PROVE  /\ IndexInv' /\ EntryInv'
                 /\ \A a \in Account : Live(a)' => Live(a) /\ a \notin D
      <3>1. now' \in Nat /\ now' >= now
        BY <2>1 DEF Shape, TypeOK
      <3>2. \A a \in Account : Live(a)' => Live(a) /\ a \notin D /\ keyring'[a] = keyring[a]
        BY Zenon, <2>3, <3>1, LiveWithout DEF Shape
      <3>3. IndexInv'
        BY Zenon, <2>1 DEF Listing, IndexInv
      <3>4. EntryInv'
        BY Zenon, <2>1, <3>2 DEF Listing, EntryInv
      <3> QED BY Zenon, <3>2, <3>3, <3>4
    <2>4. ASSUME NEW D, keyring' = Without(D), Return(p)
          PROVE  Listing'
      BY Zenon, <2>2, <2>3, <2>4, ReturnShape DEF Listing, StoreInv, PendingInv
    <2>5. ASSUME NEW configured \in SUBSET Account, NEW ttl \in [configured -> TTLs],
                 NEW D \in SUBSET (Listed \cup configured),
                 keyring' = Without(D),
                 pending' = [pending EXCEPT ![p] =
                               [a \in Account |-> IF a \in D THEN 0 ELSE ToPurge(ttl)[a]]],
                 err' = [err EXCEPT ![p] = IF D = Listed \cup configured THEN @ ELSE "error"],
                 Goto(p, "purgeIndex")
          PROVE  Listing'
      <3>1. \A a \in Account : Live(a)' => a \in Listed \ D /\ keyring'[a].exp <= index[a]
        BY Zenon, <1>c, <2>1, <2>3, <2>5 DEF CachedIsListed, EntryInv
      <3>2. /\ pending'[p] = [a \in Account |-> IF a \in D THEN 0 ELSE ToPurge(ttl)[a]]
            /\ D = Listed \cup configured \/ err'[p] = "error"
        BY Zenon, <2>5 DEF Shape, TypeOK
      <3>3. \A a \in Account : Live(a)' => keyring'[a].exp <= pending'[p][a]
        <4> SUFFICES ASSUME NEW a \in Account, Live(a)'
                     PROVE  keyring'[a].exp <= pending'[p][a]
          BY Zenon
        <4>1. a \in Listed /\ a \notin D /\ keyring'[a].exp <= index[a]
          BY Zenon, <3>1
        <4>2. ToPurge(ttl)[a] = index[a]
          BY Zenon, <4>1, ToPurgeType DEF Shape
        <4>3. pending'[p][a] = index[a]
          BY Zenon, <3>2, <4>1, <4>2
        <4> QED BY Zenon, <4>1, <4>3
      <3>4. D = Listed \cup configured => pending'[p] = NothingListed
        BY <3>2, ToPurgeType DEF Shape, NothingListed
      <3>5. \A q \in Proc : pc'[q] # "storeEntry" /\ (pc'[q] = "purgeIndex" => q = p)
        BY Zenon, <2>2, <2>5 DEF Goto, Shape, TypeOK
      <3>6. StoreInv' /\ PendingInv'
        BY Zenon, <3>2, <3>3, <3>4, <3>5 DEF StoreInv, PendingInv, NothingListed
      <3> QED BY Zenon, <2>3, <2>5, <3>6 DEF Listing
    <2> QED BY <1>15, <2>4, <2>5 DEF PurgeDelete
  <1>16. ASSUME NEW p \in Proc, PurgeIndex(p) PROVE Listing'
    <2>1. Return(p) /\ UNCHANGED <<now, keyring>> /\ pc[p] = "purgeIndex"
      BY Zenon, <1>16 DEF PurgeIndex
    <2>2. \A q \in Proc : pc[q] # "storeEntry" /\ (q # p => pc[q] # "purgeIndex")
      BY Zenon, <2>1, OneInside DEF LockedPC
    <2>3. StoreInv' /\ PendingInv'
      BY Zenon, <2>1, <2>2, ReturnShape DEF StoreInv, PendingInv
    <2>4. CASE UNCHANGED <<index, indexDies>>
      BY Zenon, <2>1, <2>3, <2>4 DEF Listing, IndexInv, EntryInv, Live
    <2>5. CASE WriteIndex(pending[p])
      <3>1. /\ index' = pending[p]
            /\ \A a \in Account : index'[a] > 0 => indexDies' >= index'[a] + IndexExpiryMargin
        BY SMTT(30), <2>5, WriteIndexType DEF Shape, TypeOK
      <3>2. \A a \in Account : Live(a) => keyring[a].exp <= index'[a]
        BY Zenon, <2>1, <3>1 DEF Listing, PendingInv
      <3>3. EntryInv'
        BY Zenon, <2>1, <3>2 DEF Listing, EntryInv, Live
      <3> QED BY Zenon, <2>3, <3>1, <3>3 DEF Listing, IndexInv
    <2> QED BY Zenon, <1>16, <2>4, <2>5 DEF PurgeIndex
  <1>17. CASE Tick
    <2>1. /\ now' = now + 1
          /\ keyring' = Without({a \in Account : keyring[a].dies <= now + 1})
          /\ UNCHANGED <<pc, locals>>
          /\ index' = IF indexDies <= now + 1 THEN NothingListed ELSE index
          /\ indexDies' = IF indexDies <= now + 1 THEN 0 ELSE indexDies
      BY Zenon, <1>17 DEF Tick
    <2>2. \A a \in Account : Live(a)' => Live(a) /\ keyring[a].dies > now + 1
                                          /\ keyring'[a] = keyring[a]
      <3>1. now' \in Nat /\ now' >= now
        BY <2>1 DEF Shape, TypeOK
      <3>2. \A a \in Account : Live(a)' => Live(a) /\ ~(keyring[a].dies <= now + 1)
                                            /\ keyring'[a] = keyring[a]
        BY Zenon, <2>1, <3>1, LiveWithout DEF Shape
      <3> QED BY <3>2 DEF Shape, TypeOK, CachedValue
    <2>3. IndexInv'
      BY SMTT(30), <2>1 DEF Listing, IndexInv, NothingListed, Shape, TypeOK
    <2>4. EntryInv'
      <3> SUFFICES ASSUME NEW a \in Account, Live(a)'
                   PROVE  /\ keyring[a].exp > 0
                          /\ keyring[a].dies <= keyring[a].exp + Rounding
                          /\ keyring[a].exp <= index'[a]
        BY Zenon, <2>2 DEF EntryInv
      <3>1. /\ keyring[a].exp \in Nat /\ keyring[a].dies \in Nat /\ index[a] \in Nat
            /\ now \in Nat /\ indexDies \in Nat
        BY Zenon DEF Shape, TypeOK, CachedValue
      <3>2. /\ keyring[a].exp > 0 /\ keyring[a].dies <= keyring[a].exp + Rounding
            /\ keyring[a].exp <= index[a] /\ keyring[a].dies > now + 1
        BY Zenon, <2>2 DEF Listing, EntryInv
      <3>3. indexDies >= index[a] + IndexExpiryMargin
        BY <3>1, <3>2 DEF Listing, IndexInv
      <3>4. ~(indexDies <= now + 1)
        BY <3>1, <3>2, <3>3, ConstantsAssumption
      <3> QED BY Zenon, <2>1, <3>2, <3>4
    <2>5. StoreInv'
      BY SMTT(30), <2>1, ConstantsAssumption
         DEF Listing, IndexInv, StoreInv, locals, Shape, TypeOK, ReaderInv, ReadPC
    <2>6. PendingInv'
      BY Zenon, <2>1, <2>2 DEF Listing, PendingInv, locals
    <2> QED BY Zenon, <2>3, <2>4, <2>5, <2>6 DEF Listing
  <1> QED
    BY Zenon, <1>0, <1>1, <1>2, <1>3, <1>4, <1>5, <1>6, <1>7, <1>8, <1>9, <1>10, <1>11,
       <1>12, <1>13, <1>14, <1>15, <1>16, <1>17 DEF Next, Step
-----------------------------------------------------------------------------
(* Freshness: no value from before an eviction comes back.                 *)

LEMMA FreshnessInit == Init => Freshness
  BY ConstantsAssumption
     DEF Init, Freshness, GenInv, BumpedInv, EvictedStaysGone, Running, Evicting,
         Live, NoEntry

\* What a process read stays right while the generation file is untouched and
\* nothing is evicted behind the back of a process with the current generation.
LEMMA GenKept ==
  ASSUME GenInv, UNCHANGED gen,
         \A q \in Proc : Running(q)' =>
             /\ Running(q) /\ snap'[q] = snap[q] /\ since'[q] = since[q]
             /\ acct'[q] = acct[q]
             /\ evicted'[acct[q]] = evicted[acct[q]] \/ snap[q] # gen
             /\ pc'[q] # "command" => pc[q] # "command" \/ snap[q] # Corrupt
             /\ pc'[q] \in {"storeIndex", "storeEntry"} =>
                  pc[q] \in {"storeIndex", "storeEntry"} \/ snap[q] = gen
  PROVE  GenInv'
  <1>1. ASSUME NEW q \in Proc, Running(q)', snap'[q] # Corrupt, gen' # Corrupt
        PROVE  snap'[q] <= gen' /\ (snap'[q] = gen' => since'[q] = evicted'[acct'[q]])
    <2>1. /\ Running(q) /\ snap'[q] = snap[q] /\ since'[q] = since[q] /\ gen' = gen
          /\ acct'[q] = acct[q] /\ (evicted'[acct[q]] = evicted[acct[q]] \/ snap[q] # gen)
      BY Zenon, <1>1
    <2>2. snap[q] <= gen /\ (snap[q] = gen => since[q] = evicted[acct[q]])
      BY Zenon, <1>1, <2>1 DEF GenInv
    <2> QED BY Zenon, <2>1, <2>2
  <1>2. ASSUME NEW q \in Proc, Running(q)', pc'[q] # "command"
        PROVE  snap'[q] # Corrupt
    BY Zenon, <1>2 DEF GenInv
  <1>3. ASSUME NEW q \in Proc, pc'[q] \in {"storeIndex", "storeEntry"}
        PROVE  snap'[q] = gen'
    <2>1. Running(q)'
      BY Zenon, <1>3 DEF Running
    <2> QED BY Zenon, <1>3, <2>1 DEF GenInv
  <1> QED BY Zenon, <1>1, <1>2, <1>3 DEF GenInv

\* A call that ends starts nothing, and leaves the others where they are.
LEMMA ReturnStops ==
  ASSUME Shape, NEW p \in Proc, Return(p)
  PROVE  /\ ~Running(p)' /\ ~Evicting(p)'
         /\ \A q \in Proc : q # p =>
              /\ Running(q)' <=> Running(q)
              /\ Evicting(q)' <=> Evicting(q)
  <1>1. ~Running(p)' /\ ~Evicting(p)'
    BY Zenon, ReturnShape DEF Running, Evicting
  <1>2. ASSUME NEW q \in Proc, q # p
        PROVE  (Running(q)' <=> Running(q)) /\ (Evicting(q)' <=> Evicting(q))
    <2>1. pc'[q] = pc[q] /\ err'[q] = err[q]
      BY Zenon, <1>2, ReturnShape
    <2> QED BY Zenon, <2>1 DEF Running, Evicting
  <1> QED BY Zenon, <1>1, <1>2

\* A step that changes neither the generation nor the evictions, caches nothing
\* and starts no command or eviction keeps freshness.
LEMMA QuietFreshness ==
  ASSUME Shape, Freshness, UNCHANGED <<gen, evicted>>,
         \A a \in Account : Live(a)' => Live(a) /\ keyring'[a] = keyring[a],
         \A q \in Proc : Running(q)' =>
             /\ Running(q) /\ snap'[q] = snap[q] /\ since'[q] = since[q]
             /\ acct'[q] = acct[q]
             /\ pc'[q] # "command" => pc[q] # "command" \/ snap[q] # Corrupt
             /\ pc'[q] \in {"storeIndex", "storeEntry"} =>
                  pc[q] \in {"storeIndex", "storeEntry"} \/ snap[q] = gen,
         \A q \in Proc : Evicting(q)' => Evicting(q)
  PROVE  Freshness'
  <1>1. GenInv'
    <2>1. GenInv
      BY Zenon DEF Freshness
    <2> QED BY Zenon, <2>1, GenKept
  <1>2. BumpedInv'
    <2>1. ASSUME NEW q \in Proc, Evicting(q)', NEW r \in Proc, Running(r)'
          PROVE  gen # Corrupt /\ snap'[r] # gen
      BY Zenon, <2>1 DEF Freshness, BumpedInv
    <2>2. ASSUME NEW q \in Proc, Evicting(q)' PROVE gen # Corrupt
      BY Zenon, <2>2 DEF Freshness, BumpedInv
    <2> QED BY Zenon, <2>1, <2>2 DEF BumpedInv
  <1>3. EvictedStaysGone'
    BY ZenonT(30) DEF Freshness, EvictedStaysGone
  <1> QED BY SMTT(30), <1>1, <1>2, <1>3 DEF Freshness

\* In particular a call that ends without an eviction.
LEMMA ReturnFreshness ==
  ASSUME Shape, Freshness, NEW p \in Proc, Return(p), UNCHANGED <<gen, evicted>>,
         \A a \in Account : Live(a)' => Live(a) /\ keyring'[a] = keyring[a]
  PROVE  Freshness'
  <1>1. \A q \in Proc : Evicting(q)' => Evicting(q)
    BY Zenon, ReturnStops
  <1>2. \A q \in Proc : Running(q)' => q # p /\ Running(q)
    BY Zenon, ReturnStops
  <1>3. ASSUME NEW q \in Proc, Running(q)'
        PROVE  /\ Running(q) /\ snap'[q] = snap[q] /\ since'[q] = since[q]
               /\ acct'[q] = acct[q] /\ pc'[q] = pc[q]
    BY Zenon, <1>2, <1>3, ReturnShape
  <1> QED BY Zenon, <1>1, <1>3, QuietFreshness

\* A bump, or a failed write of the generation, by the process that holds the
\* lock: commands already running fall behind, and nobody else is storing.
LEMMA BumpFreshness ==
  ASSUME Shape, Freshness, NEW p \in Proc, pc[p] \in {"evictBump", "purgeBump"},
         UNCHANGED <<now, keyring, evicted>>,
         ~Running(p)',
         \/ gen' = Corrupt /\ ~Evicting(p)'
         \/ gen # Corrupt /\ gen' = gen + 1,
         \A q \in Proc : q # p => /\ pc'[q] = pc[q] /\ acct'[q] = acct[q]
                                  /\ snap'[q] = snap[q] /\ since'[q] = since[q]
                                  /\ err'[q] = err[q]
  PROVE  Freshness'
  <1>1. \A q \in Proc : q # p => pc[q] \notin LockedPC
    BY Zenon, OneInside DEF LockedPC
  <1>2. \A q \in Proc : Running(q)' => q # p /\ Running(q)
    BY Zenon DEF Running
  <1>3. \A q \in Proc : Evicting(q)' => q = p
    BY Zenon, <1>1 DEF Evicting, LockedPC
  <1>4. \A q \in Proc : pc'[q] \notin {"storeIndex", "storeEntry"}
    BY SMTT(30), <1>1 DEF Running, LockedPC
  <1>5. \A q \in Proc : Running(q) /\ gen # Corrupt /\ gen' = gen + 1 => snap[q] # gen'
    <2> SUFFICES ASSUME NEW q \in Proc, Running(q), gen # Corrupt, snap[q] = gen + 1
                 PROVE  FALSE
      BY Zenon
    <2>1. gen \in Nat
      BY Zenon DEF Shape, TypeOK, Generation
    <2>2. snap[q] # Corrupt
      BY Zenon, <2>1, CountIsReadable
    <2>3. snap[q] <= gen
      BY Zenon, <2>2 DEF Freshness, GenInv
    <2> QED BY <2>1, <2>3
  <1>6. GenInv'
    <2> SUFFICES ASSUME NEW q \in Proc, Running(q)'
                 PROVE  /\ snap'[q] # Corrupt /\ gen' # Corrupt =>
                             /\ snap'[q] <= gen'
                             /\ snap'[q] = gen' => since'[q] = evicted'[acct'[q]]
                        /\ pc'[q] # "command" => snap'[q] # Corrupt
      BY SMTT(30), <1>4 DEF GenInv, Running
    <2>1. /\ Running(q) /\ pc'[q] = pc[q] /\ snap'[q] = snap[q]
      BY Zenon, <1>2
    <2>2. CASE gen' = Corrupt
      BY SMTT(30), <2>1, <2>2 DEF Freshness, GenInv
    <2>3. CASE gen # Corrupt /\ gen' = gen + 1
      <3>1. gen \in Nat /\ snap[q] \in Nat \cup {Corrupt}
        BY Zenon, <2>3 DEF Shape, TypeOK, Generation
      <3>2. snap[q] # Corrupt => snap[q] <= gen
        BY Zenon, <2>1, <2>3 DEF Freshness, GenInv
      <3>3. pc[q] # "command" => snap[q] # Corrupt
        BY Zenon, <2>1 DEF Freshness, GenInv
      <3>4. snap'[q] # Corrupt => snap'[q] <= gen'
        BY <2>1, <2>3, <3>1, <3>2
      <3>5. snap'[q] # gen'
        BY Zenon, <1>5, <2>1, <2>3
      <3> QED BY Zenon, <2>1, <3>3, <3>4, <3>5
    <2> QED BY Zenon, <2>2, <2>3
  <1>7. BumpedInv'
    <2> SUFFICES ASSUME Evicting(p)'
                 PROVE  gen' # Corrupt /\ \A q \in Proc : Running(q)' => snap'[q] # gen'
      BY Zenon, <1>3 DEF BumpedInv
    <2>1. gen \in Nat /\ gen # Corrupt /\ gen' = gen + 1
      BY Zenon DEF Shape, TypeOK, Generation
    <2>2. gen' # Corrupt
      BY Zenon, <2>1, CountIsReadable
    <2> QED BY Zenon, <1>2, <1>5, <2>1, <2>2
  <1>8. EvictedStaysGone'
    BY Zenon DEF Freshness, EvictedStaysGone, Live
  <1> QED BY Zenon, <1>6, <1>7, <1>8 DEF Freshness

LEMMA FreshnessNext == Shape /\ Listing /\ Freshness /\ [Next]_vars => Freshness'
  <1> SUFFICES ASSUME Shape, Listing, Freshness, [Next]_vars PROVE Freshness'
    BY Zenon
  <1>0. CASE UNCHANGED vars
    BY Zenon, <1>0, QuietFreshness DEF vars, locals, Running, Evicting, Live
  <1>1. ASSUME NEW p \in Proc, StartRead(p) PROVE Freshness'
    BY Zenon, <1>1, QuietFreshness DEF StartRead, Goto, locals, Shape, TypeOK, Running, Evicting, Live
  <1>2. ASSUME NEW p \in Proc, Acquire(p) PROVE Freshness'
    BY SMTT(30), <1>2, QuietFreshness DEF Acquire, Goto, locals, Shape, TypeOK, Running, Evicting, Live
  <1>3. ASSUME NEW p \in Proc, LookupHit(p) PROVE Freshness'
    <2>1. \A a \in Account : Live(a)' => Live(a) /\ keyring'[a] = keyring[a]
      BY Zenon, <1>3 DEF LookupHit, Live
    <2> QED BY Zenon, <1>3, <2>1, ReturnFreshness DEF LookupHit
  <1>4. ASSUME NEW p \in Proc, LookupMiss(p) PROVE Freshness'
    BY SMTT(30), <1>4, QuietFreshness DEF LookupMiss, Goto, locals, Shape, TypeOK, Running, Evicting, Live
  <1>5. ASSUME NEW p \in Proc, CommandDone(p) PROVE Freshness'
    <2>1. \A a \in Account : Live(a)' => Live(a) /\ keyring'[a] = keyring[a]
      BY Zenon, <1>5 DEF CommandDone, Live
    <2>2. CASE Return(p)
      BY Zenon, <1>5, <2>1, <2>2, ReturnFreshness DEF CommandDone
    <2>3. CASE snap[p] # Corrupt /\ Goto(p, "storeLock") /\ UNCHANGED locals
      <3>1. /\ pc[p] = "command" /\ pc' = [pc EXCEPT ![p] = "storeLock"]
            /\ UNCHANGED <<gen, evicted, acct, snap, since, err>>
        BY Zenon, <1>5, <2>3 DEF CommandDone, Goto, locals
      <3>2. /\ pc'[p] = "storeLock" /\ \A q \in Proc : q # p => pc'[q] = pc[q]
        BY Zenon, <3>1 DEF Shape, TypeOK
      <3>3. \A q \in Proc : /\ Evicting(q)' => Evicting(q)
                            /\ Running(q)' => Running(q)
        BY Zenon, <3>1, <3>2 DEF Evicting, Running
      <3>4. \A q \in Proc :
              /\ pc'[q] # "command" => pc[q] # "command" \/ snap[q] # Corrupt
              /\ pc'[q] \in {"storeIndex", "storeEntry"} =>
                   pc[q] \in {"storeIndex", "storeEntry"} \/ snap[q] = gen
        BY Zenon, <2>3, <3>1, <3>2
      <3> QED BY Zenon, <2>1, <3>1, <3>3, <3>4, QuietFreshness
    <2> QED BY Zenon, <1>5, <2>2, <2>3 DEF CommandDone
  <1>6. ASSUME NEW p \in Proc, StoreCheck(p) PROVE Freshness'
    <2>1. \A a \in Account : Live(a)' => Live(a) /\ keyring'[a] = keyring[a]
      BY Zenon, <1>6 DEF StoreCheck, Live
    <2>2. CASE Return(p)
      BY Zenon, <1>6, <2>1, <2>2, ReturnFreshness DEF StoreCheck
    <2>3. CASE gen = snap[p] /\ Goto(p, "storeIndex") /\ UNCHANGED <<acct, snap, since, err>>
      <3>1. /\ pc[p] = "storeCheck" /\ pc' = [pc EXCEPT ![p] = "storeIndex"]
            /\ UNCHANGED <<gen, evicted, acct, snap, since, err>>
        BY Zenon, <1>6, <2>3 DEF StoreCheck, Goto
      <3>2. /\ pc'[p] = "storeIndex" /\ \A q \in Proc : q # p => pc'[q] = pc[q]
        BY Zenon, <3>1 DEF Shape, TypeOK
      <3>3. \A q \in Proc : /\ Evicting(q)' => Evicting(q)
                            /\ Running(q)' => Running(q)
        BY Zenon, <3>1, <3>2 DEF Evicting, Running
      <3>4. \A q \in Proc :
              /\ pc'[q] # "command" => pc[q] # "command" \/ snap[q] # Corrupt
              /\ pc'[q] \in {"storeIndex", "storeEntry"} =>
                   pc[q] \in {"storeIndex", "storeEntry"} \/ snap[q] = gen
        BY Zenon, <2>3, <3>1, <3>2
      <3> QED BY Zenon, <2>1, <3>1, <3>3, <3>4, QuietFreshness
    <2> QED BY Zenon, <1>6, <2>2, <2>3 DEF StoreCheck
  <1>7. ASSUME NEW p \in Proc, StartPurge(p) PROVE Freshness'
    <2>1. /\ pc' = [pc EXCEPT ![p] = "purgeLock"]
          /\ UNCHANGED <<now, gen, keyring, evicted, acct, snap, since, err>>
      BY Zenon, <1>7 DEF StartPurge, Goto, locals
    <2>2. pc'[p] = "purgeLock" /\ \A q \in Proc : q # p => pc'[q] = pc[q]
      BY Zenon, <2>1 DEF Shape, TypeOK
    <2>3. \A q \in Proc : /\ Evicting(q)' => Evicting(q)
                          /\ Running(q)' => Running(q) /\ pc'[q] = pc[q]
      BY Zenon, <2>1, <2>2 DEF Evicting, Running
    <2>4. \A a \in Account : Live(a)' => Live(a) /\ keyring'[a] = keyring[a]
      BY Zenon, <2>1 DEF Live
    <2> QED BY Zenon, <2>1, <2>3, <2>4, QuietFreshness
  <1>8. ASSUME NEW p \in Proc, StoreIndex(p) PROVE Freshness'
    <2>1. PICK D \in SUBSET {a \in Listed : index[a] <= now} : keyring' = Without(D)
      BY Zenon, <1>8 DEF StoreIndex
    <2>2. now' \in Nat /\ now' >= now /\ UNCHANGED <<gen, evicted>>
      BY SMTT(30), <1>8 DEF StoreIndex, Shape, TypeOK
    <2>3. \A a \in Account : Live(a)' => Live(a) /\ keyring'[a] = keyring[a]
      BY Zenon, <2>1, <2>2, LiveWithout DEF Shape
    <2>4. CASE Return(p)
      BY Zenon, <2>2, <2>3, <2>4, ReturnFreshness
    <2>5. CASE Goto(p, "storeEntry") /\ UNCHANGED locals
      BY Zenon, <1>8, <2>2, <2>3, <2>5, QuietFreshness
         DEF StoreIndex, Goto, locals, Shape, TypeOK, Running, Evicting
    <2> QED BY Zenon, <1>8, <2>4, <2>5 DEF StoreIndex
  <1>9. ASSUME NEW p \in Proc, PurgeDelete(p) PROVE Freshness'
    <2>1. PICK D : keyring' = Without(D)
      BY Zenon, <1>9 DEF PurgeDelete
    <2>2. now' \in Nat /\ now' >= now /\ UNCHANGED <<gen, evicted>>
      BY <1>9 DEF PurgeDelete, Shape, TypeOK
    <2>3. \A a \in Account : Live(a)' => Live(a) /\ keyring'[a] = keyring[a]
      BY Zenon, <2>1, <2>2, LiveWithout DEF Shape
    <2> QED
      BY ZenonT(30), <1>9, <2>2, <2>3, QuietFreshness, ReturnShape
         DEF PurgeDelete, Goto, locals, Shape, TypeOK, Running, Evicting
  <1>10. ASSUME NEW p \in Proc, Crash(p) PROVE Freshness'
    <2>0. /\ UNCHANGED <<now, keyring, evicted>>
          /\ pc'[p] = "idle"
          /\ \A q \in Proc : q # p => /\ pc'[q] = pc[q] /\ acct'[q] = acct[q]
                                      /\ snap'[q] = snap[q] /\ since'[q] = since[q]
                                      /\ err'[q] = err[q]
      BY Zenon, <1>10, ReturnShape DEF Crash
    <2>1. CASE UNCHANGED gen
      BY Zenon, <2>0, <2>1, QuietFreshness DEF Running, Evicting, Live
    <2>2. CASE pc[p] \in {"evictBump", "purgeBump"} /\ gen' = Corrupt
      BY Zenon, <2>0, <2>2, BumpFreshness DEF Running, Evicting
    <2> QED BY SMTT(30), <1>10, <2>1, <2>2 DEF Crash
  <1>11. ASSUME NEW p \in Proc, EvictBump(p) PROVE Freshness'
    <2>1. CASE BumpOK /\ Goto(p, "evictDelete") /\ UNCHANGED <<lock, locals>>
      <3>1. /\ pc[p] = "evictBump" /\ pc' = [pc EXCEPT ![p] = "evictDelete"]
            /\ UNCHANGED <<now, keyring, evicted, acct, snap, since, err>>
            /\ gen # Corrupt /\ gen' = gen + 1
        BY Zenon, <1>11, <2>1 DEF EvictBump, BumpOK, Goto, locals
      <3>2. pc'[p] = "evictDelete" /\ \A q \in Proc : q # p => pc'[q] = pc[q]
        BY Zenon, <3>1 DEF Shape, TypeOK
      <3>3. ~Running(p)'
        BY Zenon, <3>2 DEF Running
      <3> QED BY Zenon, <3>1, <3>2, <3>3, BumpFreshness
    <2>2. CASE gen' = Corrupt /\ Return(p)
      <3>1. pc[p] = "evictBump" /\ UNCHANGED <<now, keyring, evicted>>
        BY Zenon, <1>11 DEF EvictBump
      <3>2. /\ ~Running(p)' /\ ~Evicting(p)'
            /\ \A q \in Proc : q # p => /\ pc'[q] = pc[q] /\ acct'[q] = acct[q]
                                        /\ snap'[q] = snap[q] /\ since'[q] = since[q]
                                        /\ err'[q] = err[q]
        BY Zenon, <2>2, ReturnShape, ReturnStops
      <3> QED BY Zenon, <2>2, <3>1, <3>2, BumpFreshness
    <2>3. CASE UNCHANGED gen /\ Return(p)
      BY ZenonT(30), <1>11, <2>3, QuietFreshness, ReturnShape
         DEF EvictBump, Shape, Running, Evicting, Live
    <2> QED BY Zenon, <1>11, <2>1, <2>2, <2>3 DEF EvictBump, BumpError
  <1>12. ASSUME NEW p \in Proc, PurgeBump(p) PROVE Freshness'
    <2>0. /\ pc[p] = "purgeBump" /\ pc' = [pc EXCEPT ![p] = "purgeDelete"]
          /\ UNCHANGED <<now, keyring, lock, acct, snap, since, evicted>>
      BY ZenonT(30), <1>12 DEF PurgeBump, Goto
    <2>1. pc'[p] = "purgeDelete" /\ \A q \in Proc : q # p => pc'[q] = pc[q]
      BY Zenon, <2>0 DEF Shape, TypeOK
    <2>2. ~Running(p)'
      BY Zenon, <2>1 DEF Running
    <2>3. CASE BumpOK /\ UNCHANGED err
      BY Zenon, <2>0, <2>1, <2>2, <2>3, BumpFreshness DEF BumpOK
    <2>4. ASSUME err' = [err EXCEPT ![p] = "error"]
          PROVE  ~Evicting(p)' /\ \A q \in Proc : q # p => err'[q] = err[q]
      <3>1. err'[p] = "error" /\ \A q \in Proc : q # p => err'[q] = err[q]
        BY Zenon, <2>4 DEF Shape, TypeOK
      <3> QED BY Zenon, <2>1, <3>1 DEF Evicting
    <2>5. CASE gen' = Corrupt /\ err' = [err EXCEPT ![p] = "error"]
      BY Zenon, <2>0, <2>1, <2>2, <2>4, <2>5, BumpFreshness
    <2>6. CASE UNCHANGED gen /\ err' = [err EXCEPT ![p] = "error"]
      <3>1. \A q \in Proc : /\ Evicting(q)' => Evicting(q)
                            /\ Running(q)' => Running(q) /\ pc'[q] = pc[q]
        BY Zenon, <2>1, <2>2, <2>4, <2>6 DEF Evicting, Running
      <3>2. \A a \in Account : Live(a)' => Live(a) /\ keyring'[a] = keyring[a]
        BY Zenon, <2>0 DEF Live
      <3> QED BY Zenon, <2>0, <2>6, <3>1, <3>2, QuietFreshness
    <2> QED BY Zenon, <1>12, <2>3, <2>5, <2>6 DEF PurgeBump, BumpError
  <1>13. ASSUME NEW p \in Proc, EvictDelete(p) PROVE Freshness'
    <2>1. CASE Return(p) /\ UNCHANGED <<keyring, evicted>>
      BY Zenon, <1>13, <2>1, QuietFreshness, ReturnShape
         DEF EvictDelete, Shape, Running, Evicting, Live
    <2>2. CASE /\ keyring' = Without({acct[p]})
               /\ evicted' = [evicted EXCEPT ![acct[p]] = @ + 1]
               /\ Goto(p, "readGen")
               /\ UNCHANGED <<lock, locals>>
      <3>1. UNCHANGED <<now, gen>> /\ pc[p] = "evictDelete"
        BY Zenon, <1>13 DEF EvictDelete
      <3>2. gen # Corrupt /\ \A q \in Proc : Running(q) => snap[q] # gen
        BY Zenon, <3>1 DEF Freshness, BumpedInv, Evicting
      <3>3. \A q \in Proc : q # p => pc[q] \notin LockedPC
        BY Zenon, <3>1, OneInside DEF LockedPC
      <3>4. \A q \in Proc : ~Evicting(q)' /\ (Running(q)' => Running(q) /\ q # p)
        BY SMTT(30), <2>2, <3>3 DEF Evicting, Running, Goto, locals, LockedPC, Shape, TypeOK
      <3>5. GenInv'
        BY Zenon, <2>2, <3>1, <3>2, <3>3, <3>4
           DEF Freshness, GenInv, Goto, locals, LockedPC, Shape, TypeOK, Running
      <3>6. BumpedInv'
        BY Zenon, <3>4 DEF BumpedInv
      <3>7. now' \in Nat /\ now' >= now
        BY <3>1 DEF Shape, TypeOK
      <3>8. \A a \in Account : Live(a)' =>
              Live(a) /\ a # acct[p] /\ keyring'[a] = keyring[a]
        BY Zenon, <2>2, <3>7, LiveWithout DEF Shape
      <3>9. EvictedStaysGone'
        BY Zenon, <2>2, <3>8 DEF Freshness, EvictedStaysGone, Shape, TypeOK
      <3> QED BY Zenon, <3>5, <3>6, <3>9 DEF Freshness
    <2> QED BY Zenon, <1>13, <2>1, <2>2 DEF EvictDelete
  <1>14. ASSUME NEW p \in Proc, ReadGen(p) PROVE Freshness'
    <2>1. PICK g \in {gen, Corrupt} : snap' = [snap EXCEPT ![p] = g]
      BY Zenon, <1>14 DEF ReadGen
    <2>2. /\ pc[p] = "readGen" /\ pc' = [pc EXCEPT ![p] = "command"]
          /\ since' = [since EXCEPT ![p] = evicted[acct[p]]]
          /\ UNCHANGED <<now, gen, keyring, acct, err, evicted>>
      BY Zenon, <1>14 DEF ReadGen, Goto
    <2>3. \A q \in Proc : q # p => pc[q] \notin LockedPC
      BY Zenon, <2>2, OneInside DEF LockedPC
    <2>4. \A q \in Proc : ~Evicting(q)' /\ (Running(q)' /\ q # p => Running(q))
      BY Zenon, <2>2, <2>3 DEF Evicting, Running, LockedPC, Shape, TypeOK
    <2>5. GenInv'
      <3>1. ASSUME NEW q \in Proc, q # p
            PROVE  /\ pc'[q] = pc[q] /\ snap'[q] = snap[q] /\ since'[q] = since[q]
                   /\ pc[q] \notin {"storeIndex", "storeEntry"}
        BY Zenon, <2>1, <2>2, <2>3, <3>1 DEF LockedPC, Shape, TypeOK
      <3>2. /\ pc'[p] = "command" /\ snap'[p] = g /\ since'[p] = evicted[acct[p]]
        BY Zenon, <2>1, <2>2 DEF Shape, TypeOK
      <3> QED
        BY <2>1, <2>2, <3>1, <3>2
           DEF Freshness, GenInv, Running, Shape, TypeOK, Generation
    <2>6. BumpedInv'
      BY Zenon, <2>4 DEF BumpedInv
    <2>7. EvictedStaysGone'
      BY SMTT(30), <2>2 DEF Freshness, EvictedStaysGone, Live
    <2> QED BY Zenon, <2>5, <2>6, <2>7 DEF Freshness
  <1>15. ASSUME NEW p \in Proc, StoreEntry(p) PROVE Freshness'
    <2>1. /\ pc[p] = "storeEntry" /\ Return(p)
          /\ UNCHANGED <<now, gen, evicted>>
      BY Zenon, <1>15 DEF StoreEntry
    <2>2. since[p] = evicted[acct[p]] /\ acct[p] \in Account
      BY SMTT(30), <2>1 DEF Freshness, GenInv, Running, Shape, ReaderInv, ReadPC
    <2>3. GenInv'
      <3>1. GenInv /\ \A q \in Proc : Running(q)' => q # p /\ Running(q)
        BY Zenon, <2>1, ReturnStops DEF Freshness
      <3> QED BY Zenon, <2>1, <3>1, ReturnShape, GenKept
    <2>4. BumpedInv'
      BY ZenonT(30), <2>1, ReturnShape DEF Freshness, BumpedInv, Running, Evicting
    <2>5. EvictedStaysGone'
      <3>1. CASE UNCHANGED keyring
        BY Zenon, <2>1, <3>1 DEF Freshness, EvictedStaysGone, Live
      <3>2. ASSUME NEW r \in 0..Rounding,
                   keyring' = [keyring EXCEPT ![acct[p]] =
                                 [exp |-> expires[p], dies |-> expires[p] + r,
                                  since |-> since[p]]]
            PROVE  EvictedStaysGone'
        BY Zenon, <2>1, <2>2, <3>2 DEF Freshness, EvictedStaysGone, Live, Shape, TypeOK
      <3> QED BY Zenon, <1>15, <3>1, <3>2 DEF StoreEntry
    <2> QED BY Zenon, <2>3, <2>4, <2>5 DEF Freshness
  <1>16. ASSUME NEW p \in Proc, PurgeIndex(p) PROVE Freshness'
    <2>1. /\ pc[p] = "purgeIndex" /\ Return(p)
          /\ UNCHANGED <<now, gen, keyring>>
      BY SMTT(30), <1>16 DEF PurgeIndex
    <2>2. CASE UNCHANGED evicted
      BY Zenon, <2>1, <2>2, ReturnFreshness DEF Live
    <2>3. CASE err[p] = "nil" /\ evicted' = [a \in Account |-> evicted[a] + 1]
      <3>1. gen # Corrupt /\ \A q \in Proc : Running(q) => snap[q] # gen
        BY Zenon, <2>1, <2>3 DEF Freshness, BumpedInv, Evicting
      <3>2. \A q \in Proc : q # p => pc[q] \notin LockedPC
        BY Zenon, <2>1, OneInside DEF LockedPC
      <3>3. \A q \in Proc : ~Evicting(q)' /\ (Running(q)' => Running(q) /\ q # p)
        <4>1. \A q \in Proc : q # p => ~Evicting(q)
          BY Zenon, <3>2 DEF Evicting, LockedPC
        <4> QED BY Zenon, <2>1, <4>1, ReturnStops
      <3>4. GenInv'
        <4>1. GenInv
          BY Zenon DEF Freshness
        <4> QED BY Zenon, <2>1, <3>1, <3>3, <4>1, ReturnShape, GenKept
      <3>5. \A a \in Account : ~Live(a)
        BY SMTT(30), <2>1, <2>3 DEF Listing, PendingInv, EntryInv, NothingListed, Shape, TypeOK, CachedValue
      <3>6. BumpedInv' /\ EvictedStaysGone'
        BY SMTT(30), <2>1, <3>3, <3>5 DEF BumpedInv, EvictedStaysGone, Live
      <3> QED BY SMTT(30), <3>4, <3>6 DEF Freshness
    <2> QED BY Zenon, <1>16, <2>2, <2>3 DEF PurgeIndex, Shape, TypeOK
  <1>17. CASE Tick
    <2>0. now' \in Nat /\ now' >= now
      BY <1>17 DEF Tick, Shape, TypeOK
    <2>1. \A a \in Account : Live(a)' => Live(a) /\ keyring'[a] = keyring[a]
      BY Zenon, <1>17, <2>0, LiveWithout DEF Tick, Shape
    <2> QED BY Zenon, <1>17, <2>1, QuietFreshness DEF Tick, locals, Running, Evicting
  <1> QED
    BY Zenon, <1>0, <1>1, <1>2, <1>3, <1>4, <1>5, <1>6, <1>7, <1>8, <1>9, <1>10, <1>11,
       <1>12, <1>13, <1>14, <1>15, <1>16, <1>17 DEF Next, Step
-----------------------------------------------------------------------------
\* The secret cache's variables keep their types: in particular the counters
\* never leave the naturals and only an unreadable generation file is Corrupt.
THEOREM TypeCorrect == Spec => []TypeOK
  <1>1. Shape => TypeOK
    BY Zenon DEF Shape
  <1> QED BY <1>1, ShapeInit, ShapeNext, PTL DEF Spec

\* writeCachedSecretLocked, recordSecretCacheAccount and
\* purgeWorkspaceSecretCache keep every cached secret listed in a live index,
\* whatever fails or crashes.
THEOREM PurgeFindsEverySecret == Spec => []CachedIsListed
  <1>1. Shape /\ Listing /\ [Next]_vars => Shape' /\ Listing'
    BY Zenon, ShapeNext, ListingNext
  <1> QED BY <1>1, ShapeInit, ListingInit, EntryListed, PTL DEF Spec

\* readSecret never repopulates the cache with a value whose command started
\* before a purge or an eviction of that secret that succeeded.
THEOREM NoStaleRepopulation == Spec => []EvictedStaysGone
  <1>1. Shape /\ Listing /\ Freshness /\ [Next]_vars => Shape' /\ Listing' /\ Freshness'
    BY Zenon, ShapeNext, ListingNext, FreshnessNext
  <1>2. Freshness => EvictedStaysGone
    BY Zenon DEF Freshness
  <1> QED BY <1>1, <1>2, ShapeInit, ListingInit, FreshnessInit, PTL DEF Spec
=============================================================================
