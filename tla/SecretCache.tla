----------------------------- MODULE SecretCache -----------------------------
(***************************************************************************)
(* The keychain cache of from_command secrets of ONE workspace, shared by  *)
(* every jailoc process of the user (internal/cmd/secrets.go and           *)
(* secrets_lock_unix.go; keychain behaviour as in                          *)
(* secrets_keyring_linux.go).                                              *)
(*                                                                         *)
(* A process either reads a secret (readSecret, with or without            *)
(* --purge-cache) or purges the workspace (purgeWorkspaceSecretCache).     *)
(* Both work under the workspace's flock, but a read releases it while the *)
(* user's command runs, so a purge can fall between the start of a command *)
(* and the moment its output is cached. Processes may be killed at any     *)
(* point; the kernel then drops their flock. Keychain calls may fail.      *)
(*                                                                         *)
(* Time is a counter of ticks finer than a second: an entry outlives its   *)
(* nominal expiry by at most Rounding ticks (the keyring rounds timeouts   *)
(* up to whole seconds), a second is IndexExpiryMargin ticks.              *)
(***************************************************************************)
EXTENDS Naturals, FiniteSets

CONSTANTS
    Proc,               \* jailoc processes of the user
    Account,            \* keychain accounts of the workspace's secrets
    TTLs,               \* the ttl values secrets are configured with
    IndexExpiryMargin,  \* one second, in ticks
    IndexRetryTTL,      \* how long an index of undeletable entries is kept
    Rounding,           \* ticks the keyring may keep an entry past its ttl
    MaxTime, MaxGen,    \* bounds on the clock and on the generation counter
    None, Corrupt       \* no process or account; an unreadable generation

ASSUME ConstantsAssumption ==
    /\ TTLs \subseteq Nat \ {0}
    /\ IndexExpiryMargin \in Nat /\ IndexRetryTTL \in Nat
    /\ Rounding \in Nat /\ Rounding < IndexExpiryMargin
    /\ MaxTime \in Nat /\ MaxGen \in Nat
    /\ None \notin Proc /\ None \notin Account /\ Corrupt \notin Nat

VARIABLES
    now,      \* the clock
    gen,      \* content of <workspace>.secret-cache.gen, or Corrupt
    keyring,  \* account -> cached value; it is there while now < dies
    index,    \* the index entry: listed account -> expiry, 0 when not listed
    indexDies, \* when the keyring drops the index entry
    lock,     \* holder of <workspace>.secret-cache.lock
    pc,       \* where each process is
    acct,     \* the account a reading process works on
    snap,     \* the generation it saw before its command ran
    since,    \* history: evicted[acct] at that moment
    expires,  \* the expiry computed by writeCachedSecretLocked
    pending,  \* the index of what a purge could not delete
    err,      \* what the steps of the purge reported so far
    evicted   \* history: number of purges/evictions that succeeded, by account

locals == <<acct, snap, since, expires, pending, err>>
vars == <<now, gen, keyring, index, indexDies, lock, pc, locals, evicted>>

Generation == Nat \cup {Corrupt}
CachedValue == [exp: Nat, dies: Nat, since: Nat]

ReadPC == {"readLock", "lookup", "evictLock", "evictBump", "evictDelete",
           "readGen", "command", "storeLock", "storeCheck", "storeIndex",
           "storeEntry"}
PurgePC == {"purgeLock", "purgeBump", "purgeDelete", "purgeIndex"}
LockedPC == {"lookup", "evictBump", "evictDelete", "readGen", "storeCheck",
             "storeIndex", "storeEntry", "purgeBump", "purgeDelete", "purgeIndex"}

NoEntry == [exp |-> 0, dies |-> 0, since |-> 0]
NothingListed == [a \in Account |-> 0]

Live(a) == now < keyring[a].dies
IndexLive == now < indexDies
Listed == IF IndexLive THEN {a \in Account : index[a] > 0} ELSE {}

Init ==
    /\ now = 0
    /\ gen = 0
    /\ keyring = [a \in Account |-> NoEntry]
    /\ index = NothingListed
    /\ indexDies = 0
    /\ lock = None
    /\ pc = [p \in Proc |-> "idle"]
    /\ acct = [p \in Proc |-> None]
    /\ snap = [p \in Proc |-> 0]
    /\ since = [p \in Proc |-> 0]
    /\ expires = [p \in Proc |-> 0]
    /\ pending = [p \in Proc |-> NothingListed]
    /\ err = [p \in Proc |-> "nil"]
    /\ evicted = [a \in Account |-> 0]

Goto(p, l) == pc' = [pc EXCEPT ![p] = l]

\* The call ends: its lock, if it holds it, and its locals are gone.
Return(p) ==
    /\ pc' = [pc EXCEPT ![p] = "idle"]
    /\ acct' = [acct EXCEPT ![p] = None]
    /\ snap' = [snap EXCEPT ![p] = 0]
    /\ since' = [since EXCEPT ![p] = 0]
    /\ expires' = [expires EXCEPT ![p] = 0]
    /\ pending' = [pending EXCEPT ![p] = NothingListed]
    /\ err' = [err EXCEPT ![p] = "nil"]
    /\ lock' = IF lock = p THEN None ELSE lock
-----------------------------------------------------------------------------
(* The keychain and the index.                                             *)

\* secretCache.delete of every account in D succeeds.
Without(D) == [a \in Account |-> IF a \in D THEN NoEntry ELSE keyring[a]]

\* Mistaken variants: the margin is subtracted, or left out.
WriteIndexMarginSubtracted(exp) ==
    /\ index' = exp
    /\ \E a \in Account : /\ \A b \in Account : exp[b] <= exp[a]
                          /\ indexDies' = exp[a] - IndexExpiryMargin

WriteIndexNoMargin(exp) ==
    /\ index' = exp
    /\ \E a \in Account : /\ \A b \in Account : exp[b] <= exp[a]
                          /\ indexDies' = exp[a]

\* writeSecretCacheIndex: an index that lists something is stored until its
\* latest expiry plus the margin and at least for IndexRetryTTL; an empty one
\* is deleted. Either call may fail, which leaves the stored index as it is.
WriteIndex(exp) ==
    /\ index' = exp
    /\ IF \A a \in Account : exp[a] = 0
       THEN indexDies' = 0
       ELSE \E d \in {now + IndexRetryTTL} \cup
                     {exp[a] + IndexExpiryMargin : a \in Account} :
              /\ d >= now + IndexRetryTTL
              /\ \A a \in Account : exp[a] > 0 => d >= exp[a] + IndexExpiryMargin
              /\ indexDies' = d

ListedExpiry == [a \in Account |-> IF a \in Listed THEN index[a] ELSE 0]
-----------------------------------------------------------------------------
(* readSecret of a from_command secret with a ttl.                         *)

StartRead(p) ==
    /\ pc[p] = "idle"
    /\ \E a \in Account : acct' = [acct EXCEPT ![p] = a]
    /\ \E l \in {"readLock", "evictLock"} : Goto(p, l)
    /\ UNCHANGED <<now, gen, keyring, index, indexDies, lock, snap, since,
                   expires, pending, err, evicted>>

\* withSecretCacheLock polls the flock until it is free.
Acquire(p) ==
    /\ lock = None
    /\ \/ pc[p] = "readLock"  /\ Goto(p, "lookup")
       \/ pc[p] = "evictLock" /\ Goto(p, "evictBump")
       \/ pc[p] = "storeLock" /\ Goto(p, "storeCheck")
       \/ pc[p] = "purgeLock" /\ Goto(p, "purgeBump")
    /\ lock' = p
    /\ UNCHANGED <<now, gen, keyring, index, indexDies, locals, evicted>>

\* readCachedSecret: an unexpired entry is the answer.
LookupHit(p) ==
    /\ pc[p] = "lookup"
    /\ Live(acct[p]) /\ now < keyring[acct[p]].exp
    /\ Return(p)
    /\ UNCHANGED <<now, gen, keyring, index, indexDies, evicted>>

\* No entry, an expired one, or a keychain that does not answer.
LookupMiss(p) ==
    /\ pc[p] = "lookup"
    /\ Goto(p, "readGen")
    /\ UNCHANGED <<now, gen, keyring, index, indexDies, lock, locals, evicted>>

\* bumpSecretCacheGeneration succeeds.
BumpOK ==
    /\ gen # Corrupt /\ gen < MaxGen
    /\ gen' = gen + 1

\* It fails to read the file, or to write it: os.WriteFile truncates first, so
\* a failed write may leave a file that no longer parses.
BumpError == gen' \in {gen, Corrupt}

EvictBump(p) ==
    /\ pc[p] = "evictBump"
    /\ \/ BumpOK /\ Goto(p, "evictDelete") /\ UNCHANGED <<lock, locals>>
       \/ BumpError /\ Return(p)
    /\ UNCHANGED <<now, keyring, index, indexDies, evicted>>

EvictDelete(p) ==
    /\ pc[p] = "evictDelete"
    /\ \/ /\ keyring' = Without({acct[p]})
          /\ evicted' = [evicted EXCEPT ![acct[p]] = @ + 1]
          /\ Goto(p, "readGen")
          /\ UNCHANGED <<lock, locals>>
       \/ Return(p) /\ UNCHANGED <<keyring, evicted>>
    /\ UNCHANGED <<now, gen, index, indexDies>>

\* The generation is read last under the lock; genErr makes snap Corrupt.
ReadGen(p) ==
    /\ pc[p] = "readGen"
    /\ \E g \in {gen, Corrupt} : snap' = [snap EXCEPT ![p] = g]
    /\ since' = [since EXCEPT ![p] = evicted[acct[p]]]
    /\ lock' = None
    /\ Goto(p, "command")
    /\ UNCHANGED <<now, gen, keyring, index, indexDies, acct, expires, pending,
                   err, evicted>>

\* runSecretCommand returned an acceptable value; it is cached only when the
\* generation could be read.
CommandDone(p) ==
    /\ pc[p] = "command"
    /\ \/ snap[p] # Corrupt /\ Goto(p, "storeLock") /\ UNCHANGED <<lock, locals>>
       \/ snap[p] = Corrupt /\ Return(p)
    /\ UNCHANGED <<now, gen, keyring, index, indexDies, evicted>>

\* Mistaken variant: the output is cached whatever the generation is.
StoreUnchecked(p) ==
    /\ pc[p] = "storeCheck"
    /\ \E ttl \in TTLs : expires' = [expires EXCEPT ![p] = now + ttl]
    /\ Goto(p, "storeIndex")
    /\ UNCHANGED <<now, gen, keyring, index, indexDies, lock, acct, snap, since,
                   pending, err, evicted>>

\* The output is cached only if no purge came in between.
StoreCheck(p) ==
    /\ pc[p] = "storeCheck"
    /\ \/ /\ gen = snap[p]
          /\ \E ttl \in TTLs : expires' = [expires EXCEPT ![p] = now + ttl]
          /\ Goto(p, "storeIndex")
          /\ UNCHANGED <<lock, acct, snap, since, pending, err>>
       \/ gen # snap[p] /\ Return(p)
    /\ UNCHANGED <<now, gen, keyring, index, indexDies, evicted>>

\* The index with the accounts in D dropped and acct[p] listed until its expiry,
\* or until a later one it is already listed with.
Recorded(p, D) ==
    [a \in Account |->
        LET kept == IF a \in D THEN 0 ELSE ListedExpiry[a]
        IN IF a = acct[p] /\ expires[p] > kept THEN expires[p] ELSE kept]

\* recordSecretCacheAccount: drop expired entries (D are those the keychain
\* deleted), list the account until its expiry, write the index. When the
\* index cannot be read or written the value is not cached.
StoreIndex(p) ==
    /\ pc[p] = "storeIndex"
    /\ \E D \in SUBSET {a \in Listed : index[a] <= now} :
         /\ keyring' = Without(D)
         /\ \/ WriteIndex(Recorded(p, D)) /\ Goto(p, "storeEntry")
               /\ UNCHANGED <<lock, locals>>
            \/ UNCHANGED <<index, indexDies>> /\ Return(p)
    /\ UNCHANGED <<now, gen, evicted>>

\* secretCache.set, best effort, and only while some ttl is left.
StoreEntry(p) ==
    /\ pc[p] = "storeEntry"
    /\ Return(p)
    /\ \/ UNCHANGED keyring
       \/ /\ now < expires[p]
          /\ \E r \in 0..Rounding :
               keyring' = [keyring EXCEPT ![acct[p]] =
                             [exp |-> expires[p], dies |-> expires[p] + r,
                              since |-> since[p]]]
    /\ UNCHANGED <<now, gen, index, indexDies, evicted>>
-----------------------------------------------------------------------------
(* purgeWorkspaceSecretCache.                                              *)

StartPurge(p) ==
    /\ pc[p] = "idle"
    /\ Goto(p, "purgeLock")
    /\ UNCHANGED <<now, gen, keyring, index, indexDies, lock, locals, evicted>>

PurgeBump(p) ==
    /\ pc[p] = "purgeBump"
    /\ \/ BumpOK /\ UNCHANGED err
       \/ BumpError /\ err' = [err EXCEPT ![p] = "error"]
    /\ Goto(p, "purgeDelete")
    /\ UNCHANGED <<now, keyring, index, indexDies, lock, acct, snap, since,
                   expires, pending, evicted>>

\* What a purge deletes: the listed accounts with their expiry, and those of the
\* configured secrets.
ToPurge(ttl) ==
    [a \in Account |-> IF a \in Listed THEN index[a]
                       ELSE IF a \in DOMAIN ttl THEN now + ttl[a] ELSE 0]

\* D are the accounts the keychain deleted. An index that cannot be read is left
\* as it is, and only the configured accounts are deleted.
PurgeDelete(p) ==
    /\ pc[p] = "purgeDelete"
    /\ \E configured \in SUBSET Account :
         \/ \E ttl \in [configured -> TTLs], D \in SUBSET (Listed \cup configured) :
              /\ keyring' = Without(D)
              /\ pending' = [pending EXCEPT ![p] =
                               [a \in Account |-> IF a \in D THEN 0 ELSE ToPurge(ttl)[a]]]
              /\ err' = [err EXCEPT ![p] = IF D = Listed \cup configured THEN @
                                           ELSE "error"]
              /\ Goto(p, "purgeIndex")
              /\ UNCHANGED <<lock, acct, snap, since, expires>>
         \/ \E D \in SUBSET configured : keyring' = Without(D) /\ Return(p)
    /\ UNCHANGED <<now, gen, index, indexDies, evicted>>

\* What could not be deleted stays listed; the purge succeeded when no step
\* reported an error.
PurgeIndex(p) ==
    /\ pc[p] = "purgeIndex"
    /\ \/ /\ WriteIndex(pending[p])
          /\ evicted' = IF err[p] = "error" THEN evicted
                        ELSE [a \in Account |-> evicted[a] + 1]
       \/ UNCHANGED <<index, indexDies, evicted>>
    /\ Return(p)
    /\ UNCHANGED <<now, gen, keyring>>
-----------------------------------------------------------------------------
\* The process is killed, its command fails or its context ends: it is gone and
\* so is its flock. In the middle of os.WriteFile it leaves an empty generation.
Crash(p) ==
    /\ pc[p] # "idle"
    /\ Return(p)
    /\ gen' \in IF pc[p] \in {"evictBump", "purgeBump"} THEN {gen, Corrupt} ELSE {gen}
    /\ UNCHANGED <<now, keyring, index, indexDies, evicted>>

\* Time passes; the kernel keyring drops entries that expired.
Tick ==
    /\ now < MaxTime
    /\ now' = now + 1
    /\ keyring' = Without({a \in Account : keyring[a].dies <= now + 1})
    /\ index' = IF indexDies <= now + 1 THEN NothingListed ELSE index
    /\ indexDies' = IF indexDies <= now + 1 THEN 0 ELSE indexDies
    /\ UNCHANGED <<gen, lock, pc, locals, evicted>>

Step(p) ==
    \/ StartRead(p)   \/ Acquire(p)    \/ LookupHit(p)  \/ LookupMiss(p)
    \/ EvictBump(p)   \/ EvictDelete(p) \/ ReadGen(p)   \/ CommandDone(p)
    \/ StoreCheck(p)  \/ StoreIndex(p) \/ StoreEntry(p)
    \/ StartPurge(p)  \/ PurgeBump(p)  \/ PurgeDelete(p) \/ PurgeIndex(p)
    \/ Crash(p)

Next == Tick \/ \E p \in Proc : Step(p)

Spec == Init /\ [][Next]_vars
-----------------------------------------------------------------------------
\* The type invariant.
TypeOK ==
    /\ now \in Nat
    /\ gen \in Generation
    /\ keyring \in [Account -> CachedValue]
    /\ index \in [Account -> Nat]
    /\ indexDies \in Nat
    /\ lock \in Proc \cup {None}
    /\ pc \in [Proc -> {"idle"} \cup ReadPC \cup PurgePC]
    /\ acct \in [Proc -> Account \cup {None}]
    /\ snap \in [Proc -> Generation]
    /\ since \in [Proc -> Nat]
    /\ expires \in [Proc -> Nat]
    /\ pending \in [Proc -> [Account -> Nat]]
    /\ err \in [Proc -> {"nil", "error"}]
    /\ evicted \in [Account -> Nat]

\* A purge finds every cached secret (writeCachedSecretLocked lists the account
\* before it writes it, writeSecretCacheIndex keeps the index longer than any
\* entry): whatever the keychain still holds is listed in a live index, through
\* crashes, failed deletions, failed index writes and expiry.
CachedIsListed == \A a \in Account : Live(a) => a \in Listed

\* Once a purge, or a --purge-cache read of that secret, has succeeded, no value
\* whose command had started before it is in the keychain again: commands that
\* finish late see a newer generation (secretCacheGeneration) and do not
\* repopulate the cache.
EvictedStaysGone == \A a \in Account : Live(a) => keyring[a].since = evicted[a]
=============================================================================
