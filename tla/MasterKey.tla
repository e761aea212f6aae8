----------------------------- MODULE MasterKey -----------------------------
(***************************************************************************)
(* The opening of the encrypted store (internal/store): the one master key *)
(* of a user, kept in the credential store of the operating system, made   *)
(* by whichever process comes first under a file lock and guarded by a     *)
(* marker file against being made again; and the key check of a data root, *)
(* which refuses any other key than that of the objects already there.     *)
(*                                                                         *)
(* What a power loss can take back is the directory entry of the marker or *)
(* of the key check.  The credential store is external and keeps what it   *)
(* accepted; it may alter it, and the user may delete it.                  *)
(***************************************************************************)
EXTENDS Naturals, FiniteSets

CONSTANTS
    Procs, Nobody,
    Keys,       \* master keys
    Earlier,    \* the key that an earlier release or another machine used
    NoKey, Garbled   \* nothing stored; a value that is not a key

VARIABLES
    keyPc,          \* keyPc[p]: where p is in OpenLocalStore
    key,            \* key[p]: the key p has in memory
    keyLock,        \* who holds master-key.lock
    credential,     \* what the credential store has
    marker,         \* the initialization marker exists
    markerOnDisk,   \* and would after a power loss
    check,          \* the key that sealed the data root's key check
    checkOnDisk,
    sealed,         \* the keys that sealed the objects of the data root
    minted,         \* history: keys that were ever given to the credential store
    loaded,         \* history: keys that LoadOrCreate returned
    damaged,        \* history: the credential was altered or deleted
    unguarded       \* history: and deleted before the marker was durable

keyVars == <<keyPc, key, keyLock, credential, marker, markerOnDisk, check, checkOnDisk,
             sealed, minted, loaded, damaged, unguarded>>

disk == <<marker, markerOnDisk, check, checkOnDisk, sealed>>
past == <<minted, loaded, damaged, unguarded>>

\* The user may have a key, with its marker or from before there was one, and
\* the data root objects of that key, with or without a key check.
KeyInit ==
    /\ keyPc = [p \in Procs |-> "closed"]
    /\ key = [p \in Procs |-> NoKey]
    /\ keyLock = Nobody
    /\ credential \in {NoKey, Earlier}
    /\ marker \in {FALSE, credential = Earlier}
    /\ markerOnDisk = marker
    /\ sealed \in {{}, {Earlier}}
    /\ check \in {NoKey} \cup sealed
    /\ checkOnDisk = check
    /\ minted = {Earlier}
    /\ loaded = IF marker THEN {Earlier} ELSE {}
    /\ damaged = FALSE /\ unguarded = FALSE

KeyGoto(p, step) == keyPc' = [keyPc EXCEPT ![p] = step]
UnlockKey(p) == keyLock' = IF keyLock = p THEN Nobody ELSE keyLock

\* An error that trying again does not change.
RefuseKey(p) ==
    /\ KeyGoto(p, "refused") /\ UnlockKey(p)
    /\ UNCHANGED <<key, credential, disk, past>>

---------------------------------------------------------------------------
(* LoadOrCreate.                                                           *)

\* Mutant of KeyLockFree: nobody waits.
NoLock == TRUE

KeyLockFree == keyLock = Nobody

LockKey(p) ==
    /\ keyPc[p] = "closed" /\ KeyLockFree
    /\ keyLock' = p
    /\ KeyGoto(p, "get")
    /\ UNCHANGED <<key, credential, disk, past>>

Decodes == credential \in Keys

GetKey(p) ==
    /\ keyPc[p] = "get"
    /\ \/ /\ credential = NoKey
          /\ KeyGoto(p, "decide")
          /\ UNCHANGED <<key, keyLock, credential, disk, past>>
       \/ /\ credential # NoKey /\ Decodes
          /\ key' = [key EXCEPT ![p] = credential]
          /\ KeyGoto(p, "mark")
          /\ UNCHANGED <<keyLock, credential, disk, past>>
       \/ credential # NoKey /\ ~Decodes /\ RefuseKey(p)

\* Mutant of After: the marker is written before the key is stored.
MarkFirst(p, step) == CASE step = "decide" -> "mark"
                        [] step = "mark"   -> IF key[p] = NoKey THEN "set" ELSE "return"
                        [] step = "set"    -> "verify"
                        [] step = "verify" -> "return"

\* The order of loadOrCreateLocked.
After(p, step) == CASE step = "decide" -> "set"
                    [] step = "set"    -> "verify"
                    [] step = "verify" -> "mark"
                    [] step = "mark"   -> "return"

\* No credential, but the marker of one: no replacement is generated.
Decide(p) ==
    /\ keyPc[p] = "decide"
    /\ \/ marker /\ RefuseKey(p)
       \/ /\ ~marker
          /\ KeyGoto(p, After(p, "decide"))
          /\ UNCHANGED <<key, keyLock, credential, disk, past>>

\* A new key: any that was never stored, so which one cannot matter.  (Keys
\* bounds how many are made.)
Candidate == CHOOSE k \in Keys : k \notin minted

SetKey(p) ==
    /\ keyPc[p] = "set" /\ \E k \in Keys : k \notin minted
    /\ key' = [key EXCEPT ![p] = Candidate]
    /\ minted' = minted \cup {Candidate}
    /\ \/ credential' = Candidate /\ UNCHANGED damaged
       \/ credential' = Garbled /\ damaged' = TRUE
    /\ KeyGoto(p, After(p, "set"))
    /\ UNCHANGED <<keyLock, disk, loaded, unguarded>>

\* The key is read back and compared before anything relies on it.
VerifyKey(p) ==
    /\ keyPc[p] = "verify"
    /\ \/ credential # key[p] /\ RefuseKey(p)
       \/ /\ credential = key[p]
          /\ KeyGoto(p, After(p, "verify"))
          /\ UNCHANGED <<key, keyLock, credential, disk, past>>

\* ensureInitializationMarker: a marker that exists is left as it is.
Mark(p) ==
    /\ keyPc[p] = "mark"
    /\ KeyGoto(p, IF marker THEN After(p, "mark") ELSE "markSync")
    /\ marker' = TRUE
    /\ UNCHANGED <<key, keyLock, credential, markerOnDisk, check, checkOnDisk, sealed, past>>

SyncMark(p) ==
    /\ keyPc[p] = "markSync"
    /\ markerOnDisk' = marker
    /\ KeyGoto(p, After(p, "mark"))
    /\ UNCHANGED <<key, keyLock, credential, marker, check, checkOnDisk, sealed, past>>

ReturnKey(p) ==
    /\ keyPc[p] = "return"
    /\ UnlockKey(p)
    /\ loaded' = loaded \cup {key[p]}
    /\ KeyGoto(p, "check")
    /\ UNCHANGED <<key, credential, disk, minted, damaged, unguarded>>

---------------------------------------------------------------------------
(* verifyOrInitializeKeyCheck, without a lock.                             *)

\* The answers a sample can give: does p's key open the object it finds first?
Sampled(p) == IF sealed = {} THEN {TRUE} ELSE {k = key[p] : k \in sealed}

Opened(p) == IF check = key[p] THEN "open" ELSE "refused"

ReadCheck(p) ==
    /\ keyPc[p] = "check"
    /\ \/ check # NoKey /\ KeyGoto(p, Opened(p))
       \/ check = NoKey /\ \E fits \in Sampled(p) : KeyGoto(p, IF fits THEN "chain" ELSE "refused")
    /\ UNCHANGED <<key, keyLock, credential, disk, past>>

\* The directory is synced before the key check is written and linked.
ChainCheck(p) ==
    /\ keyPc[p] = "chain"
    /\ checkOnDisk' = check
    /\ KeyGoto(p, "link")
    /\ UNCHANGED <<key, keyLock, credential, marker, markerOnDisk, check, sealed, past>>

\* The first link wins; a later one verifies what the first wrote.
LinkCheck(p) ==
    /\ keyPc[p] = "link"
    /\ \/ check = NoKey /\ check' = key[p] /\ KeyGoto(p, "linkSync")
       \/ check # NoKey /\ UNCHANGED check /\ KeyGoto(p, Opened(p))
    /\ UNCHANGED <<key, keyLock, credential, marker, markerOnDisk, checkOnDisk, sealed, past>>

SyncCheck(p) ==
    /\ keyPc[p] = "linkSync"
    /\ checkOnDisk' = check
    /\ KeyGoto(p, "open")
    /\ UNCHANGED <<key, keyLock, credential, marker, markerOnDisk, check, sealed, past>>

\* The open store seals what it is given.
Seal(p) ==
    /\ keyPc[p] = "open" /\ key[p] \notin sealed
    /\ sealed' = sealed \cup {key[p]}
    /\ UNCHANGED <<keyPc, key, keyLock, credential, marker, markerOnDisk, check, checkOnDisk, past>>

LoadOrCreate(p) ==
    \/ LockKey(p) \/ GetKey(p) \/ Decide(p) \/ SetKey(p) \/ VerifyKey(p)
    \/ Mark(p) \/ SyncMark(p) \/ ReturnKey(p)
NewLocalStore(p) == ReadCheck(p) \/ ChainCheck(p) \/ LinkCheck(p) \/ SyncCheck(p)

KeyStep(p) == LoadOrCreate(p) \/ NewLocalStore(p) \/ Seal(p)

---------------------------------------------------------------------------
(* The world.                                                              *)

\* p closes the store, is killed or meets an error: the kernel drops its lock.
CloseKey(p) ==
    /\ KeyGoto(p, "closed") /\ UnlockKey(p)
    /\ key' = [key EXCEPT ![p] = NoKey]
    /\ UNCHANGED <<credential, disk, past>>

LosePower ==
    /\ keyPc' = [p \in Procs |-> "closed"]
    /\ key' = [p \in Procs |-> NoKey]
    /\ keyLock' = Nobody
    /\ marker' = markerOnDisk /\ check' = checkOnDisk
    /\ UNCHANGED <<credential, markerOnDisk, checkOnDisk, sealed, past>>

DeleteCredential ==
    /\ credential # NoKey
    /\ credential' = NoKey
    /\ damaged' = TRUE
    /\ unguarded' = (unguarded \/ ~markerOnDisk)
    /\ UNCHANGED <<keyPc, key, keyLock, disk, minted, loaded>>

KeyNext == (\E p \in Procs : KeyStep(p) \/ CloseKey(p)) \/ LosePower \/ DeleteCredential
KeySpec == KeyInit /\ [][KeyNext]_keyVars

---------------------------------------------------------------------------
KeySteps == {"closed", "get", "decide", "set", "verify", "mark", "markSync", "return",
             "check", "chain", "link", "linkSync", "open", "refused"}

KeyTypeOK ==
    /\ keyPc \in [Procs -> KeySteps]
    /\ key \in [Procs -> Keys \cup {NoKey}]
    /\ keyLock \in Procs \cup {Nobody}
    /\ credential \in Keys \cup {NoKey, Garbled}
    /\ {marker, markerOnDisk, damaged, unguarded} \subseteq BOOLEAN
    /\ {check, checkOnDisk} \subseteq Keys \cup {NoKey}
    /\ sealed \subseteq Keys /\ minted \subseteq Keys /\ loaded \subseteq Keys

(* LoadOrCreate makes the key exactly once (masterkey.go): all processes   *)
(* get the same one, however many are first and wherever one of them dies, *)
(* and a deleted credential is not silently replaced, unless it is deleted *)
(* before the marker that guards it has reached the disk.                  *)
OneKey == unguarded \/ Cardinality(loaded) <= 1

(* The objects of a data root are all sealed with one key, even when the   *)
(* user's key is another by now or the root came from another machine      *)
(* (verifyOrInitializeKeyCheck), power loss included.                      *)
RootHasOneKey == Cardinality(sealed) <= 1

\* What the store's refusals are for.  Damage is remembered: a credential that
\* is deleted between Set and the reading back counts as a lasting cause,
\* although nothing but the user's deletion stood in the way of that process.
KeyCause(p) == damaged \/ \E k \in sealed : k # key[p]
===========================================================================
