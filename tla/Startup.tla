------------------------------ MODULE Startup ------------------------------
(***************************************************************************)
(* OpenRuntime (internal/app/runtime.go): the processes that open Replay's *)
(* data directory, each the metadata database first and the encrypted      *)
(* store after it, retrying whatever stopped them.                         *)
(***************************************************************************)
EXTENDS Naturals

CONSTANTS Procs, Nobody, Builds, Databases, Pinned, ColumnAt,
          Keys, Earlier, NoKey, Garbled,
          MaxFaults     \* how often the world interferes

VARIABLES
    dbPc, build, at, supported, dbLock, rows, ran,
    keyPc, key, keyLock, credential, marker, markerOnDisk, check, checkOnDisk,
    sealed, minted, loaded, damaged, unguarded,
    faults      \* how often it has

Db  == INSTANCE Migrations
Key == INSTANCE MasterKey

dbVars  == <<dbPc, build, at, supported, dbLock, rows, ran>>
keyVars == <<keyPc, key, keyLock, credential, marker, markerOnDisk, check, checkOnDisk,
             sealed, minted, loaded, damaged, unguarded>>
vars    == <<dbVars, keyVars, faults>>

\* Migrations 1 and 2 were shipped without a checksum and their texts are pinned.
ASSUME StartupAssumption ==
    /\ Nobody \notin Procs
    /\ Earlier \in Keys /\ NoKey \notin Keys \cup {Garbled} /\ Garbled \notin Keys
    /\ ColumnAt \in Nat \ {0} /\ DOMAIN Pinned = 1 .. ColumnAt - 1
    /\ \A b \in Builds : Db!IsBuild(b)
    /\ \A d \in Databases : Db!IsLegacy(d)
    /\ MaxFaults \in Nat

Init == Db!DbInit /\ Key!KeyInit /\ faults = 0

OpenDatabase(p) ==
    /\ keyPc[p] = "closed"
    /\ Db!DbStep(p)
    /\ UNCHANGED <<keyVars, faults>>

\* A store that does not open closes the database again.
OpenStore(p) ==
    /\ dbPc[p] = "open"
    /\ Key!KeyStep(p)
    /\ IF keyPc'[p] = "refused" THEN Db!CloseDb(p) ELSE UNCHANGED dbVars
    /\ UNCHANGED faults

Step(p) == OpenDatabase(p) \/ OpenStore(p)

Interfered == faults < MaxFaults /\ faults' = faults + 1

\* p is killed or an operation of its fails: the runtime is closed, to be
\* opened again.
Stop(p) == Interfered /\ Db!CloseDb(p) /\ Key!CloseKey(p)

PowerLoss == Interfered /\ Db!CloseAllDb /\ Key!LosePower

UserDeletes == Interfered /\ Key!DeleteCredential /\ UNCHANGED dbVars

\* The wait for a lock that another process holds ends without it, and the
\* user tries again.
TimeOut(p) ==
    /\ keyPc[p] = "closed"
    /\ \/ dbPc[p] = "closed" /\ dbLock # Nobody /\ UNCHANGED dbVars
       \/ dbPc[p] = "open" /\ keyLock # Nobody /\ Db!CloseDb(p)
    /\ UNCHANGED <<keyVars, faults>>

Settled(p) == keyPc[p] \in {"open", "refused"} \/ dbPc[p] = "refused"

Rest == (\A p \in Procs : Settled(p)) /\ UNCHANGED vars

Next == (\E p \in Procs : Step(p) \/ TimeOut(p) \/ Stop(p)) \/ PowerLoss \/ UserDeletes \/ Rest

\* A waiting process polls the lock and takes it when it is free, every call
\* returns, and a user whose command was stopped runs it again.
Spec == Init /\ [][Next]_vars /\ \A p \in Procs : WF_vars(Step(p))

---------------------------------------------------------------------------
\* The types of the variables of both parts.
TypeOK == Db!DbTypeOK /\ Key!KeyTypeOK /\ faults \in 0 .. MaxFaults

(* A process whose Open succeeded finds every change its build relies on   *)
(* made once, in order, by the text it embeds and with its checksum        *)
(* (persistence/migrations.go, migrate).                                   *)
OpenSeesItsSchema == Db!OpenSeesItsSchema

(* A recorded checksum is that of the SQL that was run: no build blesses a *)
(* file it did not apply (persistence/migration_legacy.go).                *)
ChecksumsAreTrue == Db!ChecksumsAreTrue

(* All processes get the same master key, made once, and a deleted one is  *)
(* not replaced (store/masterkey.go, LoadOrCreate); and no data root holds *)
(* objects of two keys (store/local.go, verifyOrInitializeKeyCheck).       *)
OneKey == Key!OneKey /\ Key!RootHasOneKey

(* A process is turned away for good only when its build differs from what *)
(* was applied or the key is truly not to be had: never because another    *)
(* process was opening at the same time, or because one had been stopped   *)
(* halfway (OpenRuntime, LoadOrCreate, migrate).                           *)
RefusedForCause ==
    \A p \in Procs :
        /\ dbPc[p] = "refused" => Db!DbCause(p)
        /\ keyPc[p] = "refused" => Key!KeyCause(p)

(* Whatever stopped processes left behind, every process that keeps trying *)
(* opens the runtime or is told why it cannot: no lock outlives its holder *)
(* (initializeWithLock, LoadOrCreate).                                     *)
EveryOpenSettles == \A p \in Procs : <>[]Settled(p)
===========================================================================
