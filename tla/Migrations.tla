---------------------------- MODULE Migrations ----------------------------
(***************************************************************************)
(* The opening of the metadata database (internal/persistence): several    *)
(* processes, of different builds, that open one file, take the lock       *)
(* beside it, apply the migrations they embed, each in a transaction of    *)
(* its own, and fill in the checksums of migrations that were applied      *)
(* before schema_migrations had a column for them.                         *)
(*                                                                         *)
(* A build is the function from version numbers to the migration files it  *)
(* embeds.  A file is its name and its SQL text; a checksum is the text it *)
(* was computed from.  A commit is durable (synchronous=FULL), so a crash  *)
(* ends the process and loses nothing else.                                *)
(***************************************************************************)
EXTENDS Naturals, Sequences, FiniteSets

CONSTANTS
    Procs,      \* processes that open the database
    Nobody,     \* no process
    Builds,     \* the builds of the program that are in use
    Databases,  \* what earlier releases left: sequences of the files they applied
    Pinned,     \* legacyMigrationChecksums: the texts of the releases before checksums
    ColumnAt    \* the version whose SQL adds the checksum column

VARIABLES
    dbPc,       \* dbPc[p]: where p is in Open
    build,      \* build[p]: the files p embeds
    at,         \* at[p]: the version p's loop has reached
    supported,  \* supported[p]: p's checksumSupported
    dbLock,     \* who holds the file lock
    rows,       \* schema_migrations: rows[v] is the record of version v
    ran         \* history: ran[v] is the file whose SQL made the schema's v-th change

dbVars == <<dbPc, build, at, supported, dbLock, rows, ran>>

NoChecksum == "NULL"

\* The checksum column exists once the migration that adds it has committed.
Column == Len(rows) >= ColumnAt

\* A file is its name and its text, and a text is no missing checksum.
IsFile(f) == f = [name |-> f.name, text |-> f.text] /\ f.text # NoChecksum

IsLog(files) == files \in Seq({files[v] : v \in DOMAIN files})
                /\ \A v \in DOMAIN files : IsFile(files[v])

\* loadMigrations: versions start at one and leave none out.
WellNumbered(files) == DOMAIN files = 1 .. Cardinality(DOMAIN files)

\* What a build can be: it reads checksums, so if its files are complete the
\* one that adds them is among them.
IsBuild(files) ==
    /\ IsFiniteSet(DOMAIN files)
    /\ \A v \in DOMAIN files : IsFile(files[v])
    /\ WellNumbered(files) => ColumnAt \in DOMAIN files

\* And an earlier release's database: the checksum column is not yet in it.
IsLegacy(files) == IsLog(files) /\ Len(files) < ColumnAt

DbInit ==
    /\ dbPc = [p \in Procs |-> "closed"]
    /\ build \in [Procs -> Builds]
    /\ at = [p \in Procs |-> 1]
    /\ supported = [p \in Procs |-> FALSE]
    /\ dbLock = Nobody
    /\ ran \in Databases
    /\ rows = [v \in DOMAIN ran |-> [name |-> ran[v].name, checksum |-> NoChecksum]]

DbGoto(p, step) == dbPc' = [dbPc EXCEPT ![p] = step]

\* Mutant of UnlockDb: an error return leaves the lock to its caller.
KeepDb(p) == UNCHANGED dbLock

\* The lock is released whether or not the initialization succeeded.
UnlockDb(p) == dbLock' = IF dbLock = p THEN Nobody ELSE dbLock

\* An error that trying again does not change.
RefuseDb(p) ==
    /\ DbGoto(p, "refused") /\ UnlockDb(p)
    /\ UNCHANGED <<build, at, supported, rows, ran>>

---------------------------------------------------------------------------
LockDb(p) ==
    /\ dbPc[p] = "closed" /\ dbLock = Nobody
    /\ dbLock' = p
    /\ DbGoto(p, "inspect")
    /\ UNCHANGED <<build, at, supported, rows, ran>>

\* The first connection, the table if there is none, the embedded files, and
\* whether the table has the checksum column.
Inspect(p) ==
    /\ dbPc[p] = "inspect"
    /\ \/ ~WellNumbered(build[p]) /\ RefuseDb(p)
       \/ /\ WellNumbered(build[p])
          /\ DbGoto(p, "read")
          /\ at' = [at EXCEPT ![p] = 1]
          /\ supported' = [supported EXCEPT ![p] = Column]
          /\ UNCHANGED <<build, dbLock, rows, ran>>

\* A recorded checksum is read only where the column is known to exist.
Contradicts(p, v) ==
    \/ rows[v].name # build[p][v].name
    \/ supported[p] /\ rows[v].checksum \notin {NoChecksum, build[p][v].text}

\* readMigrationRecord, outside of any transaction.
ReadRecord(p) ==
    /\ dbPc[p] = "read" /\ at[p] \in DOMAIN build[p]
    /\ \/ /\ at[p] \notin DOMAIN rows
          /\ DbGoto(p, "apply")
          /\ UNCHANGED <<build, at, supported, dbLock, rows, ran>>
       \/ /\ at[p] \in DOMAIN rows /\ ~Contradicts(p, at[p])
          /\ at' = [at EXCEPT ![p] = @ + 1]
          /\ UNCHANGED <<dbPc, build, supported, dbLock, rows, ran>>
       \/ at[p] \in DOMAIN rows /\ Contradicts(p, at[p]) /\ RefuseDb(p)

\* Mutant of NowSupported: the loop keeps what it knew before it began.
AsBefore(p) == supported[p]

\* The schema is inspected again inside the transaction, after the SQL.
NowSupported(p) == Len(rows) + 1 >= ColumnAt

\* One migration: its SQL and its record commit together.
Apply(p) ==
    /\ dbPc[p] = "apply"
    /\ LET file == build[p][at[p]]
           sum  == IF NowSupported(p) THEN file.text ELSE NoChecksum
       IN  /\ ran' = Append(ran, file)
           /\ rows' = Append(rows, [name |-> file.name, checksum |-> sum])
    /\ supported' = [supported EXCEPT ![p] = NowSupported(p)]
    /\ at' = [at EXCEPT ![p] = @ + 1]
    /\ DbGoto(p, "read")
    /\ UNCHANGED <<build, dbLock>>

\* Mutant of Blessed: what the build embeds is taken for what was applied.
BlessedUnseen(p, v) == rows[v].checksum \in {NoChecksum, build[p][v].text}

\* A record without a checksum may get one only from a release-pinned text.
Blessed(p, v) ==
    \/ rows[v].checksum = build[p][v].text
    \/ /\ rows[v].checksum = NoChecksum
       /\ v \in DOMAIN Pinned /\ build[p][v].text = Pinned[v]

\* backfillAndValidateMigrationChecksums, in one transaction, and the unlock.
Finish(p) ==
    /\ dbPc[p] = "read" /\ at[p] \notin DOMAIN build[p]
    /\ IF supported[p] => \A v \in DOMAIN build[p] :
                              rows[v].name = build[p][v].name /\ Blessed(p, v)
       THEN /\ rows' = [v \in DOMAIN rows |->
                          IF supported[p] /\ v \in DOMAIN build[p]
                          THEN [rows[v] EXCEPT !.checksum = build[p][v].text]
                          ELSE rows[v]]
            /\ DbGoto(p, "open") /\ UnlockDb(p)
            /\ UNCHANGED <<build, at, supported, ran>>
       ELSE RefuseDb(p)

---------------------------------------------------------------------------
DbStep(p) == LockDb(p) \/ Inspect(p) \/ ReadRecord(p) \/ Apply(p) \/ Finish(p)

\* The handle is closed; so it is when p is killed, when a statement or the
\* wait for the lock fails, and the kernel then releases the lock.
CloseDb(p) ==
    /\ DbGoto(p, "closed") /\ UnlockDb(p)
    /\ UNCHANGED <<build, at, supported, rows, ran>>

CloseAllDb ==
    /\ dbPc' = [p \in Procs |-> "closed"]
    /\ dbLock' = Nobody
    /\ UNCHANGED <<build, at, supported, rows, ran>>

DbNext == (\E p \in Procs : DbStep(p) \/ CloseDb(p)) \/ CloseAllDb
DbSpec == DbInit /\ [][DbNext]_dbVars

---------------------------------------------------------------------------
DbTypeOK ==
    /\ dbPc \in [Procs -> {"closed", "inspect", "read", "apply", "open", "refused"}]
    /\ build \in [Procs -> Builds]
    /\ at \in [Procs -> Nat \ {0}]
    /\ supported \in [Procs -> BOOLEAN]
    /\ dbLock \in Procs \cup {Nobody}
    /\ Len(rows) = Len(ran)

\* A release never doubts its legacy files once their names are recorded: the
\* text that ran might be that of an edited build, which created the database
\* and was refused at the end of its own migrations.
Pins(v, text) == v \in DOMAIN Pinned /\ Pinned[v] = text

(* A process whose Open succeeded finds every change its build relies on   *)
(* made once, in order and by the very text it embeds (a legacy file: by   *)
(* that or in its name), and once the column exists, a checksum that says  *)
(* so (migrate, sqlite.go Open), whichever builds came before it and       *)
(* wherever they were stopped.                                             *)
OpenSeesItsSchema ==
    \A p \in Procs : dbPc[p] = "open" =>
        \A v \in DOMAIN build[p] :
            /\ v \in DOMAIN ran /\ ran[v].name = build[p][v].name
            /\ ran[v] = build[p][v] \/ Pins(v, build[p][v].text)
            /\ ColumnAt \in DOMAIN build[p] => rows[v].checksum = build[p][v].text

(* A recorded checksum is that of the SQL that was run, or of the release  *)
(* that shipped it: no build has a file of its own taken for what was      *)
(* applied (backfillAndValidateMigrationChecksums,                         *)
(* validateLegacyMigrationBaseline).                                       *)
ChecksumsAreTrue ==
    \A v \in DOMAIN rows :
        \/ rows[v].checksum \in {NoChecksum, ran[v].text}
        \/ Pins(v, rows[v].checksum)

\* What the database's refusals are for.
DbCause(p) ==
    \/ ~WellNumbered(build[p])
    \/ \E v \in DOMAIN build[p] \cap DOMAIN ran : build[p][v] # ran[v]
    \/ \E v \in DOMAIN build[p] \cap DOMAIN Pinned : ~Pins(v, build[p][v].text)
===========================================================================
