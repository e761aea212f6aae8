--------------------------- MODULE StartupProofs ---------------------------
(***************************************************************************)
(* Theorems about the opening of the runtime, for any number of processes, *)
(* builds, migrations and keys, and any number of interruptions.           *)
(***************************************************************************)
EXTENDS Startup, FiniteSetTheorems, SequenceTheorems, TLAPS

---------------------------------------------------------------------------
(* The two parts.                                                          *)

(* Every process opens one part after the other; to each part that is a    *)
(* run of its own.                                                         *)
THEOREM PartsKeepTheirSpecs == Spec => Db!DbSpec /\ Key!KeySpec
  <1>1. Init => Db!DbInit /\ Key!KeyInit
    BY DEF Init
  <1>2. [Next]_vars => [Db!DbNext]_(Db!dbVars) /\ [Key!KeyNext]_(Key!keyVars)
    BY DEF Next, vars, dbVars, keyVars, Db!dbVars, Key!keyVars, Step, OpenDatabase,
       OpenStore, TimeOut, Stop, PowerLoss, UserDeletes, Rest, Db!DbNext, Key!KeyNext
  <1> QED  BY <1>1, <1>2, PTL DEF Spec, Db!DbSpec, Key!KeySpec

---------------------------------------------------------------------------
(* The metadata database.                                                  *)

InLock == {"inspect", "read", "apply"}

Checked(p) == dbPc[p] \in {"read", "apply"}

\* Two processes never work on the schema at the same time.
Exclusive == \A p \in Procs : dbPc[p] \in InLock => dbLock = p

IsSeq(s) == s \in Seq({s[v] : v \in DOMAIN s})

\* The table records the changes the schema has, and no checksum is missing
\* but those of the legacy files.
Recorded ==
    /\ Db!IsLog(ran) /\ IsSeq(rows)
    /\ Len(rows) = Len(ran)
    /\ \A v \in DOMAIN rows :
         /\ rows[v] = [name |-> rows[v].name, checksum |-> rows[v].checksum]
         /\ rows[v].name = ran[v].name
         /\ rows[v].checksum = Db!NoChecksum => v \in DOMAIN Pinned

\* The loop of the process at work: it knows whether the column exists, it is
\* not past the end of the table, and what it applies is the next change.
AtWork ==
    \A p \in Procs : Checked(p) =>
        /\ Db!WellNumbered(build[p])
        /\ supported[p] = Db!Column
        /\ at[p] <= Len(rows) + 1
        /\ dbPc[p] = "apply" => at[p] = Len(rows) + 1 /\ at[p] \in DOMAIN build[p]

\* A process that is open has what its build relies on, and every checksum in the
\* table is its own (which keeps the next process from rewriting it).
Relied ==
    \A p \in Procs : dbPc[p] = "open" =>
        \A v \in DOMAIN build[p] :
            /\ v \in DOMAIN ran /\ ran[v].name = build[p][v].name
            /\ ran[v] = build[p][v] \/ Db!Pins(v, build[p][v].text)
            /\ rows[v].checksum = build[p][v].text

RefusedByDb == \A p \in Procs : dbPc[p] = "refused" => Db!DbCause(p)

DbInv == /\ Db!DbTypeOK /\ Exclusive /\ Recorded /\ AtWork /\ Db!ChecksumsAreTrue
         /\ Relied /\ RefusedByDb

(* The sizes of the parts' sets are sizes.                                 *)
LEMMA SameSizes ==
    ASSUME NEW S
    PROVE  /\ Db!IsFiniteSet(S) <=> IsFiniteSet(S)
           /\ Db!Cardinality(S) = Cardinality(S) /\ Key!Cardinality(S) = Cardinality(S)
  BY DEF Db!IsFiniteSet, IsFiniteSet, Db!Cardinality, Key!Cardinality, Cardinality

(* A complete build embeds as many files as its last version says.         *)
LEMMA CompleteBuild ==
    ASSUME StartupAssumption, NEW files \in Builds, Db!WellNumbered(files)
    PROVE  \E m \in Nat : DOMAIN files = 1 .. m
  <1>1. IsFiniteSet(DOMAIN files) /\ DOMAIN files = 1 .. Cardinality(DOMAIN files)
    BY SameSizes DEF StartupAssumption, Db!IsBuild, Db!WellNumbered
  <1> QED  BY <1>1, FS_CardinalityType

(* The domain of a sequence.                                               *)
LEMMA SeqDomain ==
    ASSUME NEW s, IsSeq(s)
    PROVE  Len(s) \in Nat /\ DOMAIN s = 1 .. Len(s)
  BY DEF IsSeq

(* What appending a row to a table of migrations does.                     *)
LEMMA AppendRow ==
    ASSUME NEW s, IsSeq(s), NEW e
    PROVE  /\ IsSeq(Append(s, e)) /\ Len(Append(s, e)) = Len(s) + 1
           /\ DOMAIN Append(s, e) = 1 .. Len(s) + 1
           /\ \A v \in DOMAIN s : Append(s, e)[v] = s[v]
           /\ Append(s, e)[Len(s) + 1] = e
  <1> DEFINE S == {s[v] : v \in DOMAIN s} \cup {e}
             t == Append(s, e)
  <1>1. s \in Seq(S) /\ e \in S
    <2>1. s \in [1 .. Len(s) -> S] /\ Len(s) \in Nat
      BY SeqDomain DEF IsSeq
    <2> QED  BY <2>1
  <1>2. /\ t \in Seq(S) /\ Len(t) = Len(s) + 1 /\ Len(s) \in Nat /\ DOMAIN s = 1 .. Len(s)
        /\ \A v \in 1 .. Len(s) : t[v] = s[v]
        /\ t[Len(s) + 1] = e
    BY <1>1, AppendProperties, SeqDomain
  <1> HIDE DEF t
  <1>3. DOMAIN t = 1 .. Len(s) + 1 /\ t \in [1 .. Len(t) -> {t[v] : v \in DOMAIN t}]
    BY <1>2
  <1>4. IsSeq(t)
    <2>1. ASSUME NEW R, t \in [1 .. Len(t) -> R] PROVE t \in Seq(R)
      <3>1. Len(t) \in Nat
        BY <1>2
      <3> QED  BY <2>1, <3>1
    <2> QED  BY <1>3, <2>1 DEF IsSeq
  <1> QED  BY <1>2, <1>3, <1>4 DEF t

(* What a record that contradicts a build's file says about the build.     *)
LEMMA Contradiction ==
    ASSUME DbInv, NEW p \in Procs, NEW v \in DOMAIN build[p], v \in DOMAIN rows,
           \/ rows[v].name # build[p][v].name
           \/ rows[v].checksum \notin {Db!NoChecksum, build[p][v].text}
    PROVE  Db!DbCause(p)
  <1>1. v \in DOMAIN ran /\ rows[v].name = ran[v].name
    BY SeqDomain DEF DbInv, Recorded, Db!IsLog, IsSeq
  <1>2. \/ rows[v].checksum \in {Db!NoChecksum, ran[v].text}
        \/ Db!Pins(v, rows[v].checksum)
    BY DEF DbInv, Db!ChecksumsAreTrue
  <1> QED  BY <1>1, <1>2 DEF Db!DbCause, Db!Pins

(* A step that leaves the schema alone.                                    *)
LEMMA QuietDb ==
    ASSUME DbInv, UNCHANGED <<build, rows, ran>>,
           \A p \in Procs : dbPc'[p] = "open" => dbPc[p] = "open",
           \A p \in Procs : dbPc'[p] = "refused" => dbPc[p] = "refused" \/ Db!DbCause(p)
    PROVE  Recorded' /\ Db!ChecksumsAreTrue' /\ Relied' /\ RefusedByDb'
  <1>1. Recorded' /\ Db!ChecksumsAreTrue'
    BY DEF DbInv, Recorded, Db!ChecksumsAreTrue, IsSeq, Db!IsLog, Db!Pins
  <1>2. Relied'
    BY DEF DbInv, Relied, Db!Pins
  <1>3. RefusedByDb'
    BY DEF DbInv, RefusedByDb, Db!DbCause, Db!WellNumbered, Db!Pins
  <1> QED  BY <1>1, <1>2, <1>3

(* The next migration: no process is open on a schema that lacks it.       *)
LEMMA ApplyStep ==
    ASSUME DbInv, StartupAssumption, NEW p \in Procs, Db!Apply(p)
    PROVE  DbInv'
  <1> DEFINE file == build[p][at[p]]
             sum  == IF Db!NowSupported(p) THEN file.text ELSE Db!NoChecksum
             rec  == [name |-> file.name, checksum |-> sum]
             n    == Len(rows)
  <1>1. /\ dbPc[p] = "apply" /\ dbLock = p /\ build[p] \in Builds
        /\ at[p] = n + 1 /\ at[p] \in DOMAIN build[p] /\ Db!WellNumbered(build[p])
    BY DEF DbInv, Db!DbTypeOK, Exclusive, InLock, AtWork, Checked, Db!Apply
  <1>2. /\ ran' = Append(ran, file) /\ rows' = Append(rows, rec)
        /\ supported' = [supported EXCEPT ![p] = Db!NowSupported(p)]
        /\ at' = [at EXCEPT ![p] = @ + 1]
        /\ dbPc' = [dbPc EXCEPT ![p] = "read"]
        /\ build' = build /\ dbLock' = dbLock
    BY DEF Db!Apply, Db!DbGoto
  <1>3. Db!IsFile(file) /\ file.text # Db!NoChecksum
    BY <1>1 DEF StartupAssumption, Db!IsBuild, Db!IsFile
  <1>4. /\ n \in Nat /\ Len(ran) = n /\ DOMAIN rows = 1 .. n /\ DOMAIN ran = 1 .. n
        /\ IsSeq(ran) /\ IsSeq(rows)
    BY SeqDomain DEF DbInv, Recorded, Db!IsLog, IsSeq
  <1>5. /\ IsSeq(rows') /\ Len(rows') = n + 1 /\ DOMAIN rows' = 1 .. n + 1
        /\ \A v \in 1 .. n : rows'[v] = rows[v]
        /\ rows'[n + 1] = rec
    BY <1>2, <1>4, AppendRow
  <1>6. /\ IsSeq(ran') /\ Len(ran') = n + 1 /\ DOMAIN ran' = 1 .. n + 1
        /\ \A v \in 1 .. n : ran'[v] = ran[v]
        /\ ran'[n + 1] = file
    BY <1>2, <1>4, AppendRow
  <1>7. \A v \in 1 .. n + 1 : v = n + 1 \/ v \in 1 .. n
    BY <1>4
  <1>8. Db!DbTypeOK'
    <2>1. Db!NowSupported(p) \in BOOLEAN /\ at[p] + 1 \in Nat \ {0}
      BY <1>1, <1>4 DEF Db!NowSupported
    <2> QED  BY <2>1, <1>2 DEF DbInv, Db!DbTypeOK
  <1>9. Exclusive'
    BY <1>1, <1>2 DEF DbInv, Db!DbTypeOK, Exclusive, InLock
  <1>10. sum = Db!NoChecksum => n + 1 \in DOMAIN Pinned
    BY <1>3, <1>4, StartupAssumption DEF Db!NowSupported, StartupAssumption
  <1>11. Recorded'
    <2>1. Db!IsLog(ran)'
      <3>1. \A v \in 1 .. n : Db!IsFile(ran[v])
        BY <1>4 DEF DbInv, Recorded, Db!IsLog
      <3> QED  BY <3>1, <1>3, <1>6, <1>7 DEF Db!IsLog, IsSeq
    <2>2. \A v \in 1 .. n :
            /\ rows[v] = [name |-> rows[v].name, checksum |-> rows[v].checksum]
            /\ rows[v].name = ran[v].name
            /\ rows[v].checksum = Db!NoChecksum => v \in DOMAIN Pinned
      BY <1>4 DEF DbInv, Recorded
    <2>3. \A v \in 1 .. n + 1 :
            /\ rows'[v] = [name |-> rows'[v].name, checksum |-> rows'[v].checksum]
            /\ rows'[v].name = ran'[v].name
            /\ rows'[v].checksum = Db!NoChecksum => v \in DOMAIN Pinned
      <3> TAKE v \in 1 .. n + 1
      <3>1. CASE v = n + 1
        <4>1. /\ rec = [name |-> rec.name, checksum |-> rec.checksum]
              /\ rec.name = file.name /\ rec.checksum = sum
          OBVIOUS
        <4> HIDE DEF rec, file, sum
        <4> QED  BY <3>1, <4>1, <1>5, <1>6, <1>10
      <3>2. CASE v \in 1 .. n
        <4> HIDE DEF n
        <4> QED  BY <3>2, <2>2, <1>5, <1>6
      <3> QED  BY <3>1, <3>2, <1>7
    <2> QED  BY <2>1, <2>3, <1>5, <1>6 DEF Recorded, IsSeq
  <1>12. Db!Column' = Db!NowSupported(p)
    BY <1>5 DEF Db!Column, Db!NowSupported
  <1>13. AtWork'
    <2> SUFFICES ASSUME NEW q \in Procs, Checked(q)'
                 PROVE  /\ Db!WellNumbered(build[q])'
                        /\ supported'[q] = Db!Column'
                        /\ at'[q] <= Len(rows') + 1
                        /\ dbPc'[q] = "apply" =>
                             at'[q] = Len(rows') + 1 /\ at'[q] \in DOMAIN build'[q]
      BY DEF AtWork
    <2>1. q = p
      BY <1>1, <1>2 DEF DbInv, Exclusive, InLock, Checked, Db!DbTypeOK
    <2> QED  BY <2>1, <1>1, <1>2, <1>4, <1>5, <1>12 DEF DbInv, Db!DbTypeOK, Db!WellNumbered
  <1>14. Db!ChecksumsAreTrue'
    <2>1. \A v \in 1 .. n : \/ rows[v].checksum \in {Db!NoChecksum, ran[v].text}
                            \/ Db!Pins(v, rows[v].checksum)
      BY <1>4 DEF DbInv, Db!ChecksumsAreTrue
    <2> QED  BY <2>1, <1>5, <1>6, <1>7 DEF Db!ChecksumsAreTrue, Db!Pins
  <1>15. Relied'
    <2>1. \A q \in Procs : dbPc'[q] = "open" => dbPc[q] = "open"
      BY <1>2 DEF DbInv, Db!DbTypeOK
    <2> QED  BY <2>1, <1>2, <1>4, <1>5, <1>6 DEF DbInv, Relied, Db!Pins
  <1>16. RefusedByDb'
    <2>1. \A q \in Procs : dbPc'[q] = "refused" => dbPc[q] = "refused"
      BY <1>2 DEF DbInv, Db!DbTypeOK
    <2> QED  BY <2>1, <1>2, <1>4, <1>6
             DEF DbInv, RefusedByDb, Db!DbCause, Db!WellNumbered, Db!Pins
  <1> QED  BY <1>8, <1>9, <1>11, <1>13, <1>14, <1>15, <1>16 DEF DbInv

(* The checksums are filled in: only where they already are what the build *)
(* embeds, or where the release pinned that text.                          *)
LEMMA FinishStep ==
    ASSUME DbInv, StartupAssumption, NEW p \in Procs, Db!Finish(p), dbPc'[p] # "refused"
    PROVE  DbInv'
  <1> DEFINE n == Len(rows)
             sum(v) == IF v \in DOMAIN build[p] THEN build[p][v].text ELSE rows[v].checksum
  <1>1. /\ dbPc[p] = "read" /\ dbLock = p /\ build[p] \in Builds /\ at[p] \in Nat \ {0}
        /\ at[p] \notin DOMAIN build[p] /\ at[p] <= n + 1
        /\ Db!WellNumbered(build[p]) /\ supported[p] = Db!Column
    BY DEF DbInv, Db!DbTypeOK, Exclusive, InLock, AtWork, Checked, Db!Finish
  <1>2. /\ n \in Nat /\ Len(ran) = n /\ DOMAIN rows = 1 .. n /\ DOMAIN ran = 1 .. n
        /\ IsSeq(rows)
    BY SeqDomain DEF DbInv, Recorded, Db!IsLog, IsSeq
  <1>3. \A v \in DOMAIN build[p] : v \in 1 .. n
    <2>1. PICK m \in Nat : DOMAIN build[p] = 1 .. m
      BY <1>1, CompleteBuild
    <2>2. at[p] \notin 1 .. m /\ at[p] \in Nat \ {0} /\ at[p] <= n + 1
      BY <1>1, <2>1
    <2> HIDE DEF n
    <2> QED  BY <1>2, <2>1, <2>2
  <1>4. supported[p]
    <2>1. ColumnAt \in DOMAIN build[p] /\ ColumnAt \in Nat
      BY <1>1 DEF StartupAssumption, Db!IsBuild
    <2>2. ColumnAt <= n
      BY <2>1, <1>2, <1>3
    <2> QED  BY <2>2, <1>1 DEF Db!Column
  <1>5. /\ \A v \in DOMAIN build[p] : rows[v].name = build[p][v].name /\ Db!Blessed(p, v)
        /\ rows' = [v \in DOMAIN rows |->
                      IF supported[p] /\ v \in DOMAIN build[p]
                      THEN [rows[v] EXCEPT !.checksum = build[p][v].text]
                      ELSE rows[v]]
        /\ dbPc' = [dbPc EXCEPT ![p] = "open"]
        /\ dbLock' = IF dbLock = p THEN Nobody ELSE dbLock
        /\ UNCHANGED <<build, at, supported, ran>>
    <2>1. Db!RefuseDb(p) => dbPc'[p] = "refused"
      BY DEF DbInv, Db!DbTypeOK, Db!RefuseDb, Db!DbGoto
    <2> QED  BY <1>4, <2>1 DEF Db!Finish, Db!DbGoto, Db!UnlockDb
  <1>6. \A v \in DOMAIN build[p] : /\ build[p][v].text # Db!NoChecksum
                                   /\ build[p][v] = [name |-> build[p][v].name,
                                                     text |-> build[p][v].text]
    BY <1>1 DEF StartupAssumption, Db!IsBuild, Db!IsFile
  <1>7. \A v \in 1 .. n : /\ rows[v] = [name |-> rows[v].name, checksum |-> rows[v].checksum]
                          /\ rows[v].name = ran[v].name
                          /\ rows[v].checksum = Db!NoChecksum => v \in DOMAIN Pinned
                          /\ ran[v] = [name |-> ran[v].name, text |-> ran[v].text]
    BY <1>2 DEF DbInv, Recorded, Db!IsLog, Db!IsFile
  <1>8. /\ DOMAIN rows' = 1 .. n
        /\ \A v \in 1 .. n : /\ rows'[v].name = rows[v].name /\ rows'[v].checksum = sum(v)
                             /\ rows'[v] = [name |-> rows'[v].name,
                                            checksum |-> rows'[v].checksum]
    <2>1. DOMAIN rows' = 1 .. n
      BY <1>2, <1>5
    <2>2. ASSUME NEW v \in 1 .. n
          PROVE  /\ rows'[v].name = rows[v].name /\ rows'[v].checksum = sum(v)
                 /\ rows'[v] = [name |-> rows'[v].name, checksum |-> rows'[v].checksum]
      <3>1. rows[v] = [name |-> rows[v].name, checksum |-> rows[v].checksum]
        BY <1>7
      <3>2. rows'[v] = [name |-> rows[v].name, checksum |-> sum(v)]
        BY <3>1, <1>2, <1>4, <1>5
      <3> QED  BY <3>2
    <2> QED  BY <2>1, <2>2
  <1>9. IsSeq(rows') /\ Len(rows') = n
    <2>1. ASSUME NEW R, rows' \in [1 .. n -> R] PROVE rows' \in Seq(R) /\ Len(rows') = n
      BY <1>2, <2>1
    <2>2. rows' = [v \in 1 .. n |-> rows'[v]]
      BY <1>2, <1>5
    <2>3. rows' \in [1 .. n -> {rows'[v] : v \in DOMAIN rows'}]
      BY <1>8, <2>2
    <2> QED  BY <2>1, <2>3 DEF IsSeq
  <1>10. \A v \in 1 .. n : \/ sum(v) \in {Db!NoChecksum, ran[v].text}
                           \/ Db!Pins(v, sum(v))
    <2> TAKE v \in 1 .. n
    <2>1. \/ rows[v].checksum \in {Db!NoChecksum, ran[v].text}
          \/ Db!Pins(v, rows[v].checksum)
      BY <1>2 DEF DbInv, Db!ChecksumsAreTrue
    <2> QED  BY <2>1, <1>5 DEF Db!Blessed, Db!Pins
  <1>11. \A v \in 1 .. n : sum(v) = Db!NoChecksum => v \in DOMAIN Pinned
    BY <1>6, <1>7
  <1>12. Db!DbTypeOK' /\ Exclusive'
    BY <1>1, <1>5 DEF DbInv, Db!DbTypeOK, Exclusive, InLock
  <1>13. Recorded'
    <2>1. Db!IsLog(ran)' /\ IsSeq(rows)' /\ Len(rows') = Len(ran')
      BY <1>2, <1>5, <1>9 DEF DbInv, Recorded, Db!IsLog, IsSeq
    <2>2. \A v \in 1 .. n :
            /\ rows'[v] = [name |-> rows'[v].name, checksum |-> rows'[v].checksum]
            /\ rows'[v].name = ran'[v].name
            /\ rows'[v].checksum = Db!NoChecksum => v \in DOMAIN Pinned
      <3> HIDE DEF sum
      <3> QED  BY <1>5, <1>7, <1>8, <1>11
    <2> QED  BY <2>1, <2>2, <1>8 DEF Recorded
  <1>14. AtWork'
    <2>1. \A q \in Procs : ~Checked(q)'
      BY <1>1, <1>5 DEF DbInv, Db!DbTypeOK, Exclusive, InLock, Checked
    <2> QED  BY <2>1 DEF AtWork
  <1>15. Db!ChecksumsAreTrue'
    <2>1. \A v \in 1 .. n : \/ rows'[v].checksum \in {Db!NoChecksum, ran'[v].text}
                            \/ Db!Pins(v, rows'[v].checksum)
      <3> HIDE DEF sum
      <3> QED  BY <1>5, <1>8, <1>10
    <2> QED  BY <2>1, <1>8 DEF Db!ChecksumsAreTrue, Db!Pins
  <1>16. Relied'
    <2>s. build' = build /\ ran' = ran
      BY <1>5
    <2> SUFFICES ASSUME NEW q \in Procs, dbPc'[q] = "open", NEW v \in DOMAIN build[q]
                 PROVE  /\ v \in DOMAIN ran /\ ran[v].name = build[q][v].name
                        /\ ran[v] = build[q][v] \/ Db!Pins(v, build[q][v].text)
                        /\ rows'[v].checksum = build[q][v].text
      BY <2>s DEF Relied, Db!Pins
    <2>1. CASE q = p
      <3>1. v \in 1 .. n /\ rows'[v].checksum = build[p][v].text
        BY <2>1, <1>3, <1>8
      <3>2. ran[v].name = build[p][v].name
        BY <2>1, <3>1, <1>5, <1>7
      <3>3. build[p][v].text = ran[v].text \/ Db!Pins(v, build[p][v].text)
        BY <2>1, <3>1, <1>6, <1>10
      <3>4. ran[v] = build[p][v] \/ Db!Pins(v, build[p][v].text)
        <4>1. /\ ran[v] = [name |-> ran[v].name, text |-> ran[v].text]
              /\ build[p][v] = [name |-> build[p][v].name, text |-> build[p][v].text]
          BY <2>1, <3>1, <1>6, <1>7
        <4> QED  BY <3>2, <3>3, <4>1
      <3> QED  BY <2>1, <3>1, <3>2, <3>4, <1>2
    <2>2. CASE q # p
      <3>1. dbPc[q] = "open"
        BY <2>2, <1>5 DEF DbInv, Db!DbTypeOK
      <3>2. /\ v \in DOMAIN ran /\ ran[v].name = build[q][v].name
            /\ ran[v] = build[q][v] \/ Db!Pins(v, build[q][v].text)
            /\ rows[v].checksum = build[q][v].text
        BY <3>1 DEF DbInv, Relied
      <3>3. build[q][v].text # Db!NoChecksum
        BY DEF DbInv, Db!DbTypeOK, StartupAssumption, Db!IsBuild, Db!IsFile
      <3>4. v \in DOMAIN build[p] => build[p][v].text = rows[v].checksum
        BY <3>2, <3>3, <1>5 DEF Db!Blessed
      <3> QED  BY <3>2, <3>4, <1>2, <1>8
    <2> QED  BY <2>1, <2>2
  <1>17. RefusedByDb'
    <2>1. \A q \in Procs : dbPc'[q] = "refused" => dbPc[q] = "refused"
      BY <1>5 DEF DbInv, Db!DbTypeOK
    <2> QED  BY <2>1, <1>5 DEF DbInv, RefusedByDb, Db!DbCause, Db!WellNumbered, Db!Pins
  <1> QED  BY <1>12, <1>13, <1>14, <1>15, <1>16, <1>17 DEF DbInv

(* A refusal releases the lock, and it has its cause.                      *)
LEMMA RefuseStep ==
    ASSUME DbInv, StartupAssumption, NEW p \in Procs, Db!RefuseDb(p), dbLock = p,
           Db!DbCause(p)
    PROVE  DbInv'
  <1>1. /\ dbPc' = [dbPc EXCEPT ![p] = "refused"] /\ dbLock' = Nobody
        /\ UNCHANGED <<build, at, supported, rows, ran>>
    BY DEF Db!RefuseDb, Db!DbGoto, Db!UnlockDb
  <1>2. Recorded' /\ Db!ChecksumsAreTrue' /\ Relied' /\ RefusedByDb'
    BY <1>1, QuietDb DEF DbInv, Db!DbTypeOK
  <1>3. Db!DbTypeOK' /\ Exclusive'
    BY <1>1 DEF DbInv, Db!DbTypeOK, Exclusive, InLock
  <1>4. AtWork'
    BY <1>1 DEF DbInv, Db!DbTypeOK, AtWork, Checked, Db!WellNumbered, Db!Column
  <1> QED  BY <1>2, <1>3, <1>4 DEF DbInv

(* The invariant of the database is inductive.                             *)
LEMMA DbStepKeeps ==
    ASSUME DbInv, StartupAssumption, [Db!DbNext]_(Db!dbVars)
    PROVE  DbInv'
  <1>1. ASSUME NEW p \in Procs, Db!LockDb(p) PROVE DbInv'
    <2>1. /\ dbPc' = [dbPc EXCEPT ![p] = "inspect"] /\ dbLock' = p /\ dbLock = Nobody
          /\ UNCHANGED <<build, at, supported, rows, ran>>
      BY <1>1 DEF Db!LockDb, Db!DbGoto
    <2>2. Recorded' /\ Db!ChecksumsAreTrue' /\ Relied' /\ RefusedByDb'
      BY <2>1, QuietDb DEF DbInv, Db!DbTypeOK
    <2>3. Db!DbTypeOK' /\ Exclusive'
      BY <2>1 DEF DbInv, Db!DbTypeOK, Exclusive, InLock, StartupAssumption
    <2>4. AtWork'
      BY <2>1 DEF DbInv, Db!DbTypeOK, AtWork, Checked, Db!WellNumbered, Db!Column
    <2> QED  BY <2>2, <2>3, <2>4 DEF DbInv
  <1>2. ASSUME NEW p \in Procs, Db!Inspect(p) PROVE DbInv'
    <2>0. dbLock = p /\ dbPc[p] = "inspect"
      BY <1>2 DEF DbInv, Exclusive, InLock, Db!Inspect
    <2>1. CASE ~Db!WellNumbered(build[p])
      BY <1>2, <2>0, <2>1, RefuseStep DEF Db!DbCause, Db!Inspect
    <2>2. CASE Db!WellNumbered(build[p])
      <3>1. /\ dbPc' = [dbPc EXCEPT ![p] = "read"]
            /\ at' = [at EXCEPT ![p] = 1]
            /\ supported' = [supported EXCEPT ![p] = Db!Column]
            /\ UNCHANGED <<build, dbLock, rows, ran>>
        BY <1>2, <2>2 DEF Db!Inspect, Db!DbGoto
      <3>2. Recorded' /\ Db!ChecksumsAreTrue' /\ Relied' /\ RefusedByDb'
        BY <3>1, QuietDb DEF DbInv, Db!DbTypeOK
      <3>3. Db!DbTypeOK' /\ Exclusive'
        <4>1. Db!Column \in BOOLEAN
          BY DEF Db!Column
        <4> QED  BY <2>0, <3>1, <4>1 DEF DbInv, Db!DbTypeOK, Exclusive, InLock
      <3>4. AtWork'
        <4>1. Len(rows) \in Nat
          BY SeqDomain DEF DbInv, Recorded
        <4> QED  BY <2>2, <3>1, <4>1
                 DEF DbInv, Db!DbTypeOK, AtWork, Checked, Db!WellNumbered, Db!Column
      <3> QED  BY <3>2, <3>3, <3>4 DEF DbInv
    <2> QED  BY <2>1, <2>2
  <1>3. ASSUME NEW p \in Procs, Db!ReadRecord(p) PROVE DbInv'
    <2>0. /\ dbLock = p /\ dbPc[p] = "read" /\ at[p] \in DOMAIN build[p]
          /\ at[p] \in Nat \ {0} /\ at[p] <= Len(rows) + 1
          /\ Len(rows) \in Nat /\ DOMAIN rows = 1 .. Len(rows)
      BY <1>3, SeqDomain DEF DbInv, Db!DbTypeOK, Exclusive, InLock, AtWork, Checked, Recorded,
         Db!ReadRecord
    <2>1. CASE /\ at[p] \notin DOMAIN rows
               /\ Db!DbGoto(p, "apply")
               /\ UNCHANGED <<build, at, supported, dbLock, rows, ran>>
      <3>1. dbPc' = [dbPc EXCEPT ![p] = "apply"] /\ at[p] = Len(rows) + 1
        BY <2>0, <2>1 DEF Db!DbGoto
      <3>2. Recorded' /\ Db!ChecksumsAreTrue' /\ Relied' /\ RefusedByDb'
        BY <2>1, <3>1, QuietDb DEF DbInv, Db!DbTypeOK
      <3>3. Db!DbTypeOK' /\ Exclusive'
        BY <2>0, <2>1, <3>1 DEF DbInv, Db!DbTypeOK, Exclusive, InLock
      <3>4. AtWork'
        BY <2>0, <2>1, <3>1 DEF DbInv, Db!DbTypeOK, AtWork, Checked, Db!WellNumbered, Db!Column
      <3> QED  BY <3>2, <3>3, <3>4 DEF DbInv
    <2>2. CASE /\ at[p] \in DOMAIN rows
               /\ at' = [at EXCEPT ![p] = @ + 1]
               /\ UNCHANGED <<dbPc, build, supported, dbLock, rows, ran>>
      <3>1. Recorded' /\ Db!ChecksumsAreTrue' /\ Relied' /\ RefusedByDb'
        BY <2>2, QuietDb DEF DbInv, Db!DbTypeOK
      <3>2. Db!DbTypeOK' /\ Exclusive'
        BY <2>0, <2>2 DEF DbInv, Db!DbTypeOK, Exclusive, InLock
      <3>3. AtWork'
        <4>1. at'[p] <= Len(rows) + 1 /\ \A q \in Procs \ {p} : at'[q] = at[q]
          BY <2>0, <2>2 DEF DbInv, Db!DbTypeOK
        <4> QED  BY <2>0, <2>2, <4>1 DEF DbInv, Db!DbTypeOK, AtWork, Checked, Db!WellNumbered, Db!Column
      <3> QED  BY <3>1, <3>2, <3>3 DEF DbInv
    <2>3. CASE at[p] \in DOMAIN rows /\ Db!Contradicts(p, at[p]) /\ Db!RefuseDb(p)
      BY <2>0, <2>3, Contradiction, RefuseStep DEF Db!Contradicts
    <2> QED  BY <1>3, <2>1, <2>2, <2>3 DEF Db!ReadRecord
  <1>4. ASSUME NEW p \in Procs, Db!Finish(p) PROVE DbInv'
    <2>0. /\ dbLock = p /\ dbPc[p] = "read" /\ build[p] \in Builds
          /\ DOMAIN rows = 1 .. Len(rows)
      BY <1>4, SeqDomain DEF DbInv, Db!DbTypeOK, Exclusive, InLock, Recorded, Db!Finish
    <2>1. CASE dbPc'[p] # "refused"
      BY <1>4, <2>1, FinishStep
    <2>2. CASE dbPc'[p] = "refused"
      <3>1. /\ Db!RefuseDb(p) /\ supported[p]
            /\ \E v \in DOMAIN build[p] :
                 ~(rows[v].name = build[p][v].name /\ Db!Blessed(p, v))
        <4>1. dbPc' # [dbPc EXCEPT ![p] = "open"]
          BY <2>2 DEF DbInv, Db!DbTypeOK
        <4> QED  BY <1>4, <4>1 DEF Db!Finish, Db!DbGoto
      <3>2. PICK v \in DOMAIN build[p] :
                 ~(rows[v].name = build[p][v].name /\ Db!Blessed(p, v))
        BY <3>1
      <3>3. v \in DOMAIN rows
        <4>1. PICK m \in Nat : DOMAIN build[p] = 1 .. m
          BY <2>0, CompleteBuild DEF DbInv, AtWork, Checked
        <4>2. /\ at[p] \in Nat \ {0} /\ at[p] \notin DOMAIN build[p]
              /\ at[p] <= Len(rows) + 1 /\ Len(rows) \in Nat
          BY <1>4, <2>0, SeqDomain DEF DbInv, Db!DbTypeOK, AtWork, Checked, Recorded, Db!Finish
        <4> QED  BY <2>0, <4>1, <4>2
      <3>4. rows[v].checksum = Db!NoChecksum => v \in DOMAIN Pinned
        BY <3>3 DEF DbInv, Recorded
      <3>5. Db!DbCause(p)
        <4>1. CASE \/ rows[v].name # build[p][v].name
                   \/ rows[v].checksum \notin {Db!NoChecksum, build[p][v].text}
          BY <3>3, <4>1, Contradiction
        <4>2. CASE rows[v].checksum = Db!NoChecksum /\ ~Db!Blessed(p, v)
          BY <3>4, <4>2 DEF Db!Blessed, Db!DbCause, Db!Pins
        <4> QED  BY <3>2, <4>1, <4>2 DEF Db!Blessed
      <3> QED  BY <2>0, <3>1, <3>5, RefuseStep
    <2> QED  BY <2>1, <2>2
  <1>5. ASSUME NEW p \in Procs, Db!CloseDb(p) PROVE DbInv'
    <2>1. /\ dbPc' = [dbPc EXCEPT ![p] = "closed"]
          /\ dbLock' = IF dbLock = p THEN Nobody ELSE dbLock
          /\ UNCHANGED <<build, at, supported, rows, ran>>
      BY <1>5 DEF Db!CloseDb, Db!DbGoto, Db!UnlockDb
    <2>2. Recorded' /\ Db!ChecksumsAreTrue' /\ Relied' /\ RefusedByDb'
      BY <2>1, QuietDb DEF DbInv, Db!DbTypeOK
    <2>3. Db!DbTypeOK' /\ Exclusive'
      BY <2>1 DEF DbInv, Db!DbTypeOK, Exclusive, InLock
    <2>4. AtWork'
      BY <2>1 DEF DbInv, Db!DbTypeOK, AtWork, Checked, Db!WellNumbered, Db!Column
    <2> QED  BY <2>2, <2>3, <2>4 DEF DbInv
  <1>6. CASE Db!CloseAllDb
    <2>1. /\ dbPc' = [p \in Procs |-> "closed"] /\ dbLock' = Nobody
          /\ UNCHANGED <<build, at, supported, rows, ran>>
      BY <1>6 DEF Db!CloseAllDb
    <2>2. Recorded' /\ Db!ChecksumsAreTrue' /\ Relied' /\ RefusedByDb'
      BY <2>1, QuietDb DEF DbInv, Db!DbTypeOK
    <2>3. Db!DbTypeOK' /\ Exclusive' /\ AtWork'
      BY <2>1 DEF DbInv, Db!DbTypeOK, Exclusive, InLock, AtWork, Checked
    <2> QED  BY <2>2, <2>3 DEF DbInv
  <1>7. CASE UNCHANGED Db!dbVars
    <2>1. UNCHANGED <<dbPc, build, at, supported, dbLock, rows, ran>>
      BY <1>7 DEF Db!dbVars
    <2>2. Recorded' /\ Db!ChecksumsAreTrue' /\ Relied' /\ RefusedByDb'
      BY <2>1, QuietDb
    <2>3. Db!DbTypeOK' /\ Exclusive' /\ AtWork'
      BY <2>1 DEF DbInv, Db!DbTypeOK, Exclusive, InLock, AtWork, Checked, Db!WellNumbered,
         Db!Column
    <2> QED  BY <2>2, <2>3 DEF DbInv
  <1> QED
    BY <1>1, <1>2, <1>3, <1>4, <1>5, <1>6, <1>7, ApplyStep DEF Db!DbNext, Db!DbStep

(* The invariant of the database holds in every reachable state.           *)
LEMMA DbHolds == Spec => []DbInv
  <1>1. Db!DbInit => DbInv
    <2> SUFFICES ASSUME Db!DbInit PROVE DbInv
      OBVIOUS
    <2> USE StartupAssumption
    <2>1. /\ Db!IsLog(ran) /\ IsSeq(ran) /\ Len(ran) < ColumnAt
          /\ DOMAIN ran = 1 .. Len(ran) /\ Len(ran) \in Nat
      BY SeqDomain DEF Db!DbInit, StartupAssumption, Db!IsLegacy, Db!IsLog, IsSeq
    <2>2. /\ rows = [v \in 1 .. Len(ran) |->
                       [name |-> ran[v].name, checksum |-> Db!NoChecksum]]
          /\ dbPc = [p \in Procs |-> "closed"]
      BY <2>1 DEF Db!DbInit
    <2>3. Db!DbTypeOK
      BY DEF Db!DbInit, Db!DbTypeOK
    <2>4. IsSeq(rows) /\ Len(rows) = Len(ran) /\ DOMAIN rows = 1 .. Len(ran)
      <3>1. rows \in [1 .. Len(ran) -> {rows[v] : v \in DOMAIN rows}]
        BY <2>1, <2>2
      <3>2. ASSUME NEW R, rows \in [1 .. Len(ran) -> R]
            PROVE  rows \in Seq(R) /\ Len(rows) = Len(ran)
        BY <2>1, <3>2
      <3> QED  BY <2>2, <3>1, <3>2 DEF IsSeq
    <2>5. \A v \in 1 .. Len(ran) : v \in DOMAIN Pinned
      BY <2>1 DEF StartupAssumption
    <2>6. Recorded /\ Db!ChecksumsAreTrue
      BY <2>1, <2>2, <2>4, <2>5 DEF Recorded, Db!ChecksumsAreTrue
    <2>7. Exclusive /\ AtWork /\ Relied /\ RefusedByDb
      BY <2>2 DEF Exclusive, InLock, AtWork, Checked, Relied, RefusedByDb
    <2> QED  BY <2>3, <2>6, <2>7 DEF DbInv
  <1>2. DbInv /\ [Db!DbNext]_(Db!dbVars) => DbInv'
    BY DbStepKeeps, StartupAssumption
  <1>3. Db!DbSpec => []DbInv
    BY <1>1, <1>2, PTL DEF Db!DbSpec
  <1> QED  BY <1>3, PartsKeepTheirSpecs, PTL

---------------------------------------------------------------------------
(* The master key and the key check.                                       *)

Locked  == {"get", "decide", "set", "verify", "mark", "markSync", "return"}
Marking == {"mark", "markSync", "return"}
Holding == Marking \cup {"check", "chain", "link", "linkSync", "open"}

\* The steps of LoadOrCreate are taken by one process at a time; a key is held
\* from where it was read or verified.
OneAtATime ==
    \A p \in Procs :
        /\ keyPc[p] \in Locked => keyLock = p
        /\ keyPc[p] \in Holding \cup {"verify"} => key[p] \in Keys
        /\ keyPc[p] \in {"decide", "set"} => credential = NoKey

\* Key k is the user's: the credential store has it, or the marker on the disk
\* says that there was one.
Guarded(k) == credential = k \/ (credential = NoKey /\ markerOnDisk)

\* As long as no deletion came before the marker: a key that was returned, or is
\* about to be, is guarded; where a new one is made, none was returned.
NoneReplaced ==
    /\ markerOnDisk => marker
    /\ unguarded \/
         /\ \A k \in loaded : Guarded(k) /\ \A l \in loaded : k = l
         /\ \A p \in Procs : keyPc[p] \in Marking =>
              Guarded(key[p]) /\ \A k \in loaded : k = key[p]
         /\ \A p \in Procs : keyPc[p] \in {"set", "verify"} => loaded = {}

\* What sealed the data root is what its key check says, if it has one; where it
\* is about to get one, that key has sealed everything there.
RootInv ==
    /\ \A k \in sealed : (check = k \/ check = NoKey) /\ \A l \in sealed : k = l
    /\ checkOnDisk \in {NoKey, check}
    /\ \A p \in Procs :
         /\ keyPc[p] \in {"linkSync", "open"} => check = key[p]
         /\ keyPc[p] \in {"chain", "link"} /\ check = NoKey =>
              \A k \in sealed : k = key[p]

\* As long as the credential was not altered: everybody's key is the user's, the
\* marker stands for it, and so does the key check, or it is that of the objects.
Undamaged ==
    damaged \/
      /\ credential # Garbled
      /\ marker => credential \in Keys
      /\ \A p \in Procs : keyPc[p] \in Holding \cup {"verify"} => key[p] = credential
      /\ check \in {NoKey, credential} \cup sealed

RefusedByKey == \A p \in Procs : keyPc[p] = "refused" => Key!KeyCause(p)

KeyInv == Key!KeyTypeOK /\ OneAtATime /\ NoneReplaced /\ RootInv /\ Undamaged /\ RefusedByKey

(* The invariant of the key is inductive.                                  *)
LEMMA KeyStepKeeps ==
    ASSUME KeyInv, StartupAssumption, [Key!KeyNext]_(Key!keyVars)
    PROVE  KeyInv'
  <1> USE DEF KeyInv
  <1> USE StartupAssumption DEF StartupAssumption
  <1> USE DEF Key!disk, Key!past, Key!KeyGoto, Key!UnlockKey, Locked, Marking, Holding
  <1>1. ASSUME NEW p \in Procs, Key!LockKey(p) PROVE KeyInv'
    <2>1. /\ keyPc[p] = "closed" /\ keyLock = Nobody
          /\ keyPc' = [keyPc EXCEPT ![p] = "get"] /\ keyLock' = p
          /\ UNCHANGED <<key, credential, marker, markerOnDisk, check, checkOnDisk,
                         sealed, minted, loaded, damaged, unguarded>>
      BY <1>1 DEF Key!LockKey, Key!KeyLockFree, OneAtATime
    <2>2. Key!KeyTypeOK'
      BY <2>1 DEF Key!KeyTypeOK, Key!KeySteps
    <2>3. OneAtATime'
      BY <2>1 DEF Key!KeyTypeOK, OneAtATime
    <2>4. NoneReplaced'
      BY <2>1 DEF Key!KeyTypeOK, OneAtATime, NoneReplaced, Guarded
    <2>5. RootInv'
      BY <2>1 DEF Key!KeyTypeOK, OneAtATime, RootInv
    <2>6. Undamaged'
      BY <2>1 DEF Key!KeyTypeOK, OneAtATime, Undamaged
    <2>7. RefusedByKey'
      BY <2>1 DEF Key!KeyTypeOK, OneAtATime, RootInv, Undamaged, RefusedByKey, Key!KeyCause
    <2> QED  BY <2>2, <2>3, <2>4, <2>5, <2>6, <2>7
  <1>2. ASSUME NEW p \in Procs, Key!GetKey(p) PROVE KeyInv'
    <2>1. /\ keyPc[p] = "get" /\ keyLock = p
          /\ \/ /\ credential = NoKey /\ keyPc' = [keyPc EXCEPT ![p] = "decide"]
                /\ UNCHANGED <<key, keyLock>>
             \/ /\ credential \in Keys /\ keyPc' = [keyPc EXCEPT ![p] = "mark"]
                /\ key' = [key EXCEPT ![p] = credential] /\ UNCHANGED keyLock
             \/ /\ credential # NoKey /\ credential \notin Keys
                /\ keyPc' = [keyPc EXCEPT ![p] = "refused"]
                /\ keyLock' = Nobody /\ UNCHANGED key
          /\ UNCHANGED <<credential, marker, markerOnDisk, check, checkOnDisk,
                         sealed, minted, loaded, damaged, unguarded>>
      BY <1>2 DEF Key!GetKey, Key!RefuseKey, Key!Decodes, OneAtATime
    <2>2. Key!KeyTypeOK'
      BY <2>1 DEF Key!KeyTypeOK, Key!KeySteps
    <2>3. OneAtATime'
      BY <2>1 DEF Key!KeyTypeOK, OneAtATime
    <2>4. NoneReplaced'
      BY <2>1 DEF Key!KeyTypeOK, OneAtATime, NoneReplaced, Guarded
    <2>5. RootInv'
      BY <2>1 DEF Key!KeyTypeOK, OneAtATime, RootInv
    <2>6. Undamaged'
      BY <2>1 DEF Key!KeyTypeOK, OneAtATime, Undamaged
    <2>7. RefusedByKey'
      BY <2>1 DEF Key!KeyTypeOK, OneAtATime, RootInv, Undamaged, RefusedByKey, Key!KeyCause
    <2> QED  BY <2>2, <2>3, <2>4, <2>5, <2>6, <2>7
  <1>3. ASSUME NEW p \in Procs, Key!Decide(p) PROVE KeyInv'
    <2>1. /\ keyPc[p] = "decide" /\ credential = NoKey /\ keyLock = p
          /\ \/ marker /\ keyPc' = [keyPc EXCEPT ![p] = "refused"] /\ keyLock' = Nobody
             \/ ~marker /\ keyPc' = [keyPc EXCEPT ![p] = "set"] /\ keyLock' = keyLock
          /\ UNCHANGED <<key, credential, marker, markerOnDisk, check, checkOnDisk,
                         sealed, minted, loaded, damaged, unguarded>>
      BY <1>3 DEF Key!Decide, Key!RefuseKey, Key!After, OneAtATime
    <2>2. Key!KeyTypeOK'
      BY <2>1 DEF Key!KeyTypeOK, Key!KeySteps
    <2>3. OneAtATime'
      BY <2>1 DEF Key!KeyTypeOK, OneAtATime
    <2>4. NoneReplaced'
      BY <2>1 DEF Key!KeyTypeOK, OneAtATime, NoneReplaced, Guarded
    <2>5. RootInv'
      BY <2>1 DEF Key!KeyTypeOK, OneAtATime, RootInv
    <2>6. Undamaged'
      BY <2>1 DEF Key!KeyTypeOK, OneAtATime, Undamaged
    <2>7. RefusedByKey'
      BY <2>1 DEF Key!KeyTypeOK, OneAtATime, RootInv, Undamaged, RefusedByKey, Key!KeyCause
    <2> QED  BY <2>2, <2>3, <2>4, <2>5, <2>6, <2>7
  <1>4. ASSUME NEW p \in Procs, Key!SetKey(p) PROVE KeyInv'
    <2>1. /\ keyPc[p] = "set" /\ keyLock = p /\ credential = NoKey
          /\ keyPc' = [keyPc EXCEPT ![p] = "verify"]
          /\ \E k \in Keys : /\ key' = [key EXCEPT ![p] = k] /\ minted' = minted \cup {k}
                             /\ \/ credential' = k /\ UNCHANGED damaged
                                \/ credential' = Garbled /\ damaged' = TRUE
          /\ UNCHANGED <<keyLock, marker, markerOnDisk, check, checkOnDisk,
                         sealed, loaded, unguarded>>
      BY <1>4 DEF Key!SetKey, Key!After, Key!Candidate, OneAtATime
    <2>2. Key!KeyTypeOK'
      BY <2>1 DEF Key!KeyTypeOK, Key!KeySteps
    <2>3. OneAtATime'
      BY <2>1 DEF Key!KeyTypeOK, OneAtATime
    <2>4. NoneReplaced'
      BY <2>1 DEF Key!KeyTypeOK, OneAtATime, NoneReplaced, Guarded
    <2>5. RootInv'
      BY <2>1 DEF Key!KeyTypeOK, OneAtATime, RootInv
    <2>6. Undamaged'
      BY <2>1 DEF Key!KeyTypeOK, OneAtATime, Undamaged
    <2>7. RefusedByKey'
      BY <2>1 DEF Key!KeyTypeOK, OneAtATime, RootInv, Undamaged, RefusedByKey, Key!KeyCause
    <2> QED  BY <2>2, <2>3, <2>4, <2>5, <2>6, <2>7
  <1>5. ASSUME NEW p \in Procs, Key!VerifyKey(p) PROVE KeyInv'
    <2>1. /\ keyPc[p] = "verify" /\ keyLock = p
          /\ \/ /\ credential # key[p] /\ keyPc' = [keyPc EXCEPT ![p] = "refused"]
                /\ keyLock' = Nobody
             \/ /\ credential = key[p] /\ keyPc' = [keyPc EXCEPT ![p] = "mark"]
                /\ UNCHANGED keyLock
          /\ UNCHANGED <<key, credential, marker, markerOnDisk, check, checkOnDisk,
                         sealed, minted, loaded, damaged, unguarded>>
      BY <1>5 DEF Key!VerifyKey, Key!RefuseKey, Key!After, OneAtATime
    <2>2. Key!KeyTypeOK'
      BY <2>1 DEF Key!KeyTypeOK, Key!KeySteps
    <2>3. OneAtATime'
      BY <2>1 DEF Key!KeyTypeOK, OneAtATime
    <2>4. NoneReplaced'
      BY <2>1 DEF Key!KeyTypeOK, OneAtATime, NoneReplaced, Guarded
    <2>5. RootInv'
      BY <2>1 DEF Key!KeyTypeOK, OneAtATime, RootInv
    <2>6. Undamaged'
      BY <2>1 DEF Key!KeyTypeOK, OneAtATime, Undamaged
    <2>7. RefusedByKey'
      BY <2>1 DEF Key!KeyTypeOK, OneAtATime, RootInv, Undamaged, RefusedByKey, Key!KeyCause
    <2> QED  BY <2>2, <2>3, <2>4, <2>5, <2>6, <2>7
  <1>6. ASSUME NEW p \in Procs, Key!Mark(p) PROVE KeyInv'
    <2>1. /\ keyPc[p] = "mark" /\ keyLock = p
          /\ \/ keyPc' = [keyPc EXCEPT ![p] = "return"]
             \/ keyPc' = [keyPc EXCEPT ![p] = "markSync"]
          /\ marker' = TRUE
          /\ UNCHANGED <<key, keyLock, credential, markerOnDisk, check, checkOnDisk,
                         sealed, minted, loaded, damaged, unguarded>>
      BY <1>6 DEF Key!Mark, Key!After, OneAtATime
    <2>2. Key!KeyTypeOK'
      BY <2>1 DEF Key!KeyTypeOK, Key!KeySteps
    <2>3. OneAtATime'
      BY <2>1 DEF Key!KeyTypeOK, OneAtATime
    <2>4. NoneReplaced'
      BY <2>1 DEF Key!KeyTypeOK, OneAtATime, NoneReplaced, Guarded
    <2>5. RootInv'
      BY <2>1 DEF Key!KeyTypeOK, OneAtATime, RootInv
    <2>6. Undamaged'
      BY <2>1 DEF Key!KeyTypeOK, OneAtATime, Undamaged
    <2>7. RefusedByKey'
      BY <2>1 DEF Key!KeyTypeOK, OneAtATime, RootInv, Undamaged, RefusedByKey, Key!KeyCause
    <2> QED  BY <2>2, <2>3, <2>4, <2>5, <2>6, <2>7
  <1>7. ASSUME NEW p \in Procs, Key!SyncMark(p) PROVE KeyInv'
    <2>1. /\ keyPc[p] = "markSync" /\ keyLock = p
          /\ keyPc' = [keyPc EXCEPT ![p] = "return"]
          /\ markerOnDisk' = marker
          /\ UNCHANGED <<key, keyLock, credential, marker, check, checkOnDisk,
                         sealed, minted, loaded, damaged, unguarded>>
      BY <1>7 DEF Key!SyncMark, Key!After, OneAtATime
    <2>2. Key!KeyTypeOK'
      BY <2>1 DEF Key!KeyTypeOK, Key!KeySteps
    <2>3. OneAtATime'
      BY <2>1 DEF Key!KeyTypeOK, OneAtATime
    <2>4. NoneReplaced'
      BY <2>1 DEF Key!KeyTypeOK, OneAtATime, NoneReplaced, Guarded
    <2>5. RootInv'
      BY <2>1 DEF Key!KeyTypeOK, OneAtATime, RootInv
    <2>6. Undamaged'
      BY <2>1 DEF Key!KeyTypeOK, OneAtATime, Undamaged
    <2>7. RefusedByKey'
      BY <2>1 DEF Key!KeyTypeOK, OneAtATime, RootInv, Undamaged, RefusedByKey, Key!KeyCause
    <2> QED  BY <2>2, <2>3, <2>4, <2>5, <2>6, <2>7
  <1>8. ASSUME NEW p \in Procs, Key!ReturnKey(p) PROVE KeyInv'
    <2>1. /\ keyPc[p] = "return" /\ keyLock = p /\ key[p] \in Keys
          /\ keyPc' = [keyPc EXCEPT ![p] = "check"] /\ keyLock' = Nobody
          /\ loaded' = loaded \cup {key[p]}
          /\ UNCHANGED <<key, credential, marker, markerOnDisk, check, checkOnDisk,
                         sealed, minted, damaged, unguarded>>
      BY <1>8 DEF Key!ReturnKey, OneAtATime
    <2>2. Key!KeyTypeOK'
      BY <2>1 DEF Key!KeyTypeOK, Key!KeySteps
    <2>3. OneAtATime'
      BY <2>1 DEF Key!KeyTypeOK, OneAtATime
    <2>4. NoneReplaced'
      BY <2>1 DEF Key!KeyTypeOK, OneAtATime, NoneReplaced, Guarded
    <2>5. RootInv'
      BY <2>1 DEF Key!KeyTypeOK, OneAtATime, RootInv
    <2>6. Undamaged'
      BY <2>1 DEF Key!KeyTypeOK, OneAtATime, Undamaged
    <2>7. RefusedByKey'
      BY <2>1 DEF Key!KeyTypeOK, OneAtATime, RootInv, Undamaged, RefusedByKey, Key!KeyCause
    <2> QED  BY <2>2, <2>3, <2>4, <2>5, <2>6, <2>7
  <1>9. ASSUME NEW p \in Procs, Key!ReadCheck(p) PROVE KeyInv'
    <2>1. /\ keyPc[p] = "check" /\ key[p] \in Keys
          /\ \/ /\ check # NoKey /\ check = key[p]
                /\ keyPc' = [keyPc EXCEPT ![p] = "open"]
             \/ /\ check # NoKey /\ check # key[p]
                /\ keyPc' = [keyPc EXCEPT ![p] = "refused"]
             \/ /\ check = NoKey /\ (sealed = {} \/ key[p] \in sealed)
                /\ keyPc' = [keyPc EXCEPT ![p] = "chain"]
             \/ /\ check = NoKey /\ \E k \in sealed : k # key[p]
                /\ keyPc' = [keyPc EXCEPT ![p] = "refused"]
          /\ UNCHANGED <<key, keyLock, credential, marker, markerOnDisk, check, checkOnDisk,
                         sealed, minted, loaded, damaged, unguarded>>
      BY <1>9 DEF Key!ReadCheck, Key!Opened, Key!Sampled, OneAtATime
    <2>2. Key!KeyTypeOK'
      BY <2>1 DEF Key!KeyTypeOK, Key!KeySteps
    <2>3. OneAtATime'
      BY <2>1 DEF Key!KeyTypeOK, OneAtATime
    <2>4. NoneReplaced'
      BY <2>1 DEF Key!KeyTypeOK, OneAtATime, NoneReplaced, Guarded
    <2>5. RootInv'
      BY <2>1 DEF Key!KeyTypeOK, OneAtATime, RootInv
    <2>6. Undamaged'
      BY <2>1 DEF Key!KeyTypeOK, OneAtATime, Undamaged
    <2>7. RefusedByKey'
      BY <2>1 DEF Key!KeyTypeOK, OneAtATime, RootInv, Undamaged, RefusedByKey, Key!KeyCause
    <2> QED  BY <2>2, <2>3, <2>4, <2>5, <2>6, <2>7
  <1>10. ASSUME NEW p \in Procs, Key!ChainCheck(p) PROVE KeyInv'
    <2>1. /\ keyPc[p] = "chain" /\ key[p] \in Keys
          /\ keyPc' = [keyPc EXCEPT ![p] = "link"]
          /\ checkOnDisk' = check
          /\ UNCHANGED <<key, keyLock, credential, marker, markerOnDisk, check,
                         sealed, minted, loaded, damaged, unguarded>>
      BY <1>10 DEF Key!ChainCheck, OneAtATime
    <2>2. Key!KeyTypeOK'
      BY <2>1 DEF Key!KeyTypeOK, Key!KeySteps
    <2>3. OneAtATime'
      BY <2>1 DEF Key!KeyTypeOK, OneAtATime
    <2>4. NoneReplaced'
      BY <2>1 DEF Key!KeyTypeOK, OneAtATime, NoneReplaced, Guarded
    <2>5. RootInv'
      BY <2>1 DEF Key!KeyTypeOK, OneAtATime, RootInv
    <2>6. Undamaged'
      BY <2>1 DEF Key!KeyTypeOK, OneAtATime, Undamaged
    <2>7. RefusedByKey'
      BY <2>1 DEF Key!KeyTypeOK, OneAtATime, RootInv, Undamaged, RefusedByKey, Key!KeyCause
    <2> QED  BY <2>2, <2>3, <2>4, <2>5, <2>6, <2>7
  <1>11. ASSUME NEW p \in Procs, Key!LinkCheck(p) PROVE KeyInv'
    <2>1. /\ keyPc[p] = "link" /\ key[p] \in Keys
          /\ \/ /\ check = NoKey /\ check' = key[p]
                /\ keyPc' = [keyPc EXCEPT ![p] = "linkSync"]
             \/ /\ check # NoKey /\ check = key[p] /\ check' = check
                /\ keyPc' = [keyPc EXCEPT ![p] = "open"]
             \/ /\ check # NoKey /\ check # key[p] /\ check' = check
                /\ keyPc' = [keyPc EXCEPT ![p] = "refused"]
          /\ UNCHANGED <<key, keyLock, credential, marker, markerOnDisk, checkOnDisk,
                         sealed, minted, loaded, damaged, unguarded>>
      BY <1>11 DEF Key!LinkCheck, Key!Opened, OneAtATime
    <2>2. Key!KeyTypeOK'
      BY <2>1 DEF Key!KeyTypeOK, Key!KeySteps
    <2>3. OneAtATime'
      BY <2>1 DEF Key!KeyTypeOK, OneAtATime
    <2>4. NoneReplaced'
      BY <2>1 DEF Key!KeyTypeOK, OneAtATime, NoneReplaced, Guarded
    <2>5. RootInv'
      BY <2>1 DEF Key!KeyTypeOK, OneAtATime, RootInv
    <2>6. Undamaged'
      BY <2>1 DEF Key!KeyTypeOK, OneAtATime, Undamaged
    <2>7. RefusedByKey'
      BY <2>1 DEF Key!KeyTypeOK, OneAtATime, RootInv, Undamaged, RefusedByKey, Key!KeyCause
    <2> QED  BY <2>2, <2>3, <2>4, <2>5, <2>6, <2>7
  <1>12. ASSUME NEW p \in Procs, Key!SyncCheck(p) PROVE KeyInv'
    <2>1. /\ keyPc[p] = "linkSync" /\ key[p] \in Keys
          /\ keyPc' = [keyPc EXCEPT ![p] = "open"]
          /\ checkOnDisk' = check
          /\ UNCHANGED <<key, keyLock, credential, marker, markerOnDisk, check,
                         sealed, minted, loaded, damaged, unguarded>>
      BY <1>12 DEF Key!SyncCheck, OneAtATime
    <2>2. Key!KeyTypeOK'
      BY <2>1 DEF Key!KeyTypeOK, Key!KeySteps
    <2>3. OneAtATime'
      BY <2>1 DEF Key!KeyTypeOK, OneAtATime
    <2>4. NoneReplaced'
      BY <2>1 DEF Key!KeyTypeOK, OneAtATime, NoneReplaced, Guarded
    <2>5. RootInv'
      BY <2>1 DEF Key!KeyTypeOK, OneAtATime, RootInv
    <2>6. Undamaged'
      BY <2>1 DEF Key!KeyTypeOK, OneAtATime, Undamaged
    <2>7. RefusedByKey'
      BY <2>1 DEF Key!KeyTypeOK, OneAtATime, RootInv, Undamaged, RefusedByKey, Key!KeyCause
    <2> QED  BY <2>2, <2>3, <2>4, <2>5, <2>6, <2>7
  <1>13. ASSUME NEW p \in Procs, Key!Seal(p) PROVE KeyInv'
    <2>1. /\ keyPc[p] = "open" /\ key[p] \in Keys
          /\ sealed' = sealed \cup {key[p]}
          /\ UNCHANGED <<keyPc, key, keyLock, credential, marker, markerOnDisk, check,
                         checkOnDisk, minted, loaded, damaged, unguarded>>
      BY <1>13 DEF Key!Seal, OneAtATime
    <2>2. Key!KeyTypeOK'
      BY <2>1 DEF Key!KeyTypeOK, Key!KeySteps
    <2>3. OneAtATime'
      BY <2>1 DEF Key!KeyTypeOK, OneAtATime
    <2>4. NoneReplaced'
      BY <2>1 DEF Key!KeyTypeOK, OneAtATime, NoneReplaced, Guarded
    <2>5. RootInv'
      BY <2>1 DEF Key!KeyTypeOK, OneAtATime, RootInv
    <2>6. Undamaged'
      BY <2>1 DEF Key!KeyTypeOK, OneAtATime, Undamaged
    <2>7. RefusedByKey'
      BY <2>1 DEF Key!KeyTypeOK, OneAtATime, RootInv, Undamaged, RefusedByKey, Key!KeyCause
    <2> QED  BY <2>2, <2>3, <2>4, <2>5, <2>6, <2>7
  <1>14. ASSUME NEW p \in Procs, Key!CloseKey(p) PROVE KeyInv'
    <2>1. /\ keyPc' = [keyPc EXCEPT ![p] = "closed"]
          /\ key' = [key EXCEPT ![p] = NoKey]
          /\ keyLock' = IF keyLock = p THEN Nobody ELSE keyLock
          /\ UNCHANGED <<credential, marker, markerOnDisk, check, checkOnDisk,
                         sealed, minted, loaded, damaged, unguarded>>
      BY <1>14 DEF Key!CloseKey, OneAtATime
    <2>2. Key!KeyTypeOK'
      BY <2>1 DEF Key!KeyTypeOK, Key!KeySteps
    <2>3. OneAtATime'
      BY <2>1 DEF Key!KeyTypeOK, OneAtATime
    <2>4. NoneReplaced'
      BY <2>1 DEF Key!KeyTypeOK, OneAtATime, NoneReplaced, Guarded
    <2>5. RootInv'
      BY <2>1 DEF Key!KeyTypeOK, OneAtATime, RootInv
    <2>6. Undamaged'
      BY <2>1 DEF Key!KeyTypeOK, OneAtATime, Undamaged
    <2>7. RefusedByKey'
      BY <2>1 DEF Key!KeyTypeOK, OneAtATime, RootInv, Undamaged, RefusedByKey, Key!KeyCause
    <2> QED  BY <2>2, <2>3, <2>4, <2>5, <2>6, <2>7
  <1>15. CASE Key!LosePower
    <2>1. /\ keyPc' = [p \in Procs |-> "closed"]
          /\ key' = [p \in Procs |-> NoKey]
          /\ keyLock' = Nobody
          /\ marker' = markerOnDisk /\ check' = checkOnDisk
          /\ UNCHANGED <<credential, markerOnDisk, checkOnDisk,
                         sealed, minted, loaded, damaged, unguarded>>
      BY <1>15 DEF Key!LosePower
    <2>2. Key!KeyTypeOK'
      BY <2>1 DEF Key!KeyTypeOK, Key!KeySteps
    <2>3. OneAtATime' /\ RefusedByKey'
      BY <2>1 DEF OneAtATime, RefusedByKey
    <2>4. NoneReplaced'
      BY <2>1 DEF Key!KeyTypeOK, NoneReplaced, Guarded
    <2>5. RootInv' /\ Undamaged'
      BY <2>1 DEF Key!KeyTypeOK, NoneReplaced, RootInv, Undamaged
    <2> QED  BY <2>2, <2>3, <2>4, <2>5
  <1>16. CASE Key!DeleteCredential
    <2>1. /\ credential # NoKey /\ credential' = NoKey /\ damaged' = TRUE
          /\ unguarded' = (unguarded \/ ~markerOnDisk)
          /\ UNCHANGED <<keyPc, key, keyLock, marker, markerOnDisk, check, checkOnDisk,
                         sealed, minted, loaded>>
      BY <1>16 DEF Key!DeleteCredential
    <2>2. Key!KeyTypeOK'
      BY <2>1 DEF Key!KeyTypeOK
    <2>3. OneAtATime' /\ RefusedByKey' /\ RootInv' /\ Undamaged'
      BY <2>1 DEF Key!KeyTypeOK, OneAtATime, RefusedByKey, Key!KeyCause, RootInv, Undamaged
    <2>4. NoneReplaced'
      BY <2>1 DEF Key!KeyTypeOK, OneAtATime, NoneReplaced, Guarded
    <2> QED  BY <2>2, <2>3, <2>4
  <1>17. CASE UNCHANGED Key!keyVars
    BY <1>17 DEF Key!keyVars, Key!KeyTypeOK, OneAtATime, RefusedByKey, Key!KeyCause, RootInv,
       Undamaged, NoneReplaced, Guarded
  <1> QED
    BY <1>1, <1>2, <1>3, <1>4, <1>5, <1>6, <1>7, <1>8, <1>9, <1>10, <1>11, <1>12, <1>13,
       <1>14, <1>15, <1>16, <1>17
       DEF Key!KeyNext, Key!KeyStep, Key!LoadOrCreate, Key!NewLocalStore

(* The invariant of the key holds in every reachable state.                *)
LEMMA KeyHolds == Spec => []KeyInv
  <1>1. Key!KeyInit => KeyInv
    <2> SUFFICES ASSUME Key!KeyInit PROVE KeyInv
      OBVIOUS
    <2> USE StartupAssumption DEF Key!KeyInit, StartupAssumption
    <2>1. Key!KeyTypeOK
      <3>1. /\ marker \in BOOLEAN /\ markerOnDisk \in BOOLEAN
            /\ damaged \in BOOLEAN /\ unguarded \in BOOLEAN
        OBVIOUS
      <3>2. /\ sealed \subseteq Keys /\ minted \subseteq Keys /\ loaded \subseteq Keys
            /\ check \in Keys \cup {NoKey} /\ checkOnDisk \in Keys \cup {NoKey}
        OBVIOUS
      <3>3. /\ keyPc \in [Procs -> Key!KeySteps] /\ key \in [Procs -> Keys \cup {NoKey}]
            /\ keyLock \in Procs \cup {Nobody} /\ credential \in Keys \cup {NoKey, Garbled}
        BY DEF Key!KeySteps
      <3> QED  BY <3>1, <3>2, <3>3 DEF Key!KeyTypeOK
    <2>2. OneAtATime /\ RefusedByKey /\ RootInv
      BY DEF OneAtATime, RefusedByKey, RootInv, Locked, Holding, Marking
    <2>3. NoneReplaced /\ Undamaged
      BY DEF NoneReplaced, Undamaged, Guarded, Locked, Holding, Marking
    <2> QED  BY <2>1, <2>2, <2>3 DEF KeyInv
  <1>2. KeyInv /\ [Key!KeyNext]_(Key!keyVars) => KeyInv'
    BY KeyStepKeeps, StartupAssumption
  <1>3. Key!KeySpec => []KeyInv
    BY <1>1, <1>2, PTL DEF Key!KeySpec
  <1> QED  BY <1>3, PartsKeepTheirSpecs, PTL

---------------------------------------------------------------------------
(* What a user of Replay can rely on.                                      *)

(* The variables of both parts keep their types, with as many rows         *)
(* recorded as texts were run.                                             *)
THEOREM Typing == Spec => []TypeOK
  <1>1. Init => faults \in 0 .. MaxFaults
    BY StartupAssumption DEF Init, StartupAssumption
  <1>2. faults \in 0 .. MaxFaults /\ [Next]_vars => (faults \in 0 .. MaxFaults)'
    BY StartupAssumption DEF StartupAssumption, Next, vars, Step, OpenDatabase, OpenStore, TimeOut,
       Stop, PowerLoss, UserDeletes, Rest, Interfered
  <1>3. Spec => [](faults \in 0 .. MaxFaults)
    BY <1>1, <1>2, PTL DEF Spec
  <1>4. DbInv /\ KeyInv /\ faults \in 0 .. MaxFaults => TypeOK
    BY DEF DbInv, KeyInv, TypeOK
  <1> QED  BY <1>3, <1>4, DbHolds, KeyHolds, PTL

(* A process whose Open succeeded finds every change its build relies on,  *)
(* made once, in order and by the text it embeds, with its checksum:       *)
(* whichever builds came before, wherever they were stopped.               *)
THEOREM SchemaIsSeen == Spec => []OpenSeesItsSchema
  <1>1. DbInv => OpenSeesItsSchema
    BY DEF DbInv, Relied, OpenSeesItsSchema, Db!OpenSeesItsSchema
  <1> QED  BY <1>1, DbHolds, PTL

(* A recorded checksum is that of the SQL that was run, or of the release  *)
(* that shipped it: no build blesses a file it did not apply.              *)
THEOREM ChecksumsHold == Spec => []ChecksumsAreTrue
  <1>1. DbInv => ChecksumsAreTrue
    BY DEF DbInv, ChecksumsAreTrue
  <1> QED  BY <1>1, DbHolds, PTL

(* All processes get the same key, unless it was deleted before its marker *)
(* was durable, and no data root ever holds objects of two keys.           *)
THEOREM KeyIsOne == Spec => []OneKey
  <1>1. ASSUME NEW S, S \subseteq Keys, \A k, l \in S : k = l PROVE Key!Cardinality(S) <= 1
    <2>1. CASE S = {}
      BY <2>1, SameSizes, FS_EmptySet
    <2>2. CASE S # {}
      <3>1. PICK k \in S : S = {k}
        BY <1>1, <2>2
      <3>2. Cardinality({k}) = 1
        BY FS_Singleton
      <3> QED  BY <3>1, <3>2, SameSizes
    <2> QED  BY <2>1, <2>2
  <1>2. KeyInv => OneKey
    <2> SUFFICES ASSUME KeyInv PROVE OneKey
      OBVIOUS
    <2>1. sealed \subseteq Keys /\ loaded \subseteq Keys
      BY DEF KeyInv, Key!KeyTypeOK
    <2>2. \A k, l \in sealed : k = l
      BY DEF KeyInv, RootInv
    <2>3. unguarded \/ \A k, l \in loaded : k = l
      BY DEF KeyInv, NoneReplaced
    <2> QED  BY <1>1, <2>1, <2>2, <2>3 DEF OneKey, Key!OneKey, Key!RootHasOneKey
  <1> QED  BY <1>2, KeyHolds, PTL

(* A process is turned away for good only when its build differs from what *)
(* was applied, or when the key is not to be had: never because another    *)
(* one opened at the same time or was stopped halfway.                     *)
THEOREM RefusalsHaveCause == Spec => []RefusedForCause
  <1>1. DbInv /\ KeyInv => RefusedForCause
    BY DEF DbInv, KeyInv, RefusedByDb, RefusedByKey, RefusedForCause
  <1> QED  BY <1>1, DbHolds, KeyHolds, PTL
============================================================================
