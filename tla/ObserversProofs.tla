-------------------------- MODULE ObserversProofs --------------------------
(* What the observers of a running child guarantee, proved of Observers:   *)
(* that the recorded part of a transcript is a prefix and that what is     *)
(* missing behind it is explained, that no directory is overlooked without *)
(* a report, and that the artifacts tell the files of the last checkpoint. *)
(*                                                                         *)
(* For the stream, the invariant says which lines are told at each place   *)
(* and why it can have returned. For the watcher, it speaks of every kept  *)
(* directory, in every state and from the beginning: it is watched, or a   *)
(* notification or a step of the walk is on its way to it or to one above  *)
(* it, or something was lost and an error is on its way or recorded.       *)
EXTENDS Observers, FiniteSetTheorems, TLAPS

---------------------------------------------------------------------------
(* The adapter's event stream.                                             *)

\* Where the stream is. It follows a file once it has announced its session.
Following ==
    /\ pc \in {"look", "wait", "check", "announce", "read", "lines", "idle", "returned", "done"}
    /\ pc \in {"read", "lines", "idle"} => announced
    /\ pc \in {"look", "wait", "check", "announce"} => ~announced
    /\ cancelled \in {"no", "exit", "interrupt"}

\* How far it has read: it asks for more when every whole line it has is treated.
Reading ==
    /\ file \in Seq(Lines) /\ half \in Lines \cup {NoLine}
    /\ emitted \in Seq(Nat) /\ offset \in Nat /\ next \in Nat \ {0}
    /\ 2 * (next - 1) <= offset /\ offset <= Size
    /\ pc \in {"read", "idle"} => ~Pending
    /\ ~announced => emitted = <<>> /\ next = 1 /\ offset = 0

\* The stream is cancelled before it reads for the last time, and stopEventStream
\* cancels it behind the exit of the child.
Cancelling == (cancelled = "exit" => exited) /\ (final => cancelled # "no")

\* A stream that still runs has told every line it has treated; one that has
\* returned may have been refused the last of them.
Telling ==
    IF pc \in {"returned", "done"} THEN \E n \in 0 .. Len(file) : Tells(n) ELSE Tells(next - 1)

\* Why the stream has returned: a final read comes to the end of the file, or stops
\* on the way, at a line it cannot read or because reading or recording fails.
Returned ==
    pc \in {"returned", "done"} =>
        \/ cancelled = "interrupt"
        \/ failed # "no" /\ ~final
        \/ cancelled = "exit" /\ (~announced \/ sinkBroken \/ Tells(Len(file)) \/ FinalReadStopped)

\* What the recorder was told of it.
Told == pc = "done" /\ failed # "no" => diagnosed \/ sinkBroken \/ cancelled # "no"

RolloutInv == Following /\ Reading /\ Cancelling /\ Telling /\ Returned /\ Told

StreamInv == IF observer = "stream" THEN RolloutInv ELSE observer = "watcher" /\ NoStream

\* Every step leaves the stream at a place where it can be.
LEMMA FollowingKeeps ==
  ASSUME Following, RolloutNext
  PROVE  Following'
  <1> USE DEF Following
  <1>1. CASE Codex
    <2>1. UNCHANGED streamVars /\ UNCHANGED sinkVars
      BY <1>1 DEF Codex, Correlate, Exit, CreateRollout, BeginLine, EndLine
    <2> QED  BY <2>1 DEF streamVars, sinkVars
  <1>2. CASE StopStream \/ Interrupt \/ BreakSink
    BY <1>2 DEF StopStream, Interrupt, BreakSink, streamVars, codexVars
  <1>3. CASE Cease \/ Report
    BY <1>3 DEF Cease, Report, GiveUpLooking, ReadForTheLastTime, codexVars, sinkVars, Return
  <1>4. CASE Look \/ LookAgain \/ Check \/ Announce
    BY <1>4 DEF Look, LookAgain, Check, Announce, codexVars, sinkVars, GoTo, Return
  <1>5. CASE Read \/ ReadFails \/ EndOfFile \/ NoLineLeft \/ Tick
    BY <1>5 DEF Read, ReadFails, EndOfFile, NoLineLeft, Tick, codexVars, sinkVars, GoTo, Return
  <1>6. CASE TreatLine
    BY <1>6 DEF TreatLine, Fails, codexVars, sinkVars
  <1> QED
    BY <1>1, <1>2, <1>3, <1>4, <1>5, <1>6 DEF RolloutNext, Stream, Poll, Surroundings

\* What a step does to the file: Codex appends to it, and the stream leaves it alone.
FileStep ==
    \/ UNCHANGED <<file, half>>
    \/ /\ ~exited /\ UNCHANGED streamVars
       /\ \/ half = NoLine /\ half' \in Lines /\ file' = file
          \/ half \in Lines /\ file' = Append(file, half) /\ half' = NoLine

\* Every step leaves the file or appends to it so.
LEMMA FileSteps ==
  ASSUME Reading, RolloutNext
  PROVE  FileStep
  <1>1. CASE Codex
    BY <1>1 DEF Codex, Correlate, Exit, CreateRollout, BeginLine, EndLine, FileStep, Reading
  <1>2. CASE ~Codex
    BY <1>2 DEF RolloutNext, Stream, Poll, Cease, Surroundings, StopStream, Interrupt, BreakSink,
       Report, GiveUpLooking, ReadForTheLastTime, Look, LookAgain, Check, Announce, Read, ReadFails,
       EndOfFile, NoLineLeft, Tick, TreatLine, codexVars, FileStep
  <1> QED  BY <1>1, <1>2

\* What a step does to the position in the file.
ReadStep ==
    \/ UNCHANGED <<offset, next, emitted>> /\ UNCHANGED announced
    \/ UNCHANGED <<offset, next, emitted>> /\ announced'
    \/ Read
    \/ TreatLine

\* Every step leaves the position, reads, or treats a line.
LEMMA ReadSteps ==
  ASSUME RolloutNext
  PROVE  ReadStep
  BY DEF RolloutNext, Stream, Poll, Cease, Surroundings, Codex, Correlate, Exit, CreateRollout,
     BeginLine, EndLine, StopStream, Interrupt, BreakSink, Report, GiveUpLooking,
     ReadForTheLastTime, Look, LookAgain, Check, Announce, ReadFails, EndOfFile, NoLineLeft, Tick,
     GoTo, Return, streamVars, ReadStep

\* Reading is inductive.
LEMMA ReadingKeeps ==
  ASSUME Following, Reading, RolloutNext
  PROVE  Reading'
  <1>f. FileStep /\ ReadStep
    BY FileSteps, ReadSteps
  <1>1. file' \in Seq(Lines) /\ half' \in Lines \cup {NoLine} /\ Size \in Nat /\ Size' \in Nat
        /\ Size <= Size'
    <2>1. CASE UNCHANGED <<file, half>>
      BY <2>1 DEF Reading, Size
    <2>2. CASE half = NoLine /\ half' \in Lines /\ file' = file
      BY <2>2, NoLineAssumption DEF Reading, Size
    <2>3. CASE half \in Lines /\ file' = Append(file, half) /\ half' = NoLine
      <3>1. Len(file) \in Nat /\ Len(file') = Len(file) + 1 /\ file' \in Seq(Lines)
        BY <2>3 DEF Reading
      <3> QED  BY <2>3, <3>1, NoLineAssumption DEF Size
    <2> QED  BY <1>f, <2>1, <2>2, <2>3 DEF FileStep
  <1>2. /\ emitted' \in Seq(Nat) /\ offset' \in Nat /\ next' \in Nat \ {0}
        /\ 2 * (next' - 1) <= offset' /\ offset' <= Size'
    <2> USE <1>1 DEF Reading
    <2>1. CASE Read
      BY <2>1 DEF Read
    <2>2. CASE TreatLine
      BY <2>2 DEF TreatLine, Pending
    <2> QED  BY <1>f, <2>1, <2>2 DEF ReadStep
  <1>3. pc' \in {"read", "idle"} => ~Pending'
    <2>1. CASE UNCHANGED <<offset, next>> /\ pc \in {"read", "idle"}
      BY <2>1 DEF Reading, Pending
    <2>2. CASE Announce
      <3>1. offset' = 0 /\ next' = 1
        BY <2>2 DEF Announce, Reading, Following, Return
      <3> QED  BY <3>1 DEF Pending
    <2>3. CASE NoLineLeft
      BY <2>3 DEF NoLineLeft, GoTo, Pending
    <2>4. pc' \in {"read", "idle"} =>
            (UNCHANGED <<offset, next>> /\ pc \in {"read", "idle"}) \/ Announce \/ NoLineLeft
      BY DEF RolloutNext, Stream, Poll, Cease, Surroundings, Codex, Correlate, Exit, CreateRollout,
         BeginLine, EndLine, StopStream, Interrupt, BreakSink, Report, GiveUpLooking,
         ReadForTheLastTime, Look, LookAgain, Check, Read, ReadFails, EndOfFile, Tick, TreatLine,
         GoTo, Return, streamVars
    <2> QED  BY <2>1, <2>2, <2>3, <2>4
  <1>4. ~announced' => emitted' = <<>> /\ next' = 1 /\ offset' = 0
    <2>1. Read \/ TreatLine => announced'
      BY DEF Read, TreatLine, Following
    <2> QED  BY <1>f, <2>1 DEF ReadStep, Reading, Following
  <1> QED  BY <1>1, <1>2, <1>3, <1>4 DEF Reading

\* Cancelling is inductive.
LEMMA CancellingKeeps ==
  ASSUME Cancelling, RolloutNext
  PROVE  Cancelling'
  <1>1. exited => exited'
    BY DEF RolloutNext, Stream, Poll, Cease, Surroundings, Codex, Correlate, Exit, CreateRollout,
       BeginLine, EndLine, StopStream, Interrupt, BreakSink, Report, GiveUpLooking,
       ReadForTheLastTime, Look, LookAgain, Check, Announce, Read, ReadFails, EndOfFile,
       NoLineLeft, Tick, TreatLine, codexVars
  <1>2. cancelled' = cancelled \/ (cancelled' = "exit" /\ exited) \/ cancelled' = "interrupt"
    BY DEF RolloutNext, Stream, Poll, Cease, Surroundings, Codex, Correlate, Exit, CreateRollout,
       BeginLine, EndLine, StopStream, Interrupt, BreakSink, Report, GiveUpLooking,
       ReadForTheLastTime, Look, LookAgain, Check, Announce, Read, ReadFails, EndOfFile,
       NoLineLeft, Tick, TreatLine, sinkVars
  <1>3. final' => final \/ cancelled # "no"
    BY DEF RolloutNext, Stream, Poll, Cease, Surroundings, Codex, Correlate, Exit, CreateRollout,
       BeginLine, EndLine, StopStream, Interrupt, BreakSink, Report, GiveUpLooking, Return, GoTo,
       ReadForTheLastTime, Look, LookAgain, Check, Announce, Read, ReadFails, EndOfFile,
       NoLineLeft, Tick, TreatLine, streamVars
  <1>4. cancelled # "no" => cancelled' # "no"
    BY DEF RolloutNext, Stream, Poll, Cease, Surroundings, Codex, Correlate, Exit, CreateRollout,
       BeginLine, EndLine, StopStream, Interrupt, BreakSink, Report, GiveUpLooking,
       ReadForTheLastTime, Look, LookAgain, Check, Announce, Read, ReadFails, EndOfFile,
       NoLineLeft, Tick, TreatLine, sinkVars
  <1> QED  BY <1>1, <1>2, <1>3, <1>4 DEF Cancelling

\* What a file says up to a line stays when it grows.
LEMMA TellsStays ==
  ASSUME Reading, NEW n \in 0 .. Len(file), Tells(n), UNCHANGED emitted,
         file' = file \/ \E l \in Lines : file' = Append(file, l)
  PROVE  Tells(n)' /\ n \in 0 .. Len(file')
  <1>1. /\ file' \in Seq(Lines) /\ Len(file') >= Len(file) /\ Len(file') \in Nat
        /\ \A i \in 1 .. n : file'[i] = file[i]
    <2>1. file \in Seq(Lines) /\ Len(file) \in Nat
      BY DEF Reading
    <2>2. ASSUME NEW l \in Lines, file' = Append(file, l)
          PROVE  /\ file' \in Seq(Lines) /\ Len(file') = Len(file) + 1
                 /\ \A i \in 1 .. n : file'[i] = file[i]
      BY <2>1, <2>2
    <2> QED  BY <2>1, <2>2
  <1>2. {i \in 1 .. n : Means(file'[i])} = {i \in 1 .. n : Means(file[i])}
    BY <1>1
  <1> QED  BY <1>1, <1>2 DEF Tells

\* The line that is treated is whole.
LEMMA Whole ==
  ASSUME Reading
  PROVE  /\ next - 1 \in 0 .. Len(file)
         /\ Pending => next \in 1 .. Len(file)
         /\ ~Pending /\ offset = Size => next - 1 = Len(file)
  <1>1. /\ Len(file) \in Nat /\ offset \in Nat /\ next \in Nat \ {0}
        /\ 2 * (next - 1) <= offset /\ offset <= Size
        /\ Size = 2 * Len(file) \/ Size = 2 * Len(file) + 1
    BY DEF Reading, Size
  <1> QED  BY <1>1 DEF Pending

\* A line that means something is told, or ends the stream untold.
LEMMA TellsMore ==
  ASSUME Reading, TreatLine, NEW k \in Nat, k = next, Tells(k - 1)
  PROVE  Tells(k)' \/ (pc' = "returned" /\ ~CanEmit /\ Tells(k - 1)')
  <1>1. /\ file \in Seq(Lines) /\ emitted \in Seq(Nat) /\ k \in Nat \ {0} /\ file' = file
        /\ k \in 1 .. Len(file)
    BY Whole DEF Reading, TreatLine, codexVars
  <1>2. /\ \A j \in DOMAIN emitted : emitted[j] \in 1 .. k - 1 /\ Means(file[emitted[j]])
        /\ \A i \in 1 .. k - 1 : Means(file[i]) => \E j \in DOMAIN emitted : emitted[j] = i
        /\ \A i, j \in DOMAIN emitted : i < j => emitted[i] < emitted[j]
    <2>1. {emitted[j] : j \in DOMAIN emitted} = {i \in 1 .. k - 1 : Means(file[i])}
          /\ \A i, j \in DOMAIN emitted : i < j => emitted[i] < emitted[j]
      BY DEF Tells
    <2> QED  BY <2>1
  <1>3. CASE ~Means(file[k])
    <2>1. emitted' = emitted /\ {i \in 1 .. k : Means(file[i])} = {i \in 1 .. k - 1 : Means(file[i])}
      BY <1>1, <1>3 DEF TreatLine
    <2> QED  BY <1>1, <2>1 DEF Tells, Means
  <1>4. CASE Means(file[k]) /\ ~CanEmit
    <2>1. emitted' = emitted /\ pc' = "returned"
      BY <1>4 DEF TreatLine, Fails
    <2> QED  BY <1>1, <1>4, <2>1 DEF Tells, Means
  <1>5. CASE Means(file[k]) /\ CanEmit
    <2>1. emitted' = Append(emitted, k)
      BY <1>5 DEF TreatLine
    <2>2. /\ Len(emitted) \in Nat /\ DOMAIN emitted = 1 .. Len(emitted)
          /\ DOMAIN emitted' = 1 .. Len(emitted) + 1
          /\ \A j \in 1 .. Len(emitted) : emitted'[j] = emitted[j]
          /\ emitted'[Len(emitted) + 1] = k
      BY <1>1, <2>1
    <2>n. /\ Len(emitted) + 1 \in DOMAIN emitted' /\ DOMAIN emitted \subseteq DOMAIN emitted'
          /\ \A j \in DOMAIN emitted' : j \in DOMAIN emitted \/ j = Len(emitted) + 1
      BY <2>2
    <2>3. ASSUME NEW j \in DOMAIN emitted'
          PROVE  emitted'[j] \in 1 .. k /\ Means(file[emitted'[j]])
      <3>1. CASE j \in DOMAIN emitted
        <4>1. emitted'[j] = emitted[j]
          BY <2>2, <3>1
        <4> QED  BY <1>1, <1>2, <3>1, <4>1
      <3>2. CASE j = Len(emitted) + 1
        BY <1>1, <1>5, <2>2, <3>2
      <3> QED  BY <2>n, <3>1, <3>2
    <2>4. ASSUME NEW i \in 1 .. k, Means(file[i])
          PROVE  \E j \in DOMAIN emitted' : emitted'[j] = i
      <3>1. CASE i = k
        BY <2>2, <2>n, <3>1
      <3>2. CASE i \in 1 .. k - 1
        <4>1. PICK j \in DOMAIN emitted : emitted[j] = i
          BY <1>2, <2>4, <3>2
        <4> QED  BY <2>2, <2>n, <4>1
      <3> QED  BY <1>1, <3>1, <3>2
    <2>5. {emitted'[j] : j \in DOMAIN emitted'} = {i \in 1 .. k : Means(file[i])}
      BY <2>3, <2>4
    <2>6. ASSUME NEW i \in DOMAIN emitted', NEW j \in DOMAIN emitted', i < j
          PROVE  emitted'[i] < emitted'[j]
      <3>1. i \in DOMAIN emitted /\ emitted'[i] = emitted[i] /\ emitted[i] \in Nat /\ emitted[i] < k
        BY <1>1, <1>2, <2>2, <2>6
      <3>2. CASE j \in DOMAIN emitted
        BY <1>2, <2>2, <2>6, <3>1, <3>2
      <3>3. CASE j = Len(emitted) + 1
        BY <2>2, <3>1, <3>3
      <3> QED  BY <2>n, <3>2, <3>3
    <2> QED  BY <1>1, <2>5, <2>6 DEF Tells, Means
  <1> QED  BY <1>3, <1>4, <1>5

\* A line that cannot be read means nothing, so with it no more is told.
LEMMA UnreadableMeansNothing ==
  ASSUME NEW n \in 1 .. Len(file), Unreadable(file[n]), Tells(n - 1)
  PROVE  Tells(n)
  <1>1. ~Means(file[n])
    BY DEF Unreadable, Means
  <1>2. {i \in 1 .. n : Means(file[i])} = {i \in 1 .. n - 1 : Means(file[i])}
    BY <1>1
  <1> QED  BY <1>2 DEF Tells

\* The stream returns for one of these reasons, and Report says so.
ReturnStep ==
    \/ pc' \notin {"returned", "done"} /\ pc \notin {"returned", "done"}
    \/ /\ pc \in {"returned", "done"} /\ pc' \in {"returned", "done"}
       /\ UNCHANGED <<failed, announced, final>>
    \/ failed' # "no" /\ ~announced /\ UNCHANGED <<announced, final>>
    \/ ReadFails
    \/ Read
    \/ TreatLine
    \/ GiveUpLooking
    \/ EndOfFile

\* Every step stays on its side of the return, or is one of those that return.
LEMMA ReturnSteps ==
  ASSUME Following, RolloutNext
  PROVE  ReturnStep
  BY DEF Following, RolloutNext, Stream, Poll, Cease, Surroundings, Codex, Correlate, Exit,
     CreateRollout, BeginLine, EndLine, StopStream, Interrupt, BreakSink, Report,
     ReadForTheLastTime, Look, LookAgain, Check, Announce, NoLineLeft, Tick,
     GoTo, Return, streamVars, ReturnStep

\* Telling is inductive: the one step that emits is TreatLine.
LEMMA TellingKeeps ==
  ASSUME Following, Following', Reading, Reading', Telling, RolloutNext
  PROVE  Telling'
  <1>f. FileStep /\ ReadStep /\ ReturnStep
    BY FileSteps, ReadSteps, ReturnSteps
  <1>0. file' = file \/ \E l \in Lines : file' = Append(file, l)
    BY <1>f DEF FileStep
  <1>1. CASE TreatLine
    <2>1. Tells(next - 1) /\ next \in 1 .. Len(file) /\ file' = file /\ next' = next + 1
      BY <1>1, Whole DEF TreatLine, Telling, codexVars, Reading
    <2>2. PICK k \in Nat : k = next
      BY DEF Reading
    <2>3. Tells(k)' \/ (pc' = "returned" /\ Tells(k - 1)')
      BY <1>1, <2>1, <2>2, TellsMore
    <2>4. k = next' - 1 /\ k \in 0 .. Len(file') /\ k - 1 \in 0 .. Len(file')
      BY <2>1, <2>2 DEF Reading
    <2> QED  BY <2>3, <2>4 DEF Telling
  <1>2. CASE ~TreatLine
    <2>1. emitted' = emitted /\ next' = next
      BY <1>2, <1>f DEF ReadStep, Read
    <2>2. PICK n \in 0 .. Len(file) : Tells(n) /\ (pc \in {"returned", "done"} \/ n = next - 1)
      BY Whole DEF Telling
    <2>3. Tells(n)' /\ n \in 0 .. Len(file')
      BY <1>0, <2>1, <2>2, TellsStays
    <2>4. pc \in {"returned", "done"} => pc' \in {"returned", "done"}
      BY DEF Following, RolloutNext, Stream, Poll, Cease, Surroundings, Codex, Correlate, Exit,
         CreateRollout, BeginLine, EndLine, StopStream, Interrupt, BreakSink, Report, GiveUpLooking,
         ReadForTheLastTime, Look, LookAgain, Check, Announce, Read, ReadFails, EndOfFile,
         NoLineLeft, Tick, TreatLine, GoTo, Return, streamVars
    <2> QED  BY <2>1, <2>2, <2>3, <2>4 DEF Telling
  <1> QED  BY <1>1, <1>2

\* A poll that returns has failed before the final read; a final read that returns
\* has told all, or has stopped.
LEMMA ReadReturns ==
  ASSUME Following, Following', Reading, Cancelling, Telling, RolloutNext,
         ReadFails \/ Read \/ TreatLine, pc' \in {"returned", "done"}
  PROVE  Returned'
  <1>1. /\ pc' = "returned" /\ UNCHANGED <<codexVars, sinkVars>> /\ UNCHANGED <<announced, final>>
        /\ pc \notin {"returned", "done"}
    BY DEF ReadFails, Read, TreatLine, Return
  <1>2. failed' # "no"
    BY DEF ReadFails, Read, TreatLine, Return, Fails
  <1>3. file' = file /\ cancelled' = cancelled /\ sinkBroken' = sinkBroken
    BY <1>1 DEF codexVars, sinkVars
  <1>4. CASE ~final
    BY <1>1, <1>2, <1>4 DEF Returned
  <1>5. CASE final /\ cancelled = "interrupt"
    BY <1>3, <1>5 DEF Returned
  <1>6. CASE final /\ cancelled = "exit"
    <2>1. SUFFICES sinkBroken \/ Tells(Len(file))' \/ FinalReadStopped'
      BY <1>3, <1>6 DEF Returned
    <2>2. Tells(next - 1) /\ next - 1 \in 0 .. Len(file) /\ next \in Nat \ {0} /\ Len(file) \in Nat
      BY <1>1, Whole DEF Telling, Reading
    <2>3. CASE ReadFails
      BY <1>1, <1>6, <2>3 DEF ReadFails, Return, FinalReadStopped
    <2>4. CASE Read
      <3>1. emitted' = emitted
        BY <2>4 DEF Read
      <3>2. PartOf(next).kind = "long"
        BY <1>1, <2>4 DEF Read, TooLongAlready
      <3>3. CASE next - 1 = Len(file)
        <4>1. Tells(Len(file))
          BY <2>2, <3>3
        <4> QED  BY <1>3, <3>1, <4>1 DEF Tells
      <3>4. CASE next <= Len(file)
        <4>1. next \in 1 .. Len(file) /\ Unreadable(file[next])
          BY <2>2, <3>2, <3>4 DEF PartOf, Unreadable
        <4>2. Tells(next)
          BY <2>2, <4>1, UnreadableMeansNothing
        <4>3. Tells(next)' /\ next' = next
          BY <1>3, <2>4, <3>1, <4>2 DEF Tells, Read
        <4> QED  BY <1>1, <1>3, <1>6, <4>1, <4>3 DEF FinalReadStopped, Unreadable, Tells
      <3> QED  BY <2>2, <3>3, <3>4
    <2>5. CASE TreatLine
      <3>1. next \in 1 .. Len(file) /\ Fails(file[next])
        BY <1>1, <2>5, Whole DEF TreatLine
      <3>2. CASE Unreadable(file[next])
        <4>1. emitted' = emitted
          BY <2>5, <3>2 DEF TreatLine, Unreadable, Means
        <4>2. PICK k \in 1 .. Len(file) : k = next
          BY <3>1
        <4>3. Tells(k)
          BY <2>2, <3>2, <4>2, UnreadableMeansNothing
        <4>4. Tells(k)'
          BY <1>3, <4>1, <4>3 DEF Tells
        <4> QED  BY <1>1, <1>3, <1>6, <3>2, <4>2, <4>4 DEF FinalReadStopped, Unreadable
      <3>3. CASE ~Unreadable(file[next])
        BY <1>6, <3>1, <3>3 DEF Fails, CanEmit
      <3> QED  BY <3>2, <3>3
    <2> QED  BY <2>3, <2>4, <2>5
  <1> QED  BY <1>4, <1>5, <1>6 DEF Following, Cancelling

\* Returned is inductive: the final read is over at the end of the file, or stops.
LEMMA ReturnedKeeps ==
  ASSUME Following, Following', Reading, Cancelling, Cancelling', Telling, Returned, RolloutNext
  PROVE  Returned'
  <1>f. FileStep /\ ReadStep /\ ReturnStep
    BY FileSteps, ReadSteps, ReturnSteps
  <1>c. /\ cancelled = "interrupt" => cancelled' = "interrupt"
        /\ cancelled = "exit" => cancelled' = "exit" /\ exited
        /\ cancelled' \in {"no", "exit", "interrupt"}
        /\ sinkBroken => sinkBroken'
    BY DEF Following, Cancelling, RolloutNext, Stream, Poll, Cease, Surroundings, Codex, Correlate,
       Exit, CreateRollout, BeginLine, EndLine, StopStream, Interrupt, BreakSink, Report,
       GiveUpLooking, ReadForTheLastTime, Look, LookAgain, Check, Announce, Read, ReadFails,
       EndOfFile, NoLineLeft, Tick, TreatLine, sinkVars
  <1>1. CASE pc' \notin {"returned", "done"}
    BY <1>1 DEF Returned
  <1>2. CASE failed' # "no" /\ ~announced /\ UNCHANGED <<announced, final>>
    <2>1. ~final' \/ cancelled' = "exit" \/ cancelled' = "interrupt"
      BY <1>2, <1>c DEF Cancelling
    <2> QED  BY <1>2, <2>1 DEF Returned
  <1>3. CASE GiveUpLooking
    BY <1>3, <1>c DEF GiveUpLooking, Following, Returned, Return, sinkVars
  <1>4. CASE EndOfFile /\ pc' \in {"returned", "done"}
    <2>1. final /\ UNCHANGED <<codexVars, sinkVars>> /\ offset = Size /\ ~Pending /\ emitted' = emitted
          /\ pc = "read"
      BY <1>4 DEF EndOfFile, Reading, GoTo, Return
    <2>2. Tells(Len(file))
      <3>1. Tells(next - 1) /\ next - 1 = Len(file)
        BY <2>1, Whole DEF Telling
      <3> QED  BY <3>1
    <2>3. Tells(Len(file))'
      BY <2>1, <2>2 DEF Tells, codexVars
    <2> QED  BY <1>c, <2>1, <2>3 DEF Cancelling, Following, Returned, sinkVars
  <1>5. CASE /\ pc \in {"returned", "done"} /\ pc' \in {"returned", "done"}
             /\ UNCHANGED <<failed, announced, final>>
    <2>1. cancelled = "exit" => file' = file
      BY <1>c, <1>f DEF FileStep
    <2>2. emitted' = emitted
      BY <1>5, <1>f DEF ReadStep, Read, TreatLine
    <2>3. cancelled = "exit" /\ Tells(Len(file)) => Tells(Len(file))'
      BY <2>1, <2>2 DEF Tells
    <2>4. cancelled = "exit" /\ FinalReadStopped => FinalReadStopped'
      BY <1>5, <2>1, <2>2 DEF FinalReadStopped, Tells
    <2> QED  BY <1>5, <1>c, <2>3, <2>4 DEF Returned
  <1>6. CASE (ReadFails \/ Read \/ TreatLine) /\ pc' \in {"returned", "done"}
    BY <1>6, ReadReturns
  <1> QED  BY <1>1, <1>2, <1>3, <1>4, <1>5, <1>6, <1>f DEF ReturnStep

\* Told is inductive: stopEventStream records the error or knows why not.
LEMMA ToldKeeps ==
  ASSUME Told, RolloutNext
  PROVE  Told'
  <1>1. CASE Report
    BY <1>1 DEF Report, Told
  <1>2. CASE ~Report
    <2>1. pc' = "done" => pc = "done" /\ UNCHANGED <<failed, diagnosed>>
      BY <1>2 DEF RolloutNext, Stream, Poll, Cease, Surroundings, Codex, Correlate,
         Exit, CreateRollout, BeginLine, EndLine, StopStream, Interrupt, BreakSink,
         GiveUpLooking, ReadForTheLastTime, Look, LookAgain, Check, Announce, Read, ReadFails,
         EndOfFile, NoLineLeft, Tick, TreatLine, GoTo, Return, streamVars, sinkVars
    <2>2. pc' = "done" => (sinkBroken => sinkBroken') /\ (cancelled # "no" => cancelled' # "no")
      BY <1>2 DEF RolloutNext, Stream, Poll, Cease, Surroundings, Codex, Correlate,
         Exit, CreateRollout, BeginLine, EndLine, StopStream, Interrupt, BreakSink,
         GiveUpLooking, ReadForTheLastTime, Look, LookAgain, Check, Announce, Read, ReadFails,
         EndOfFile, NoLineLeft, Tick, TreatLine, GoTo, Return, streamVars, sinkVars
    <2> QED  BY <2>1, <2>2 DEF Told
  <1> QED  BY <1>1, <1>2

\* The invariant of the stream is inductive.
LEMMA RolloutKeeps ==
  ASSUME RolloutInv, RolloutNext
  PROVE  RolloutInv'
  BY FollowingKeeps, ReadingKeeps, CancellingKeeps, TellingKeeps, ReturnedKeeps, ToldKeeps
     DEF RolloutInv

\* A stream starts before its first look, with nothing told.
LEMMA RolloutStarts == RolloutInit => RolloutInv
  <1> SUFFICES ASSUME RolloutInit PROVE RolloutInv
    OBVIOUS
  <1> USE DEF RolloutInit
  <1>1. Following /\ Cancelling /\ Returned /\ Told
    BY DEF Following, Cancelling, Returned, Told
  <1>2. Reading
    BY DEF Reading, Size, Pending
  <1>3. Tells(0)
    BY DEF Tells
  <1> QED  BY <1>1, <1>2, <1>3 DEF RolloutInv, Telling

---------------------------------------------------------------------------
(* Paths.                                                                  *)

\* Everything between a path and the root, the root included.
PathTo(n) == IF n = Root THEN {Root} ELSE {Root, n} \cup Ancestors[n]

\* Ancestors[n] is the least of the sets that UpTo describes.
LEMMA AncestorsAre ==
  ASSUME NEW n \in Nodes
  PROVE  /\ Ancestors[n] \subseteq Nodes /\ UpTo(n, Ancestors[n])
         /\ \A S \in SUBSET Nodes : UpTo(n, S) => Ancestors[n] \subseteq S
  <1>1. Ancestors[n] = {m \in Nodes : \A S \in SUBSET Nodes : UpTo(n, S) => m \in S}
    BY DEF Ancestors
  <1>2. \A m \in Ancestors[n] \cup {n} : Parent[m] \in Ancestors[n] \cup {Root}
    BY <1>1, TreeAssumption DEF UpTo, TreeAssumption
  <1> QED  BY <1>1, <1>2 DEF UpTo

\* What is above a directory above n is above n.
LEMMA AncestorsNest ==
  ASSUME NEW n \in Nodes, NEW m \in Ancestors[n]
  PROVE  Ancestors[m] \subseteq Ancestors[n]
  BY AncestorsAre DEF UpTo

\* Ancestors, one step up.
LEMMA AncestorsStep ==
  ASSUME NEW n \in Nodes
  PROVE  IF Parent[n] = Root THEN Ancestors[n] = {}
         ELSE Ancestors[n] = {Parent[n]} \cup Ancestors[Parent[n]]
  <1>1. CASE Parent[n] = Root
    <2>1. UpTo(n, {})
      BY <1>1 DEF UpTo
    <2> QED  BY <1>1, <2>1, AncestorsAre
  <1>2. CASE Parent[n] # Root
    <2>1. Parent[n] \in Nodes
      BY <1>2, TreeAssumption DEF TreeAssumption
    <2>2. {Parent[n]} \cup Ancestors[Parent[n]] \subseteq Nodes
          /\ UpTo(n, {Parent[n]} \cup Ancestors[Parent[n]])
      BY <2>1, AncestorsAre DEF UpTo
    <2>3. Parent[n] \in Ancestors[n]
      BY <1>2, AncestorsAre DEF UpTo
    <2> QED  BY <1>2, <2>2, <2>3, AncestorsAre, AncestorsNest
  <1> QED  BY <1>1, <1>2

\* No path is above itself: going up leads to the root.
LEMMA NoCycles ==
  ASSUME NEW n \in Nodes
  PROVE  n \notin Ancestors[n]
  <1> DEFINE S == {m \in Nodes : n \in Ancestors[m]}
  <1>1. \A m \in S : Parent[m] \in S \/ Parent[m] = n
    <2> TAKE m \in S
    <2>1. Parent[m] # Root
      BY AncestorsStep
    <2>2. Parent[m] \in Nodes
      BY <2>1, TreeAssumption DEF TreeAssumption
    <2> QED  BY <2>1, <2>2, AncestorsStep
  <1>2. n \in S => S # {} /\ \A m \in S : Parent[m] \in S
    BY <1>1
  <1> QED  BY <1>2, RootAssumption DEF RootAssumption

\* The way down from a directory to a path below it begins with one of its entries.
LEMMA WayDown ==
  ASSUME NEW n \in Nodes, NEW d \in PathTo(n), d # n
  PROVE  \E c \in Children(d) : c \in Ancestors[n] \cup {n}
  <1>a. Ancestors[n] \subseteq Nodes /\ UpTo(n, Ancestors[n])
    BY AncestorsAre
  <1>n. n # Root
    BY TreeAssumption DEF TreeAssumption
  <1>1. CASE d = Root
    <2>1. PICK c \in Ancestors[n] \cup {n} : Parent[c] \notin Ancestors[n] \cup {n}
      BY <1>a, RootAssumption DEF RootAssumption
    <2> QED  BY <1>1, <1>a, <2>1 DEF UpTo, Children
  <1>2. CASE d # Root
    <2>1. d \in Ancestors[n]
      BY <1>2, <1>n DEF PathTo
    <2>2. SUFFICES ASSUME \A c \in Ancestors[n] \cup {n} : Parent[c] # d
                   PROVE  FALSE
      BY <1>a DEF Children
    <2>3. UpTo(n, Ancestors[n] \ {d})
      BY <1>a, <2>2 DEF UpTo
    <2> QED  BY <1>a, <2>1, <2>3, AncestorsAre
  <1> QED  BY <1>1, <1>2

\* What is on the way to a directory is a directory.
LEMMA DirsAbove ==
  ASSUME NEW t \in Trees, NEW n \in Nodes, t[n] # "absent", NEW m \in Ancestors[n]
  PROVE  t[m] = "dir"
  <1> DEFINE S == {k \in Ancestors[n] : t[k] = "dir"}
  <1>1. \A k \in S \cup {n} : Parent[k] \in S \cup {Root}
    BY AncestorsAre DEF UpTo, Trees, IsDir
  <1>2. S \in SUBSET Nodes /\ UpTo(n, S)
    BY <1>1, AncestorsAre DEF UpTo
  <1> QED  BY <1>2, AncestorsAre

---------------------------------------------------------------------------
(* The watcher.                                                            *)

\* The directories that are part of the workspace.
Kept(t) == {d \in Nodes : t[d] = "dir" /\ (Ancestors[d] \cup {d}) \cap IgnoredDirs = {}}

\* The directories of the visible tree, without the tree.
LEMMA VisibleAre ==
  ASSUME tree \in Trees
  PROVE  VisibleDirs = {Root} \cup Kept(tree)
  <1>1. ASSUME NEW n \in Nodes
        PROVE  Visible(tree)[n] = "dir" <=> n \in Kept(tree)
    <2>1. CASE tree[n] # "dir"
      BY <2>1 DEF Visible, Kept
    <2>2. CASE tree[n] = "dir"
      <3>1. \A m \in Ancestors[n] \cup {n} : IsDir(tree, m) = TRUE
        BY <2>2, DirsAbove DEF IsDir
      <3>2. (\E m \in Ancestors[n] \cup {n} : Match(m, IsDir(tree, m)))
            <=> (Ancestors[n] \cup {n}) \cap IgnoredDirs # {}
        BY <3>1 DEF Match
      <3> QED  BY <2>2, <3>2 DEF Visible, Kept
    <2> QED  BY <2>1, <2>2
  <1>2. Kept(tree) \subseteq Nodes
    BY DEF Kept
  <1> QED  BY <1>1, <1>2 DEF VisibleDirs

\* A step of the walk that will come to directory d. A listing does not add the
\* directory that it lists.
Reaches(step, d) == step.dir \in PathTo(d) /\ (step.do = "add" \/ step.dir # d)

Leads(steps, d) == \E i \in DOMAIN steps : Reaches(steps[i], d)

\* A notification, or the walk, will have directory d watched.
Promised(d) ==
    \/ \E i \in DOMAIN queue : queue[i].created /\ queue[i].node \in PathTo(d)
    \/ Leads(walk, d)

Seen(d) == d \in watched \/ Promised(d) \/ overflow \/ error \/ reported \/ loop = "over"

Notes == [node : Nodes, created : BOOLEAN]
Walks == [do : {"add", "list"}, dir : Nodes \cup {Root}]

Watching ==
    /\ tree \in Trees
    /\ queue \in Seq(Notes) /\ walk \in Seq(Walks)
    /\ watcher \in {"creating", "idle", "walking", "unavailable"}
    /\ watcher \in {"idle", "unavailable"} => walk = <<>>
    /\ watcher = "creating" => loop = "waiting" /\ error = FALSE /\ reported = FALSE

NothingUnseen == watcher # "unavailable" => \A d \in {Root} \cup Kept(tree) : Seen(d)

\* A change makes directories only where it is notified.
LEMMA Changes ==
  ASSUME World, tree \in Trees
  PROVE  \E n \in Nodes, new \in Trees, created \in BOOLEAN :
            /\ Happens(n, new, created)
            /\ \A d \in Nodes : new[d] = "dir" /\ tree[d] # "dir" =>
                  created = TRUE /\ n \in Ancestors[d] \cup {d}
  <1> PICK n \in Nodes : Write(n) \/ Delete(n) \/ Arrive(n)
    BY DEF World
  <1>1. CASE Write(n)
    BY <1>1 DEF Write, Happens, Trees
  <1>2. CASE Delete(n)
    BY <1>2 DEF Delete, Happens, Trees
  <1>3. CASE Arrive(n)
    <2>n. n # Root
      BY TreeAssumption DEF TreeAssumption
    <2>1. PICK t \in Trees : /\ \A m \in Nodes \ (Below(n) \cup {n}) : t[m] = tree[m]
                             /\ Happens(n, t, TRUE)
      BY <1>3 DEF Arrive
    <2>2. \A d \in Nodes : t[d] = "dir" /\ tree[d] # "dir" => n \in Ancestors[d] \cup {d}
      BY <2>1, <2>n DEF Below
    <2> QED  BY <2>1, <2>2
  <1> QED  BY <1>1, <1>2, <1>3

\* A change of the workspace makes no directory that goes unseen.
LEMMA ChangeIsSeen ==
  ASSUME World, Watching, NothingUnseen
  PROVE  NothingUnseen'
  <1>1. PICK n \in Nodes, new \in Trees, created \in BOOLEAN :
            /\ Happens(n, new, created)
            /\ \A d \in Nodes : new[d] = "dir" /\ tree[d] # "dir" =>
                  created = TRUE /\ n \in Ancestors[d] \cup {d}
    BY Changes DEF Watching
  <1>2. /\ tree' = new /\ watched' = {d \in watched : IsDir(new, d)}
        /\ UNCHANGED <<watcher, walk, error, reported, loop>>
    BY <1>1 DEF Happens, sourceVars, loopVars
  <1>3. \/ queue' = queue /\ overflow' = overflow /\ Parent[n] \notin watched
        \/ queue' = Append(queue, [node |-> n, created |-> created]) /\ overflow' = overflow
        \/ overflow' = TRUE /\ queue' = queue
    BY <1>1 DEF Happens
  <1>4. ASSUME NEW d \in Nodes \cup {Root}, Promised(d)
        PROVE  Promised(d)'
    <2>1. \A i \in DOMAIN queue : i \in DOMAIN queue' /\ queue'[i] = queue[i]
      <3>1. CASE queue' = queue
        BY <3>1
      <3>2. CASE queue' = Append(queue, [node |-> n, created |-> created])
        BY <3>2 DEF Watching
      <3> QED  BY <1>3, <3>1, <3>2
    <2> QED  BY <1>2, <1>4, <2>1 DEF Promised
  <1>5. SUFFICES ASSUME watcher # "unavailable", NEW d \in {Root} \cup Kept(new)
                 PROVE  Seen(d)'
    BY <1>2 DEF NothingUnseen
  <1>6. CASE d = Root \/ tree[d] = "dir"
    <2>1. Seen(d)
      BY <1>2, <1>5, <1>6 DEF NothingUnseen, Kept
    <2>2. d \in watched => d \in watched'
      BY <1>2, <1>5 DEF Kept, IsDir
    <2>3. Promised(d) => Promised(d)'
      BY <1>4, <1>5 DEF Kept
    <2> QED  BY <1>2, <1>3, <2>1, <2>2, <2>3 DEF Seen
  <1>7. CASE d \in Nodes /\ tree[d] # "dir"
    <2>n. d # Root /\ n # Root
      BY <1>7, TreeAssumption DEF TreeAssumption
    <2>1. created = TRUE /\ n \in Ancestors[d] \cup {d} /\ new[d] = "dir"
          /\ (Ancestors[d] \cup {d}) \cap IgnoredDirs = {}
      BY <1>1, <1>5, <1>7, <2>n DEF Kept
    <2>2. CASE queue' = Append(queue, [node |-> n, created |-> created])
      <3>1. /\ Len(queue) + 1 \in DOMAIN queue'
            /\ queue'[Len(queue) + 1] = [node |-> n, created |-> created]
        BY <2>2 DEF Watching
      <3> QED  BY <2>1, <2>n, <3>1 DEF Seen, Promised, PathTo
    <2>3. CASE Parent[n] \notin watched /\ overflow' = overflow /\ queue' = queue
      <3>1. Parent[n] \in {Root} \cup Kept(tree)
        <4> SUFFICES ASSUME Parent[n] # Root PROVE Parent[n] \in Kept(tree)
          OBVIOUS
        <4>1. Parent[n] \in Nodes /\ Ancestors[n] = {Parent[n]} \cup Ancestors[Parent[n]]
          BY TreeAssumption, AncestorsStep DEF TreeAssumption
        <4>2. Ancestors[n] \subseteq Ancestors[d]
          BY <1>7, <2>1, AncestorsNest
        <4>3. new[Parent[n]] = "dir"
          BY <1>7, <2>1, <4>1, <4>2, DirsAbove
        <4>4. n \notin Ancestors[Parent[n]] \cup {Parent[n]}
          BY <4>1, NoCycles
        <4> QED  BY <1>1, <2>1, <4>1, <4>2, <4>3, <4>4 DEF Kept
      <3>2. Seen(Parent[n])
        BY <1>5, <3>1 DEF NothingUnseen
      <3>3. PathTo(Parent[n]) \subseteq PathTo(d) /\ d \notin PathTo(Parent[n])
        <4>1. Parent[n] # Root => Parent[n] \in Nodes /\ Ancestors[n] = {Parent[n]} \cup Ancestors[Parent[n]]
          BY TreeAssumption, AncestorsStep DEF TreeAssumption
        <4>2. Ancestors[n] \subseteq Ancestors[d]
          BY <1>7, <2>1, AncestorsNest
        <4>3. d \notin Ancestors[d]
          BY <1>7, NoCycles
        <4> QED  BY <2>n, <4>1, <4>2, <4>3 DEF PathTo
      <3>4. Promised(Parent[n]) => Promised(d)'
        BY <1>2, <2>3, <3>3 DEF Promised, Leads, Reaches
      <3> QED  BY <1>2, <2>3, <3>2, <3>4 DEF Seen
    <2>4. CASE overflow' = TRUE
      BY <2>4 DEF Seen
    <2> QED  BY <1>3, <2>2, <2>3, <2>4
  <1> QED  BY <1>5, <1>6, <1>7 DEF Kept

\* A notification that is treated, and what it was about.
LEMMA EventIsSeen ==
  ASSUME HandleEvent, Watching, NothingUnseen
  PROVE  NothingUnseen'
  <1> DEFINE n == Head(queue).node
  <1>1. /\ queue # <<>> /\ queue' = Tail(queue) /\ walk = <<>> /\ watcher = "idle"
        /\ UNCHANGED <<watched, overflow, tree, reported, loop>>
    BY DEF HandleEvent, Watching, worldVars, loopVars
  <1>2. /\ Len(queue) \in Nat \ {0} /\ Head(queue) = queue[1] /\ queue[1] \in Notes
        /\ \A i \in DOMAIN queue : i = 1 \/ (i - 1 \in DOMAIN queue' /\ queue'[i - 1] = queue[i])
    BY <1>1 DEF Watching
  <1>3. SUFFICES ASSUME NEW d \in {Root} \cup Kept(tree) PROVE Seen(d)'
    BY <1>1 DEF NothingUnseen
  <1>4. Seen(d)
    BY <1>1, <1>3 DEF NothingUnseen
  <1>5. Promised(d) => Promised(d)' \/ (queue[1].created /\ n \in PathTo(d))
    <2> SUFFICES ASSUME Promised(d) PROVE Promised(d)' \/ (queue[1].created /\ n \in PathTo(d))
      OBVIOUS
    <2>1. PICK i \in DOMAIN queue : queue[i].created /\ queue[i].node \in PathTo(d)
      BY <1>1 DEF Promised, Leads
    <2>2. CASE i = 1
      BY <1>2, <2>1, <2>2
    <2>3. CASE i - 1 \in DOMAIN queue' /\ queue'[i - 1] = queue[i]
      BY <2>1, <2>3 DEF Promised
    <2> QED  BY <1>2, <2>2, <2>3
  <1>6. CASE SignalError
    BY <1>6 DEF SignalError, Seen
  <1>7. CASE Match(n, IsDir(tree, n)) /\ UNCHANGED sourceVars
    <2>1. n \notin PathTo(d)
      <3>1. n \in Nodes /\ n # Root /\ n \in IgnoredDirs
        BY <1>2, <1>7, TreeAssumption DEF Notes, Match, TreeAssumption
      <3> QED  BY <3>1 DEF PathTo, Kept
    <2> QED  BY <1>1, <1>4, <1>5, <1>7, <2>1 DEF Seen, sourceVars
  <1>8. CASE Head(queue).created /\ IsDir(tree, n) /\ walk' = <<[do |-> "add", dir |-> n]>>
             /\ UNCHANGED <<signal, error>>
    <2>1. n \in PathTo(d) => Promised(d)'
      BY <1>8 DEF Promised, Leads, Reaches
    <2> QED  BY <1>1, <1>4, <1>5, <1>8, <2>1 DEF Seen
  <1>9. CASE ~(Head(queue).created /\ IsDir(tree, n)) /\ Signal
    <2>1. queue[1].created => n \notin PathTo(d)
      <3>1. n \in Nodes /\ n # Root
        BY <1>2, TreeAssumption DEF Notes, TreeAssumption
      <3>2. n \in PathTo(d) => tree[n] = "dir"
        BY <1>3, <3>1, DirsAbove DEF PathTo, Kept, Watching
      <3> QED  BY <1>2, <1>9, <3>1, <3>2 DEF IsDir
    <2> QED  BY <1>1, <1>4, <1>5, <1>9, <2>1 DEF Seen, Signal
  <1> QED  BY <1>6, <1>7, <1>8, <1>9 DEF HandleEvent

\* What is left of a walk when first has come before what was behind its head.
Rest(first) == first \o Tail(walk)

\* A walk that is over has failed, and says so, or has kept its promises.
LEMMA WalkIsSeen ==
  ASSUME Watching, walk # <<>>, NEW first, GoOn(Rest(first)),
         UNCHANGED <<tree, queue, overflow>>, watched \subseteq watched',
         NEW d, Seen(d), Leads(walk, d) => d \in watched' \/ Leads(Rest(first), d)
  PROVE  Seen(d)'
  <1>1. CASE Rest(first) = <<>>
    <2>1. Walked(FALSE)
      BY <1>1 DEF GoOn
    <2>2. \/ error' = error /\ reported' = reported /\ loop' = loop
          \/ error = FALSE /\ reported = FALSE /\ loop # "over"
      <3>1. watcher = "creating" \/ watcher = "walking"
        BY DEF Watching
      <3> QED  BY <2>1, <3>1 DEF Walked, Signal, loopVars, Watching
    <2>3. ~Leads(Rest(first), d)
      BY <1>1 DEF Leads
    <2> QED  BY <2>2, <2>3 DEF Seen, Promised
  <1>2. CASE Rest(first) # <<>>
    <2>1. walk' = Rest(first) /\ UNCHANGED <<error, reported, loop>>
      BY <1>2 DEF GoOn, loopVars
    <2>2. Leads(Rest(first), d) => Leads(walk, d)'
      BY <2>1 DEF Leads
    <2> QED  BY <2>1, <2>2 DEF Seen, Promised
  <1> QED  BY <1>1, <1>2

\* A walk that fails ends in an error, or in no watcher at all.
LEMMA FailureIsSeen ==
  ASSUME Walked(TRUE)
  PROVE  NothingUnseen'
  BY DEF Walked, SignalError, NothingUnseen, Seen

\* The sequences of SetToSeqs(S) have every element of S.
LEMMA SeqsList ==
  ASSUME NEW S, IsFiniteSet(S), NEW order \in SetToSeqs(S)
  PROVE  order \in Seq(S) /\ \A x \in S : \E i \in DOMAIN order : order[i] = x
  <1>1. Cardinality(S) \in Nat /\ order \in [1 .. Cardinality(S) -> S]
        /\ \A i, j \in 1 .. Cardinality(S) : i # j => order[i] # order[j]
    BY FS_CardinalityType DEF SetToSeqs
  <1>2. order \in Injection(1 .. Cardinality(S), S)
    BY <1>1 DEF Injection, IsInjective
  <1>3. Cardinality(1 .. Cardinality(S)) = Cardinality(S)
    BY <1>1, FS_Interval
  <1>4. order \in Surjection(1 .. Cardinality(S), S)
    BY <1>2, <1>3, FS_Injection
  <1> QED  BY <1>1, <1>4 DEF Surjection

\* What is left of a walk has the new steps and all the old ones but the head.
LEMMA RestOfWalk ==
  ASSUME walk \in Seq(Walks), walk # <<>>, NEW first \in Seq(Walks)
  PROVE  /\ Rest(first) \in Seq(Walks)
         /\ walk[1] = Head(walk) /\ Head(walk) \in Walks
         /\ \A i \in DOMAIN first : \E j \in DOMAIN Rest(first) : Rest(first)[j] = first[i]
         /\ \A i \in DOMAIN walk : i = 1 \/ \E j \in DOMAIN Rest(first) : Rest(first)[j] = walk[i]
  <1> DEFINE rest == Rest(first)
  <1>1. /\ Tail(walk) \in Seq(Walks) /\ walk[1] = Head(walk) /\ Head(walk) \in Walks
        /\ \A i \in DOMAIN walk :
             i = 1 \/ (i - 1 \in DOMAIN Tail(walk) /\ Tail(walk)[i - 1] = walk[i])
    OBVIOUS
  <1>2. ASSUME NEW i \in DOMAIN first
        PROVE  \E j \in DOMAIN rest : rest[j] = first[i]
    <2>1. i \in DOMAIN rest /\ rest[i] = first[i]
      BY <1>1 DEF Rest
    <2> QED  BY <2>1
  <1>3. ASSUME NEW i \in DOMAIN walk, i # 1
        PROVE  \E j \in DOMAIN rest : rest[j] = walk[i]
    <2>1. i - 1 \in DOMAIN Tail(walk) /\ Tail(walk)[i - 1] = walk[i]
      BY <1>1, <1>3
    <2>2. Len(first) + (i - 1) \in DOMAIN rest /\ rest[Len(first) + (i - 1)] = Tail(walk)[i - 1]
      BY <1>1, <2>1 DEF Rest
    <2> QED  BY <2>1, <2>2
  <1>4. rest \in Seq(Walks)
    BY <1>1 DEF Rest
  <1> QED  BY <1>1, <1>2, <1>3, <1>4

\* What leads to a directory is the head of the walk or is still there.
LEMMA RestLeads ==
  ASSUME walk \in Seq(Walks), walk # <<>>, NEW first \in Seq(Walks), NEW d, Leads(walk, d)
  PROVE  Reaches(Head(walk), d) \/ Leads(Rest(first), d)
  <1>1. PICK i \in DOMAIN walk : Reaches(walk[i], d)
    BY DEF Leads
  <1>2. CASE i = 1
    BY <1>1, <1>2, RestOfWalk
  <1>3. CASE i # 1
    <2>1. \E j \in DOMAIN Rest(first) : Rest(first)[j] = walk[i]
      BY <1>3, RestOfWalk
    <2> QED  BY <1>1, <2>1 DEF Leads
  <1> QED  BY <1>2, <1>3

\* What leads to a directory still does in front of the rest of the walk.
LEMMA FirstLeads ==
  ASSUME walk \in Seq(Walks), walk # <<>>, NEW first \in Seq(Walks), NEW d, Leads(first, d)
  PROVE  Leads(Rest(first), d)
  <1>1. PICK i \in DOMAIN first : Reaches(first[i], d)
    BY DEF Leads
  <1>2. \E j \in DOMAIN Rest(first) : Rest(first)[j] = first[i]
    BY RestOfWalk
  <1> QED  BY <1>1, <1>2 DEF Leads

\* A directory that is watched is listed next.
LEMMA ListLeads ==
  ASSUME NEW dir \in Nodes \cup {Root}, NEW d
  PROVE  /\ ToList(dir) \in Seq(Walks)
         /\ dir \in PathTo(d) /\ dir # d => Leads(ToList(dir), d)
  <1>1. [do |-> "list", dir |-> dir] \in Walks
    BY DEF Walks
  <1> QED  BY <1>1 DEF ToList, Leads, Reaches

\* The directories below a listed one are watched next.
Adds(order) == [i \in DOMAIN order |-> [do |-> "add", dir |-> order[i]]]

\* Adding the directories of S leads to every path through one of them.
LEMMA AddsLead ==
  ASSUME NEW S \in SUBSET Nodes, NEW order \in SetToSeqs(S)
  PROVE  /\ Adds(order) \in Seq(Walks)
         /\ \A d : S \cap PathTo(d) # {} => Leads(Adds(order), d)
  <1>1. IsFiniteSet(S)
    BY FS_Subset, TreeAssumption DEF TreeAssumption
  <1>2. order \in Seq(S) /\ \A n \in S : \E i \in DOMAIN order : order[i] = n
    BY <1>1, SeqsList
  <1>3. \A n \in S : [do |-> "add", dir |-> n] \in Walks
    BY DEF Walks
  <1>4. Adds(order) \in Seq(Walks)
    BY <1>2, <1>3 DEF Adds
  <1>5. ASSUME NEW d, NEW n \in S \cap PathTo(d) PROVE Leads(Adds(order), d)
    <2>1. PICK i \in DOMAIN order : order[i] = n
      BY <1>2
    <2> QED  BY <1>5, <2>1 DEF Adds, Leads, Reaches
  <1> QED  BY <1>4, <1>5

\* A directory that is added is watched, and what is below it is listed next.
LEMMA WatchIsSeen ==
  ASSUME AddWatch, Watching, NothingUnseen
  PROVE  NothingUnseen'
  <1> DEFINE dir == Head(walk).dir
  <1>1. /\ walk # <<>> /\ Head(walk).do = "add" /\ UNCHANGED <<tree, queue, overflow>>
        /\ walk \in Seq(Walks) /\ watcher # "unavailable" /\ dir \in Nodes \cup {Root}
    <2>1. /\ walk # <<>> /\ Head(walk).do = "add" /\ UNCHANGED <<tree, queue, overflow>>
          /\ walk \in Seq(Walks) /\ watcher # "unavailable"
      BY DEF AddWatch, worldVars, Watching
    <2>2. Head(walk) \in Walks
      BY <2>1
    <2> QED  BY <2>1, <2>2 DEF Walks
  <1> HIDE DEF dir
  <1>2. CASE Walked(TRUE)
    BY <1>2, FailureIsSeen
  <1>3. CASE /\ watched' = IF IsDir(tree, dir) THEN watched \cup {dir} ELSE watched
             /\ GoOn(Rest(ToList(dir)))
    <2>1. ToList(dir) \in Seq(Walks)
      BY <1>1, ListLeads
    <2>2. SUFFICES ASSUME NEW d \in {Root} \cup Kept(tree) PROVE Seen(d)'
      BY <1>1 DEF NothingUnseen
    <2>3. Seen(d)
      BY <1>1, <2>2 DEF NothingUnseen
    <2>4. IsDir(tree, d)
      BY <2>2 DEF IsDir, Kept
    <2>5. Leads(walk, d) => d \in watched' \/ Leads(Rest(ToList(dir)), d)
      <3> SUFFICES ASSUME Leads(walk, d) PROVE d \in watched' \/ Leads(Rest(ToList(dir)), d)
        OBVIOUS
      <3>1. CASE Leads(Rest(ToList(dir)), d)
        BY <3>1
      <3>2. CASE Reaches(Head(walk), d) /\ dir # d
        <4>1. Leads(ToList(dir), d)
          BY <1>1, <3>2, ListLeads DEF Reaches, dir
        <4> QED  BY <1>1, <2>1, <4>1, FirstLeads
      <3>3. CASE dir = d
        BY <1>3, <2>4, <3>3
      <3> QED  BY <1>1, <2>1, <3>1, <3>2, <3>3, RestLeads
    <2>6. watched \subseteq watched'
      BY <1>3
    <2> QED  BY <1>1, <1>3, <2>3, <2>5, <2>6, WalkIsSeen
  <1> QED  BY <1>2, <1>3 DEF AddWatch, Rest, dir

\* A directory that is listed has all below it added next.
LEMMA ListIsSeen ==
  ASSUME ListDir, Watching, NothingUnseen
  PROVE  NothingUnseen'
  <1> DEFINE dir == Head(walk).dir
             dirs == {n \in Children(dir) : tree[n] = "dir" /\ ~Match(n, TRUE)}
  <1>1. /\ walk # <<>> /\ Head(walk).do = "list"
        /\ UNCHANGED <<tree, queue, overflow, watched>>
        /\ walk \in Seq(Walks) /\ watcher # "unavailable"
    BY DEF ListDir, worldVars, libraryVars, Watching
  <1>2. CASE Walked(TRUE)
    BY <1>2, FailureIsSeen
  <1>3. ASSUME NEW order \in SetToSeqs(dirs), GoOn(Rest(Adds(order)))
        PROVE  NothingUnseen'
    <2>1. dirs \in SUBSET Nodes
      BY DEF Children
    <2>2. /\ Adds(order) \in Seq(Walks)
          /\ \A d : dirs \cap PathTo(d) # {} => Leads(Adds(order), d)
      <3> HIDE DEF dirs
      <3> QED  BY <1>3, <2>1, AddsLead
    <2>3. SUFFICES ASSUME NEW d \in {Root} \cup Kept(tree) PROVE Seen(d)'
      BY <1>1 DEF NothingUnseen
    <2>4. Seen(d)
      BY <1>1, <2>3 DEF NothingUnseen
    <2>5. Leads(walk, d) => Leads(Rest(Adds(order)), d)
      <3> SUFFICES ASSUME Leads(walk, d), Reaches(Head(walk), d) PROVE Leads(Adds(order), d)
        BY <1>1, <2>2, RestLeads, FirstLeads
      <3>1. dir \in PathTo(d) /\ dir # d
        BY <1>1 DEF Reaches
      <3>2. d \in Kept(tree)
        BY <2>3, <3>1 DEF PathTo
      <3>3. PICK c \in Children(dir) : c \in Ancestors[d] \cup {d}
        BY <3>1, <3>2, WayDown DEF Kept
      <3>4. tree[c] = "dir" /\ c \notin IgnoredDirs
        BY <3>2, <3>3, DirsAbove DEF Kept, Watching
      <3>5. c \in dirs /\ c \in PathTo(d)
        BY <3>2, <3>3, <3>4, TreeAssumption DEF Match, PathTo, TreeAssumption, Kept
      <3> QED  BY <2>2, <3>5
    <2> QED  BY <1>1, <1>3, <2>4, <2>5, WalkIsSeen
  <1> QED  BY <1>2, <1>3 DEF ListDir, Rest, Adds

\* The error of lost notifications becomes one of the watcher's.
LEMMA OverflowIsSeen ==
  ASSUME HandleOverflow, NothingUnseen
  PROVE  NothingUnseen'
  BY DEF HandleOverflow, NothingUnseen, Seen, Promised, SignalError, worldVars, loopVars

\* The loop takes an error and records it, or fails.
LEMMA CheckpointIsSeen ==
  ASSUME Checkpoint, NothingUnseen
  PROVE  NothingUnseen'
  <1>1. /\ UNCHANGED <<watched, queue, overflow, watcher, walk, tree>>
        /\ (error' = error /\ reported' = reported) \/ reported' = TRUE \/ loop' = "over"
        /\ loop' = "over" \/ loop # "over"
    BY DEF Checkpoint, BeginCapture, TakeSignal, TakeError, EndCapture, RecordArtifact,
           ReconcileFails, libraryVars, sourceVars, worldVars
  <1> QED  BY <1>1 DEF NothingUnseen, Seen, Promised

\* What the watcher works on is a list of notifications and a list of steps.
LEMMA WatchingKeeps ==
  ASSUME Watching, WatcherNext
  PROVE  Watching'
  <1>1. CASE World
    <2>1. PICK n \in Nodes, new \in Trees, created \in BOOLEAN : Happens(n, new, created)
      BY <1>1, Changes DEF Watching
    <2>2. tree' \in Trees /\ UNCHANGED <<walk, watcher, loop, error, reported>>
      BY <2>1 DEF Happens, sourceVars, loopVars
    <2>3. queue' = queue \/ queue' = Append(queue, [node |-> n, created |-> created])
      BY <2>1 DEF Happens
    <2>4. [node |-> n, created |-> created] \in Notes
      BY DEF Notes
    <2>5. queue' \in Seq(Notes)
      BY <2>3, <2>4 DEF Watching
    <2> QED  BY <2>2, <2>5 DEF Watching
  <1>2. CASE HandleEvent
    <2>1. /\ queue # <<>> /\ queue' = Tail(queue) /\ watcher = "idle" /\ walk = <<>>
          /\ UNCHANGED <<tree, loop, reported>>
      BY <1>2 DEF HandleEvent, worldVars, loopVars, Watching
    <2>2. queue' \in Seq(Notes)
      BY <2>1 DEF Watching
    <2>3. Head(queue).node \in Nodes
      <3>1. Head(queue) \in Notes
        BY <2>1 DEF Watching
      <3> QED  BY <3>1 DEF Notes
    <2>4. \/ watcher' = watcher /\ walk' = walk
          \/ watcher' = "walking" /\ walk' = <<[do |-> "add", dir |-> Head(queue).node]>>
      BY <1>2 DEF HandleEvent, sourceVars
    <2>5. walk' \in Seq(Walks)
      <3>1. [do |-> "add", dir |-> Head(queue).node] \in Walks
        BY <2>3 DEF Walks
      <3>2. <<[do |-> "add", dir |-> Head(queue).node]>> \in Seq(Walks)
        BY <3>1
      <3>3. walk \in Seq(Walks)
        BY DEF Watching
      <3> HIDE DEF Watching
      <3> QED  BY <2>4, <3>2, <3>3
    <2> QED  BY <2>1, <2>2, <2>4, <2>5 DEF Watching
  <1>3. CASE HandleOverflow
    BY <1>3 DEF HandleOverflow, Watching, worldVars, loopVars
  <1>4. ASSUME NEW first \in Seq(Walks), walk # <<>>, UNCHANGED <<tree, queue>>,
               GoOn(Rest(first)) \/ Walked(TRUE)
        PROVE  Watching'
    <2>1. Rest(first) \in Seq(Walks) /\ watcher \in {"creating", "walking"}
      BY <1>4, RestOfWalk DEF Watching
    <2>2. CASE Rest(first) # <<>> /\ GoOn(Rest(first))
      <3>1. walk' = Rest(first) /\ UNCHANGED <<watcher, loop, error, reported>>
        BY <2>2 DEF GoOn, loopVars
      <3> QED  BY <1>4, <2>1, <3>1 DEF Watching
    <2>3. ASSUME NEW how \in BOOLEAN, Walked(how) PROVE Watching'
      BY <1>4, <2>1, <2>3 DEF Walked, Watching
    <2> QED  BY <1>4, <2>2, <2>3 DEF GoOn
  <1>5. CASE AddWatch
    <2>1. walk # <<>> /\ UNCHANGED <<tree, queue>>
      BY <1>5 DEF AddWatch, worldVars
    <2>2. GoOn(Rest(ToList(Head(walk).dir))) \/ Walked(TRUE)
      BY <1>5 DEF AddWatch, Rest
    <2>3. Head(walk).dir \in Nodes \cup {Root}
      <3>1. Head(walk) \in Walks
        BY <2>1 DEF Watching
      <3> QED  BY <3>1 DEF Walks
    <2> QED  BY <1>4, <2>1, <2>2, <2>3, ListLeads
  <1>6. CASE ListDir
    <2>1. walk # <<>> /\ UNCHANGED <<tree, queue>>
      BY <1>6 DEF ListDir, worldVars, libraryVars
    <2>2. CASE Walked(TRUE)
      <3>1. <<>> \in Seq(Walks)
        OBVIOUS
      <3> QED  BY <1>4, <2>1, <2>2, <3>1
    <2>3. ASSUME NEW S \in SUBSET Nodes, NEW order \in SetToSeqs(S), GoOn(Rest(Adds(order)))
          PROVE  Watching'
      BY <1>4, <2>1, <2>3, AddsLead
    <2>4. \A n : Children(n) \subseteq Nodes
      BY DEF Children
    <2> QED  BY <1>6, <2>2, <2>3, <2>4 DEF ListDir, Rest, Adds
  <1>7. CASE Checkpoint
    <2>1. UNCHANGED <<tree, queue, walk, watcher>> /\ loop # "waiting"
      BY <1>7 DEF Checkpoint, BeginCapture, TakeSignal, TakeError, EndCapture, RecordArtifact,
                  ReconcileFails, libraryVars, sourceVars, worldVars
    <2> QED  BY <2>1 DEF Watching
  <1> QED  BY <1>1, <1>2, <1>3, <1>5, <1>6, <1>7 DEF WatcherNext, Source

\* NothingUnseen is inductive.
LEMMA UnseenKeeps ==
  ASSUME Watching, NothingUnseen, WatcherNext
  PROVE  NothingUnseen'
  BY ChangeIsSeen, EventIsSeen, OverflowIsSeen, WatchIsSeen, ListIsSeen, CheckpointIsSeen
  DEF WatcherNext, Source

---------------------------------------------------------------------------
(* The artifacts.                                                          *)

\* Each path has a last artifact, or none.
ArtifactsHavePaths == DOMAIN artifacts = Nodes

\* A checkpoint leaves an artifact to record for every file that differs from the
\* last one, of which nothing was left, and is followed by another only behind them.
LEMMA ArtifactsKeep ==
  ASSUME Watching, ArtifactsTellTheFiles, ArtifactsHavePaths, [WatcherNext]_watcherVars
  PROVE  ArtifactsTellTheFiles' /\ ArtifactsHavePaths'
  <1> USE DEF ArtifactsTellTheFiles, ArtifactsHavePaths
  <1>1. CASE EndCapture
    <2>1. /\ UNCHANGED <<start, artifacts>> /\ pending = {}
          /\ pending' # {} => loop' = "recording"
      BY <1>1 DEF EndCapture, Publish, ToRecord, worldVars
    <2>2. CASE position' = position
      BY <2>1, <2>2
    <2>3. ASSUME NEW captured, Publish(captured), captured # position
          PROVE  ArtifactsTellTheFiles'
      BY <2>1, <2>3 DEF Publish, ToRecord, ArtifactDelta
    <2>4. position' = position \/ \E captured : captured # position /\ Publish(captured)
      BY <1>1 DEF EndCapture, Publish
    <2> QED  BY <2>1, <2>2, <2>3, <2>4
  <1>2. CASE RecordArtifact
    <2>1. PICK n \in pending : /\ artifacts' = [artifacts EXCEPT ![n] = position[n]]
                               /\ ToRecord(pending \ {n})
      BY <1>2 DEF RecordArtifact
    <2>2. UNCHANGED <<start, position>> /\ pending' = pending \ {n}
      BY <1>2, <2>1 DEF RecordArtifact, ToRecord, worldVars
    <2>3. DOMAIN artifacts' = DOMAIN artifacts
          /\ \A m \in Nodes : artifacts'[m] = IF m = n THEN position[m] ELSE artifacts[m]
      BY <2>1
    <2>4. pending' # {} => loop' = "recording"
      BY <2>1, <2>2 DEF ToRecord
    <2> QED  BY <2>1, <2>2, <2>3, <2>4
  <1>3. CASE ReconcileFails
    BY <1>3 DEF ReconcileFails, worldVars
  <1>4. CASE ~(EndCapture \/ RecordArtifact \/ ReconcileFails)
    <2>1. /\ UNCHANGED <<start, position, pending, artifacts>>
          /\ loop \in {"recording", "over"} => loop' = loop
      <3>1. CASE World
        <4>1. PICK n \in Nodes : Write(n) \/ Delete(n) \/ Arrive(n)
          BY <3>1 DEF World
        <4> QED  BY <4>1 DEF Write, Delete, Arrive, Happens, loopVars
      <3>2. CASE Source
        <4>1. watcher = "creating" => loop = "waiting"
          BY DEF Watching
        <4>2. watcher \notin {"creating", "walking"} => walk = <<>>
          BY DEF Watching
        <4> QED  BY <3>2, <4>1, <4>2 DEF Source, HandleEvent, HandleOverflow, AddWatch, ListDir,
                                      GoOn, Walked, loopVars, worldVars
      <3>3. CASE BeginCapture \/ TakeSignal \/ TakeError
        BY <3>3 DEF BeginCapture, TakeSignal, TakeError, worldVars
      <3> QED  BY <1>4, <3>1, <3>2, <3>3
               DEF WatcherNext, Checkpoint, watcherVars, worldVars, loopVars
    <2> QED  BY <2>1
  <1> QED  BY <1>1, <1>2, <1>3, <1>4

---------------------------------------------------------------------------
(* Both observers.                                                         *)

\* A watcher that is not to be had promises nothing.
WatcherInv == Watching /\ NothingUnseen

ObserversInv == StreamInv /\ WatcherInv /\ ArtifactsTellTheFiles /\ ArtifactsHavePaths

\* The invariant holds in the beginning, for either observer.
LEMMA ObserversStart ==
  ASSUME Init
  PROVE  ObserversInv
  <1>1. ArtifactsTellTheFiles /\ ArtifactsHavePaths
    BY DEF Init, WatcherInit, NoWatcher, ArtifactsTellTheFiles, ArtifactsHavePaths
  <1>2. CASE observer = "stream" /\ RolloutInit /\ NoWatcher
    <2>1. Watching
      BY <1>2, WatcherAssumption DEF NoWatcher, Watching, WatcherAssumption
    <2>2. NothingUnseen
      BY <1>2 DEF NoWatcher, NothingUnseen
    <2> QED  BY <1>1, <1>2, <2>1, <2>2, RolloutStarts DEF ObserversInv, StreamInv, WatcherInv
  <1>3. CASE observer = "watcher" /\ WatcherInit /\ NoStream
    <2>1. Watching
      <3>1. [do |-> "add", dir |-> Root] \in Walks
        BY DEF Walks
      <3> QED  BY <1>3, <3>1, WatcherAssumption DEF WatcherInit, Watching, WatcherAssumption
    <2>2. NothingUnseen
      <3> SUFFICES ASSUME NEW d \in {Root} \cup Kept(tree) PROVE Promised(d)
        BY DEF NothingUnseen, Seen
      <3>1. walk[1] = [do |-> "add", dir |-> Root] /\ 1 \in DOMAIN walk
        BY <1>3 DEF WatcherInit
      <3>2. Root \in PathTo(d)
        BY DEF PathTo
      <3> QED  BY <3>1, <3>2 DEF Promised, Leads, Reaches
    <2> QED  BY <1>1, <1>3, <2>1, <2>2 DEF ObserversInv, StreamInv, WatcherInv
  <1> QED  BY <1>2, <1>3 DEF Init

\* A step of one observer keeps its invariant, and leaves the other alone.
LEMMA ObserversKeep ==
  ASSUME ObserversInv, [Next]_observersVars
  PROVE  ObserversInv'
  <1> USE DEF ObserversInv
  <1>1. CASE observer = "stream" /\ RolloutNext /\ UNCHANGED <<observer, watcherVars>>
    <2>1. StreamInv'
      BY <1>1, RolloutKeeps DEF StreamInv
    <2>2. WatcherInv'
      BY <1>1 DEF WatcherInv, Watching, NothingUnseen, Seen, Promised,
                  watcherVars, worldVars, libraryVars, sourceVars, loopVars
    <2>3. ArtifactsTellTheFiles' /\ ArtifactsHavePaths'
      BY <1>1, ArtifactsKeep DEF WatcherInv
    <2> QED  BY <2>1, <2>2, <2>3
  <1>2. CASE observer = "watcher" /\ WatcherNext /\ UNCHANGED <<observer, rolloutVars>>
    <2>1. StreamInv'
      BY <1>2 DEF StreamInv, NoStream, rolloutVars, codexVars, streamVars, sinkVars
    <2>2. WatcherInv'
      BY <1>2, WatchingKeeps, UnseenKeeps DEF WatcherInv
    <2>3. ArtifactsTellTheFiles' /\ ArtifactsHavePaths'
      BY <1>2, ArtifactsKeep DEF WatcherInv
    <2> QED  BY <2>1, <2>2, <2>3
  <1>3. CASE UNCHANGED observersVars
    <2>1. UNCHANGED <<observer, rolloutVars, watcherVars>>
      BY <1>3 DEF observersVars
    <2>2. StreamInv'
      <3>1. UNCHANGED <<codexVars, streamVars, sinkVars>>
        BY <2>1 DEF rolloutVars
      <3>2. NoStream => NoStream'
        BY <3>1 DEF NoStream, codexVars, streamVars, sinkVars
      <3>3. Following /\ Cancelling /\ Told => (Following /\ Cancelling /\ Told)'
        BY <3>1 DEF Following, Cancelling, Told, codexVars, streamVars, sinkVars
      <3>4. Reading => Reading'
        BY <3>1 DEF Reading, Size, Pending, codexVars, streamVars, sinkVars
      <3>5. Telling /\ Returned => (Telling /\ Returned)'
        BY <3>1 DEF Telling, Returned, FinalReadStopped, Tells, codexVars, streamVars, sinkVars
      <3> QED  BY <2>1, <3>2, <3>3, <3>4, <3>5 DEF StreamInv, RolloutInv
    <2>3. WatcherInv'
      BY <2>1 DEF WatcherInv, Watching, NothingUnseen, Seen, Promised,
                  watcherVars, worldVars, libraryVars, sourceVars, loopVars
    <2>4. ArtifactsTellTheFiles' /\ ArtifactsHavePaths'
      BY <2>1, ArtifactsKeep DEF WatcherInv
    <2> QED  BY <2>2, <2>3, <2>4
  <1> QED  BY <1>1, <1>2, <1>3 DEF Next

\* The invariant holds in every reachable state.
LEMMA ObserversKept == Spec => []ObserversInv
  BY ObserversStart, ObserversKeep, PTL DEF Spec

---------------------------------------------------------------------------
(* The properties.                                                         *)

\* What is recorded of a transcript is always a prefix of what Codex wrote that
\* means something, behind its session, however its file was cut by the reads.
THEOREM TranscriptsArePrefixes == Spec => []TranscriptIsAPrefix
  <1>1. ASSUME StreamInv PROVE TranscriptIsAPrefix
    <2>1. CASE observer = "stream"
      <3>1. RolloutInv
        BY <1>1, <2>1 DEF StreamInv
      <3>2. emitted # <<>> => announced
        BY <3>1 DEF RolloutInv, Reading
      <3>3. pc \notin {"returned", "done"} => next - 1 \in 0 .. Len(file)
        BY <3>1 DEF RolloutInv, Reading, Size
      <3>4. \E n \in 0 .. Len(file) : Tells(n)
        BY <3>1, <3>3 DEF RolloutInv, Telling
      <3> QED  BY <3>2, <3>4 DEF TranscriptIsAPrefix
    <2>2. CASE observer # "stream"
      <3>1. emitted = <<>> /\ file = <<>>
        BY <1>1, <2>2 DEF StreamInv, NoStream
      <3>2. Tells(0) /\ 0 \in 0 .. Len(file)
        BY <3>1 DEF Tells
      <3> QED  BY <3>1, <3>2 DEF TranscriptIsAPrefix
    <2> QED  BY <2>1, <2>2
  <1> QED  BY <1>1, ObserversKept, PTL DEF ObserversInv

\* When the stream of a Codex that has exited is over, what it wrote and is missing
\* has a cause: a recorded error, a broken recording, an early cancellation, a
\* failure before the final read that the cancellation kept from being reported,
\* or a line at which the final read stopped, behind all that is told.
THEOREM LossesAreExplained == Spec => []LossIsExplained
  <1>1. ASSUME StreamInv PROVE LossIsExplained
    <2>1. CASE observer = "stream"
      <3>1. Following /\ Returned /\ Told
        BY <1>1, <2>1 DEF StreamInv, RolloutInv
      <3> QED  BY <3>1 DEF Following, Returned, Told, LossIsExplained
    <2>2. CASE observer # "stream"
      BY <1>1, <2>2 DEF StreamInv, NoStream, LossIsExplained
    <2> QED  BY <2>1, <2>2
  <1> QED  BY <1>1, ObserversKept, PTL DEF ObserversInv

\* No directory of the workspace is overlooked by a running watcher: it is watched,
\* something on its way will have it watched, or an error says that it may not be.
THEOREM BlindSpotsAreReported == Spec => []NoUnreportedBlindSpot
  <1>1. ASSUME WatcherInv PROVE NoUnreportedBlindSpot
    <2>1. SUFFICES ASSUME watcher \in {"idle", "walking"}, NEW d \in VisibleDirs
                   PROVE  \/ d \in watched \/ OnItsWay(d)
                          \/ error \/ overflow \/ reported \/ loop = "over"
      BY DEF NoUnreportedBlindSpot
    <2>2. d \in {Root} \cup Kept(tree)
      BY <1>1, <2>1, VisibleAre DEF WatcherInv, Watching
    <2>3. Seen(d)
      BY <1>1, <2>1, <2>2 DEF WatcherInv, NothingUnseen
    <2>4. {Root, d} \cup (IF d = Root THEN {} ELSE Ancestors[d]) = PathTo(d)
      BY DEF PathTo
    <2>5. Promised(d) => OnItsWay(d)
      BY <2>4 DEF Promised, Leads, Reaches, OnItsWay
    <2> QED  BY <2>3, <2>5 DEF Seen
  <1> QED  BY <1>1, ObserversKept, PTL DEF ObserversInv

\* Where a file is in the last checkpoint, the last artifact of its path has its
\* content, or the file was there from the start and none was recorded; it can only
\* be missing while the artifacts of that checkpoint are being recorded, or when
\* recording one has failed, behind which no checkpoint is published.
THEOREM ArtifactsAreTrue == Spec => []ArtifactsTellTheFiles
  BY ObserversKept, PTL DEF ObserversInv
=============================================================================
