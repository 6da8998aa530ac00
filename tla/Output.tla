------------------------------- MODULE Output -------------------------------
(***************************************************************************)
(* The log of one job (output/output.go): a buffer of lines that Execute   *)
(* and the two scanner goroutines of a shell step append to, a goroutine   *)
(* that flushes it to the log file every half second, and Done, which      *)
(* flushes the rest and closes the file.                                   *)
(*                                                                         *)
(* `o.buffer = append(o.buffer, line)` has no lock: it writes the element  *)
(* after the length it read, then stores the new header, in two steps.     *)
(* The buffer starts with room for 16 lines: as long as MaxLines is below, *)
(* every append writes into the same array.  A line is its number in the   *)
(* order the lines were written; LogParser.tla is about what they say.     *)
(***************************************************************************)
EXTENDS Naturals, SequencesExt

CONSTANTS
  Scanners, \* goroutines that write the output of a shell step
  MaxLines  \* bound: lines ever written

ASSUME ScannersAssumption == "main" \notin Scanners /\ IsFiniteSet(Scanners)
ASSUME LinesAssumption == MaxLines \in 1 .. 16

VARIABLES
  array,    \* the array under o.buffer
  length,   \* len(o.buffer)
  written,  \* history: how many lines have been written
  todo,     \* per writer, how many lines its call has still to append
  slot,     \* per writer, the index of the line it has put down without its header; 0 if none
  open,     \* TRUE while a stage has no end time
  stepped,  \* TRUE once a step has begun
  opened,   \* TRUE if initFile worked, so that o.f # nil
  file,     \* the lines in the log file; 0 is the last one, "[Job] Finished"
  fileCursor,
  flusher,  \* timedWriteFile: where it is, endIndex, the next line to write
  closer,   \* Done: where it is, the end of its slice, the next line to write
  finished  \* o.timeConsuming.Done

buffer == <<array, length, written, todo, slot>>
progress == <<open, stepped>>
disk == <<opened, file, fileCursor>>
outputVars == <<buffer, progress, disk, flusher, closer, finished>>

Writers == {"main"} \union Scanners

OutputInit ==
  /\ array = <<>> /\ length = 0 /\ written = 0
  /\ todo = [w \in Writers |-> IF w = "main" THEN 1 ELSE 0]
  /\ slot = [w \in Writers |-> 0]
  /\ open = FALSE /\ stepped = FALSE
  /\ opened \in BOOLEAN /\ file = <<>> /\ fileCursor = 0
  /\ flusher = [at |-> IF opened THEN "check" ELSE "end", endIndex |-> 0, next |-> 0]
  /\ closer = [at |-> "none", endIndex |-> 0, next |-> 0]
  /\ finished = FALSE

-----------------------------------------------------------------------------
(* Writing lines.                                                          *)

\* The lines the calls under way have still to append.
Pending == Cardinality({x \in Writers \X (1 .. MaxLines) : x[2] <= todo[x[1]]})
Room(lines) == written + Pending + lines <= MaxLines
Quiet(w) == todo[w] = 0
Say(w, lines) ==
  /\ Room(lines)
  /\ todo' = [todo EXCEPT ![w] = lines]
  /\ UNCHANGED <<array, length, written, slot>>

Running == Quiet("main") /\ closer.at = "none"

\* The stage before, if it is still open, gets its end time.
EndTime == IF open THEN 1 ELSE 0

\* An empty line, the stage's name and its start time.
NewStage ==
  /\ Running
  /\ Say("main", EndTime + 3)
  /\ open' = TRUE
  /\ UNCHANGED <<stepped, disk, flusher, closer, finished>>

NewStep ==
  /\ Running /\ open
  /\ Say("main", 1)
  /\ stepped' = TRUE
  /\ UNCHANGED <<open, disk, flusher, closer, finished>>

\* A step writes lines; a scanner may do so after the step has ended, and
\* after Done.
WriteLine(w) ==
  /\ stepped
  /\ IF w = "main" THEN Running ELSE Quiet(w)
  /\ Say(w, 1)
  /\ UNCHANGED <<progress, disk, flusher, closer, finished>>

AppendElement(w) ==
  /\ todo[w] # 0 /\ slot[w] = 0
  /\ array' = [i \in 1 .. (IF length < Len(array) THEN Len(array) ELSE length + 1) |->
                IF i = length + 1 THEN written + 1 ELSE array[i]]
  /\ slot' = [slot EXCEPT ![w] = length + 1]
  /\ written' = written + 1
  /\ UNCHANGED <<length, todo, progress, disk, flusher, closer, finished>>

AppendHeader(w) ==
  /\ slot[w] # 0
  /\ length' = slot[w]
  /\ slot' = [slot EXCEPT ![w] = 0]
  /\ todo' = [todo EXCEPT ![w] = @ - 1]
  /\ UNCHANGED <<array, written, progress, disk, flusher, closer, finished>>

-----------------------------------------------------------------------------
(* timedWriteFile.                                                         *)

\* The check of Done is made under the lock that Done holds.
FlushCheck ==
  /\ flusher.at = "check" /\ closer.at # "write"
  /\ flusher' = [flusher EXCEPT !.at = IF finished THEN "end" ELSE "look"]
  /\ UNCHANGED <<buffer, progress, disk, closer, finished>>

\* Fault: the goroutine leaves when there is nothing new.
FlushLookLeaves ==
  /\ flusher.at = "look"
  /\ flusher' = IF length <= flusher.endIndex
                  THEN [flusher EXCEPT !.at = "end"]
                  ELSE [at |-> "write", endIndex |-> length, next |-> fileCursor + 1]
  /\ UNCHANGED <<buffer, progress, disk, closer, finished>>

FlushLook ==
  /\ flusher.at = "look"
  /\ flusher' = IF length <= flusher.endIndex
                  THEN [flusher EXCEPT !.at = "check"]
                  ELSE [at |-> "write", endIndex |-> length, next |-> fileCursor + 1]
  /\ UNCHANGED <<buffer, progress, disk, closer, finished>>

\* One line, written outside the lock; a closed file ends the flush.
FlushWrite ==
  /\ flusher.at = "write" /\ flusher.next <= flusher.endIndex
  /\ IF closer.at = "closed"
       THEN file' = file /\ flusher' = [flusher EXCEPT !.next = flusher.endIndex + 1]
       ELSE /\ file' = Append(file, array[flusher.next])
            /\ flusher' = [flusher EXCEPT !.next = @ + 1]
  /\ UNCHANGED <<buffer, progress, opened, fileCursor, closer, finished>>

\* Fault: the cursor moves past lines not yet flushed.
FlushCursorLate ==
  /\ flusher.at = "write" /\ flusher.next > flusher.endIndex
  /\ fileCursor' = length
  /\ flusher' = [flusher EXCEPT !.at = "check"]
  /\ UNCHANGED <<buffer, progress, opened, file, closer, finished>>

FlushCursor ==
  /\ flusher.at = "write" /\ flusher.next > flusher.endIndex
  /\ fileCursor' = flusher.endIndex
  /\ flusher' = [flusher EXCEPT !.at = "check"]
  /\ UNCHANGED <<buffer, progress, opened, file, closer, finished>>

-----------------------------------------------------------------------------
(* Done.                                                                   *)

DoneBegin ==
  /\ Running
  /\ Say("main", EndTime)
  /\ open' = FALSE
  /\ closer' = [closer EXCEPT !.at = "lock"]
  /\ UNCHANGED <<stepped, disk, flusher, finished>>

\* `o.buffer[o.fileCursor:]` panics when racing appends have made the buffer
\* shorter than what is already flushed.
DonePanics == fileCursor > length

\* Fault: Done does not say that it is done.
DoneLockUnmarked ==
  /\ closer.at = "lock" /\ Quiet("main") /\ ~DonePanics
  /\ closer' = [at |-> "write", endIndex |-> length, next |-> fileCursor + 1]
  /\ UNCHANGED <<buffer, progress, disk, flusher, finished>>

DoneLock ==
  /\ closer.at = "lock" /\ Quiet("main") /\ ~DonePanics
  /\ finished' = TRUE
  /\ closer' = [at |-> "write", endIndex |-> length, next |-> fileCursor + 1]
  /\ UNCHANGED <<buffer, progress, disk, flusher>>

DonePanic ==
  /\ closer.at = "lock" /\ Quiet("main") /\ DonePanics
  /\ closer' = [closer EXCEPT !.at = "panic"]
  /\ UNCHANGED <<buffer, progress, disk, flusher, finished>>

\* flush does nothing when o.f is nil.
DoneWrite ==
  /\ closer.at = "write" /\ closer.next <= closer.endIndex
  /\ file' = IF opened THEN Append(file, array[closer.next]) ELSE file
  /\ closer' = [closer EXCEPT !.next = @ + 1]
  /\ UNCHANGED <<buffer, progress, opened, fileCursor, flusher, finished>>

DoneClose ==
  /\ closer.at = "write" /\ closer.next > closer.endIndex
  /\ file' = IF opened THEN Append(file, 0) ELSE file
  /\ closer' = [closer EXCEPT !.at = "closed"]
  /\ UNCHANGED <<buffer, progress, opened, fileCursor, flusher, finished>>

-----------------------------------------------------------------------------
Main ==
  \/ NewStage \/ NewStep
  \/ DoneBegin \/ DoneLock \/ DonePanic \/ DoneWrite \/ DoneClose
AppendLine(w) == AppendElement(w) \/ AppendHeader(w)
Flusher == FlushCheck \/ FlushLook \/ FlushWrite \/ FlushCursor

OutputNext ==
  \/ Main \/ Flusher
  \/ \E w \in Writers : WriteLine(w) \/ AppendLine(w)

\* The goroutines are scheduled; a call of Execute ends what it has begun, but
\* a step may take for ever.
OutputFairness ==
  /\ WF_outputVars(Flusher)
  /\ \A w \in Writers : WF_outputVars(AppendLine(w))
  /\ WF_outputVars(DoneLock) /\ WF_outputVars(DoneWrite) /\ WF_outputVars(DoneClose)

OutputSpec == OutputInit /\ [][OutputNext]_outputVars /\ OutputFairness

-----------------------------------------------------------------------------
(* Properties.                                                             *)

OutputTypeOK ==
  /\ written \in 0 .. MaxLines
  /\ array \in Seq(1 .. written) /\ file \in Seq(0 .. written)
  /\ length \in 0 .. Len(array)
  /\ todo \in [Writers -> 0 .. MaxLines] /\ slot \in [Writers -> 0 .. Len(array)]
  /\ {open, stepped, opened, finished} \subseteq BOOLEAN
  /\ fileCursor \in 0 .. Len(array)
  /\ flusher.at \in {"check", "look", "write", "end"}
  /\ closer.at \in {"none", "lock", "write", "closed", "panic"}
  /\ {flusher.endIndex, closer.endIndex} \subseteq 0 .. Len(array)

\* No two appends have overlapped: every line written has an element of its
\* own, in the buffer or taken for it.
NothingLost == written = length + Cardinality({slot[w] : w \in Writers} \ (0 .. length))

\* Until Done the log file holds the lines written so far, in their order,
\* each once, up to some point, as long as no two appends have overlapped.
FileIsPrefix == NothingLost /\ ~finished => \A i \in DOMAIN file : file[i] = i

\* As long as no two appends have overlapped, Done does not slice beyond the
\* end of the buffer, and no line it found there is missing from the closed
\* log: Done and the timed flush leave no gap between them, whichever comes
\* first.
NothingMissing ==
  NothingLost =>
    /\ closer.at # "panic"
    /\ opened /\ closer.at = "closed" => \A i \in 1 .. closer.endIndex : Contains(file, array[i])

\* All three: the types hold, the file is a prefix of what was written, and
\* after Done nothing is missing from it.
OutputInv == OutputTypeOK /\ FileIsPrefix /\ NothingMissing

\* The goroutine of a job's log ends after the job, it does not leak.
FlusherEnds == closer.at = "closed" ~> flusher.at = "end"

\* A line in the buffer is flushed while the job runs, without waiting for Done.
LinesAreFlushed == []<>(opened /\ ~finished => Len(file) >= length)

-----------------------------------------------------------------------------
(* What the comments of the code say and the code does not do.             *)

\* output.go:117: Done flushes what the buffer holds, and closes the file: a
\* closed log holds each line of the buffer once.
EachLineOnce ==
  opened /\ closer.at = "closed" => Len(file) = length + 1

\* output.go:143: WriteLine writes a line to the output.
LinesAreKept ==
  (\A w \in Writers : Quiet(w)) => length = written
=============================================================================
