------------------------------- MODULE Stream -------------------------------
(***************************************************************************)
(* StreamLines of internal/executor/stream.go: a process writes to a pipe, *)
(* a goroutine scans the lines into a bounded channel until nobody has the *)
(* pipe open for writing, then reports how the process ended and closes    *)
(* the channel.  The deadline of the context kills the process, but not    *)
(* those it has started, which may keep the pipe open.  There is one       *)
(* producer and one consumer, so lines are counted, not named.             *)
(***************************************************************************)
EXTENDS Integers

CONSTANTS Runs,     \* executions of a live command
          QueueCap, \* capacity of lines, 64
          MaxLines  \* bound on what a process writes

ASSUME QueueAssumption == QueueCap \in Nat \ {0} /\ MaxLines \in Nat

VARIABLES
  proc,     \* proc[r]: the process
  kept,     \* runs whose pipe a process that was started by proc keeps open
  written,  \* written[r]: lines that went into the pipe
  scanned,  \* scanned[r]: lines the scanner has read from it
  queued,   \* queued[r]: lines in the channel
  scanner,  \* scanner[r]: the goroutine; "closed" when the channel is closed
  errc,     \* errc[r]: what cmd.Wait has returned
  timedOut  \* runs whose context is done

process == <<proc, kept, written, timedOut>>
streamVars == <<process, scanned, queued, scanner, errc>>

StreamInit == /\ proc = [r \in Runs |-> "none"]
              /\ kept = {}
              /\ written = [r \in Runs |-> 0]
              /\ scanned = [r \in Runs |-> 0]
              /\ queued = [r \in Runs |-> 0]
              /\ scanner = [r \in Runs |-> "none"]
              /\ errc = [r \in Runs |-> "none"]
              /\ timedOut = {}

Closed(r, err) == /\ scanner' = [scanner EXCEPT ![r] = "closed"]
                  /\ errc' = [errc EXCEPT ![r] = err]

\* StreamLines: the pipe or the process cannot be had, or both are there.
StreamLines(r) ==
  /\ scanner[r] = "none"
  /\ \/ /\ Closed(r, "error")
        /\ UNCHANGED proc
     \/ /\ proc' = [proc EXCEPT ![r] = "running"]
        /\ scanner' = [scanner EXCEPT ![r] = "scan"]
        /\ UNCHANGED errc
  /\ UNCHANGED <<kept, written, scanned, queued, timedOut>>

-----------------------------------------------------------------------------
(* The process and its context.                                            *)

WriteLine(r) ==
  /\ proc[r] = "running" \/ r \in kept
  /\ written[r] < MaxLines
  /\ written' = [written EXCEPT ![r] = @ + 1]
  /\ UNCHANGED <<proc, kept, timedOut, scanned, queued, scanner, errc>>

Ends(r, how) ==
  /\ proc[r] = "running"
  /\ proc' = [proc EXCEPT ![r] = how]
  /\ kept' \in {kept, kept \union {r}}
  /\ UNCHANGED <<written, timedOut, scanned, queued, scanner, errc>>

Exit(r) == Ends(r, "zero") \/ Ends(r, "nonzero")

\* exec.CommandContext kills the process when its context is done.
Kill(r) == r \in timedOut /\ Ends(r, "nonzero")

\* The last process that has inherited the pipe ends.
Release(r) == /\ r \in kept
              /\ kept' = kept \ {r}
              /\ UNCHANGED <<proc, written, timedOut, scanned, queued, scanner,
                             errc>>

Expire(r) == /\ scanner[r] = "scan"
             /\ r \notin timedOut
             /\ timedOut' = timedOut \union {r}
             /\ UNCHANGED <<proc, kept, written, scanned, queued, scanner, errc>>

-----------------------------------------------------------------------------
(* The scanning goroutine; a line is shorter than bufio.MaxScanTokenSize.  *)

\* A full channel makes it drop the line instead of waiting.
ScanOrSkip(r) ==
  /\ scanner[r] = "scan"
  /\ scanned[r] < written[r]
  /\ scanned' = [scanned EXCEPT ![r] = @ + 1]
  /\ queued' = [queued EXCEPT ![r] = IF @ < QueueCap THEN @ + 1 ELSE @]
  /\ UNCHANGED <<process, scanner, errc>>

\* The select: once the context is done, a line may be dropped even if there
\* is room for it.
Scan(r) ==
  /\ scanner[r] = "scan"
  /\ scanned[r] < written[r]
  /\ scanned' = [scanned EXCEPT ![r] = @ + 1]
  /\ \/ /\ queued[r] < QueueCap
        /\ queued' = [queued EXCEPT ![r] = @ + 1]
     \/ /\ r \in timedOut
        /\ UNCHANGED queued
  /\ UNCHANGED <<process, scanner, errc>>

\* The result of reading the pipe instead of that of Wait.
WaitResultsOfPipe(r) == {"nil"}

\* What Wait may return: a process that ended well just before it was to be
\* killed may be reported either way.
WaitResults(r) == IF proc[r] # "zero" THEN {"error"}
                  ELSE IF r \in timedOut THEN {"nil", "error"} ELSE {"nil"}

\* End of file, Wait, and lines is closed after errc has the result.
Finish(r) ==
  /\ scanner[r] = "scan"
  /\ scanned[r] = written[r]
  /\ proc[r] # "running"
  /\ r \notin kept
  /\ \E err \in WaitResults(r) : Closed(r, err)
  /\ UNCHANGED <<process, scanned, queued>>

\* The consumer receives a line.
Receive(r) == /\ queued[r] > 0
              /\ queued' = [queued EXCEPT ![r] = @ - 1]
              /\ UNCHANGED <<process, scanned, scanner, errc>>

Drained(r) == scanner[r] = "closed" /\ queued[r] = 0

CutOff(r) == Expire(r) \/ Kill(r)
ProcessNext(r) == WriteLine(r) \/ Exit(r) \/ CutOff(r) \/ Release(r)
ScannerNext(r) == Scan(r) \/ Finish(r)

-----------------------------------------------------------------------------
\* Process, pipe, channels and goroutine have the types the code gives them.
StreamTypeOK ==
  /\ proc \in [Runs -> {"none", "running", "zero", "nonzero"}]
  /\ kept \subseteq Runs
  /\ written \in [Runs -> 0 .. MaxLines]
  /\ scanned \in [Runs -> 0 .. MaxLines]
  /\ queued \in [Runs -> 0 .. QueueCap]
  /\ scanner \in [Runs -> {"none", "scan", "closed"}]
  /\ errc \in [Runs -> {"none", "nil", "error"}]
  /\ timedOut \subseteq Runs
=============================================================================
