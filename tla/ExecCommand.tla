---------------------------- MODULE ExecCommand ----------------------------
(***************************************************************************)
(* A command that os.exec runs, as the callers in ExecCapture and          *)
(* ExecNative see it.  It writes to two streams, may leave a process in    *)
(* the background that has the streams too, and exits by itself or is      *)
(* killed; meanwhile its deadline may pass.  The bytes of a stream are     *)
(* numbered from 1, in the order in which they were written.               *)
(***************************************************************************)
EXTENDS Integers, Sequences

CONSTANTS
  MaxOutput,    \* ExecMaxOutput: what both captures may hold together
  MaxWritten,   \* bound: the bytes written to a stream
  Codes         \* the codes a command may exit with

ASSUME ExecAssumption == MaxOutput \in Nat \ {0} /\ MaxWritten \in Nat /\ Codes \subseteq Nat

VARIABLES
  command,      \* unborn, running, zombie (has ended), reaped
  status,       \* the code it ended with
  killed,       \* its caller has sent it a signal
  background,   \* a process it has left holds its streams
  written,      \* the bytes in each stream
  owed,         \* those that were there when the command ended
  passed,       \* the deadline has passed
  pc,           \* how far the call is
  captured,     \* the bytes of each stream that were kept
  remaining,    \* the rest of the output budget
  truncated,    \* some did not fit
  result        \* what the call returns in the end

worldVars == <<command, status, killed, background, written, owed, passed>>
captureVars == <<captured, remaining, truncated>>
sharedVars == <<worldVars, pc, captureVars, result>>

Streams == {"stdout", "stderr"}
Killed == -1
NoResult == [ok |-> FALSE, code |-> 0, timedOut |-> FALSE]
Outcome(code, timedOut) == [ok |-> TRUE, code |-> code, timedOut |-> timedOut]

Bytes(first, last) == [n \in 1 .. last - first + 1 |-> first + n - 1]
Least(m, n) == IF m < n THEN m ELSE n

WorldInit ==
  /\ command = "unborn" /\ status = 0 /\ killed = FALSE
  /\ background = FALSE /\ passed = FALSE
  /\ written = [s \in Streams |-> 0] /\ owed = [s \in Streams |-> 0]
  /\ pc = "start"
  /\ captured = [s \in Streams |-> <<>>]
  /\ remaining = MaxOutput /\ truncated = FALSE
  /\ result = NoResult

Return(outcome) == pc' = "returned" /\ result' = outcome

-----------------------------------------------------------------------------
(* The command, its background process, and time.                          *)

Ends(code) == command' = "zombie" /\ status' = code /\ owed' = written

Exits ==
  /\ command = "running"
  /\ \E code \in Codes : Ends(code)
  /\ UNCHANGED <<killed, background, written, passed>>

(* SIGKILL; a zombie stays what it is.                                     *)
Kill ==
  /\ killed' = TRUE
  /\ IF command = "running" THEN Ends(Killed) ELSE UNCHANGED <<command, status, owed>>
  /\ UNCHANGED <<background, written, passed>>

Writes(s) ==
  /\ command = "running" \/ background
  /\ written[s] < MaxWritten
  /\ written' = [written EXCEPT ![s] = @ + 1]
  /\ UNCHANGED <<command, status, killed, background, owed, passed>>

Forks ==
  /\ command = "running" /\ ~background
  /\ background' = TRUE
  /\ UNCHANGED <<command, status, killed, written, owed, passed>>

BackgroundEnds ==
  /\ background
  /\ background' = FALSE
  /\ UNCHANGED <<command, status, killed, written, owed, passed>>

DeadlinePasses ==
  /\ ~passed
  /\ passed' = TRUE
  /\ UNCHANGED <<command, status, killed, background, written, owed>>

Begins == command' = "running" /\ UNCHANGED <<status, killed, background, written, owed, passed>>
Reaped == command' = "reaped" /\ UNCHANGED <<status, killed, background, written, owed, passed>>

World ==
  /\ pc # "returned"
  /\ Exits \/ Forks \/ BackgroundEnds \/ DeadlinePasses \/ \E s \in Streams : Writes(s)
  /\ UNCHANGED <<pc, captureVars, result>>
=============================================================================
