---------------------------- MODULE ExecCapture ----------------------------
(***************************************************************************)
(* os.exec in the interpreter and the VM: ExecuteCommand (pkg/runtimecap/  *)
(* exec.go) over Go's os/exec, which has a goroutine that copies each      *)
(* stream from its pipe to a limitedCapture, and one that waits for the    *)
(* deadline.  An action ends where a mutex is released.                    *)
(***************************************************************************)
EXTENDS ExecCommand

VARIABLES
  copiers,   \* what the goroutine of each stream is at, and the bytes it holds
  taken,     \* the bytes it has taken from the pipe
  watcher,   \* the goroutine of the deadline
  err        \* what Run returns

captureOnly == <<copiers, taken, watcher, err>>

Idle(at) == [at |-> at, chunk |-> 0, allowed |-> 0]

CaptureInit ==
  /\ copiers = [s \in Streams |-> Idle("unborn")]
  /\ taken = [s \in Streams |-> 0]
  /\ watcher = "unborn"
  /\ err = "none"

-----------------------------------------------------------------------------
(* Cmd.Start: with the deadline gone it starts nothing.                    *)
Started ==
  /\ pc = "start" /\ ~passed
  /\ Begins
  /\ pc' = "wait"
  /\ copiers' = [s \in Streams |-> Idle("read")]
  /\ watcher' = "watching"
  /\ UNCHANGED <<captureVars, result, taken, err>>

NotStarted ==
  /\ pc = "start"
  /\ err' \in {"other"} \cup (IF passed THEN {"deadline"} ELSE {})
  /\ pc' = "decide"
  /\ UNCHANGED <<worldVars, captureVars, result, copiers, taken, watcher>>

(* Mutant of WatchFires: nobody tells the command.                         *)
WatchIdly ==
  /\ watcher = "watching" /\ passed
  /\ watcher' = IF command = "reaped" THEN "silent" ELSE "deadline"
  /\ UNCHANGED <<sharedVars, copiers, taken, err>>

(* The context is done.  A command that is waited for already is no error. *)
WatchFires ==
  /\ watcher = "watching" /\ passed
  /\ IF command = "reaped" THEN watcher' = "silent" /\ UNCHANGED worldVars
                           ELSE watcher' = "deadline" /\ Kill
  /\ UNCHANGED <<pc, captureVars, result, copiers, taken, err>>

(* Cmd.Wait: the process, the watcher, and the copiers; there is no        *)
(* WaitDelay, so they are waited for as long as a pipe is open.            *)
WaitProcess ==
  /\ pc = "wait" /\ command = "zombie"
  /\ Reaped
  /\ err' = IF status # 0 THEN "exit" ELSE "none"
  /\ pc' = "watched"
  /\ UNCHANGED <<captureVars, result, copiers, taken, watcher>>

WaitWatcher ==
  /\ pc = "watched"
  /\ err' = IF err = "none" /\ watcher = "deadline" THEN "deadline" ELSE err
  /\ watcher' = "over"
  /\ pc' = "drain"
  /\ UNCHANGED <<worldVars, captureVars, result, copiers, taken>>

WaitCopiers ==
  /\ pc = "drain"
  /\ \A s \in Streams : copiers[s].at = "eof"
  /\ pc' = "decide"
  /\ UNCHANGED <<worldVars, captureVars, result, captureOnly>>

-----------------------------------------------------------------------------
(* io.Copy, and limitedCapture.Write.                                      *)

ReadPipe(s) ==
  /\ copiers[s].at = "read"
  /\ \E n \in 1 .. written[s] - taken[s] :
       /\ taken' = [taken EXCEPT ![s] = @ + n]
       /\ copiers' = [copiers EXCEPT ![s] = [at |-> "budget", chunk |-> n, allowed |-> 0]]
  /\ UNCHANGED <<sharedVars, watcher, err>>

ReadEnd(s) ==
  /\ copiers[s].at = "read"
  /\ taken[s] = written[s]
  /\ command \in {"zombie", "reaped"} /\ ~background
  /\ copiers' = [copiers EXCEPT ![s] = Idle("eof")]
  /\ UNCHANGED <<sharedVars, taken, watcher, err>>

Allow(s, n) ==
  copiers' = [copiers EXCEPT ![s].at = IF n > 0 THEN "append" ELSE "read", ![s].allowed = n]

(* Mutant of TakeBudget: what does not fit is dropped as a whole.          *)
TakeWhole(s) ==
  /\ copiers[s].at = "budget"
  /\ LET fits == copiers[s].chunk <= remaining
         n == IF fits THEN copiers[s].chunk ELSE 0
     IN  /\ Allow(s, n)
         /\ remaining' = remaining - n
         /\ truncated' = (truncated \/ ~fits)
  /\ UNCHANGED <<worldVars, pc, captured, result, taken, watcher, err>>

TakeBudget(s) ==
  /\ copiers[s].at = "budget"
  /\ LET n == Least(copiers[s].chunk, remaining)
     IN  /\ Allow(s, n)
         /\ remaining' = remaining - n
         /\ truncated' = (truncated \/ n < copiers[s].chunk)
  /\ UNCHANGED <<worldVars, pc, captured, result, taken, watcher, err>>

AppendOutput(s) ==
  /\ copiers[s].at = "append"
  /\ LET before == taken[s] - copiers[s].chunk
     IN  captured' = [captured EXCEPT ![s] = @ \o Bytes(before + 1, before + copiers[s].allowed)]
  /\ copiers' = [copiers EXCEPT ![s] = Idle("read")]
  /\ UNCHANGED <<worldVars, pc, remaining, truncated, result, taken, watcher, err>>

-----------------------------------------------------------------------------
(* The result, with what was captured.                                     *)

(* Mutant of Decide: the deadline is looked at first.                      *)
DecideLate ==
  /\ pc = "decide"
  /\ Return(CASE passed -> Outcome(-1, TRUE)
              [] ~passed /\ err = "none" -> Outcome(0, FALSE)
              [] ~passed /\ err = "exit" -> Outcome(status, FALSE)
              [] OTHER -> NoResult)
  /\ UNCHANGED <<worldVars, captureVars, captureOnly>>

Decide ==
  /\ pc = "decide"
  /\ Return(CASE err = "none" -> Outcome(0, FALSE)
              [] err # "none" /\ passed -> Outcome(-1, TRUE)
              [] err = "exit" /\ ~passed -> Outcome(status, FALSE)
              [] OTHER -> NoResult)
  /\ UNCHANGED <<worldVars, captureVars, captureOnly>>

Caller == Started \/ NotStarted \/ WaitProcess \/ WaitWatcher \/ WaitCopiers \/ Decide
Copier(s) == ReadPipe(s) \/ ReadEnd(s) \/ TakeBudget(s) \/ AppendOutput(s)
=============================================================================
