------------------------------- MODULE OsExec -------------------------------
(***************************************************************************)
(* One call of os.exec, by either back end.                                *)
(***************************************************************************)
EXTENDS ExecCapture, ExecNative

VARIABLE backend

vars == <<sharedVars, captureOnly, nativeOnly, backend>>

Init ==
  /\ backend \in {"go", "native"}
  /\ WorldInit /\ CaptureInit /\ NativeInit
  /\ backend = "go" => ~r14

CallerStep    == backend = "go" /\ Caller /\ UNCHANGED <<nativeOnly, backend>>
CopierStep(s) == backend = "go" /\ Copier(s) /\ UNCHANGED <<nativeOnly, backend>>
WatcherStep   == backend = "go" /\ WatchFires /\ UNCHANGED <<nativeOnly, backend>>
NativeStep    == backend = "native" /\ Native /\ UNCHANGED <<captureOnly, backend>>
WorldStep     == World /\ UNCHANGED <<captureOnly, nativeOnly, backend>>

Next ==
  \/ CallerStep \/ WatcherStep \/ \E s \in Streams : CopierStep(s)
  \/ NativeStep
  \/ WorldStep

(* Goroutines and machine code are scheduled and the deadline comes.  The  *)
(* command, and what it leaves behind, may run for ever.                   *)
Fairness ==
  /\ WF_vars(CallerStep) /\ WF_vars(WatcherStep)
  /\ \A s \in Streams : WF_vars(CopierStep(s))
  /\ WF_vars(NativeStep)
  /\ WF_vars(~passed /\ WorldStep /\ passed')

Spec == Init /\ [][Next]_vars /\ Fairness

-----------------------------------------------------------------------------
Kept(s) == Len(captured[s])
Answered == pc = "returned" /\ result.ok

(* Both streams share one budget (exec.go:24, fs_os.go:1437): what is kept *)
(* of each is its beginning; a result that says so is truncated at the     *)
(* budget, neither before nor after it; and one that does not has all that *)
(* the command wrote, in Go also what it left behind wrote.                *)
CaptureExact ==
  Answered =>
    /\ \A s \in Streams : captured[s] = Bytes(1, Kept(s))
    /\ IF truncated THEN Kept("stdout") + Kept("stderr") = MaxOutput
       ELSE \A s \in Streams : Kept(s) >= IF backend = "go" THEN written[s] ELSE owed[s]

(* A command that was killed is reported as timed out and nothing else,    *)
(* and every other one with its own code; but one that was too late may be *)
(* reported so without having been killed, if it failed (exec.go:105). One *)
(* that has succeeded and was not sent a signal has succeeded, whenever    *)
(* the streams are closed.  Machine code needs R14 to be 0.                *)
OutcomeTrue ==
  Answered /\ ~r14 =>
    IF result.timedOut
    THEN /\ passed /\ result.code = -1
         /\ killed \/ (backend = "go" /\ (command = "unborn" \/ status # 0))
    ELSE ~killed /\ command = "reaped" /\ result.code = status

(* Every call returns, since the deadline ends the command: in Go, unless  *)
(* what the command has left behind holds a stream open for ever.  Machine *)
(* code needs R14 to be 0.                                                 *)
CallReturns ==
  \/ <>(pc = "returned")
  \/ <>[](backend = "go" /\ background)
  \/ r14

(* Machine code "applies the configured timeout" (fs_os.go:1116), in every *)
(* call.                                                                   *)
NativeTimesOut == (backend = "native" /\ passed) ~> (pc = "returned")
=============================================================================
