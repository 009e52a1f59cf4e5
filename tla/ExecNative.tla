----------------------------- MODULE ExecNative -----------------------------
(***************************************************************************)
(* os.exec in machine code (emitOsExec in pkg/backend/native/fs_os.go):    *)
(* the command writes to two files in memory, the caller polls it until it *)
(* has ended, and then takes what fits, standard output first.             *)
(***************************************************************************)
EXTENDS ExecCommand

VARIABLES
  r14,        \* the register R14 is not 0 when the call begins
  timedOut,   \* execTimedOutOff
  size        \* the bytes of the file that are about to be read

nativeOnly == <<r14, timedOut, size>>

(* Nothing is stored at execTimedOutOff before the deadline: it is the     *)
(* slot in which R14 was saved (fs_os.go:1139, 1168).                      *)
NativeInit == r14 \in BOOLEAN /\ timedOut = r14 /\ size = 0

(* The files, and fork.                                                    *)
NativeStarts ==
  /\ pc = "start"
  /\ Begins
  /\ pc' = "look"
  /\ UNCHANGED <<captureVars, result, nativeOnly>>

(* Before the command exists, or when it cannot be waited for or a stream  *)
(* cannot be read.                                                         *)
NativeFails ==
  /\ pc \in {"start", "poll", "stdout", "fill stdout", "stderr", "fill stderr"}
  /\ Return(NoResult)
  /\ UNCHANGED <<worldVars, captureVars, nativeOnly>>

(* waitLoop: the deadline is looked at, and then the command.              *)
NativeLooks ==
  /\ pc = "look"
  /\ IF passed /\ ~timedOut THEN timedOut' = TRUE /\ Kill
                            ELSE UNCHANGED <<timedOut, worldVars>>
  /\ pc' = "poll"
  /\ UNCHANGED <<captureVars, result, r14, size>>

NativePolls ==
  /\ pc = "poll"
  /\ IF command = "zombie" THEN Reaped /\ pc' = "stdout"
                           ELSE pc' = "look" /\ UNCHANGED worldVars
  /\ UNCHANGED <<captureVars, result, nativeOnly>>

Filling(s) == IF s = "stdout" THEN "fill stdout" ELSE "fill stderr"

(* fstat, then pread.                                                      *)
NativeSizes(s) ==
  /\ pc = s
  /\ size' = Least(written[s], remaining)
  /\ truncated' = (truncated \/ written[s] > remaining)
  /\ pc' = Filling(s)
  /\ UNCHANGED <<worldVars, captured, remaining, result, r14, timedOut>>

NativeFills(s) ==
  /\ pc = Filling(s)
  /\ captured' = [captured EXCEPT ![s] = Bytes(1, size)]
  /\ remaining' = remaining - size
  /\ pc' = IF s = "stdout" THEN "stderr" ELSE "build"
  /\ UNCHANGED <<worldVars, truncated, result, nativeOnly>>

NativeBuilds ==
  /\ pc = "build"
  /\ Return(Outcome(IF timedOut THEN -1 ELSE status, timedOut))
  /\ UNCHANGED <<worldVars, captureVars, nativeOnly>>

Native ==
  \/ NativeStarts \/ NativeFails \/ NativeLooks \/ NativePolls \/ NativeBuilds
  \/ \E s \in Streams : NativeSizes(s) \/ NativeFills(s)
=============================================================================
