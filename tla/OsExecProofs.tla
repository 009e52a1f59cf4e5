---------------------------- MODULE OsExecProofs ----------------------------
(***************************************************************************)
(* Proof that what os.exec returns is true of the command, and that what   *)
(* it has captured is exact, for every budget and every command.           *)
(***************************************************************************)
EXTENDS OsExec, SequenceTheorems, TLAPS

CopierState ==
  [at : {"unborn", "read", "budget", "append", "eof"}, chunk : Nat, allowed : Nat]
GoStages == {"start", "wait", "watched", "drain", "decide", "returned"}
NativeStages == {"start", "look", "poll", "stdout", "fill stdout", "stderr", "fill stderr",
                 "build", "returned"}

(* The types of all variables.                                             *)
TypeOK ==
  /\ backend \in {"go", "native"}
  /\ command \in {"unborn", "running", "zombie", "reaped"}
  /\ status \in Int
  /\ killed \in BOOLEAN /\ background \in BOOLEAN /\ passed \in BOOLEAN
  /\ written \in [Streams -> Nat] /\ owed \in [Streams -> Nat]
  /\ pc \in (IF backend = "go" THEN GoStages ELSE NativeStages)
  /\ captured \in [Streams -> Seq(Nat)]
  /\ remaining \in Nat /\ truncated \in BOOLEAN
  /\ result \in [ok : BOOLEAN, code : Int, timedOut : BOOLEAN]
  /\ copiers \in [Streams -> CopierState]
  /\ taken \in [Streams -> Nat]
  /\ watcher \in {"unborn", "watching", "silent", "deadline", "over"}
  /\ err \in {"none", "exit", "deadline", "other"}
  /\ r14 \in BOOLEAN /\ timedOut \in BOOLEAN /\ size \in Nat

-----------------------------------------------------------------------------
(* The inductive invariant.  What is true of the command,                  *)
CommandInv ==
  /\ \A s \in Streams : owed[s] <= written[s]
  /\ command = "unborn" =>
       /\ ~background /\ ~killed /\ status = 0
       /\ \A s \in Streams : written[s] = 0
  /\ killed => command \in {"zombie", "reaped"} /\ passed

(* of every capture,                                                       *)
PrefixInv == \A s \in Streams : captured[s] = Bytes(1, Kept(s))

(* of Go's call at each stage,                                             *)
GoStage ==
  /\ pc = "start" => command = "unborn" /\ err = "none"
  /\ command = "unborn" <=> watcher = "unborn"
  /\ \A s \in Streams : command = "unborn" <=> copiers[s].at = "unborn"
  /\ command = "unborn" => pc \in {"start", "decide", "returned"}
  /\ command \in {"running", "zombie"} <=> pc = "wait"
  /\ pc \in {"wait", "watched"} => watcher # "over"
  /\ pc \in {"drain", "decide", "returned"} => watcher \in {"unborn", "over"}
  /\ pc \in {"decide", "returned"} =>
       \A s \in Streams : copiers[s].at \in {"unborn", "eof"}

(* of a copier, of which Kept is behind taken by the chunk it holds,       *)
Pending(s) == IF copiers[s].at \in {"budget", "append"} THEN copiers[s].chunk ELSE 0

GoCopier(s) ==
  /\ taken[s] <= written[s]
  /\ Kept(s) + Pending(s) <= taken[s]
  /\ ~truncated => Kept(s) + Pending(s) = taken[s]
  /\ copiers[s].at = "budget" => copiers[s].chunk > 0
  /\ copiers[s].at = "append" =>
       /\ Kept(s) + copiers[s].chunk = taken[s]
       /\ copiers[s].allowed \in 1 .. copiers[s].chunk
       /\ ~truncated => copiers[s].allowed = copiers[s].chunk
  /\ copiers[s].at # "append" => copiers[s].allowed = 0
  /\ copiers[s].at = "eof" =>
       /\ taken[s] = written[s]
       /\ command \in {"zombie", "reaped"} /\ ~background

(* of the budget, of which a copier holds what it is about to append,      *)
GoBudget ==
  /\ remaining + Kept("stdout") + Kept("stderr")
       + copiers["stdout"].allowed + copiers["stderr"].allowed = MaxOutput
  /\ truncated => remaining = 0

(* and of what the call is going to return;                                *)
GoError ==
  /\ watcher = "deadline" => killed
  /\ watcher \in {"unborn", "watching", "silent"} => ~killed
  /\ command = "unborn" /\ pc # "start" => err \in {"deadline", "other"}
  /\ command = "reaped" =>
       /\ err # "other"
       /\ err = "exit" <=> status # 0
       /\ err = "deadline" => killed
       /\ err = "none" /\ pc # "watched" => ~killed
  /\ err = "deadline" => passed

GoInv ==
  /\ GoStage /\ GoBudget /\ GoError
  /\ \A s \in Streams : GoCopier(s)

(* and of machine code, which takes one stream after the other.            *)
Enough(s, n) == truncated \/ n >= owed[s]

NativeInv ==
  /\ remaining + Kept("stdout") + Kept("stderr") = MaxOutput
  /\ command = "unborn" => pc \in {"start", "returned"}
  /\ pc = "start" => command = "unborn"
  /\ command \in {"running", "zombie"} => pc \in {"look", "poll", "returned"}
  /\ pc \in {"start", "look", "poll", "stdout"} => ~truncated
  /\ pc \in {"start", "look", "poll", "stdout", "fill stdout"} => Kept("stdout") = 0
  /\ pc \in NativeStages \ {"build", "returned"} => Kept("stderr") = 0
  /\ pc \in {"fill stdout", "fill stderr"} =>
       size <= remaining /\ (truncated => size = remaining)
  /\ pc = "fill stdout" => Enough("stdout", size)
  /\ pc = "fill stderr" => Enough("stderr", size)
  /\ pc \in {"stderr", "build"} => (truncated => remaining = 0)
  /\ pc \in {"stderr", "fill stderr", "build"} => Enough("stdout", Kept("stdout"))
  /\ pc = "build" => Enough("stderr", Kept("stderr"))
  /\ killed => timedOut
  /\ timedOut /\ ~r14 => killed

(* What was promised of an answer.                                         *)
AnswerInv == CaptureExact /\ OutcomeTrue

IInv ==
  /\ TypeOK /\ CommandInv /\ PrefixInv /\ AnswerInv
  /\ backend = "go" => GoInv /\ ~r14
  /\ backend = "native" => NativeInv

-----------------------------------------------------------------------------
(* Bytes.                                                                  *)

(* The bytes of a stream from first to last are a sequence of that length. *)
LEMMA BytesType ==
  ASSUME NEW first \in Nat, NEW last \in Nat, first <= last + 1
  PROVE  /\ Bytes(first, last) \in Seq(Nat)
         /\ Len(Bytes(first, last)) = last - first + 1
<1>1. last - first + 1 \in Nat
  OBVIOUS
<1>2. Bytes(first, last) \in [1 .. last - first + 1 -> Nat]
  BY <1>1 DEF Bytes
<1> QED  BY <1>1, <1>2

(* What comes next on a stream, after what was kept of it, extends that.   *)
LEMMA BytesJoin ==
  ASSUME NEW m \in Nat, NEW n \in Nat
  PROVE  Bytes(1, m) \o Bytes(m + 1, m + n) = Bytes(1, m + n)
<1> DEFINE front == Bytes(1, m)
           back  == Bytes(m + 1, m + n)
           whole == Bytes(1, m + n)
<1>1. front \in Seq(Nat) /\ Len(front) = m
  <2>1. 1 \in Nat /\ 1 <= m + 1 /\ m - 1 + 1 = m
    OBVIOUS
  <2> QED  BY <2>1, BytesType
<1>2. back \in Seq(Nat) /\ Len(back) = n
  <2>1. m + 1 \in Nat /\ m + n \in Nat /\ m + 1 <= m + n + 1 /\ m + n - (m + 1) + 1 = n
    OBVIOUS
  <2> QED  BY <2>1, BytesType
<1>3. whole \in Seq(Nat) /\ Len(whole) = m + n
  <2>1. 1 \in Nat /\ m + n \in Nat /\ 1 <= m + n + 1 /\ m + n - 1 + 1 = m + n
    OBVIOUS
  <2> QED  BY <2>1, BytesType
<1>4. /\ \A i \in 1 .. m : front[i] = i
      /\ \A i \in 1 .. n : back[i] = m + i
      /\ \A i \in 1 .. m + n : whole[i] = i
  BY DEF Bytes
<1> HIDE DEF front, back, whole
<1>5. front \o back \in Seq(Nat) /\ Len(front \o back) = m + n
  BY <1>1, <1>2, ConcatProperties
<1>6. ASSUME NEW i \in 1 .. m + n  PROVE (front \o back)[i] = whole[i]
  <2>0. (front \o back)[i] = IF i <= m THEN front[i] ELSE back[i - m]
    BY <1>1, <1>2, ConcatProperties
  <2>1. CASE i <= m
    BY <1>4, <2>0, <2>1
  <2>2. CASE ~(i <= m)
    <3>1. i - m \in 1 .. n /\ (front \o back)[i] = back[i - m]
      BY <2>0, <2>2
    <3> QED  BY <1>4, <3>1
  <2> QED  BY <2>1, <2>2
<1>7. front \o back = whole
  BY <1>3, <1>5, <1>6, SeqEqual
<1> QED  BY <1>7 DEF front, back, whole

(* Nothing is the beginning of a stream.                                   *)
LEMMA BytesNone == Bytes(1, 0) = <<>>
  BY DEF Bytes
-----------------------------------------------------------------------------
(* The calls of Go.                                                        *)

(* Cmd.Start, which starts the command and its goroutines.                 *)
LEMMA StartedKeeps ==
  ASSUME IInv, backend = "go", Started, UNCHANGED <<nativeOnly, backend>>
  PROVE  IInv'
<1> USE DEF Started, Begins, Idle, sharedVars, worldVars, captureVars, captureOnly, nativeOnly
<1>1. TypeOK'
  BY ExecAssumption DEF IInv, TypeOK, GoStages, NativeStages, CopierState
<1>2. CommandInv'
  BY DEF IInv, TypeOK, CommandInv
<1>3. PrefixInv'
  BY DEF IInv, PrefixInv, Kept
<1>4. GoStage'
  BY DEF IInv, TypeOK, GoInv, GoStage
<1>5. GoBudget'
  <2>1. \A s \in Streams : copiers[s].allowed = 0 /\ copiers'[s].allowed = 0
    BY DEF IInv, GoInv, GoStage, GoCopier
  <2>2. "stdout" \in Streams /\ "stderr" \in Streams
    BY DEF Streams
  <2> QED  BY <2>1, <2>2 DEF IInv, GoInv, GoBudget, Kept
<1>6. GoError'
  BY DEF IInv, TypeOK, CommandInv, GoInv, GoStage, GoError
<1>7. ASSUME NEW s \in Streams  PROVE GoCopier(s)'
  BY DEF IInv, TypeOK, CommandInv, GoInv, GoStage, GoCopier, Pending, Kept
<1>8. AnswerInv'
  BY DEF IInv, TypeOK, AnswerInv, CaptureExact, OutcomeTrue, Answered, GoInv, GoStage
<1> QED  BY <1>1, <1>2, <1>3, <1>4, <1>5, <1>6, <1>7, <1>8 DEF IInv, GoInv

(* Cmd.Start, which does not.                                              *)
LEMMA NotStartedKeeps ==
  ASSUME IInv, backend = "go", NotStarted, UNCHANGED <<nativeOnly, backend>>
  PROVE  IInv'
<1> USE DEF NotStarted, sharedVars, worldVars, captureVars, captureOnly, nativeOnly
<1>1. TypeOK'
  BY ExecAssumption DEF IInv, TypeOK, GoStages, NativeStages, CopierState
<1>2. CommandInv'
  BY DEF IInv, TypeOK, CommandInv
<1>3. PrefixInv'
  BY DEF IInv, PrefixInv, Kept
<1>4. GoStage'
  BY DEF IInv, TypeOK, GoInv, GoStage
<1>5. GoBudget'
  BY DEF IInv, TypeOK, GoInv, GoStage, GoBudget, Kept
<1>6. GoError'
  BY DEF IInv, TypeOK, CommandInv, GoInv, GoStage, GoError
<1>7. ASSUME NEW s \in Streams  PROVE GoCopier(s)'
  BY DEF IInv, TypeOK, CommandInv, GoInv, GoStage, GoCopier, Pending, Kept
<1>8. AnswerInv'
  BY DEF IInv, TypeOK, AnswerInv, CaptureExact, OutcomeTrue, Answered, GoInv, GoStage
<1> QED  BY <1>1, <1>2, <1>3, <1>4, <1>5, <1>6, <1>7, <1>8 DEF IInv, GoInv

(* The watcher.                                                            *)
LEMMA WatchFiresKeeps ==
  ASSUME IInv, backend = "go", WatchFires, UNCHANGED <<nativeOnly, backend>>
  PROVE  IInv'
<1> USE DEF WatchFires, Kill, Ends, Killed, sharedVars, worldVars, captureVars, captureOnly, nativeOnly
<1>1. TypeOK' /\ CommandInv'
  <2>1. CASE command = "reaped"
    BY <2>1 DEF IInv, TypeOK, CommandInv
  <2>2. CASE command = "running"
    BY <2>2 DEF IInv, TypeOK, CommandInv
  <2>3. CASE command \notin {"running", "reaped"}
    BY <2>3 DEF IInv, TypeOK, CommandInv, GoInv, GoStage
  <2> QED  BY <2>1, <2>2, <2>3
<1>2. PrefixInv'
  BY DEF IInv, PrefixInv, Kept
<1>3. GoStage'
  BY DEF IInv, TypeOK, GoInv, GoStage
<1>4. GoBudget'
  BY DEF IInv, TypeOK, GoInv, GoStage, GoBudget, Kept
<1>5. GoError'
  BY DEF IInv, TypeOK, CommandInv, GoInv, GoStage, GoError
<1>6. ASSUME NEW s \in Streams  PROVE GoCopier(s)'
  BY DEF IInv, TypeOK, CommandInv, GoInv, GoStage, GoCopier, Pending, Kept
<1>7. AnswerInv'
  BY DEF IInv, TypeOK, AnswerInv, CaptureExact, OutcomeTrue, Answered, GoInv, GoStage
<1> QED  BY <1>1, <1>2, <1>3, <1>4, <1>5, <1>6, <1>7 DEF IInv, GoInv

(* The three waits of Cmd.Wait.                                            *)
LEMMA WaitProcessKeeps ==
  ASSUME IInv, backend = "go", WaitProcess, UNCHANGED <<nativeOnly, backend>>
  PROVE  IInv'
<1> USE DEF WaitProcess, Reaped, sharedVars, worldVars, captureVars, captureOnly, nativeOnly
<1>1. TypeOK'
  BY ExecAssumption DEF IInv, TypeOK, GoStages, NativeStages, CopierState
<1>2. CommandInv'
  BY DEF IInv, TypeOK, CommandInv
<1>3. PrefixInv'
  BY DEF IInv, PrefixInv, Kept
<1>4. GoStage'
  BY DEF IInv, TypeOK, GoInv, GoStage
<1>5. GoBudget'
  BY DEF IInv, TypeOK, GoInv, GoStage, GoBudget, Kept
<1>6. GoError'
  BY DEF IInv, TypeOK, CommandInv, GoInv, GoStage, GoError
<1>7. ASSUME NEW s \in Streams  PROVE GoCopier(s)'
  BY DEF IInv, TypeOK, CommandInv, GoInv, GoStage, GoCopier, Pending, Kept
<1>8. AnswerInv'
  BY DEF IInv, TypeOK, AnswerInv, CaptureExact, OutcomeTrue, Answered, GoInv, GoStage
<1> QED  BY <1>1, <1>2, <1>3, <1>4, <1>5, <1>6, <1>7, <1>8 DEF IInv, GoInv

LEMMA WaitWatcherKeeps ==
  ASSUME IInv, backend = "go", WaitWatcher, UNCHANGED <<nativeOnly, backend>>
  PROVE  IInv'
<1> USE DEF WaitWatcher, sharedVars, worldVars, captureVars, captureOnly, nativeOnly
<1>1. TypeOK'
  BY ExecAssumption DEF IInv, TypeOK, GoStages, NativeStages, CopierState
<1>2. CommandInv'
  BY DEF IInv, TypeOK, CommandInv
<1>3. PrefixInv'
  BY DEF IInv, PrefixInv, Kept
<1>4. GoStage'
  BY DEF IInv, TypeOK, GoInv, GoStage
<1>5. GoBudget'
  BY DEF IInv, TypeOK, GoInv, GoStage, GoBudget, Kept
<1>6. GoError'
  BY DEF IInv, TypeOK, CommandInv, GoInv, GoStage, GoError
<1>7. ASSUME NEW s \in Streams  PROVE GoCopier(s)'
  BY DEF IInv, TypeOK, CommandInv, GoInv, GoStage, GoCopier, Pending, Kept
<1>8. AnswerInv'
  BY DEF IInv, TypeOK, AnswerInv, CaptureExact, OutcomeTrue, Answered, GoInv, GoStage
<1> QED  BY <1>1, <1>2, <1>3, <1>4, <1>5, <1>6, <1>7, <1>8 DEF IInv, GoInv

LEMMA WaitCopiersKeeps ==
  ASSUME IInv, backend = "go", WaitCopiers, UNCHANGED <<nativeOnly, backend>>
  PROVE  IInv'
<1> USE DEF WaitCopiers, sharedVars, worldVars, captureVars, captureOnly, nativeOnly
<1>1. TypeOK'
  BY ExecAssumption DEF IInv, TypeOK, GoStages, NativeStages, CopierState
<1>2. CommandInv'
  BY DEF IInv, TypeOK, CommandInv
<1>3. PrefixInv'
  BY DEF IInv, PrefixInv, Kept
<1>4. GoStage'
  BY DEF IInv, TypeOK, GoInv, GoStage
<1>5. GoBudget'
  BY DEF IInv, TypeOK, GoInv, GoStage, GoBudget, Kept
<1>6. GoError'
  BY DEF IInv, TypeOK, CommandInv, GoInv, GoStage, GoError
<1>7. ASSUME NEW s \in Streams  PROVE GoCopier(s)'
  BY DEF IInv, TypeOK, CommandInv, GoInv, GoStage, GoCopier, Pending, Kept
<1>8. AnswerInv'
  BY DEF IInv, TypeOK, AnswerInv, CaptureExact, OutcomeTrue, Answered, GoInv, GoStage
<1> QED  BY <1>1, <1>2, <1>3, <1>4, <1>5, <1>6, <1>7, <1>8 DEF IInv, GoInv

-----------------------------------------------------------------------------
(* Its copiers, each of which is at work on its own stream.                *)

LEMMA ReadPipeKeeps ==
  ASSUME IInv, backend = "go", NEW s \in Streams, ReadPipe(s), UNCHANGED <<nativeOnly, backend>>
  PROVE  IInv'
<1> USE DEF sharedVars, worldVars, captureVars, captureOnly, nativeOnly
<1>1. PICK n \in 1 .. written[s] - taken[s] :
        /\ taken' = [taken EXCEPT ![s] = @ + n]
        /\ copiers' = [copiers EXCEPT ![s] = [at |-> "budget", chunk |-> n, allowed |-> 0]]
  BY DEF ReadPipe
<1>2. /\ copiers[s].at = "read" /\ n \in Nat \ {0} /\ taken[s] + n <= written[s]
      /\ UNCHANGED <<sharedVars, watcher, err, nativeOnly, backend>>
  BY DEF ReadPipe, IInv, TypeOK
<1>3. /\ copiers'[s] = [at |-> "budget", chunk |-> n, allowed |-> 0]
      /\ taken'[s] = taken[s] + n
      /\ \A r \in Streams \ {s} : copiers'[r] = copiers[r] /\ taken'[r] = taken[r]
  BY <1>1 DEF IInv, TypeOK
<1>4. TypeOK'
  BY <1>1, <1>2, SMTT(30) DEF IInv, TypeOK, CopierState
<1>5. CommandInv' /\ PrefixInv' /\ GoError'
  BY <1>2 DEF IInv, CommandInv, PrefixInv, Kept, GoInv, GoError
<1>6. GoStage'
  BY <1>2, <1>3 DEF IInv, GoInv, GoStage
<1>7. GoBudget'
  <2>1. \A r \in Streams : copiers'[r].allowed = copiers[r].allowed
    BY <1>2, <1>3 DEF IInv, GoInv, GoCopier
  <2>2. "stdout" \in Streams /\ "stderr" \in Streams
    BY DEF Streams
  <2> QED  BY <1>2, <2>1, <2>2 DEF IInv, GoInv, GoBudget, Kept
<1>8. ASSUME NEW r \in Streams  PROVE GoCopier(r)'
  <2>1. Kept(s) \in Nat /\ taken[s] \in Nat
    BY DEF IInv, TypeOK, Kept
  <2>2. CASE r = s
    BY <1>2, <1>3, <2>1, <2>2 DEF IInv, GoInv, GoCopier, Pending, Kept
  <2>3. CASE r # s
    BY <1>2, <1>3, <2>3 DEF IInv, GoInv, GoCopier, Pending, Kept
  <2> QED  BY <2>2, <2>3
<1>9. AnswerInv'
  BY <1>2 DEF IInv, AnswerInv, CaptureExact, OutcomeTrue, Answered, GoInv, GoStage
<1> QED  BY <1>2, <1>4, <1>5, <1>6, <1>7, <1>8, <1>9 DEF IInv, GoInv

LEMMA ReadEndKeeps ==
  ASSUME IInv, backend = "go", NEW s \in Streams, ReadEnd(s), UNCHANGED <<nativeOnly, backend>>
  PROVE  IInv'
<1> USE DEF ReadEnd, Idle, sharedVars, worldVars, captureVars, captureOnly, nativeOnly
<1>1. TypeOK'
  BY ExecAssumption DEF IInv, TypeOK, GoStages, NativeStages, CopierState, GoInv, GoCopier
<1>2. CommandInv'
  BY DEF IInv, TypeOK, CommandInv
<1>3. PrefixInv'
  BY DEF IInv, PrefixInv, Kept
<1>4. GoStage'
  BY DEF IInv, TypeOK, CopierState, GoInv, GoStage, GoCopier
<1>5. GoBudget'
  BY DEF IInv, TypeOK, CopierState, GoInv, GoBudget, GoCopier, Kept, Streams
<1>6. GoError'
  BY DEF IInv, TypeOK, GoInv, GoError
<1>7. ASSUME NEW r \in Streams  PROVE GoCopier(r)'
  BY DEF IInv, TypeOK, CopierState, CommandInv, GoInv, GoStage, GoCopier, Pending, Kept
<1>8. AnswerInv'
  BY DEF IInv, TypeOK, AnswerInv, CaptureExact, OutcomeTrue, Answered, GoInv, GoStage
<1> QED  BY <1>1, <1>2, <1>3, <1>4, <1>5, <1>6, <1>7, <1>8 DEF IInv, GoInv

LEMMA TakeBudgetKeeps ==
  ASSUME IInv, backend = "go", NEW s \in Streams, TakeBudget(s), UNCHANGED <<nativeOnly, backend>>
  PROVE  IInv'
<1> USE DEF sharedVars, worldVars, captureVars, captureOnly, nativeOnly
<1> DEFINE m == copiers[s].chunk
           n == Least(m, remaining)
<1>1. m \in Nat \ {0} /\ remaining \in Nat /\ Kept(s) \in Nat /\ taken[s] \in Nat
  BY DEF TakeBudget, IInv, TypeOK, CopierState, Kept, GoInv, GoCopier
<1>2. n \in Nat /\ n <= remaining /\ n <= m /\ (n < m => n = remaining)
  BY <1>1 DEF Least
<1>3. /\ copiers[s].at = "budget"
      /\ copiers' = [copiers EXCEPT ![s].at = IF n > 0 THEN "append" ELSE "read",
                                    ![s].allowed = n]
      /\ remaining' = remaining - n
      /\ truncated' = (truncated \/ n < m)
      /\ UNCHANGED <<worldVars, pc, captured, result, taken, watcher, err, nativeOnly, backend>>
  BY DEF TakeBudget, Allow
<1> HIDE DEF n
<1>4. /\ copiers'[s] = [at |-> IF n > 0 THEN "append" ELSE "read", chunk |-> m, allowed |-> n]
      /\ \A r \in Streams \ {s} : copiers'[r] = copiers[r]
      /\ copiers' \in [Streams -> CopierState]
  <2>1. copiers \in [Streams -> CopierState]
    BY DEF IInv, TypeOK
  <2> HIDE DEF m
  <2> QED  BY <1>2, <1>3, <2>1, ZenonT(60) DEF CopierState, m
<1>5. TypeOK'
  BY <1>1, <1>2, <1>3, <1>4, SMTT(30) DEF IInv, TypeOK
<1>6. CommandInv' /\ PrefixInv' /\ GoError'
  BY <1>3 DEF IInv, CommandInv, PrefixInv, Kept, GoInv, GoError
<1>7. GoStage'
  BY <1>3, <1>4 DEF IInv, GoInv, GoStage
<1>8. GoBudget'
  <2>1. copiers[s].allowed = 0 /\ copiers'[s].allowed = n
    BY <1>3, <1>4 DEF IInv, GoInv, GoCopier
  <2>2. truncated' => remaining' = 0
    <3>1. CASE n < m
      BY <1>1, <1>2, <1>3, <3>1
    <3>2. CASE ~(n < m)
      <4>1. truncated' = truncated
        BY <1>3, <3>2 DEF IInv, TypeOK
      <4>2. truncated => remaining = 0
        BY DEF IInv, GoInv, GoBudget
      <4> QED  BY <1>1, <1>2, <1>3, <4>1, <4>2
    <3> QED  BY <3>1, <3>2
  <2>3. /\ "stdout" \in Streams /\ "stderr" \in Streams /\ s \in {"stdout", "stderr"}
        /\ \A r \in Streams : Kept(r) \in Nat /\ copiers[r].allowed \in Nat /\ Kept(r)' = Kept(r)
    BY <1>3, SMTT(30) DEF Streams, IInv, TypeOK, Kept, CopierState
  <2>4. CASE s = "stdout"
    BY <1>1, <1>2, <1>3, <1>4, <2>1, <2>2, <2>3, <2>4 DEF IInv, GoInv, GoBudget
  <2>5. CASE s = "stderr"
    BY <1>1, <1>2, <1>3, <1>4, <2>1, <2>2, <2>3, <2>5 DEF IInv, GoInv, GoBudget
  <2> QED  BY <2>3, <2>4, <2>5
<1>9. ASSUME NEW r \in Streams  PROVE GoCopier(r)'
  <2>1. CASE r = s
    <3>1. truncated => remaining = 0
      BY DEF IInv, GoInv, GoBudget
    <3>2. /\ taken[s] <= written[s] /\ Kept(s) + m <= taken[s]
          /\ ~truncated => Kept(s) + m = taken[s]
      BY <1>3 DEF IInv, GoInv, GoCopier, Pending
    <3>3. ~truncated' => ~truncated /\ n = m
      <4>1. truncated' \in BOOLEAN /\ truncated \in BOOLEAN
        BY <1>5 DEF IInv, TypeOK
      <4>2. CASE n < m
        BY <1>3, <4>1, <4>2
      <4>3. CASE ~(n < m)
        BY <1>1, <1>2, <1>3, <4>1, <4>3
      <4> QED  BY <4>2, <4>3
    <3>4. n > 0 => ~truncated /\ Kept(s) + m = taken[s]
      BY <1>1, <1>2, <3>1, <3>2
    <3>5. /\ taken'[s] = taken[s] /\ written'[s] = written[s] /\ Kept(s)' = Kept(s)
      BY <1>3 DEF Kept
    <3>6. CASE n > 0
      BY <1>1, <1>2, <1>4, <2>1, <3>2, <3>3, <3>4, <3>5, <3>6 DEF GoCopier, Pending
    <3>7. CASE n = 0
      <4>1. truncated'
        BY <1>1, <3>3, <3>7, <1>5 DEF TypeOK
      <4> QED  BY <1>1, <1>4, <2>1, <3>2, <3>5, <3>7, <4>1 DEF GoCopier, Pending
    <3> QED  BY <1>2, <3>6, <3>7
  <2>2. CASE r # s
    <3>1. GoCopier(r) /\ (copiers[r].at = "append" => copiers[r].allowed <= copiers[r].chunk)
      BY DEF IInv, GoInv, GoCopier
    <3> QED  BY <1>3, <1>4, <2>2, <3>1 DEF GoCopier, Pending, Kept
  <2> QED  BY <2>1, <2>2
<1>10. AnswerInv'
  BY <1>3 DEF IInv, AnswerInv, CaptureExact, OutcomeTrue, Answered, GoInv, GoStage
<1> QED  BY <1>3, <1>5, <1>6, <1>7, <1>8, <1>9, <1>10 DEF IInv, GoInv

LEMMA AppendOutputKeeps ==
  ASSUME IInv, backend = "go", NEW s \in Streams, AppendOutput(s), UNCHANGED <<nativeOnly, backend>>
  PROVE  IInv'
<1> USE DEF sharedVars, worldVars, captureVars, captureOnly, nativeOnly
<1> DEFINE n == copiers[s].allowed
<1>1. n \in Nat \ {0} /\ Kept(s) \in Nat /\ n <= copiers[s].chunk /\ copiers[s].chunk \in Nat
  BY SMTT(30) DEF AppendOutput, IInv, TypeOK, CopierState, Kept, GoInv, GoCopier
<1>2. taken[s] - copiers[s].chunk = Kept(s) /\ taken[s] \in Nat
  BY <1>1, SMTT(30) DEF AppendOutput, IInv, TypeOK, CopierState, GoInv, GoCopier
<1>3. /\ copiers[s].at = "append"
      /\ captured' = [captured EXCEPT ![s] = Bytes(1, Kept(s) + n)]
      /\ copiers' = [copiers EXCEPT ![s] = Idle("read")]
      /\ UNCHANGED <<worldVars, pc, remaining, truncated, result, taken, watcher, err,
                     nativeOnly, backend>>
  <2>1. captured[s] \o Bytes(Kept(s) + 1, Kept(s) + n) = Bytes(1, Kept(s) + n)
    BY <1>1, BytesJoin DEF IInv, PrefixInv
  <2>2. captured' = [captured EXCEPT ![s] = @ \o Bytes(Kept(s) + 1, Kept(s) + n)]
    BY <1>2 DEF AppendOutput
  <2> QED  BY <2>1, <2>2 DEF AppendOutput
<1>4. Bytes(1, Kept(s) + n) \in Seq(Nat) /\ Len(Bytes(1, Kept(s) + n)) = Kept(s) + n
  <2>1. 1 \in Nat /\ Kept(s) + n \in Nat /\ 1 <= Kept(s) + n + 1 /\ Kept(s) + n - 1 + 1 = Kept(s) + n
    BY <1>1
  <2> QED  BY <2>1, BytesType
<1>5. /\ copiers'[s] = Idle("read") /\ captured'[s] = Bytes(1, Kept(s) + n)
      /\ Kept(s)' = Kept(s) + n
      /\ \A r \in Streams \ {s} : copiers'[r] = copiers[r] /\ captured'[r] = captured[r]
  BY <1>3, <1>4 DEF IInv, TypeOK, Kept
<1>6. TypeOK'
  <2>1. Idle("read") \in CopierState
    BY DEF Idle, CopierState
  <2> QED  BY <1>3, <1>4, <2>1 DEF IInv, TypeOK
<1>7. PrefixInv'
  <2>1. ASSUME NEW r \in Streams  PROVE (captured[r] = Bytes(1, Kept(r)))'
    <3>1. CASE r = s
      BY <1>5, <3>1
    <3>2. CASE r # s
      BY <1>5, <3>2 DEF IInv, PrefixInv, Kept
    <3> QED  BY <3>1, <3>2
  <2> QED  BY <2>1 DEF PrefixInv
<1>8. CommandInv' /\ GoError'
  BY <1>3 DEF IInv, CommandInv, GoInv, GoError
<1>9. GoStage'
  BY <1>3, <1>5 DEF Idle, IInv, GoInv, GoStage
<1>10. GoBudget'
  <2>1. /\ "stdout" \in Streams /\ "stderr" \in Streams /\ s \in {"stdout", "stderr"}
        /\ \A r \in Streams : Kept(r) \in Nat /\ copiers[r].allowed \in Nat
    BY DEF Streams, IInv, TypeOK, Kept, CopierState
  <2>5. \A r \in Streams \ {s} : Kept(r)' = Kept(r)
    BY <1>5 DEF Kept
  <2>2. copiers'[s].allowed = 0 /\ remaining \in Nat
    BY <1>5 DEF Idle, IInv, TypeOK
  <2>3. CASE s = "stdout"
    BY <1>1, <1>3, <1>5, <2>1, <2>2, <2>5, <2>3 DEF IInv, GoInv, GoBudget
  <2>4. CASE s = "stderr"
    BY <1>1, <1>3, <1>5, <2>1, <2>2, <2>5, <2>4 DEF IInv, GoInv, GoBudget
  <2> QED  BY <2>1, <2>3, <2>4
<1>11. ASSUME NEW r \in Streams  PROVE GoCopier(r)'
  <2>1. GoCopier(r)
    BY DEF IInv, GoInv
  <2>2. CASE r = s
    BY <1>1, <1>2, <1>3, <1>5, <2>1, <2>2 DEF Idle, GoCopier, Pending
  <2>3. CASE r # s
    BY <1>3, <1>5, <2>1, <2>3 DEF GoCopier, Pending, Kept
  <2> QED  BY <2>2, <2>3
<1>12. AnswerInv'
  <2>1. pc' # "returned"
    BY <1>3 DEF IInv, GoInv, GoStage
  <2> QED  BY <2>1 DEF AnswerInv, CaptureExact, OutcomeTrue, Answered
<1> QED  BY <1>3, <1>6, <1>7, <1>8, <1>9, <1>10, <1>11, <1>12 DEF IInv, GoInv

(* The answer of Go: its copiers are done, or were never there.            *)
LEMMA DecideKeeps ==
  ASSUME IInv, backend = "go", Decide, UNCHANGED <<nativeOnly, backend>>
  PROVE  IInv'
<1> USE DEF sharedVars, worldVars, captureVars, captureOnly, nativeOnly
<1>1. /\ pc = "decide" /\ pc' = "returned"
      /\ result' = CASE err = "none" -> Outcome(0, FALSE)
                     [] err # "none" /\ passed -> Outcome(-1, TRUE)
                     [] err = "exit" /\ ~passed -> Outcome(status, FALSE)
                     [] OTHER -> NoResult
      /\ UNCHANGED <<worldVars, captureVars, captureOnly, nativeOnly, backend>>
  BY DEF Decide, Return
<1>2. \/ err = "none" /\ result' = Outcome(0, FALSE)
      \/ err # "none" /\ passed /\ result' = Outcome(-1, TRUE)
      \/ err = "exit" /\ ~passed /\ result' = Outcome(status, FALSE)
      \/ err \notin {"none", "exit"} /\ ~passed /\ result' = NoResult
  BY <1>1 DEF IInv, TypeOK
<1>3. TypeOK'
  <2>1. status \in Int /\ backend = "go" /\ pc' \in GoStages
    BY <1>1 DEF IInv, TypeOK, GoStages
  <2>2. result' \in [ok : BOOLEAN, code : Int, timedOut : BOOLEAN]
    <3>1. 0 \in Int /\ -1 \in Int
      OBVIOUS
    <3>2. /\ NoResult \in [ok : BOOLEAN, code : Int, timedOut : BOOLEAN]
          /\ \A code \in Int, late \in BOOLEAN :
               Outcome(code, late) \in [ok : BOOLEAN, code : Int, timedOut : BOOLEAN]
      BY <3>1 DEF NoResult, Outcome
    <3> QED  BY <1>2, <2>1, <3>1, <3>2
  <2> QED  BY <1>1, <2>1, <2>2, ZenonT(60) DEF IInv, TypeOK
<1>4. CommandInv' /\ PrefixInv' /\ GoBudget' /\ GoError' /\ GoStage'
  BY <1>1 DEF IInv, CommandInv, PrefixInv, Kept, GoInv, GoBudget, GoError, GoStage
<1>5. ASSUME NEW s \in Streams  PROVE GoCopier(s)'
  BY <1>1 DEF IInv, GoInv, GoCopier, Pending, Kept
<1>6. CaptureExact'
  <2>1. \A s \in Streams : captured'[s] = Bytes(1, Kept(s)')
    BY <1>4 DEF PrefixInv, Kept
  <2>2. \A s \in Streams : /\ copiers[s].at \in {"unborn", "eof"}
                           /\ copiers[s].allowed = 0 /\ Pending(s) = 0
    BY <1>1 DEF IInv, GoInv, GoStage, GoCopier, Pending
  <2>3. "stdout" \in Streams /\ "stderr" \in Streams /\ \A s \in Streams : Kept(s) \in Nat
    BY DEF Streams, IInv, TypeOK, Kept
  <2>4. truncated => Kept("stdout") + Kept("stderr") = MaxOutput
    BY <2>2, <2>3 DEF IInv, GoInv, GoBudget
  <2>5. ASSUME ~truncated, NEW s \in Streams  PROVE Kept(s) >= written[s]
    <3>1. Kept(s) = taken[s] /\ taken[s] \in Nat
      BY <2>2, <2>3, <2>5 DEF IInv, TypeOK, GoInv, GoCopier
    <3>2. copiers[s].at = "unborn" => written[s] = 0
      BY DEF IInv, CommandInv, GoInv, GoStage
    <3>3. copiers[s].at = "eof" => taken[s] = written[s]
      BY DEF IInv, GoInv, GoCopier
    <3> QED  BY <2>2, <3>1, <3>2, <3>3
  <2>6. \A s \in Streams : Kept(s)' = Kept(s)
    BY <1>1 DEF Kept
  <2> QED  BY <1>1, <2>1, <2>3, <2>4, <2>5, <2>6 DEF CaptureExact
<1>7. OutcomeTrue'
  <2>1. command \in {"unborn", "reaped"} /\ (command = "unborn" => err \in {"deadline", "other"})
    BY <1>1 DEF IInv, TypeOK, GoInv, GoStage, GoError
  <2>2. command = "reaped" =>
          /\ err # "other" /\ (err = "exit" <=> status # 0)
          /\ (err = "deadline" => killed) /\ (err = "none" => ~killed)
    BY <1>1 DEF IInv, GoInv, GoError
  <2>3. killed => passed
    BY DEF IInv, CommandInv
  <2>4. CASE err = "none"
    BY <1>1, <1>2, <2>1, <2>2, <2>4 DEF OutcomeTrue, Outcome
  <2>5. CASE err # "none" /\ passed
    <3>1. killed \/ command = "unborn" \/ status # 0
      BY <2>1, <2>2, <2>5 DEF IInv, TypeOK
    <3> QED  BY <1>1, <1>2, <2>5, <3>1 DEF OutcomeTrue, Outcome
  <2>6. CASE err # "none" /\ ~passed
    BY <1>1, <1>2, <2>1, <2>2, <2>3, <2>6 DEF OutcomeTrue, Answered, Outcome, NoResult
  <2> QED  BY <2>4, <2>5, <2>6
<1> QED  BY <1>1, <1>3, <1>4, <1>5, <1>6, <1>7 DEF IInv, GoInv, AnswerInv

-----------------------------------------------------------------------------
(* The command, what it leaves behind, and time.                           *)

(* A command may end, whatever is written stays, and nobody writes once    *)
(* all that could are gone.                                                *)
LEMMA WorldFacts ==
  ASSUME TypeOK, CommandInv, World
  PROVE  /\ pc # "returned" /\ UNCHANGED <<pc, captureVars, result, killed>>
         /\ command' = command \/ (command = "running" /\ command' = "zombie")
         /\ command' = command => UNCHANGED <<status, owed>>
         /\ command' # command => owed' = written
         /\ passed => passed'
         /\ \A s \in Streams : written[s] <= written'[s]
         /\ command # "running" /\ ~background => written' = written /\ ~background'
         /\ command = "unborn" => written' = written /\ background' = background
         /\ status' \in Int /\ background' \in BOOLEAN /\ passed' \in BOOLEAN
         /\ written' \in [Streams -> Nat] /\ owed' \in [Streams -> Nat]
<1> USE DEF TypeOK, captureVars
<1>1. CASE Exits
  BY <1>1, ExecAssumption DEF World, Exits, Ends
<1>2. CASE Forks
  BY <1>2 DEF World, Forks
<1>4. CASE BackgroundEnds
  <2>1. background /\ background' = FALSE /\ command # "unborn"
    BY <1>4 DEF CommandInv, BackgroundEnds
  <2>2. UNCHANGED <<command, status, killed, written, owed, passed, pc, captureVars, result>>
    BY <1>4 DEF World, BackgroundEnds
  <2>3. pc # "returned"
    BY DEF World
  <2>4. \A s \in Streams : written[s] <= written'[s]
    BY <2>2
  <2>5. /\ background' \in BOOLEAN /\ passed' \in BOOLEAN /\ status' \in Int
        /\ written' \in [Streams -> Nat] /\ owed' \in [Streams -> Nat]
    BY <2>1, <2>2
  <2> HIDE DEF TypeOK
  <2> QED  BY <2>1, <2>2, <2>3, <2>4, <2>5
<1>5. CASE DeadlinePasses
  BY <1>5 DEF CommandInv, World, DeadlinePasses
<1>3. ASSUME NEW s \in Streams, Writes(s)
      PROVE  /\ written' \in [Streams -> Nat]
             /\ \A r \in Streams : written[r] <= written'[r]
             /\ command = "running" \/ background
             /\ UNCHANGED <<command, status, killed, background, owed, passed>>
  BY <1>3 DEF Writes
<1> QED  BY <1>1, <1>2, <1>3, <1>4, <1>5 DEF CommandInv, World

LEMMA WorldKeeps ==
  ASSUME IInv, World, UNCHANGED <<captureOnly, nativeOnly, backend>>
  PROVE  IInv'
<1> USE DEF captureVars, captureOnly, nativeOnly
<1>1. /\ pc # "returned" /\ UNCHANGED <<pc, captureVars, result, killed>>
      /\ command' = command \/ (command = "running" /\ command' = "zombie")
      /\ command' = command => UNCHANGED <<status, owed>>
      /\ command' # command => owed' = written
      /\ passed => passed'
      /\ \A s \in Streams : written[s] <= written'[s]
      /\ command # "running" /\ ~background => written' = written /\ ~background'
      /\ command = "unborn" => written' = written /\ background' = background
      /\ status' \in Int /\ background' \in BOOLEAN /\ passed' \in BOOLEAN
      /\ written' \in [Streams -> Nat] /\ owed' \in [Streams -> Nat]
  BY WorldFacts DEF IInv
<1>2. TypeOK'
  BY <1>1 DEF IInv, TypeOK
<1>3. CommandInv'
  <2>1. \A s \in Streams : owed'[s] <= written'[s]
    <3>1. ASSUME NEW s \in Streams  PROVE owed'[s] <= written'[s]
      <4>1. owed[s] <= written[s] /\ written[s] <= written'[s]
        BY <1>1 DEF IInv, CommandInv
      <4>2. owed[s] \in Nat /\ written[s] \in Nat /\ written'[s] \in Nat
        BY <1>1 DEF IInv, TypeOK
      <4> QED  BY <1>1, <4>1, <4>2
    <3> QED  BY <3>1
  <2> QED  BY <1>1, <2>1 DEF IInv, CommandInv
<1>4. PrefixInv' /\ AnswerInv'
  BY <1>1 DEF IInv, PrefixInv, Kept, AnswerInv, CaptureExact, OutcomeTrue, Answered
<1>5. backend = "go" => GoInv' /\ ~r14'
  <2> SUFFICES ASSUME backend = "go"  PROVE GoInv' /\ ~r14'
    OBVIOUS
  <2>1. GoStage'
    BY <1>1 DEF IInv, GoInv, GoStage
  <2>2. GoBudget'
    BY <1>1 DEF IInv, GoInv, GoBudget, Kept
  <2>3. GoError'
    BY <1>1 DEF IInv, GoInv, GoError
  <2>4. ASSUME NEW s \in Streams  PROVE GoCopier(s)'
    <3>1. /\ GoCopier(s) /\ written[s] <= written'[s]
          /\ taken[s] \in Nat /\ written[s] \in Nat /\ written'[s] \in Nat
      BY <1>1 DEF IInv, TypeOK, GoInv
    <3> QED  BY <1>1, <3>1 DEF GoCopier, Pending, Kept
  <2> QED  BY <2>1, <2>2, <2>3, <2>4 DEF IInv, GoInv
<1>6. backend = "native" => NativeInv'
  BY <1>1 DEF IInv, NativeInv, Enough, Kept
<1> QED  BY <1>2, <1>3, <1>4, <1>5, <1>6 DEF IInv

-----------------------------------------------------------------------------
(* The steps of machine code.                                              *)

(* What it does before there is an answer.                                 *)
LEMMA NativeWaits ==
  ASSUME IInv, backend = "native", NativeStarts \/ NativeLooks \/ NativePolls,
         UNCHANGED <<captureOnly, backend>>
  PROVE  IInv'
<1> USE DEF worldVars, captureVars, captureOnly, nativeOnly
<1>1. CASE NativeStarts
  <2>1. TypeOK' /\ CommandInv'
    BY <1>1 DEF NativeStarts, Begins, IInv, TypeOK, NativeStages, CommandInv, NativeInv
  <2>2. PrefixInv' /\ AnswerInv'
    BY <1>1 DEF NativeStarts, IInv, PrefixInv, Kept, AnswerInv, CaptureExact, OutcomeTrue, Answered
  <2>3. NativeInv'
    BY <1>1 DEF NativeStarts, Begins, IInv, NativeInv, NativeStages, Kept
  <2> QED  BY <1>1, <2>1, <2>2, <2>3 DEF IInv
<1>2. CASE NativeLooks
  <2>1. TypeOK' /\ CommandInv' /\ (killed' => timedOut') /\ (timedOut' /\ ~r14' => killed')
    <3>1. CASE ~(passed /\ ~timedOut)
      BY <1>2, <3>1 DEF NativeLooks, IInv, TypeOK, NativeStages, CommandInv, NativeInv
    <3>2. CASE passed /\ ~timedOut /\ command = "running"
      BY <1>2, <3>2 DEF NativeLooks, Kill, Ends, Killed, IInv, TypeOK, NativeStages, CommandInv, NativeInv
    <3>3. CASE passed /\ ~timedOut /\ command # "running"
      BY <1>2, <3>3 DEF NativeLooks, Kill, IInv, TypeOK, NativeStages, CommandInv, NativeInv
    <3> QED  BY <3>1, <3>2, <3>3
  <2>2. PrefixInv' /\ AnswerInv'
    BY <1>2 DEF NativeLooks, IInv, PrefixInv, Kept, AnswerInv, CaptureExact, OutcomeTrue, Answered
  <2>3. command' \in {"running", "zombie", "reaped"}
    BY <1>2 DEF NativeLooks, Kill, Ends, IInv, TypeOK, NativeInv
  <2>4. NativeInv'
    BY <1>2, <2>1, <2>3 DEF NativeLooks, IInv, NativeInv, NativeStages, Kept
  <2> QED  BY <1>2, <2>1, <2>2, <2>4 DEF NativeLooks, IInv
<1>3. CASE NativePolls
  <2>1. TypeOK' /\ CommandInv'
    <3>1. CASE command = "zombie"
      BY <1>3, <3>1 DEF NativePolls, Reaped, IInv, TypeOK, NativeStages, CommandInv
    <3>2. CASE command # "zombie"
      BY <1>3, <3>2 DEF NativePolls, IInv, TypeOK, NativeStages, CommandInv
    <3> QED  BY <3>1, <3>2
  <2>2. PrefixInv' /\ AnswerInv'
    BY <1>3 DEF NativePolls, IInv, PrefixInv, Kept, AnswerInv, CaptureExact, OutcomeTrue, Answered
  <2>3. NativeInv'
    BY <1>3 DEF NativePolls, Reaped, IInv, TypeOK, NativeInv, NativeStages, Kept
  <2> QED  BY <1>3, <2>1, <2>2, <2>3 DEF IInv
<1> QED  BY <1>1, <1>2, <1>3

(* A stream's size is looked at, and what fits of it is taken.             *)
LEMMA NativeTakes ==
  ASSUME IInv, backend = "native", NEW s \in Streams, NativeSizes(s) \/ NativeFills(s),
         UNCHANGED <<captureOnly, backend>>
  PROVE  IInv'
<1> USE DEF worldVars, captureVars, captureOnly, nativeOnly
<1>1. /\ s \in {"stdout", "stderr"} /\ Filling(s) \in {"fill stdout", "fill stderr"}
      /\ Filling("stdout") = "fill stdout" /\ Filling("stderr") = "fill stderr"
      /\ "stdout" \in Streams /\ "stderr" \in Streams
  BY DEF Streams, Filling
<1>2. /\ remaining \in Nat /\ size \in Nat
      /\ \A r \in Streams : Kept(r) \in Nat /\ written[r] \in Nat /\ owed[r] \in Nat
                         /\ owed[r] <= written[r]
  BY DEF IInv, TypeOK, CommandInv, Kept
<1>3. CASE NativeSizes(s)
  <2>1. size' \in Nat /\ size' <= remaining /\ size' <= written[s]
    BY <1>2, <1>3 DEF NativeSizes, Least
  <2>2. TypeOK'
    <3>1. pc' \in NativeStages /\ backend' = "native"
      BY <1>1, <1>3 DEF NativeSizes, NativeStages
    <3>2. truncated' \in BOOLEAN
      BY <1>3 DEF NativeSizes, IInv, TypeOK
    <3> QED  BY <1>3, <2>1, <3>1, <3>2 DEF NativeSizes, IInv, TypeOK
  <2>3. /\ written[s] > remaining => truncated' /\ size' = remaining
        /\ ~(written[s] > remaining) => size' = written[s] /\ truncated' = truncated
    <3>1. truncated \in BOOLEAN /\ truncated' \in BOOLEAN
      BY <2>2 DEF IInv, TypeOK
    <3>2. CASE written[s] > remaining
      <4>1. truncated' = (truncated \/ written[s] > remaining)
        BY <1>3 DEF NativeSizes
      <4>2. size' = remaining
        BY <1>2, <1>3, <3>2 DEF NativeSizes, Least
      <4> QED  BY <3>2, <4>1, <4>2
    <3>3. CASE ~(written[s] > remaining)
      BY <1>2, <1>3, <3>1, <3>3 DEF NativeSizes, Least
    <3> QED  BY <3>2, <3>3
  <2>4. CommandInv' /\ PrefixInv' /\ AnswerInv'
    BY <1>1, <1>3 DEF NativeSizes, IInv, CommandInv, PrefixInv, Kept, AnswerInv, CaptureExact,
                      OutcomeTrue, Answered
  <2>5. /\ truncated' => size' = remaining
        /\ ~truncated' => size' >= owed[s]
    <3>1. truncated => remaining = 0
      BY <1>1, <1>3 DEF NativeSizes, IInv, NativeInv
    <3>2. CASE written[s] > remaining
      BY <1>2, <2>3, <3>2
    <3>3. CASE ~(written[s] > remaining)
      BY <1>2, <2>1, <2>3, <3>1, <3>3
    <3> QED  BY <3>2, <3>3
  <2>6. CASE s = "stdout"
    BY <1>1, <1>2, <1>3, <2>1, <2>2, <2>4, <2>5, <2>6
       DEF NativeSizes, IInv, NativeInv, NativeStages, Enough, Kept
  <2>7. CASE s = "stderr"
    <3>1. truncated => truncated'
      BY <1>3, <2>3 DEF IInv, TypeOK
    <3> QED  BY <1>1, <1>2, <1>3, <2>1, <2>2, <2>4, <2>5, <2>7, <3>1
                DEF NativeSizes, IInv, NativeInv, NativeStages, Enough, Kept
  <2> QED  BY <1>1, <2>6, <2>7
<1>4. CASE NativeFills(s)
  <2>1. size <= remaining /\ (truncated => size = remaining) /\ Kept("stderr") = 0
    BY <1>1, <1>4 DEF NativeFills, IInv, NativeInv, NativeStages
  <2>2. Bytes(1, size) \in Seq(Nat) /\ Len(Bytes(1, size)) = size
    <3>1. 1 \in Nat /\ 1 <= size + 1 /\ size - 1 + 1 = size
      BY <1>2
    <3> QED  BY <1>2, <3>1, BytesType
  <2>3. /\ captured'[s] = Bytes(1, size) /\ Kept(s)' = size
        /\ \A r \in Streams \ {s} : captured'[r] = captured[r] /\ Kept(r)' = Kept(r)
    BY <1>4, <2>2 DEF NativeFills, IInv, TypeOK, Kept
  <2>4. TypeOK'
    <3>1. pc' \in NativeStages /\ backend' = "native"
      BY <1>1, <1>4 DEF NativeFills, NativeStages
    <3>2. captured' \in [Streams -> Seq(Nat)] /\ remaining' \in Nat
      BY <1>2, <1>4, <2>1, <2>2 DEF NativeFills, IInv, TypeOK
    <3> QED  BY <1>4, <3>1, <3>2 DEF NativeFills, IInv, TypeOK
  <2>5. PrefixInv'
    <3>1. ASSUME NEW r \in Streams  PROVE (captured[r] = Bytes(1, Kept(r)))'
      <4>1. CASE r = s
        BY <2>3, <4>1
      <4>2. CASE r # s
        BY <2>3, <4>2 DEF IInv, PrefixInv, Kept
      <4> QED  BY <4>1, <4>2
    <3> QED  BY <3>1 DEF PrefixInv
  <2>6. CommandInv' /\ AnswerInv'
    BY <1>1, <1>4 DEF NativeFills, IInv, CommandInv, AnswerInv, CaptureExact, OutcomeTrue, Answered
  <2>9. /\ pc = Filling(s) /\ pc' = IF s = "stdout" THEN "stderr" ELSE "build"
        /\ remaining' = remaining - size
        /\ UNCHANGED <<worldVars, truncated, nativeOnly, captureOnly, backend>>
    BY <1>4 DEF NativeFills
  <2>7. CASE s = "stdout"
    <3>1. Kept("stdout") = 0
      BY <1>1, <1>4, <2>7 DEF NativeFills, IInv, NativeInv
    <3>2. /\ pc = "fill stdout" /\ pc' = "stderr"
          /\ Kept("stdout")' = size /\ Kept("stderr")' = Kept("stderr")
      BY <1>1, <2>3, <2>7, <2>9
    <3>3. /\ remaining + Kept("stdout") + Kept("stderr") = MaxOutput
          /\ command = "reaped" /\ Enough("stdout", size)
          /\ (killed => timedOut) /\ (timedOut /\ ~r14 => killed)
      BY <3>2 DEF IInv, TypeOK, NativeInv
    <3>4. (remaining + Kept("stdout") + Kept("stderr") = MaxOutput)'
      <4>1. remaining' = remaining - size /\ Kept("stderr") = 0
        BY <2>1, <2>9
      <4>2. Kept("stdout")' = size /\ Kept("stderr")' = 0
        BY <3>2, <4>1
      <4>3. remaining' + size + 0 = MaxOutput
        BY <1>2, <3>1, <3>3, <4>1
      <4> QED  BY <4>2, <4>3
    <3>5. (Enough("stdout", Kept("stdout")) /\ (truncated => remaining = 0))'
      <4>1. /\ Kept("stdout")' = size /\ truncated' = truncated /\ owed' = owed
            /\ remaining' = remaining - size
        BY <2>9, <3>2
      <4>2. truncated => remaining - size = 0
        BY <1>2, <2>1
      <4>3. truncated \/ size >= owed["stdout"]
        BY <3>3 DEF Enough
      <4> QED  BY <4>1, <4>2, <4>3 DEF Enough
    <3>6. NativeInv'
      BY <2>1, <2>9, <3>2, <3>3, <3>4, <3>5 DEF NativeInv, NativeStages
    <3> QED  BY <2>4, <2>5, <2>6, <2>9, <3>6 DEF IInv
  <2>8. CASE s = "stderr"
    <3>1. Kept("stdout")' = Kept("stdout")
      BY <1>1, <2>3, <2>8
    <3>2. pc = "fill stderr" /\ pc' = "build" /\ Kept("stderr")' = size
      BY <1>1, <2>3, <2>8, <2>9
    <3>3. /\ remaining + Kept("stdout") + Kept("stderr") = MaxOutput
          /\ command = "reaped" /\ Enough("stdout", Kept("stdout")) /\ Enough("stderr", size)
          /\ (killed => timedOut) /\ (timedOut /\ ~r14 => killed)
      BY <3>2 DEF IInv, TypeOK, NativeInv
    <3>4. (remaining + Kept("stdout") + Kept("stderr") = MaxOutput)'
      <4>1. remaining' = remaining - size /\ Kept("stderr") = 0 /\ Kept("stdout") \in Nat
        BY <1>1, <1>2, <2>1, <2>9
      <4>2. Kept("stdout")' = Kept("stdout") /\ Kept("stderr")' = size
        BY <3>1, <3>2
      <4>3. remaining' + Kept("stdout") + size = MaxOutput
        BY <1>2, <3>3, <4>1
      <4> QED  BY <4>2, <4>3
    <3>5. (/\ Enough("stdout", Kept("stdout")) /\ Enough("stderr", Kept("stderr"))
           /\ truncated => remaining = 0)'
      <4>1. /\ Kept("stdout")' = Kept("stdout") /\ Kept("stderr")' = size
            /\ truncated' = truncated /\ owed' = owed /\ remaining' = remaining - size
        BY <2>9, <3>1, <3>2
      <4>2. truncated => remaining - size = 0
        BY <1>2, <2>1
      <4>3. truncated \/ (Kept("stdout") >= owed["stdout"] /\ size >= owed["stderr"])
        BY <3>3 DEF Enough
      <4> QED  BY <4>1, <4>2, <4>3 DEF Enough
    <3>6. NativeInv'
      BY <2>9, <3>2, <3>3, <3>4, <3>5 DEF NativeInv, NativeStages
    <3> QED  BY <2>4, <2>5, <2>6, <2>9, <3>6 DEF IInv
  <2> QED  BY <1>1, <2>7, <2>8
<1> QED  BY <1>3, <1>4

(* Its answer, or that it has none.                                        *)
LEMMA NativeReturns ==
  ASSUME IInv, backend = "native", NativeFails \/ NativeBuilds,
         UNCHANGED <<captureOnly, backend>>
  PROVE  IInv'
<1> USE DEF worldVars, captureVars, captureOnly, nativeOnly
<1>1. /\ pc' = "returned" /\ UNCHANGED <<worldVars, captureVars, captureOnly, nativeOnly, backend>>
  BY DEF NativeFails, NativeBuilds, Return
<1>2. CommandInv' /\ PrefixInv' /\ NativeInv'
  BY <1>1 DEF IInv, CommandInv, PrefixInv, NativeInv, Enough, NativeStages, Kept
<1>3. CASE NativeFails
  <2>1. result' = NoResult
    BY <1>3 DEF NativeFails, Return
  <2>2. NoResult \in [ok : BOOLEAN, code : Int, timedOut : BOOLEAN] /\ ~NoResult.ok
    BY DEF NoResult
  <2>3. TypeOK' /\ AnswerInv'
    <3>1. pc' \in NativeStages /\ backend' = "native"
      BY <1>1 DEF NativeStages
    <3>2. TypeOK'
      BY <1>1, <2>1, <2>2, <3>1 DEF IInv, TypeOK
    <3> QED  BY <2>1, <2>2, <3>2 DEF AnswerInv, CaptureExact, OutcomeTrue, Answered
  <2> QED  BY <1>1, <1>2, <2>3 DEF IInv
<1>4. CASE NativeBuilds
  <2>1. /\ pc = "build" /\ timedOut \in BOOLEAN /\ status \in Int
        /\ result' = [ok |-> TRUE, code |-> IF timedOut THEN -1 ELSE status, timedOut |-> timedOut]
    BY <1>4 DEF NativeBuilds, Return, Outcome, IInv, TypeOK
  <2>2. result' \in [ok : BOOLEAN, code : Int, timedOut : BOOLEAN]
    BY <2>1
  <2>3. TypeOK'
    <3>1. pc' \in NativeStages /\ backend' = "native"
      BY <1>1 DEF NativeStages
    <3> QED  BY <1>1, <2>2, <3>1 DEF IInv, TypeOK
  <2>4. CaptureExact'
    <3>1. \A s \in Streams : captured'[s] = Bytes(1, Kept(s)')
      BY <1>2 DEF PrefixInv, Kept
    <3>2. "stdout" \in Streams /\ "stderr" \in Streams /\ \A s \in Streams : Kept(s) \in Nat
      BY DEF Streams, IInv, TypeOK, Kept
    <3>3. truncated => Kept("stdout") + Kept("stderr") = MaxOutput
      BY <2>1, <3>2 DEF IInv, NativeInv
    <3>4. ~truncated => \A s \in Streams : Kept(s) >= owed[s]
      BY <2>1 DEF IInv, NativeInv, Enough, Streams
    <3>5. \A s \in Streams : Kept(s)' = Kept(s)
      BY <1>1 DEF Kept
    <3> QED  BY <1>1, <3>1, <3>2, <3>3, <3>4, <3>5 DEF CaptureExact
  <2>5. OutcomeTrue'
    <3>1. command = "reaped"
      BY <2>1 DEF IInv, TypeOK, NativeInv
    <3>2. (killed => timedOut) /\ (timedOut /\ ~r14 => killed) /\ (killed => passed)
      BY DEF IInv, CommandInv, NativeInv
    <3>3. CASE timedOut
      BY <1>1, <2>1, <3>1, <3>2, <3>3 DEF OutcomeTrue
    <3>4. CASE ~timedOut
      BY <1>1, <2>1, <3>1, <3>2, <3>4 DEF OutcomeTrue
    <3> QED  BY <3>3, <3>4
  <2> QED  BY <1>1, <1>2, <2>3, <2>4, <2>5 DEF IInv, AnswerInv
<1> QED  BY <1>3, <1>4

-----------------------------------------------------------------------------
(* The theorems.                                                           *)

LEMMA InitIInv == Init => IInv
<1> SUFFICES ASSUME Init  PROVE IInv
  OBVIOUS
<1> USE DEF Init, WorldInit, CaptureInit, NativeInit, Idle
<1>1. \A s \in Streams : captured[s] = <<>> /\ Kept(s) = 0
  BY DEF Kept
<1>2. TypeOK
  <2>1. <<>> \in Seq(Nat) /\ Idle("unborn") \in CopierState
    BY DEF CopierState
  <2>2. "start" \in GoStages /\ "start" \in NativeStages
    BY DEF GoStages, NativeStages
  <2>3. NoResult \in [ok : BOOLEAN, code : Int, timedOut : BOOLEAN]
    BY DEF NoResult
  <2>4. MaxOutput \in Nat /\ 0 \in Int /\ 0 \in Nat
    BY ExecAssumption
  <2>5. /\ copiers \in [Streams -> CopierState] /\ captured \in [Streams -> Seq(Nat)]
        /\ pc \in (IF backend = "go" THEN GoStages ELSE NativeStages)
    BY <2>1, <2>2
  <2> QED  BY <2>3, <2>4, <2>5 DEF TypeOK
<1>3. CommandInv /\ AnswerInv
  BY DEF CommandInv, AnswerInv, CaptureExact, OutcomeTrue, Answered
<1>4. PrefixInv
  BY <1>1, BytesNone DEF PrefixInv
<1>5. "stdout" \in Streams /\ "stderr" \in Streams
  BY DEF Streams
<1>6. GoInv
  BY <1>1, <1>5, ExecAssumption DEF GoInv, GoStage, GoBudget, GoError, GoCopier, Pending
<1>7. NativeInv
  BY <1>1, <1>5, ExecAssumption DEF NativeInv, NativeStages
<1> QED  BY <1>2, <1>3, <1>4, <1>6, <1>7 DEF IInv

LEMMA NextIInv == IInv /\ [Next]_vars => IInv'
<1> SUFFICES ASSUME IInv, [Next]_vars  PROVE IInv'
  OBVIOUS
<1>1. CASE CallerStep
  BY <1>1, StartedKeeps, NotStartedKeeps, WaitProcessKeeps, WaitWatcherKeeps, WaitCopiersKeeps,
     DecideKeeps DEF CallerStep, Caller
<1>2. CASE WatcherStep
  BY <1>2, WatchFiresKeeps DEF WatcherStep
<1>3. ASSUME NEW s \in Streams, CopierStep(s)  PROVE IInv'
  BY <1>3, ReadPipeKeeps, ReadEndKeeps, TakeBudgetKeeps, AppendOutputKeeps DEF CopierStep, Copier
<1>4. CASE NativeStep
  BY <1>4, NativeWaits, NativeTakes, NativeReturns DEF NativeStep, Native
<1>5. CASE WorldStep
  BY <1>5, WorldKeeps DEF WorldStep
<1>6. CASE UNCHANGED vars
  <2> USE <1>6 DEF vars, sharedVars, worldVars, captureVars, captureOnly, nativeOnly
  <2>1. TypeOK' /\ CommandInv' /\ PrefixInv'
    BY DEF IInv, TypeOK, CommandInv, PrefixInv, Kept
  <2>2. AnswerInv'
    BY DEF IInv, AnswerInv, CaptureExact, OutcomeTrue, Answered, Kept
  <2>3. backend = "go" => GoStage' /\ GoBudget' /\ GoError'
    BY DEF IInv, GoInv, GoStage, GoBudget, GoError, Kept
  <2>4. backend = "go" => \A s \in Streams : GoCopier(s)'
    BY DEF IInv, GoInv, GoCopier, Pending, Kept
  <2>5. backend = "native" => NativeInv'
    BY DEF IInv, NativeInv, Enough, Kept
  <2> QED  BY <2>1, <2>2, <2>3, <2>4, <2>5 DEF IInv, GoInv
<1> QED  BY <1>1, <1>2, <1>3, <1>4, <1>5, <1>6 DEF Next

(* The invariant holds in every state of every call.                       *)
THEOREM InvariantHolds == Spec => []IInv
  BY InitIInv, NextIInv, PTL DEF Spec

(* The variables of a call have their types.                               *)
THEOREM TypeCorrect == Spec => []TypeOK
<1>1. IInv => TypeOK
  BY DEF IInv
<1> QED  BY <1>1, InvariantHolds, PTL

(* For every budget, and whatever the command writes, forks and leaves     *)
(* behind: an answer holds the beginning of each stream, fills the budget  *)
(* if it says that it is truncated, and is complete if it does not.        *)
THEOREM CaptureExactHolds == Spec => []CaptureExact
<1>1. IInv => CaptureExact
  BY DEF IInv, AnswerInv
<1> QED  BY <1>1, InvariantHolds, PTL

(* However the deadline falls among the steps of the command and of those  *)
(* that wait for it, the answer says truly whether it was killed and what  *)
(* its code was.                                                           *)
THEOREM OutcomeTrueHolds == Spec => []OutcomeTrue
<1>1. IInv => OutcomeTrue
  BY DEF IInv, AnswerInv
<1> QED  BY <1>1, InvariantHolds, PTL
=============================================================================
