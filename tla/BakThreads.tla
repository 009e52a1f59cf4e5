----------------------------- MODULE BakThreads -----------------------------
(***************************************************************************)
(* The threads of a Bak program (pkg/vm/vm_builtins.go): spawn and join,   *)
(* mutexes, cancel tokens and the globals all threads share.  Each thread  *)
(* is a virtual machine of its own that a goroutine runs.                  *)
(*                                                                         *)
(* The program is left open: between two builtin calls a running thread    *)
(* may make any call.  Disciplined restricts it to the use std/sync is     *)
(* meant for: a thread unlocks only the mutex it locked, does not nest     *)
(* locks, does not join inside a critical section, and leaves it before    *)
(* it returns.  A thread can fail anywhere.                                *)
(***************************************************************************)
EXTENDS Integers, FiniteSets

CONSTANTS
  Threads,      \* the threads of the program, Main among them
  Main,         \* the thread that runs main
  None,         \* no thread, no handle
  MaxHandle,    \* bound: the largest mutex or token handle
  MaxWrites,    \* bound: increments of the shared counter
  Disciplined   \* does the program follow the locking discipline?

Handles == 2 .. MaxHandle     \* the id counters start at 1

ASSUME ConstantsAssumption ==
  /\ Main \in Threads
  /\ None \notin Threads \cup Handles
  /\ MaxHandle \in Nat \ {0}
  /\ MaxWrites \in Nat
  /\ Disciplined \in BOOLEAN

VARIABLES
  pc,           \* what each thread is doing
  target,       \* the thread or handle its current builtin call is about
  parent,       \* the thread that spawned it
  polls,        \* the token its body polls until it is cancelled, or None
  result,       \* how its run ended
  err,          \* thread.Err is set
  joined,       \* joins that returned without an error
  nextMutexID,  \* *vm.nextMutexID
  locked,       \* the state of each sync.Mutex
  inside,       \* the mutex a thread has locked and not unlocked
  nextCancelID, \* *vm.nextCancelID
  flag,         \* the atomic flag of each cancel token
  cancelled,    \* tokens for which a cancel() has returned
  counter,      \* a global variable, guarded by the mutex of its handle
  register,     \* the value of that global on a thread's stack, or None
  writes,       \* increments of the global that were completed
  process       \* "running", or how the process ended

threadVars == <<pc, target, parent, polls, result, err, joined>>
mutexVars  == <<nextMutexID, locked, inside>>
tokenVars  == <<nextCancelID, flag, cancelled>>
globalVars == <<counter, register, writes>>
vars == <<threadVars, mutexVars, tokenVars, globalVars, process>>

PCs == {"unborn", "run", "locking", "joining", "cancelling", "polling",
        "returned", "recorded", "closed"}
Ended      == {"returned", "recorded", "closed"}
Results    == {"none", "ok", "error"}
Created(m) == m \in 2 .. nextMutexID
Issued(c)  == c \in 2 .. nextCancelID

Init ==
  /\ pc = [t \in Threads |-> IF t = Main THEN "run" ELSE "unborn"]
  /\ target = [t \in Threads |-> None]
  /\ parent = [t \in Threads |-> None]
  /\ polls = [t \in Threads |-> None]
  /\ result = [t \in Threads |-> "none"]
  /\ err = [t \in Threads |-> FALSE]
  /\ joined = {}
  /\ nextMutexID = 1
  /\ locked = [m \in Handles |-> FALSE]
  /\ inside = [t \in Threads |-> None]
  /\ nextCancelID = 1
  /\ flag = [c \in Handles |-> FALSE]
  /\ cancelled = {}
  /\ counter = [m \in Handles |-> 0]
  /\ register = [t \in Threads |-> None]
  /\ writes = [m \in Handles |-> 0]
  /\ process = "running"

(* A thread that is free to make its next call: a body that polls a token  *)
(* makes no other.                                                         *)
Free(t) == process = "running" /\ pc[t] = "run" /\ polls[t] = None

(* run() of thread t returns.  When main's does, the process ends and the  *)
(* other threads with it.                                                  *)
Returns(t, r) ==
  /\ result' = [result EXCEPT ![t] = r]
  /\ pc' = [pc EXCEPT ![t] = "returned"]
  /\ process' = IF t = Main THEN r ELSE process

Continues(t) == pc' = [pc EXCEPT ![t] = "run"] /\ UNCHANGED <<result, process>>

-----------------------------------------------------------------------------
(* Threads.                                                                *)

(* BUILTIN_SPAWN: a new VM that shares globals, mutexes and tokens.        *)
Spawn(t, u, token) ==
  /\ Free(t)
  /\ pc[u] = "unborn"
  /\ token # None => Issued(token)
  /\ pc' = [pc EXCEPT ![u] = "run"]
  /\ parent' = [parent EXCEPT ![u] = t]
  /\ polls' = [polls EXCEPT ![u] = token]
  /\ UNCHANGED <<target, result, err, joined, mutexVars, tokenVars, globalVars, process>>

(* The body of a thread returns, panics or raises a runtime error.         *)
Finish(t, r) ==
  /\ Free(t)
  /\ Disciplined /\ r = "ok" => inside[t] = None
  /\ Returns(t, r)
  /\ UNCHANGED <<target, parent, polls, err, joined, mutexVars, tokenVars, globalVars>>

(* The goroutine stores the error in thread.Err.                           *)
RecordErr(t) ==
  /\ process = "running"
  /\ pc[t] = "returned"
  /\ err' = [err EXCEPT ![t] = result[t] = "error"]
  /\ pc' = [pc EXCEPT ![t] = "recorded"]
  /\ UNCHANGED <<target, parent, polls, result, joined, mutexVars, tokenVars,
                 globalVars, process>>

(* The goroutine's deferred close(thread.Done).                            *)
CloseDone(t) ==
  /\ process = "running"
  /\ pc[t] = "recorded"
  /\ pc' = [pc EXCEPT ![t] = "closed"]
  /\ UNCHANGED <<target, parent, polls, result, err, joined, mutexVars, tokenVars,
                 globalVars, process>>

(* BUILTIN_JOIN, up to the receive from thread.Done.                       *)
Join(t, u) ==
  /\ Free(t)
  /\ parent[u] = t
  /\ Disciplined => inside[t] = None
  /\ pc' = [pc EXCEPT ![t] = "joining"]
  /\ target' = [target EXCEPT ![t] = u]
  /\ UNCHANGED <<parent, polls, result, err, joined, mutexVars, tokenVars,
                 globalVars, process>>

(* Mutant of JoinReturn: the joiner ignores thread.Err.                    *)
JoinAnyway(t) ==
  /\ process = "running"
  /\ pc[t] = "joining"
  /\ pc[target[t]] = "closed"
  /\ Continues(t)
  /\ joined' = joined \cup {<<t, target[t]>>}
  /\ target' = [target EXCEPT ![t] = None]
  /\ UNCHANGED <<parent, polls, err, mutexVars, tokenVars, globalVars>>

(* Mutant of JoinReturn: the join does not wake when Done is closed.       *)
JoinMissed(t) ==
  /\ process = "running"
  /\ pc[t] = "joining"
  /\ pc[target[t]] = "recorded"
  /\ IF err[target[t]]
       THEN Returns(t, "error") /\ joined' = joined
       ELSE Continues(t) /\ joined' = joined \cup {<<t, target[t]>>}
  /\ target' = [target EXCEPT ![t] = None]
  /\ UNCHANGED <<parent, polls, err, mutexVars, tokenVars, globalVars>>

(* Done is closed: a failed thread makes the join a runtime error.         *)
JoinReturn(t) ==
  /\ process = "running"
  /\ pc[t] = "joining"
  /\ pc[target[t]] = "closed"
  /\ IF err[target[t]]
       THEN Returns(t, "error") /\ joined' = joined
       ELSE Continues(t) /\ joined' = joined \cup {<<t, target[t]>>}
  /\ target' = [target EXCEPT ![t] = None]
  /\ UNCHANGED <<parent, polls, err, mutexVars, tokenVars, globalVars>>

-----------------------------------------------------------------------------
(* Mutexes.                                                                *)

(* BUILTIN_MUTEX_NEW, under mutexMu.                                       *)
NewMutex(t) ==
  /\ Free(t)
  /\ nextMutexID < MaxHandle
  /\ nextMutexID' = nextMutexID + 1
  /\ locked' = [locked EXCEPT ![nextMutexID + 1] = FALSE]
  /\ UNCHANGED <<inside, threadVars, tokenVars, globalVars, process>>

(* BUILTIN_MUTEX_LOCK, the lookup under mutexMu: an unknown handle is a    *)
(* runtime error.                                                          *)
LockRequest(t, m) ==
  /\ Free(t)
  /\ Disciplined => inside[t] = None
  /\ IF Created(m)
       THEN /\ pc' = [pc EXCEPT ![t] = "locking"]
            /\ target' = [target EXCEPT ![t] = m]
            /\ UNCHANGED <<result, process>>
       ELSE Returns(t, "error") /\ target' = target
  /\ UNCHANGED <<parent, polls, err, joined, mutexVars, tokenVars, globalVars>>

(* Mutant of LockAcquire: a try-lock whose outcome is ignored.             *)
LockTried(t) ==
  /\ process = "running"
  /\ pc[t] = "locking"
  /\ locked' = [locked EXCEPT ![target[t]] = TRUE]
  /\ inside' = [inside EXCEPT ![t] = target[t]]
  /\ Continues(t)
  /\ target' = [target EXCEPT ![t] = None]
  /\ UNCHANGED <<nextMutexID, parent, polls, err, joined, tokenVars, globalVars>>

(* BUILTIN_MUTEX_LOCK, mu.Lock() outside mutexMu.                          *)
LockAcquire(t) ==
  /\ process = "running"
  /\ pc[t] = "locking"
  /\ ~locked[target[t]]
  /\ locked' = [locked EXCEPT ![target[t]] = TRUE]
  /\ inside' = [inside EXCEPT ![t] = target[t]]
  /\ Continues(t)
  /\ target' = [target EXCEPT ![t] = None]
  /\ UNCHANGED <<nextMutexID, parent, polls, err, joined, tokenVars, globalVars>>

(* Mutant of Unlock: the mutex stays locked.                               *)
UnlockNothing(t, m) ==
  /\ Free(t)
  /\ Created(m)
  /\ Disciplined => inside[t] = m /\ register[t] = None
  /\ inside' = [inside EXCEPT ![t] = IF @ = m THEN None ELSE @]
  /\ UNCHANGED <<locked, process>>
  /\ UNCHANGED <<nextMutexID, threadVars, tokenVars, globalVars>>

(* BUILTIN_MUTEX_UNLOCK: Go's Unlock of an unlocked mutex is fatal to the  *)
(* whole process, and any thread may unlock any mutex.                     *)
Unlock(t, m) ==
  /\ Free(t)
  /\ Created(m)
  /\ Disciplined => inside[t] = m /\ register[t] = None
  /\ IF locked[m]
       THEN /\ locked' = [locked EXCEPT ![m] = FALSE]
            /\ inside' = [inside EXCEPT ![t] = IF @ = m THEN None ELSE @]
            /\ process' = process
       ELSE process' = "fatal" /\ UNCHANGED <<locked, inside>>
  /\ UNCHANGED <<nextMutexID, threadVars, tokenVars, globalVars>>

-----------------------------------------------------------------------------
(* Shared globals: OP_GET_GLOBAL and OP_SET_GLOBAL are separate            *)
(* instructions on a slice all virtual machines share.                     *)

ReadGlobal(t, m) ==
  /\ Free(t)
  /\ register[t] = None
  /\ Created(m)
  /\ Disciplined => inside[t] = m
  /\ writes[m] < MaxWrites
  /\ register' = [register EXCEPT ![t] = <<m, counter[m]>>]
  /\ UNCHANGED <<threadVars, mutexVars, tokenVars, counter, writes, process>>

WriteGlobal(t) ==
  /\ Free(t)
  /\ register[t] # None
  /\ LET m == register[t][1]
     IN /\ counter' = [counter EXCEPT ![m] = register[t][2] + 1]
        /\ writes' = [writes EXCEPT ![m] = @ + 1]
  /\ register' = [register EXCEPT ![t] = None]
  /\ UNCHANGED <<threadVars, mutexVars, tokenVars, process>>

-----------------------------------------------------------------------------
(* Cancel tokens.                                                          *)

(* BUILTIN_CANCEL_NEW, under cancelMu.                                     *)
NewToken(t) ==
  /\ Free(t)
  /\ nextCancelID < MaxHandle
  /\ nextCancelID' = nextCancelID + 1
  /\ flag' = [flag EXCEPT ![nextCancelID + 1] = FALSE]
  /\ UNCHANGED <<cancelled, threadVars, mutexVars, globalVars, process>>

(* BUILTIN_CANCEL, the lookup under cancelMu.                              *)
Cancel(t, c) ==
  /\ Free(t)
  /\ IF Issued(c)
       THEN /\ pc' = [pc EXCEPT ![t] = "cancelling"]
            /\ target' = [target EXCEPT ![t] = c]
            /\ UNCHANGED <<result, process>>
       ELSE Returns(t, "error") /\ target' = target
  /\ UNCHANGED <<parent, polls, err, joined, mutexVars, tokenVars, globalVars>>

(* Mutant of CancelStore: a second cancel() takes the first back.          *)
CancelToggles(t) ==
  /\ process = "running"
  /\ pc[t] = "cancelling"
  /\ flag' = [flag EXCEPT ![target[t]] = ~@]
  /\ cancelled' = cancelled \cup {target[t]}
  /\ Continues(t)
  /\ target' = [target EXCEPT ![t] = None]
  /\ UNCHANGED <<nextCancelID, parent, polls, err, joined, mutexVars, globalVars>>

(* BUILTIN_CANCEL, flag.Store(1) outside cancelMu.                         *)
CancelStore(t) ==
  /\ process = "running"
  /\ pc[t] = "cancelling"
  /\ flag' = [flag EXCEPT ![target[t]] = TRUE]
  /\ cancelled' = cancelled \cup {target[t]}
  /\ Continues(t)
  /\ target' = [target EXCEPT ![t] = None]
  /\ UNCHANGED <<nextCancelID, parent, polls, err, joined, mutexVars, globalVars>>

(* BUILTIN_IS_CANCELLED in the loop `while !token.isCancelled()`: the      *)
(* lookup under cancelMu.                                                  *)
Poll(t) ==
  /\ process = "running"
  /\ pc[t] = "run"
  /\ polls[t] # None
  /\ pc' = [pc EXCEPT ![t] = "polling"]
  /\ target' = [target EXCEPT ![t] = polls[t]]
  /\ UNCHANGED <<parent, polls, result, err, joined, mutexVars, tokenVars,
                 globalVars, process>>

(* Mutant of PollLoad: the loop goes on whatever the flag says.            *)
PollBlind(t) ==
  /\ process = "running"
  /\ pc[t] = "polling"
  /\ Continues(t)
  /\ target' = [target EXCEPT ![t] = None]
  /\ UNCHANGED <<parent, polls, err, joined, mutexVars, tokenVars, globalVars>>

(* flag.Load(): the loop ends, and the body with it, once the flag is set. *)
PollLoad(t) ==
  /\ process = "running"
  /\ pc[t] = "polling"
  /\ IF flag[target[t]] THEN Returns(t, "ok") ELSE Continues(t)
  /\ target' = [target EXCEPT ![t] = None]
  /\ UNCHANGED <<parent, polls, err, joined, mutexVars, tokenVars, globalVars>>

-----------------------------------------------------------------------------
Next ==
  \E t \in Threads :
    \/ \E u \in Threads, token \in Handles \cup {None} : Spawn(t, u, token)
    \/ \E r \in {"ok", "error"} : Finish(t, r)
    \/ RecordErr(t)
    \/ CloseDone(t)
    \/ \E u \in Threads : Join(t, u)
    \/ JoinReturn(t)
    \/ NewMutex(t)
    \/ \E m \in Handles : LockRequest(t, m) \/ Unlock(t, m) \/ ReadGlobal(t, m)
    \/ LockAcquire(t)
    \/ WriteGlobal(t)
    \/ NewToken(t)
    \/ \E c \in Handles : Cancel(t, c)
    \/ CancelStore(t)
    \/ Poll(t)
    \/ PollLoad(t)

Spec == Init /\ [][Next]_vars

(* A goroutine that can run is scheduled; sync.Mutex hands the lock over   *)
(* to a waiter that has starved; a critical section is finite: the program *)
(* completes it unless it fails inside.                                    *)
RunsOn(t) == \/ RecordErr(t) \/ CloseDone(t) \/ JoinReturn(t)
             \/ CancelStore(t) \/ Poll(t) \/ PollLoad(t)

LeavesSection(t) == WriteGlobal(t) \/ \E m \in Handles : Unlock(t, m)

Fairness ==
  \A t \in Threads :
    WF_vars(RunsOn(t)) /\ SF_vars(LockAcquire(t)) /\ SF_vars(LeavesSection(t))

FairSpec == Spec /\ Fairness

-----------------------------------------------------------------------------
(* Thread, lock and token states have their types.                         *)
TypeOK ==
  /\ pc \in [Threads -> PCs]
  /\ target \in [Threads -> Threads \cup Handles \cup {None}]
  /\ parent \in [Threads -> Threads \cup {None}]
  /\ polls \in [Threads -> Handles \cup {None}]
  /\ result \in [Threads -> Results]
  /\ err \in [Threads -> BOOLEAN]
  /\ joined \subseteq Threads \X Threads
  /\ nextMutexID \in 1 .. MaxHandle
  /\ locked \in [Handles -> BOOLEAN]
  /\ inside \in [Threads -> Handles \cup {None}]
  /\ nextCancelID \in 1 .. MaxHandle
  /\ flag \in [Handles -> BOOLEAN]
  /\ cancelled \subseteq Handles
  /\ counter \in [Handles -> Nat]
  /\ register \in [Threads -> (Handles \X Nat) \cup {None}]
  /\ writes \in [Handles -> Nat]
  /\ process \in {"running", "ok", "error", "fatal"}

(* A disciplined program: at most one thread is between lock and unlock of *)
(* a mutex, and the mutex is locked whenever one is.                       *)
MutualExclusion ==
  Disciplined =>
    \A t \in Threads : inside[t] # None =>
      /\ locked[inside[t]]
      /\ \A u \in Threads : inside[u] = inside[t] => u = t

(* A disciplined program: no increment of a global made under its mutex is *)
(* lost, although reading and writing it are separate instructions.        *)
NoLostUpdate == Disciplined => counter = writes

(* A join that returned normally joined a thread that ended normally.      *)
JoinReports == \A j \in joined : pc[j[2]] = "closed" /\ result[j[2]] = "ok"

(* Once a cancel() has returned, every isCancelled() returns true          *)
(* (docs/cancel_token_doc.txt: idempotent, monotonic, thread-safe).        *)
CancelIsFinal == \A c \in cancelled : flag[c]

(* A disciplined program never meets Go's fatal "unlock of unlocked mutex".*)
NoFatalUnlock == Disciplined => process # "fatal"

(* A thread waits for a mutex only as long as threads come and go inside   *)
(* it: it gets in, or a thread failed inside the mutex and left it locked, *)
(* or the process is over.                                                 *)
Abandoned(m) == \E u \in Threads : pc[u] \in Ended /\ inside[u] = m

LockGranted ==
  \A t \in Threads :
    pc[t] = "locking"
      ~> (pc[t] # "locking" \/ Abandoned(target[t]) \/ process # "running")

(* A join of a thread that ends returns.                                   *)
JoinReturns ==
  \A t \in Threads :
    (pc[t] = "joining" /\ pc[target[t]] \in Ended)
      ~> (pc[t] # "joining" \/ process # "running")

(* Cancelling a token stops the threads that poll it.                      *)
CancelStops ==
  \A t \in Threads : \A c \in Handles :
    (pc[t] \in {"run", "polling"} /\ polls[t] = c /\ flag[c])
      ~> (pc[t] \in Ended \/ process # "running")

-----------------------------------------------------------------------------
Life == [t \in Threads |->
           IF pc[t] = "unborn" THEN "none"
           ELSE IF pc[t] = "closed" THEN result[t]
           ELSE "alive"]

Owner == [m \in Handles |->
            IF \E t \in Threads : inside[t] = m
              THEN CHOOSE t \in Threads : inside[t] = m
              ELSE None]

Contract == INSTANCE ThreadContract
              WITH life <- Life, owner <- Owner, halted <- process # "running"

(* Every run of a disciplined program is a run of the contract.            *)
ImplementsThreadContract == Contract!Spec

=============================================================================
