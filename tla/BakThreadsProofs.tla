-------------------------- MODULE BakThreadsProofs --------------------------
(***************************************************************************)
(* Proofs about BakThreads, for any number of threads, mutexes and tokens. *)
(* Four groups of facts are shown to be inductive one on top of the other: *)
(* types and targets; what a join may rely on; what a token promises; and  *)
(* what a disciplined program gets from its mutexes.                       *)
(***************************************************************************)
EXTENDS BakThreads, TLAPS

(* A call in progress is about a thread or about a handle that exists.     *)
TargetsOK ==
  \A t \in Threads :
    /\ pc[t] = "joining" => target[t] \in Threads
    /\ pc[t] = "locking" => target[t] \in Handles /\ Created(target[t])
    /\ pc[t] = "cancelling" => target[t] \in Handles /\ Issued(target[t])
    /\ pc[t] = "polling" => target[t] \in Handles /\ Issued(target[t])
    /\ polls[t] # None => Issued(polls[t])

TypeInv == TypeOK /\ TargetsOK

LEMMA InitTypeInv == Init => TypeInv
  BY ConstantsAssumption
     DEF Init, TypeInv, TypeOK, TargetsOK, PCs, Results, Handles, Created, Issued

(* Types and targets are preserved by every action of every thread.        *)
LEMMA StepTypeInv == TypeInv /\ [Next]_vars => TypeInv'
<1> SUFFICES ASSUME TypeInv, [Next]_vars PROVE TypeInv'
  OBVIOUS
<1> USE ConstantsAssumption
<1> USE DEF TypeInv
<1>1. ASSUME NEW t \in Threads, NEW u \in Threads, NEW token \in Handles \cup {None},
             Spawn(t, u, token)
      PROVE  TypeInv'
  <2>1. TypeOK'
    BY <1>1 DEF Spawn, TypeOK, PCs, mutexVars, tokenVars, globalVars
  <2>2. TargetsOK'
    BY <1>1 DEF Spawn, TypeOK, TargetsOK, Created, Issued, mutexVars, tokenVars
  <2> QED BY <2>1, <2>2
<1>2. ASSUME NEW t \in Threads, NEW r \in {"ok", "error"}, Finish(t, r)
      PROVE  TypeInv'
  <2>1. TypeOK'
    BY <1>2 DEF Finish, Free, Returns, TypeOK, PCs, Results, mutexVars, tokenVars, globalVars
  <2>2. TargetsOK'
    BY <1>2 DEF Finish, Returns, TypeOK, TargetsOK, Created, Issued, mutexVars, tokenVars
  <2> QED BY <2>1, <2>2
<1>3. ASSUME NEW t \in Threads, RecordErr(t) PROVE TypeInv'
  <2>1. TypeOK'
    BY <1>3 DEF RecordErr, TypeOK, PCs, mutexVars, tokenVars, globalVars
  <2>2. TargetsOK'
    BY <1>3 DEF RecordErr, TypeOK, TargetsOK, Created, Issued, mutexVars, tokenVars
  <2> QED BY <2>1, <2>2
<1>4. ASSUME NEW t \in Threads, CloseDone(t) PROVE TypeInv'
  <2>1. TypeOK'
    BY <1>4 DEF CloseDone, TypeOK, PCs, mutexVars, tokenVars, globalVars
  <2>2. TargetsOK'
    BY <1>4 DEF CloseDone, TypeOK, TargetsOK, Created, Issued, mutexVars, tokenVars
  <2> QED BY <2>1, <2>2
<1>5. ASSUME NEW t \in Threads, NEW u \in Threads, Join(t, u) PROVE TypeInv'
  <2>1. TypeOK'
    BY <1>5 DEF Join, TypeOK, PCs, mutexVars, tokenVars, globalVars
  <2>2. TargetsOK'
    BY <1>5 DEF Join, TypeOK, TargetsOK, Created, Issued, mutexVars, tokenVars
  <2> QED BY <2>1, <2>2
<1>6. ASSUME NEW t \in Threads, JoinReturn(t) PROVE TypeInv'
  <2>1. target[t] \in Threads
    BY <1>6 DEF JoinReturn, TargetsOK
  <2>2. TypeOK'
    BY <1>6, <2>1 DEF JoinReturn, Returns, Continues, TypeOK, PCs, Results,
                      mutexVars, tokenVars, globalVars
  <2>3. TargetsOK'
    BY <1>6 DEF JoinReturn, Returns, Continues, TypeOK, TargetsOK, Created, Issued,
                mutexVars, tokenVars
  <2> QED BY <2>2, <2>3
<1>7. ASSUME NEW t \in Threads, NewMutex(t) PROVE TypeInv'
  <2>1. TypeOK'
    <3>1. nextMutexID' \in 1 .. MaxHandle
      BY <1>7 DEF NewMutex, TypeOK
    <3>2. locked' \in [Handles -> BOOLEAN]
      BY <1>7 DEF NewMutex, TypeOK
    <3>3. UNCHANGED <<inside, threadVars, tokenVars, globalVars, process>>
      BY <1>7 DEF NewMutex
    <3> QED BY <3>1, <3>2, <3>3 DEF TypeOK, threadVars, tokenVars, globalVars
  <2>2. TargetsOK'
    BY <1>7 DEF NewMutex, TypeOK, TargetsOK, Created, Issued, threadVars, tokenVars
  <2> QED BY <2>1, <2>2
<1>8. ASSUME NEW t \in Threads, NEW m \in Handles, LockRequest(t, m) PROVE TypeInv'
  <2>1. TypeOK'
    BY <1>8 DEF LockRequest, Free, Returns, TypeOK, PCs, Results, mutexVars, tokenVars, globalVars
  <2>2. TargetsOK'
    BY <1>8 DEF LockRequest, Returns, TypeOK, TargetsOK, Created, Issued, mutexVars, tokenVars
  <2> QED BY <2>1, <2>2
<1>9. ASSUME NEW t \in Threads, NEW m \in Handles, Unlock(t, m) PROVE TypeInv'
  <2>1. TypeOK'
    <3>1. locked' \in [Handles -> BOOLEAN]
      BY <1>9 DEF Unlock, TypeOK
    <3>2. inside' \in [Threads -> Handles \cup {None}]
      BY <1>9 DEF Unlock, TypeOK
    <3>3. process' \in {"running", "ok", "error", "fatal"}
      BY <1>9 DEF Unlock, TypeOK
    <3>4. UNCHANGED <<nextMutexID, threadVars, tokenVars, globalVars>>
      BY <1>9 DEF Unlock
    <3> QED BY <3>1, <3>2, <3>3, <3>4 DEF TypeOK, threadVars, tokenVars, globalVars
  <2>2. TargetsOK'
    BY <1>9 DEF Unlock, TypeOK, TargetsOK, Created, Issued, threadVars, tokenVars
  <2> QED BY <2>1, <2>2
<1>10. ASSUME NEW t \in Threads, NEW m \in Handles, ReadGlobal(t, m) PROVE TypeInv'
  <2>1. TypeOK'
    BY <1>10 DEF ReadGlobal, TypeOK, threadVars, mutexVars, tokenVars
  <2>2. TargetsOK'
    BY <1>10 DEF ReadGlobal, TargetsOK, Created, Issued, threadVars, mutexVars, tokenVars
  <2> QED BY <2>1, <2>2
<1>11. ASSUME NEW t \in Threads, LockAcquire(t) PROVE TypeInv'
  <2>1. target[t] \in Handles
    BY <1>11 DEF LockAcquire, TargetsOK
  <2>2. TypeOK'
    BY <1>11, <2>1 DEF LockAcquire, Continues, TypeOK, PCs, tokenVars, globalVars
  <2>3. TargetsOK'
    BY <1>11 DEF LockAcquire, Continues, TypeOK, TargetsOK, Created, Issued, tokenVars
  <2> QED BY <2>2, <2>3
<1>12. ASSUME NEW t \in Threads, WriteGlobal(t) PROVE TypeInv'
  <2>1. register[t][1] \in Handles /\ register[t][2] \in Nat
    BY <1>12 DEF WriteGlobal, TypeOK
  <2>2. counter' \in [Handles -> Nat]
    BY <1>12, <2>1 DEF WriteGlobal, TypeOK
  <2>3. writes' \in [Handles -> Nat]
    BY <1>12, <2>1 DEF WriteGlobal, TypeOK
  <2>4. register' \in [Threads -> (Handles \X Nat) \cup {None}]
    BY <1>12 DEF WriteGlobal, TypeOK
  <2>5. UNCHANGED <<threadVars, mutexVars, tokenVars, process>>
    BY <1>12 DEF WriteGlobal
  <2>6. TypeOK'
    BY <2>2, <2>3, <2>4, <2>5 DEF TypeOK, threadVars, mutexVars, tokenVars
  <2>7. TargetsOK'
    BY <2>5 DEF TargetsOK, Created, Issued, threadVars, mutexVars, tokenVars
  <2> QED BY <2>6, <2>7
<1>13. ASSUME NEW t \in Threads, NewToken(t) PROVE TypeInv'
  <2>1. TypeOK'
    <3>1. nextCancelID' \in 1 .. MaxHandle
      BY <1>13 DEF NewToken, TypeOK
    <3>2. flag' \in [Handles -> BOOLEAN]
      BY <1>13 DEF NewToken, TypeOK
    <3>3. UNCHANGED <<cancelled, threadVars, mutexVars, globalVars, process>>
      BY <1>13 DEF NewToken
    <3> QED BY <3>1, <3>2, <3>3 DEF TypeOK, threadVars, mutexVars, globalVars
  <2>2. TargetsOK'
    BY <1>13 DEF NewToken, TypeOK, TargetsOK, Created, Issued, threadVars, mutexVars
  <2> QED BY <2>1, <2>2
<1>14. ASSUME NEW t \in Threads, NEW c \in Handles, Cancel(t, c) PROVE TypeInv'
  <2>1. TypeOK'
    BY <1>14, SMTT(30) DEF Cancel, Free, Returns, TypeOK, PCs, Results, mutexVars, tokenVars, globalVars
  <2>2. TargetsOK'
    BY <1>14 DEF Cancel, Returns, TypeOK, TargetsOK, Created, Issued, mutexVars, tokenVars
  <2> QED BY <2>1, <2>2
<1>15. ASSUME NEW t \in Threads, CancelStore(t) PROVE TypeInv'
  <2>1. target[t] \in Handles
    BY <1>15 DEF CancelStore, TargetsOK
  <2>2. TypeOK'
    BY <1>15, <2>1 DEF CancelStore, Continues, TypeOK, PCs, mutexVars, globalVars
  <2>3. TargetsOK'
    BY <1>15 DEF CancelStore, Continues, TypeOK, TargetsOK, Created, Issued, mutexVars
  <2> QED BY <2>2, <2>3
<1>16. ASSUME NEW t \in Threads, Poll(t) PROVE TypeInv'
  <2>1. polls[t] \in Handles
    BY <1>16 DEF Poll, TypeOK
  <2>2. TypeOK'
    BY <1>16, <2>1 DEF Poll, TypeOK, PCs, mutexVars, tokenVars, globalVars
  <2>3. TargetsOK'
    BY <1>16, <2>1 DEF Poll, TypeOK, TargetsOK, Created, Issued, mutexVars, tokenVars
  <2> QED BY <2>2, <2>3
<1>17. ASSUME NEW t \in Threads, PollLoad(t) PROVE TypeInv'
  <2>1. TypeOK'
    BY <1>17 DEF PollLoad, Returns, Continues, TypeOK, PCs, Results, mutexVars, tokenVars, globalVars
  <2>2. TargetsOK'
    BY <1>17 DEF PollLoad, Returns, Continues, TypeOK, TargetsOK, Created, Issued,
                 mutexVars, tokenVars
  <2> QED BY <2>1, <2>2
<1>18. CASE UNCHANGED vars
  BY <1>18 DEF TypeOK, TargetsOK, Created, Issued, vars, threadVars, mutexVars, tokenVars, globalVars
<1> QED
  BY <1>1, <1>2, <1>3, <1>4, <1>5, <1>6, <1>7, <1>8, <1>9, <1>10, <1>11, <1>12,
     <1>13, <1>14, <1>15, <1>16, <1>17, <1>18 DEF Next

LEMMA TypeInvHolds == Spec => []TypeInv
  BY InitTypeInv, StepTypeInv, PTL DEF Spec

(* The state of threads, locks and tokens has its type.                    *)
THEOREM TypeCorrect == Spec => []TypeOK
<1>1. TypeInv => TypeOK
  BY DEF TypeInv
<1> QED BY <1>1, TypeInvHolds, PTL
-----------------------------------------------------------------------------
(* A thread that has ended has a result, and thread.Err says which from    *)
(* the moment it is recorded.                                              *)
EndsOK ==
  \A t \in Threads :
    /\ pc[t] \in Ended => result[t] \in {"ok", "error"}
    /\ pc[t] \in {"recorded", "closed"} => err[t] = (result[t] = "error")

JoinInv == EndsOK /\ JoinReports

LEMMA InitJoinInv == Init => JoinInv
  BY DEF Init, JoinInv, EndsOK, JoinReports, Ended

(* A closed thread stays closed, and its error was recorded before.        *)
LEMMA StepJoinInv == TypeInv /\ JoinInv /\ [Next]_vars => JoinInv'
<1> SUFFICES ASSUME TypeInv /\ JoinInv, [Next]_vars PROVE JoinInv'
  OBVIOUS
<1>1. ASSUME NEW t \in Threads, NEW u \in Threads, NEW token \in Handles \cup {None},
             Spawn(t, u, token)
      PROVE  JoinInv'
  <2>1. EndsOK'
    BY <1>1 DEF Spawn, TypeInv, TypeOK, JoinInv, EndsOK, Ended
  <2>2. JoinReports'
    BY <1>1 DEF Spawn, TypeInv, TypeOK, JoinInv, JoinReports
  <2> QED BY <2>1, <2>2 DEF JoinInv
<1>2. ASSUME NEW t \in Threads, NEW r \in {"ok", "error"}, Finish(t, r) PROVE JoinInv'
  <2>1. EndsOK'
    BY <1>2 DEF Finish, Free, Returns, TypeInv, TypeOK, JoinInv, EndsOK, Ended
  <2>2. JoinReports'
    BY <1>2 DEF Finish, Free, Returns, TypeInv, TypeOK, JoinInv, JoinReports
  <2> QED BY <2>1, <2>2 DEF JoinInv
<1>3. ASSUME NEW t \in Threads, RecordErr(t) PROVE JoinInv'
  <2>1. EndsOK'
    BY <1>3 DEF RecordErr, TypeInv, TypeOK, JoinInv, EndsOK, Ended
  <2>2. JoinReports'
    BY <1>3 DEF RecordErr, TypeInv, TypeOK, JoinInv, JoinReports
  <2> QED BY <2>1, <2>2 DEF JoinInv
<1>4. ASSUME NEW t \in Threads, CloseDone(t) PROVE JoinInv'
  <2>1. EndsOK'
    BY <1>4 DEF CloseDone, TypeInv, TypeOK, JoinInv, EndsOK, Ended
  <2>2. JoinReports'
    BY <1>4 DEF CloseDone, TypeInv, TypeOK, JoinInv, JoinReports
  <2> QED BY <2>1, <2>2 DEF JoinInv
<1>5. ASSUME NEW t \in Threads, NEW u \in Threads, Join(t, u) PROVE JoinInv'
  <2>1. EndsOK'
    BY <1>5 DEF Join, Free, TypeInv, TypeOK, JoinInv, EndsOK, Ended
  <2>2. JoinReports'
    BY <1>5 DEF Join, Free, TypeInv, TypeOK, JoinInv, JoinReports
  <2> QED BY <2>1, <2>2 DEF JoinInv
<1>6. ASSUME NEW t \in Threads, JoinReturn(t) PROVE JoinInv'
  <2>1. target[t] \in Threads
    BY <1>6 DEF JoinReturn, TypeInv, TargetsOK
  <2>2. EndsOK'
    BY <1>6 DEF JoinReturn, Returns, Continues, TypeInv, TypeOK, JoinInv, EndsOK, Ended
  <2>3. ~err[target[t]] => result[target[t]] = "ok"
    BY <1>6, <2>1 DEF JoinReturn, JoinInv, EndsOK, Ended
  <2>4. JoinReports'
    <3>1. CASE err[target[t]]
      BY <1>6, <3>1 DEF JoinReturn, Returns, TypeInv, TypeOK, JoinInv, JoinReports
    <3>2. CASE ~err[target[t]]
      BY <1>6, <3>2, <2>1, <2>3 DEF JoinReturn, Continues, TypeInv, TypeOK, JoinInv, JoinReports
    <3> QED BY <3>1, <3>2
  <2> QED BY <2>2, <2>4 DEF JoinInv
<1>7. ASSUME NEW t \in Threads, NewMutex(t) PROVE JoinInv'
  BY <1>7 DEF NewMutex, JoinInv, EndsOK, JoinReports, threadVars
<1>8. ASSUME NEW t \in Threads, NEW m \in Handles, LockRequest(t, m) PROVE JoinInv'
  <2>1. EndsOK'
    BY <1>8 DEF LockRequest, Free, Returns, TypeInv, TypeOK, JoinInv, EndsOK, Ended
  <2>2. JoinReports'
    BY <1>8 DEF LockRequest, Free, Returns, TypeInv, TypeOK, JoinInv, JoinReports
  <2> QED BY <2>1, <2>2 DEF JoinInv
<1>9. ASSUME NEW t \in Threads, NEW m \in Handles, Unlock(t, m) PROVE JoinInv'
  BY <1>9 DEF Unlock, JoinInv, EndsOK, JoinReports, threadVars
<1>10. ASSUME NEW t \in Threads, NEW m \in Handles, ReadGlobal(t, m) PROVE JoinInv'
  BY <1>10 DEF ReadGlobal, JoinInv, EndsOK, JoinReports, threadVars
<1>11. ASSUME NEW t \in Threads, LockAcquire(t) PROVE JoinInv'
  <2>1. EndsOK'
    BY <1>11 DEF LockAcquire, Continues, TypeInv, TypeOK, JoinInv, EndsOK, Ended
  <2>2. JoinReports'
    BY <1>11 DEF LockAcquire, Continues, TypeInv, TypeOK, JoinInv, JoinReports
  <2> QED BY <2>1, <2>2 DEF JoinInv
<1>12. ASSUME NEW t \in Threads, WriteGlobal(t) PROVE JoinInv'
  BY <1>12 DEF WriteGlobal, JoinInv, EndsOK, JoinReports, threadVars
<1>13. ASSUME NEW t \in Threads, NewToken(t) PROVE JoinInv'
  BY <1>13 DEF NewToken, JoinInv, EndsOK, JoinReports, threadVars
<1>14. ASSUME NEW t \in Threads, NEW c \in Handles, Cancel(t, c) PROVE JoinInv'
  <2>1. EndsOK'
    BY <1>14 DEF Cancel, Free, Returns, TypeInv, TypeOK, JoinInv, EndsOK, Ended
  <2>2. JoinReports'
    BY <1>14 DEF Cancel, Free, Returns, TypeInv, TypeOK, JoinInv, JoinReports
  <2> QED BY <2>1, <2>2 DEF JoinInv
<1>15. ASSUME NEW t \in Threads, CancelStore(t) PROVE JoinInv'
  <2>1. EndsOK'
    BY <1>15 DEF CancelStore, Continues, TypeInv, TypeOK, JoinInv, EndsOK, Ended
  <2>2. JoinReports'
    BY <1>15 DEF CancelStore, Continues, TypeInv, TypeOK, JoinInv, JoinReports
  <2> QED BY <2>1, <2>2 DEF JoinInv
<1>16. ASSUME NEW t \in Threads, Poll(t) PROVE JoinInv'
  <2>1. EndsOK'
    BY <1>16 DEF Poll, TypeInv, TypeOK, JoinInv, EndsOK, Ended
  <2>2. JoinReports'
    BY <1>16 DEF Poll, TypeInv, TypeOK, JoinInv, JoinReports
  <2> QED BY <2>1, <2>2 DEF JoinInv
<1>17. ASSUME NEW t \in Threads, PollLoad(t) PROVE JoinInv'
  <2>1. EndsOK'
    BY <1>17 DEF PollLoad, Returns, Continues, TypeInv, TypeOK, JoinInv, EndsOK, Ended
  <2>2. JoinReports'
    BY <1>17 DEF PollLoad, Returns, Continues, TypeInv, TypeOK, JoinInv, JoinReports
  <2> QED BY <2>1, <2>2 DEF JoinInv
<1>18. CASE UNCHANGED vars
  BY <1>18 DEF JoinInv, EndsOK, JoinReports, vars, threadVars
<1> QED
  BY <1>1, <1>2, <1>3, <1>4, <1>5, <1>6, <1>7, <1>8, <1>9, <1>10, <1>11, <1>12,
     <1>13, <1>14, <1>15, <1>16, <1>17, <1>18 DEF Next

(* A join that returns normally has joined a thread that ended normally:   *)
(* Done is closed only after Err is stored, and neither changes again.     *)
THEOREM JoinReportsHold == Spec => []JoinReports
<1>1. TypeInv /\ JoinInv /\ [Next]_vars => JoinInv'
  BY StepJoinInv
<1>2. JoinInv => JoinReports
  BY DEF JoinInv
<1> QED BY <1>1, <1>2, InitJoinInv, TypeInvHolds, PTL DEF Spec

-----------------------------------------------------------------------------
(* Only issued tokens are cancelled, and their flags stay set.             *)
TokenInv == CancelIsFinal /\ \A c \in cancelled : Issued(c)

(* A new token is never one that was issued before.                        *)
LEMMA StepTokenInv == TypeInv /\ TokenInv /\ [Next]_vars => TokenInv'
<1> SUFFICES ASSUME TypeInv /\ TokenInv, [Next]_vars PROVE TokenInv'
  OBVIOUS
<1>1. ASSUME NEW t \in Threads, NEW u \in Threads, NEW token \in Handles \cup {None},
             Spawn(t, u, token)
      PROVE  TokenInv'
  BY <1>1 DEF Spawn, TokenInv, CancelIsFinal, Issued, tokenVars
<1>2. ASSUME NEW t \in Threads, NEW r \in {"ok", "error"}, Finish(t, r) PROVE TokenInv'
  BY <1>2 DEF Finish, TokenInv, CancelIsFinal, Issued, tokenVars
<1>3. ASSUME NEW t \in Threads, RecordErr(t) PROVE TokenInv'
  BY <1>3 DEF RecordErr, TokenInv, CancelIsFinal, Issued, tokenVars
<1>4. ASSUME NEW t \in Threads, CloseDone(t) PROVE TokenInv'
  BY <1>4 DEF CloseDone, TokenInv, CancelIsFinal, Issued, tokenVars
<1>5. ASSUME NEW t \in Threads, NEW u \in Threads, Join(t, u) PROVE TokenInv'
  BY <1>5 DEF Join, TokenInv, CancelIsFinal, Issued, tokenVars
<1>6. ASSUME NEW t \in Threads, JoinReturn(t) PROVE TokenInv'
  BY <1>6 DEF JoinReturn, TokenInv, CancelIsFinal, Issued, tokenVars
<1>7. ASSUME NEW t \in Threads, NewMutex(t) PROVE TokenInv'
  BY <1>7 DEF NewMutex, TokenInv, CancelIsFinal, Issued, tokenVars
<1>8. ASSUME NEW t \in Threads, NEW m \in Handles, LockRequest(t, m) PROVE TokenInv'
  BY <1>8 DEF LockRequest, TokenInv, CancelIsFinal, Issued, tokenVars
<1>9. ASSUME NEW t \in Threads, NEW m \in Handles, Unlock(t, m) PROVE TokenInv'
  BY <1>9 DEF Unlock, TokenInv, CancelIsFinal, Issued, tokenVars
<1>10. ASSUME NEW t \in Threads, NEW m \in Handles, ReadGlobal(t, m) PROVE TokenInv'
  BY <1>10 DEF ReadGlobal, TokenInv, CancelIsFinal, Issued, tokenVars
<1>11. ASSUME NEW t \in Threads, LockAcquire(t) PROVE TokenInv'
  BY <1>11 DEF LockAcquire, TokenInv, CancelIsFinal, Issued, tokenVars
<1>12. ASSUME NEW t \in Threads, WriteGlobal(t) PROVE TokenInv'
  BY <1>12 DEF WriteGlobal, TokenInv, CancelIsFinal, Issued, tokenVars
<1>13. ASSUME NEW t \in Threads, NewToken(t) PROVE TokenInv'
  <2>1. nextCancelID \in Nat
    BY DEF TypeInv, TypeOK
  <2>2. \A c \in cancelled : Issued(c)'
    BY <1>13, <2>1 DEF NewToken, TokenInv, Issued
  <2>3. \A c \in cancelled : flag'[c] = flag[c]
    <3> SUFFICES ASSUME NEW c \in cancelled PROVE flag'[c] = flag[c]
      OBVIOUS
    <3>1. c # nextCancelID + 1
      BY <2>1 DEF TokenInv, Issued
    <3>2. c \in Handles /\ flag \in [Handles -> BOOLEAN]
      BY DEF TypeInv, TypeOK
    <3>3. flag' = [flag EXCEPT ![nextCancelID + 1] = FALSE]
      BY <1>13 DEF NewToken
    <3> QED BY <3>1, <3>2, <3>3
  <2>4. cancelled' = cancelled
    BY <1>13 DEF NewToken
  <2> QED BY <2>2, <2>3, <2>4 DEF TokenInv, CancelIsFinal
<1>14. ASSUME NEW t \in Threads, NEW c \in Handles, Cancel(t, c) PROVE TokenInv'
  BY <1>14 DEF Cancel, TokenInv, CancelIsFinal, Issued, tokenVars
<1>15. ASSUME NEW t \in Threads, CancelStore(t) PROVE TokenInv'
  <2>1. target[t] \in Handles /\ Issued(target[t])
    BY <1>15 DEF CancelStore, TypeInv, TargetsOK
  <2> QED
    BY <1>15, <2>1 DEF CancelStore, TypeInv, TypeOK, TokenInv, CancelIsFinal, Issued
<1>16. ASSUME NEW t \in Threads, Poll(t) PROVE TokenInv'
  BY <1>16 DEF Poll, TokenInv, CancelIsFinal, Issued, tokenVars
<1>17. ASSUME NEW t \in Threads, PollLoad(t) PROVE TokenInv'
  BY <1>17 DEF PollLoad, TokenInv, CancelIsFinal, Issued, tokenVars
<1>18. CASE UNCHANGED vars
  BY <1>18 DEF TokenInv, CancelIsFinal, Issued, vars, tokenVars
<1> QED
  BY <1>1, <1>2, <1>3, <1>4, <1>5, <1>6, <1>7, <1>8, <1>9, <1>10, <1>11, <1>12,
     <1>13, <1>14, <1>15, <1>16, <1>17, <1>18 DEF Next

(* Once a cancel() has returned, every isCancelled() on the token returns  *)
(* true (docs/cancel_token_doc.txt), however calls interleave.             *)
THEOREM CancelIsFinalHolds == Spec => []CancelIsFinal
<1>1. Init => TokenInv
  BY DEF Init, TokenInv, CancelIsFinal
<1>2. TypeInv /\ TokenInv /\ [Next]_vars => TokenInv'
  BY StepTokenInv
<1>3. TokenInv => CancelIsFinal
  BY DEF TokenInv
<1> QED BY <1>1, <1>2, <1>3, TypeInvHolds, PTL DEF Spec

-----------------------------------------------------------------------------
(* A disciplined program: a thread is inside a mutex that exists, waits    *)
(* for one only from outside, and holds the value of a global only inside  *)
(* its mutex, where that value is current.                                 *)
SectionsOK ==
  Disciplined =>
    \A t \in Threads :
      /\ inside[t] # None => Created(inside[t])
      /\ pc[t] = "locking" => inside[t] = None
      /\ register[t] # None =>
           inside[t] = register[t][1] /\ register[t][2] = counter[register[t][1]]

LockInv == MutualExclusion /\ NoLostUpdate /\ NoFatalUnlock /\ SectionsOK

LEMMA InitLockInv == Init => LockInv
  BY DEF Init, LockInv, MutualExclusion, NoLostUpdate, NoFatalUnlock, SectionsOK

(* Mutual exclusion is what keeps a value read inside a mutex current.     *)
LEMMA StepLockInv == TypeInv /\ LockInv /\ [Next]_vars => LockInv'
<1> SUFFICES ASSUME TypeInv /\ LockInv, [Next]_vars PROVE LockInv'
  OBVIOUS
<1> USE ConstantsAssumption
<1>a. CASE ~Disciplined
  BY <1>a DEF LockInv, MutualExclusion, NoLostUpdate, NoFatalUnlock, SectionsOK
<1>b. SUFFICES ASSUME Disciplined PROVE LockInv'
  BY <1>a
<1> USE <1>b
<1>1. ASSUME NEW t \in Threads, NEW u \in Threads, NEW token \in Handles \cup {None},
             Spawn(t, u, token)
      PROVE  LockInv'
  <2>1. UNCHANGED <<mutexVars, globalVars>>
    BY <1>1 DEF Spawn
  <2>2. process' # "fatal"
    BY <1>1 DEF Spawn, LockInv, NoFatalUnlock
  <2>3. \A w \in Threads : pc'[w] = "locking" => inside[w] = None
    BY <1>1 DEF Spawn, TypeInv, TypeOK, LockInv, SectionsOK
  <2> QED
    BY <2>1, <2>2, <2>3 DEF LockInv, MutualExclusion, NoLostUpdate, NoFatalUnlock, SectionsOK,
       Created, mutexVars, globalVars
<1>2. ASSUME NEW t \in Threads, NEW r \in {"ok", "error"}, Finish(t, r) PROVE LockInv'
  <2>1. UNCHANGED <<mutexVars, globalVars>>
    BY <1>2 DEF Finish, Free, Returns
  <2>2. process' # "fatal"
    BY <1>2 DEF Finish, Free, Returns, LockInv, NoFatalUnlock
  <2>3. \A w \in Threads : pc'[w] = "locking" => inside[w] = None
    BY <1>2 DEF Finish, Free, Returns, TypeInv, TypeOK, LockInv, SectionsOK
  <2> QED
    BY <2>1, <2>2, <2>3 DEF LockInv, MutualExclusion, NoLostUpdate, NoFatalUnlock, SectionsOK,
       Created, mutexVars, globalVars
<1>3. ASSUME NEW t \in Threads, RecordErr(t) PROVE LockInv'
  <2>1. UNCHANGED <<mutexVars, globalVars>>
    BY <1>3 DEF RecordErr
  <2>2. process' # "fatal"
    BY <1>3 DEF RecordErr, LockInv, NoFatalUnlock
  <2>3. \A w \in Threads : pc'[w] = "locking" => inside[w] = None
    BY <1>3 DEF RecordErr, TypeInv, TypeOK, LockInv, SectionsOK
  <2> QED
    BY <2>1, <2>2, <2>3 DEF LockInv, MutualExclusion, NoLostUpdate, NoFatalUnlock, SectionsOK,
       Created, mutexVars, globalVars
<1>4. ASSUME NEW t \in Threads, CloseDone(t) PROVE LockInv'
  <2>1. UNCHANGED <<mutexVars, globalVars>>
    BY <1>4 DEF CloseDone
  <2>2. process' # "fatal"
    BY <1>4 DEF CloseDone, LockInv, NoFatalUnlock
  <2>3. \A w \in Threads : pc'[w] = "locking" => inside[w] = None
    BY <1>4 DEF CloseDone, TypeInv, TypeOK, LockInv, SectionsOK
  <2> QED
    BY <2>1, <2>2, <2>3 DEF LockInv, MutualExclusion, NoLostUpdate, NoFatalUnlock, SectionsOK,
       Created, mutexVars, globalVars
<1>5. ASSUME NEW t \in Threads, NEW u \in Threads, Join(t, u) PROVE LockInv'
  <2>1. UNCHANGED <<mutexVars, globalVars>>
    BY <1>5 DEF Join, Free
  <2>2. process' # "fatal"
    BY <1>5 DEF Join, Free, LockInv, NoFatalUnlock
  <2>3. \A w \in Threads : pc'[w] = "locking" => inside[w] = None
    BY <1>5 DEF Join, Free, TypeInv, TypeOK, LockInv, SectionsOK
  <2> QED
    BY <2>1, <2>2, <2>3 DEF LockInv, MutualExclusion, NoLostUpdate, NoFatalUnlock, SectionsOK,
       Created, mutexVars, globalVars
<1>6. ASSUME NEW t \in Threads, JoinReturn(t) PROVE LockInv'
  <2>1. UNCHANGED <<mutexVars, globalVars>>
    BY <1>6 DEF JoinReturn, Returns, Continues
  <2>2. process' # "fatal"
    BY <1>6 DEF JoinReturn, Returns, Continues, LockInv, NoFatalUnlock
  <2>3. \A w \in Threads : pc'[w] = "locking" => inside[w] = None
    BY <1>6 DEF JoinReturn, Returns, Continues, TypeInv, TypeOK, LockInv, SectionsOK
  <2> QED
    BY <2>1, <2>2, <2>3 DEF LockInv, MutualExclusion, NoLostUpdate, NoFatalUnlock, SectionsOK,
       Created, mutexVars, globalVars
<1>7. ASSUME NEW t \in Threads, NewMutex(t) PROVE LockInv'
  <2>1. nextMutexID \in Nat /\ nextMutexID' = nextMutexID + 1
    BY <1>7 DEF NewMutex, TypeInv, TypeOK
  <2>2. UNCHANGED <<inside, threadVars, globalVars, process>>
    BY <1>7 DEF NewMutex
  <2>3. \A h : Created(h) => Created(h)' /\ h # nextMutexID + 1
    BY <2>1 DEF Created
  <2>4. \A u \in Threads : inside[u] # None => locked'[inside[u]]
    <3> SUFFICES ASSUME NEW u \in Threads, inside[u] # None PROVE locked'[inside[u]]
      OBVIOUS
    <3>1. inside[u] \in Handles
      BY DEF TypeInv, TypeOK
    <3>2. inside[u] # nextMutexID + 1
      BY <2>3 DEF LockInv, SectionsOK
    <3>3. locked[inside[u]]
      BY DEF LockInv, MutualExclusion
    <3>4. locked \in [Handles -> BOOLEAN] /\ locked' = [locked EXCEPT ![nextMutexID + 1] = FALSE]
      BY <1>7 DEF NewMutex, TypeInv, TypeOK
    <3> QED BY <3>1, <3>2, <3>3, <3>4
  <2>5. MutualExclusion'
    BY <2>2, <2>4 DEF LockInv, MutualExclusion
  <2>6. SectionsOK'
    BY <2>2, <2>3 DEF LockInv, SectionsOK, threadVars, globalVars
  <2>7. NoLostUpdate' /\ NoFatalUnlock'
    BY <2>2 DEF LockInv, NoLostUpdate, NoFatalUnlock, globalVars
  <2> QED BY <2>5, <2>6, <2>7 DEF LockInv
<1>8. ASSUME NEW t \in Threads, NEW m \in Handles, LockRequest(t, m) PROVE LockInv'
  <2>1. UNCHANGED <<mutexVars, globalVars>>
    BY <1>8 DEF LockRequest, Free, Returns
  <2>2. process' # "fatal"
    BY <1>8 DEF LockRequest, Free, Returns, LockInv, NoFatalUnlock
  <2>3. \A w \in Threads : pc'[w] = "locking" => inside[w] = None
    BY <1>8 DEF LockRequest, Free, Returns, TypeInv, TypeOK, LockInv, SectionsOK
  <2> QED
    BY <2>1, <2>2, <2>3 DEF LockInv, MutualExclusion, NoLostUpdate, NoFatalUnlock, SectionsOK,
       Created, mutexVars, globalVars
<1>9. ASSUME NEW t \in Threads, NEW m \in Handles, Unlock(t, m) PROVE LockInv'
  <2>1. inside[t] = m /\ register[t] = None
    BY <1>9 DEF Unlock
  <2>2. m # None
    BY DEF Handles
  <2>3. locked[m]
    BY <2>1, <2>2 DEF LockInv, MutualExclusion
  <2>4. /\ locked' = [locked EXCEPT ![m] = FALSE]
        /\ inside' = [inside EXCEPT ![t] = None]
        /\ process' = process
    BY <1>9, <2>1, <2>3 DEF Unlock
  <2>5. UNCHANGED <<nextMutexID, threadVars, globalVars>>
    BY <1>9 DEF Unlock
  <2>6. \A u \in Threads : u # t => inside[u] # m
    BY <2>1, <2>2 DEF LockInv, MutualExclusion
  <2>7. MutualExclusion'
    BY <2>4, <2>6 DEF TypeInv, TypeOK, LockInv, MutualExclusion
  <2>8. SectionsOK'
    BY <2>1, <2>4, <2>5 DEF TypeInv, TypeOK, LockInv, SectionsOK, Created, threadVars, globalVars
  <2>9. NoLostUpdate' /\ NoFatalUnlock'
    BY <2>4, <2>5 DEF LockInv, NoLostUpdate, NoFatalUnlock, globalVars
  <2> QED BY <2>7, <2>8, <2>9 DEF LockInv
<1>10. ASSUME NEW t \in Threads, NEW m \in Handles, ReadGlobal(t, m) PROVE LockInv'
  <2>1. inside[t] = m
    BY <1>10 DEF ReadGlobal
  <2>2. register' = [register EXCEPT ![t] = <<m, counter[m]>>]
    BY <1>10 DEF ReadGlobal
  <2>3. UNCHANGED <<threadVars, mutexVars, counter, writes, process>>
    BY <1>10 DEF ReadGlobal
  <2>4. SectionsOK'
    BY <2>1, <2>2, <2>3 DEF TypeInv, TypeOK, LockInv, SectionsOK, Created, threadVars, mutexVars
  <2>5. MutualExclusion' /\ NoLostUpdate' /\ NoFatalUnlock'
    BY <2>3 DEF LockInv, MutualExclusion, NoLostUpdate, NoFatalUnlock, mutexVars
  <2> QED BY <2>4, <2>5 DEF LockInv
<1>11. ASSUME NEW t \in Threads, LockAcquire(t) PROVE LockInv'
  <2>1. target[t] \in Handles /\ Created(target[t]) /\ ~locked[target[t]]
    BY <1>11 DEF LockAcquire, TypeInv, TargetsOK
  <2>2. inside[t] = None
    BY <1>11 DEF LockAcquire, LockInv, SectionsOK
  <2>3. /\ locked' = [locked EXCEPT ![target[t]] = TRUE]
        /\ inside' = [inside EXCEPT ![t] = target[t]]
        /\ pc' = [pc EXCEPT ![t] = "run"]
    BY <1>11 DEF LockAcquire, Continues
  <2>4. UNCHANGED <<nextMutexID, globalVars, process>>
    BY <1>11 DEF LockAcquire, Continues
  <2>5. \A u \in Threads : inside[u] # target[t]
    BY <2>1 DEF LockInv, MutualExclusion
  <2>6. MutualExclusion'
    BY <2>1, <2>3, <2>5 DEF TypeInv, TypeOK, LockInv, MutualExclusion
  <2>7. register[t] = None
    BY <2>2 DEF TypeInv, TypeOK, LockInv, SectionsOK
  <2>8. SectionsOK'
    BY <2>1, <2>3, <2>4, <2>7 DEF TypeInv, TypeOK, LockInv, SectionsOK, Created, globalVars
  <2>9. NoLostUpdate' /\ NoFatalUnlock'
    BY <2>4 DEF LockInv, NoLostUpdate, NoFatalUnlock, globalVars
  <2> QED BY <2>6, <2>8, <2>9 DEF LockInv
<1>12. ASSUME NEW t \in Threads, WriteGlobal(t) PROVE LockInv'
  <2> DEFINE m == register[t][1]
  <2>1. register[t] # None /\ m \in Handles
    BY <1>12 DEF WriteGlobal, TypeInv, TypeOK
  <2>2. inside[t] = m /\ register[t][2] = counter[m]
    BY <2>1 DEF LockInv, SectionsOK
  <2>3. /\ counter' = [counter EXCEPT ![m] = counter[m] + 1]
        /\ writes' = [writes EXCEPT ![m] = writes[m] + 1]
        /\ register' = [register EXCEPT ![t] = None]
    BY <1>12, <2>2 DEF WriteGlobal
  <2>4. UNCHANGED <<threadVars, mutexVars, process>>
    BY <1>12 DEF WriteGlobal
  <2>5. NoLostUpdate'
    BY <2>3 DEF LockInv, NoLostUpdate
  <2>6. MutualExclusion' /\ NoFatalUnlock'
    BY <2>4 DEF LockInv, MutualExclusion, NoFatalUnlock, mutexVars
  <2>7. ASSUME NEW u \in Threads, register'[u] # None
        PROVE  inside[u] = register'[u][1] /\ register'[u][2] = counter'[register'[u][1]]
    <3>1. u # t /\ register'[u] = register[u]
      BY <2>3, <2>7 DEF TypeInv, TypeOK
    <3>2. inside[u] = register[u][1] /\ register[u][2] = counter[register[u][1]]
      BY <2>7, <3>1 DEF LockInv, SectionsOK
    <3>3. register[u][1] # m
      BY <2>1, <2>2, <3>1, <3>2 DEF LockInv, MutualExclusion
    <3> QED BY <2>3, <3>1, <3>2, <3>3 DEF TypeInv, TypeOK
  <2>8. SectionsOK'
    BY <2>4, <2>7 DEF LockInv, SectionsOK, Created, threadVars, mutexVars
  <2> QED BY <2>5, <2>6, <2>8 DEF LockInv
<1>13. ASSUME NEW t \in Threads, NewToken(t) PROVE LockInv'
  BY <1>13 DEF NewToken, LockInv, MutualExclusion, NoLostUpdate, NoFatalUnlock, SectionsOK,
     Created, threadVars, mutexVars, globalVars
<1>14. ASSUME NEW t \in Threads, NEW c \in Handles, Cancel(t, c) PROVE LockInv'
  <2>1. UNCHANGED <<mutexVars, globalVars>>
    BY <1>14 DEF Cancel, Free, Returns
  <2>2. process' # "fatal"
    BY <1>14 DEF Cancel, Free, Returns, LockInv, NoFatalUnlock
  <2>3. \A w \in Threads : pc'[w] = "locking" => inside[w] = None
    BY <1>14 DEF Cancel, Free, Returns, TypeInv, TypeOK, LockInv, SectionsOK
  <2> QED
    BY <2>1, <2>2, <2>3 DEF LockInv, MutualExclusion, NoLostUpdate, NoFatalUnlock, SectionsOK,
       Created, mutexVars, globalVars
<1>15. ASSUME NEW t \in Threads, CancelStore(t) PROVE LockInv'
  <2>1. UNCHANGED <<mutexVars, globalVars>>
    BY <1>15 DEF CancelStore, Continues
  <2>2. process' # "fatal"
    BY <1>15 DEF CancelStore, Continues, LockInv, NoFatalUnlock
  <2>3. \A w \in Threads : pc'[w] = "locking" => inside[w] = None
    BY <1>15 DEF CancelStore, Continues, TypeInv, TypeOK, LockInv, SectionsOK
  <2> QED
    BY <2>1, <2>2, <2>3 DEF LockInv, MutualExclusion, NoLostUpdate, NoFatalUnlock, SectionsOK,
       Created, mutexVars, globalVars
<1>16. ASSUME NEW t \in Threads, Poll(t) PROVE LockInv'
  <2>1. UNCHANGED <<mutexVars, globalVars>>
    BY <1>16 DEF Poll
  <2>2. process' # "fatal"
    BY <1>16 DEF Poll, LockInv, NoFatalUnlock
  <2>3. \A w \in Threads : pc'[w] = "locking" => inside[w] = None
    BY <1>16 DEF Poll, TypeInv, TypeOK, LockInv, SectionsOK
  <2> QED
    BY <2>1, <2>2, <2>3 DEF LockInv, MutualExclusion, NoLostUpdate, NoFatalUnlock, SectionsOK,
       Created, mutexVars, globalVars
<1>17. ASSUME NEW t \in Threads, PollLoad(t) PROVE LockInv'
  <2>1. UNCHANGED <<mutexVars, globalVars>>
    BY <1>17 DEF PollLoad, Returns, Continues
  <2>2. process' # "fatal"
    BY <1>17 DEF PollLoad, Returns, Continues, LockInv, NoFatalUnlock
  <2>3. \A w \in Threads : pc'[w] = "locking" => inside[w] = None
    BY <1>17 DEF PollLoad, Returns, Continues, TypeInv, TypeOK, LockInv, SectionsOK
  <2> QED
    BY <2>1, <2>2, <2>3 DEF LockInv, MutualExclusion, NoLostUpdate, NoFatalUnlock, SectionsOK,
       Created, mutexVars, globalVars
<1>18. CASE UNCHANGED vars
  BY <1>18 DEF LockInv, MutualExclusion, NoLostUpdate, NoFatalUnlock, SectionsOK, Created, vars, threadVars, mutexVars, globalVars
<1> QED
  BY <1>1, <1>2, <1>3, <1>4, <1>5, <1>6, <1>7, <1>8, <1>9, <1>10, <1>11, <1>12,
     <1>13, <1>14, <1>15, <1>16, <1>17, <1>18 DEF Next

LEMMA LockInvHolds == Spec => []LockInv
  BY InitLockInv, StepLockInv, TypeInvHolds, PTL DEF Spec

(* A disciplined program: one thread at a time between lock and unlock,    *)
(* although the handle is looked up before the lock is taken.              *)
THEOREM MutualExclusionHolds == Spec => []MutualExclusion
<1>1. LockInv => MutualExclusion
  BY DEF LockInv
<1> QED BY <1>1, LockInvHolds, PTL

(* A disciplined program loses no increment made under a mutex, although   *)
(* the global is read and written by separate instructions.                *)
THEOREM NoLostUpdateHolds == Spec => []NoLostUpdate
<1>1. LockInv => NoLostUpdate
  BY DEF LockInv
<1> QED BY <1>1, LockInvHolds, PTL

(* A disciplined program never unlocks an unlocked mutex.                  *)
THEOREM NoFatalUnlockHolds == Spec => []NoFatalUnlock
<1>1. LockInv => NoFatalUnlock
  BY DEF LockInv
<1> QED BY <1>1, LockInvHolds, PTL

-----------------------------------------------------------------------------
(* The refinement mapping.  A step that leaves lives, owners, joins and    *)
(* tokens alone is a stutter of the contract, or its Halt when main ends.  *)
Unmoved == UNCHANGED <<Life, Owner, joined, cancelled>>

LEMMA QuietStep ==
  ASSUME process = "running", Unmoved
  PROVE  [Contract!Next]_Contract!vars
<1>1. CASE process' = "running"
  BY <1>1 DEF Unmoved, Contract!vars
<1>2. CASE process' # "running"
  BY <1>2 DEF Unmoved, Contract!Next, Contract!Halt
<1> QED BY <1>1, <1>2

LEMMA OwnerInside ==
  ASSUME Disciplined, MutualExclusion, NEW t \in Threads, NEW m \in Handles, inside[t] = m
  PROVE  Owner[m] = t
<1>1. m # None
  BY ConstantsAssumption
<1>2. \A u \in Threads : inside[u] = m => u = t
  BY <1>1 DEF MutualExclusion
<1> QED BY <1>2 DEF Owner

LEMMA OwnerNobody ==
  ASSUME NEW m \in Handles, \A u \in Threads : inside[u] # m
  PROVE  Owner[m] = None
  BY DEF Owner

(* A thread that is alive stays so until its Done is closed.               *)
LEMMA StillAlive ==
  ASSUME TypeOK, NEW t \in Threads, NEW x \in PCs, pc[t] \notin {"unborn", "closed"},
         x \notin {"unborn", "closed"}, pc' = [pc EXCEPT ![t] = x],
         \A u \in Threads : u # t => result'[u] = result[u]
  PROVE  UNCHANGED Life
<1>1. \A u \in Threads :
        (IF pc'[u] = "unborn" THEN "none" ELSE IF pc'[u] = "closed" THEN result'[u] ELSE "alive")
        = (IF pc[u] = "unborn" THEN "none" ELSE IF pc[u] = "closed" THEN result[u] ELSE "alive")
  BY DEF TypeOK
<1> QED BY <1>1 DEF Life

LEMMA InitContract == Init => Contract!Init
<1> SUFFICES ASSUME Init PROVE Contract!Init
  OBVIOUS
<1> USE ConstantsAssumption
<1>1. Life = [t \in Threads |-> IF t = Main THEN "alive" ELSE "none"]
  BY DEF Init, Life
<1>2. Owner = [m \in Handles |-> None]
  BY DEF Init, Owner
<1>3. joined = {} /\ cancelled = {} /\ process = "running"
  BY DEF Init
<1> QED BY <1>1, <1>2, <1>3 DEF Contract!Init

(* Every step of a disciplined program is a step of the contract.          *)
LEMMA StepContract ==
  Disciplined /\ TypeInv /\ JoinInv /\ LockInv /\ [Next]_vars => [Contract!Next]_Contract!vars
<1> SUFFICES ASSUME Disciplined /\ TypeInv /\ JoinInv /\ LockInv, [Next]_vars
             PROVE  [Contract!Next]_Contract!vars
  OBVIOUS
<1> USE ConstantsAssumption DEF TypeInv
<1>1. ASSUME NEW t \in Threads, NEW u \in Threads, NEW token \in Handles \cup {None},
             Spawn(t, u, token)
      PROVE  [Contract!Next]_Contract!vars
  <2>1. Life[u] = "none" /\ Life' = [Life EXCEPT ![u] = "alive"]
    BY <1>1 DEF Spawn, Life, TypeOK
  <2>2. UNCHANGED <<Owner, joined, cancelled>>
    BY <1>1 DEF Spawn, Owner, mutexVars, tokenVars
  <2>3. process = "running" /\ process' = process
    BY <1>1 DEF Spawn, Free
  <2>4. Contract!Fork(u)
    BY <2>1, <2>2, <2>3 DEF Contract!Fork
  <2> QED BY <2>3, <2>4 DEF Contract!Next
<1>2. ASSUME NEW t \in Threads, NEW r \in {"ok", "error"}, Finish(t, r)
      PROVE  [Contract!Next]_Contract!vars
  <2>1. process = "running"
    BY <1>2 DEF Finish, Free
  <2>2. UNCHANGED Life
    BY <1>2, StillAlive DEF Finish, Returns, Free, PCs, TypeOK
  <2>3. UNCHANGED <<Owner, joined, cancelled>>
    BY <1>2 DEF Finish, Owner, mutexVars, tokenVars
  <2> QED BY <2>1, <2>2, <2>3, QuietStep DEF Unmoved
<1>3. ASSUME NEW t \in Threads, RecordErr(t) PROVE [Contract!Next]_Contract!vars
  <2>1. process = "running"
    BY <1>3 DEF RecordErr, Free
  <2>2. UNCHANGED Life
    BY <1>3, StillAlive DEF RecordErr, Free, PCs, TypeOK
  <2>3. UNCHANGED <<Owner, joined, cancelled>>
    BY <1>3 DEF RecordErr, Owner, mutexVars, tokenVars
  <2> QED BY <2>1, <2>2, <2>3, QuietStep DEF Unmoved
<1>4. ASSUME NEW t \in Threads, CloseDone(t) PROVE [Contract!Next]_Contract!vars
  <2>1. result[t] \in {"ok", "error"}
    BY <1>4 DEF CloseDone, JoinInv, EndsOK, Ended
  <2>2. Life[t] = "alive" /\ Life' = [Life EXCEPT ![t] = result[t]]
    BY <1>4 DEF CloseDone, Life, TypeOK
  <2>3. UNCHANGED <<Owner, joined, cancelled>>
    BY <1>4 DEF CloseDone, Owner, mutexVars, tokenVars
  <2>4. process = "running" /\ process' = process
    BY <1>4 DEF CloseDone
  <2>5. Contract!End(t, result[t])
    BY <2>2, <2>3, <2>4 DEF Contract!End
  <2> QED BY <2>1, <2>4, <2>5 DEF Contract!Next
<1>5. ASSUME NEW t \in Threads, NEW u \in Threads, Join(t, u)
      PROVE  [Contract!Next]_Contract!vars
  <2>1. process = "running"
    BY <1>5 DEF Join, Free
  <2>2. UNCHANGED Life
    BY <1>5, StillAlive DEF Join, Free, PCs, TypeOK
  <2>3. UNCHANGED <<Owner, joined, cancelled>>
    BY <1>5 DEF Join, Owner, mutexVars, tokenVars
  <2> QED BY <2>1, <2>2, <2>3, QuietStep DEF Unmoved
<1>6. ASSUME NEW t \in Threads, JoinReturn(t) PROVE [Contract!Next]_Contract!vars
  <2>1. process = "running" /\ pc[t] = "joining" /\ pc[target[t]] = "closed" /\ target[t] \in Threads
    BY <1>6 DEF JoinReturn, TargetsOK
  <2>2. UNCHANGED <<Owner, cancelled>>
    BY <1>6 DEF JoinReturn, Owner, mutexVars, tokenVars
  <2>3. CASE err[target[t]]
    <3>1. UNCHANGED Life
      BY <1>6, <2>1, <2>3, StillAlive DEF JoinReturn, Returns, TypeOK, PCs
    <3>2. joined' = joined
      BY <1>6, <2>3 DEF JoinReturn
    <3> QED BY <2>1, <2>2, <3>1, <3>2, QuietStep DEF Unmoved
  <2>4. CASE ~err[target[t]]
    <3>1. UNCHANGED Life
      BY <1>6, <2>1, <2>4, StillAlive DEF JoinReturn, Continues, TypeOK, PCs
    <3>2. Life[t] = "alive" /\ Life[target[t]] = "ok"
      BY <2>1, <2>4 DEF Life, JoinInv, EndsOK, Ended
    <3>3. joined' = joined \cup {<<t, target[t]>>} /\ process' = process
      BY <1>6, <2>4 DEF JoinReturn, Continues
    <3>4. Contract!Join(t, target[t])
      BY <2>1, <2>2, <3>1, <3>2, <3>3 DEF Contract!Join
    <3> QED BY <2>1, <3>3, <3>4 DEF Contract!Next
  <2> QED BY <2>3, <2>4
<1>7. ASSUME NEW t \in Threads, NewMutex(t) PROVE [Contract!Next]_Contract!vars
  BY <1>7, QuietStep DEF NewMutex, Free, Unmoved, Life, Owner, threadVars, mutexVars, tokenVars
<1>8. ASSUME NEW t \in Threads, NEW m \in Handles, LockRequest(t, m)
      PROVE  [Contract!Next]_Contract!vars
  <2>1. process = "running" /\ pc[t] = "run"
    BY <1>8 DEF LockRequest, Free
  <2>2. UNCHANGED Life
    <3>1. CASE Created(m)
      BY <1>8, <2>1, <3>1, StillAlive DEF LockRequest, PCs
    <3>2. CASE ~Created(m)
      BY <1>8, <2>1, <3>2, StillAlive DEF LockRequest, Returns, PCs, TypeOK
    <3> QED BY <3>1, <3>2
  <2>3. UNCHANGED <<Owner, joined, cancelled>>
    BY <1>8 DEF LockRequest, Owner, mutexVars, tokenVars
  <2> QED BY <2>1, <2>2, <2>3, QuietStep DEF Unmoved
<1>9. ASSUME NEW t \in Threads, NEW m \in Handles, Unlock(t, m)
      PROVE  [Contract!Next]_Contract!vars
  <2>1. inside[t] = m /\ m # None /\ process = "running"
    BY <1>9 DEF Unlock, Free
  <2>2. locked[m]
    BY <2>1 DEF LockInv, MutualExclusion
  <2>3. inside' = [inside EXCEPT ![t] = None] /\ process' = process
    BY <1>9, <2>1, <2>2 DEF Unlock
  <2>4. UNCHANGED <<Life, joined, cancelled>>
    BY <1>9 DEF Unlock, Life, threadVars, tokenVars
  <2>5. Owner[m] = t /\ t # None
    BY <2>1, OwnerInside DEF LockInv
  <2>6. inside'[t] = None /\ \A u \in Threads : u # t => inside'[u] = inside[u]
    BY <2>3 DEF TypeOK
  <2>7. ASSUME NEW h \in Handles PROVE Owner'[h] = IF h = m THEN None ELSE Owner[h]
    <3>1. h # None
      OBVIOUS
    <3>2. CASE h = m
      <4>1. \A u \in Threads : inside'[u] # m
        BY <2>1, <2>6 DEF LockInv, MutualExclusion
      <4> QED BY <3>2, <4>1 DEF Owner
    <3>3. CASE h # m
      <4>1. \A u \in Threads : inside'[u] = h <=> inside[u] = h
        BY <2>1, <2>6, <3>1, <3>3
      <4> QED BY <3>3, <4>1 DEF Owner
    <3> QED BY <3>2, <3>3
  <2>8. Owner' = [Owner EXCEPT ![m] = None]
    BY <2>7 DEF Owner
  <2>9. Contract!Release(m)
    BY <2>3, <2>4, <2>5, <2>8 DEF Contract!Release
  <2> QED BY <2>1, <2>3, <2>9 DEF Contract!Next
<1>10. ASSUME NEW t \in Threads, NEW m \in Handles, ReadGlobal(t, m)
       PROVE  [Contract!Next]_Contract!vars
  BY <1>10, QuietStep DEF ReadGlobal, Free, Unmoved, Life, Owner, threadVars, mutexVars, tokenVars
<1>11. ASSUME NEW t \in Threads, LockAcquire(t) PROVE [Contract!Next]_Contract!vars
  <2> DEFINE m == target[t]
  <2>1. process = "running" /\ pc[t] = "locking" /\ m \in Handles /\ ~locked[m]
    BY <1>11 DEF LockAcquire, TargetsOK
  <2>2. /\ inside' = [inside EXCEPT ![t] = m]
        /\ pc' = [pc EXCEPT ![t] = "run"]
        /\ UNCHANGED <<result, joined, cancelled, process>>
    BY <1>11 DEF LockAcquire, Continues, tokenVars
  <2>3. UNCHANGED Life
    BY <2>1, <2>2, StillAlive DEF PCs
  <2>4. Life[t] = "alive"
    BY <2>1 DEF Life
  <2>5. Owner[m] = None
    BY <2>1, OwnerNobody DEF LockInv, MutualExclusion
  <2>6. inside[t] = None
    BY <2>1 DEF LockInv, SectionsOK
  <2>7. inside'[t] = m /\ \A u \in Threads : u # t => inside'[u] = inside[u]
    BY <2>2 DEF TypeOK
  <2>8. ASSUME NEW h \in Handles PROVE Owner'[h] = IF h = m THEN t ELSE Owner[h]
    <3>1. h # None
      OBVIOUS
    <3>2. CASE h = m
      <4>1. \A u \in Threads : inside'[u] = m => u = t
        BY <2>1, <2>7 DEF LockInv, MutualExclusion
      <4> QED BY <2>7, <3>2, <4>1 DEF Owner
    <3>3. CASE h # m
      <4>1. \A u \in Threads : inside'[u] = h <=> inside[u] = h
        BY <2>6, <2>7, <3>1, <3>3
      <4> QED BY <3>3, <4>1 DEF Owner
    <3> QED BY <3>2, <3>3
  <2>9. Owner' = [Owner EXCEPT ![m] = t]
    BY <2>8 DEF Owner
  <2>10. Contract!Acquire(t, m)
    BY <2>2, <2>3, <2>4, <2>5, <2>9 DEF Contract!Acquire
  <2> QED BY <2>1, <2>2, <2>10 DEF Contract!Next
<1>12. ASSUME NEW t \in Threads, WriteGlobal(t) PROVE [Contract!Next]_Contract!vars
  BY <1>12, QuietStep DEF WriteGlobal, Free, Unmoved, Life, Owner, threadVars, mutexVars, tokenVars
<1>13. ASSUME NEW t \in Threads, NewToken(t) PROVE [Contract!Next]_Contract!vars
  BY <1>13, QuietStep DEF NewToken, Free, Unmoved, Life, Owner, threadVars, mutexVars, tokenVars
<1>14. ASSUME NEW t \in Threads, NEW c \in Handles, Cancel(t, c)
       PROVE  [Contract!Next]_Contract!vars
  <2>1. process = "running" /\ pc[t] = "run"
    BY <1>14 DEF Cancel, Free
  <2>2. UNCHANGED Life
    <3>1. CASE Issued(c)
      BY <1>14, <2>1, <3>1, StillAlive DEF Cancel, PCs
    <3>2. CASE ~Issued(c)
      BY <1>14, <2>1, <3>2, StillAlive DEF Cancel, Returns, PCs, TypeOK
    <3> QED BY <3>1, <3>2
  <2>3. UNCHANGED <<Owner, joined, cancelled>>
    BY <1>14 DEF Cancel, Owner, mutexVars, tokenVars
  <2> QED BY <2>1, <2>2, <2>3, QuietStep DEF Unmoved
<1>15. ASSUME NEW t \in Threads, CancelStore(t) PROVE [Contract!Next]_Contract!vars
  <2>1. process = "running" /\ pc[t] = "cancelling" /\ target[t] \in Handles
    BY <1>15 DEF CancelStore, TargetsOK
  <2>2. UNCHANGED Life
    BY <1>15, StillAlive DEF CancelStore, Continues, PCs
  <2>3. UNCHANGED <<Owner, joined, process>>
    BY <1>15 DEF CancelStore, Continues, Owner, mutexVars
  <2>4. cancelled' = cancelled \cup {target[t]}
    BY <1>15 DEF CancelStore
  <2>5. Contract!Cancel(target[t])
    BY <2>2, <2>3, <2>4 DEF Contract!Cancel
  <2> QED BY <2>1, <2>3, <2>5 DEF Contract!Next
<1>16. ASSUME NEW t \in Threads, Poll(t) PROVE [Contract!Next]_Contract!vars
  <2>1. process = "running"
    BY <1>16 DEF Poll, Free
  <2>2. UNCHANGED Life
    BY <1>16, StillAlive DEF Poll, Free, PCs, TypeOK
  <2>3. UNCHANGED <<Owner, joined, cancelled>>
    BY <1>16 DEF Poll, Owner, mutexVars, tokenVars
  <2> QED BY <2>1, <2>2, <2>3, QuietStep DEF Unmoved
<1>17. ASSUME NEW t \in Threads, PollLoad(t) PROVE [Contract!Next]_Contract!vars
  <2>1. process = "running" /\ pc[t] = "polling"
    BY <1>17 DEF PollLoad
  <2>2. UNCHANGED Life
    <3>1. CASE flag[target[t]]
      BY <1>17, <2>1, <3>1, StillAlive DEF PollLoad, Returns, PCs, TypeOK
    <3>2. CASE ~flag[target[t]]
      BY <1>17, <2>1, <3>2, StillAlive DEF PollLoad, Continues, PCs
    <3> QED BY <3>1, <3>2
  <2>3. UNCHANGED <<Owner, joined, cancelled>>
    BY <1>17 DEF PollLoad, Owner, mutexVars, tokenVars
  <2> QED BY <2>1, <2>2, <2>3, QuietStep DEF Unmoved
<1>18. CASE UNCHANGED vars
  BY <1>18 DEF Life, Owner, Contract!vars, vars, threadVars, mutexVars, tokenVars
<1> QED
  BY <1>1, <1>2, <1>3, <1>4, <1>5, <1>6, <1>7, <1>8, <1>9, <1>10, <1>11, <1>12,
     <1>13, <1>14, <1>15, <1>16, <1>17, <1>18 DEF Next

(* What spawn, join, the mutexes and the cancel tokens do, goroutines,     *)
(* channels and handle tables included, is what ThreadContract promises.   *)
THEOREM ThreadsImplementContract ==
  ASSUME Disciplined PROVE Spec => ImplementsThreadContract
<1>1. Init => Contract!Init
  BY InitContract
<1>2. TypeInv /\ JoinInv /\ LockInv /\ [Next]_vars => [Contract!Next]_Contract!vars
  BY StepContract
<1>3. TypeInv /\ JoinInv /\ [Next]_vars => JoinInv'
  BY StepJoinInv
<1> QED
  BY <1>1, <1>2, <1>3, InitJoinInv, TypeInvHolds, LockInvHolds, PTL
     DEF Spec, ImplementsThreadContract, Contract!Spec

=============================================================================
