------------------------- MODULE LspAnalysisProofs --------------------------
(***************************************************************************)
(* Proofs about LspAnalysis, for any documents, texts, analyses and sweeps *)
(* and therefore any number of overlapping handlers and sweeps.            *)
(***************************************************************************)
EXTENDS LspAnalysis, TLAPS

LEMMA CallType ==
  ASSUME NEW u \in Files \cup {None}, NEW t \in MaybeText, NEW d \in BOOLEAN
  PROVE  /\ NoCall \in Calls
         /\ Call(u, t, d) \in Calls
         /\ Call(u, t, d).uri = u /\ Call(u, t, d).text = t /\ Call(u, t, d).delay = d
         /\ Call(u, t, d).job = None /\ NoCall.job = None
BY DEF NoCall, Call, Calls, MaybeText, MaybeJob

(* What a goroutine does next is its own affair.                           *)
LEMMA GotoStep ==
  ASSUME TypeOK, NEW a \in Actors, NEW l \in PCs, NEW c \in Calls, Goto(a, l, c)
  PROVE  /\ pc' \in [Actors -> PCs] /\ call' \in [Actors -> Calls]
         /\ pc'[a] = l /\ call'[a] = c
         /\ \A b \in Actors \ {a} : pc'[b] = pc[b] /\ call'[b] = call[b]
BY DEF TypeOK, Goto

LEMMA ReturnStep ==
  ASSUME TypeOK, NEW a \in Actors, Return(a)
  PROVE  /\ pc' \in [Actors -> PCs] /\ call' \in [Actors -> Calls]
         /\ pc'[a] \in {"idle", "visit"} /\ call'[a] = NoCall
         /\ (a = Reader => pc'[a] = "idle")
         /\ \A b \in Actors \ {a} : pc'[b] = pc[b] /\ call'[b] = call[b]
<1>1. NoCall \in Calls
  BY DEF NoCall, Calls, MaybeText, MaybeJob
<1> QED  BY <1>1 DEF TypeOK, Return, Goto, PCs

LEMMA InitHolds == Init => IInv
<1>1. SUFFICES ASSUME Init  PROVE IInv
  OBVIOUS
<1>2. NoCall \in Calls
  BY DEF NoCall, Calls, MaybeText, MaybeJob
<1>3. TypeOK
  BY <1>1, <1>2 DEF Init, TypeOK, NoText, MaybeText, MaybeJob, Stages, PCs
<1>4. CallsOK
  BY <1>1 DEF Init, CallsOK, NoCall
<1>5. JobsOK /\ OneLiveAnalysis /\ NoOrphanTimer /\ ChangesReachASweep
  BY <1>1 DEF Init, JobsOK, OneLiveAnalysis, NoOrphanTimer, ChangesReachASweep
<1> QED  BY <1>3, <1>4, <1>5 DEF IInv

-----------------------------------------------------------------------------
(* Type correctness, given that calls and analyses are well formed.        *)

LEMMA NotificationTypes ==
  ASSUME TypeOK, Notification
  PROVE  TypeOK'
<1> USE ConstantsAssumption
<1>1. Reader \in Actors
  BY DEF Actors
<1>2. ASSUME NEW u \in Uris, NEW t \in Texts, DidOpen(u, t) \/ DidChange(u, t)
      PROVE  TypeOK'
  <2>1. \A d \in BOOLEAN : Call(u, t, d) \in Calls
    BY CallType DEF MaybeText
  <2>2. pc' \in [Actors -> PCs] /\ call' \in [Actors -> Calls]
    BY <1>1, <1>2, <2>1, GotoStep DEF DidOpen, DidChange, PCs
  <2>3. documents' \in [Uris -> MaybeText]
    BY <1>2 DEF DidOpen, DidChange, TypeOK, MaybeText
  <2> QED  BY <1>2, <2>2, <2>3 DEF DidOpen, DidChange, TypeOK, stateVars, sweepVars, jobVars
<1>3. ASSUME NEW u \in Uris, DidSave(u)
      PROVE  TypeOK'
  <2>1. Call(u, documents[u], FALSE) \in Calls
    BY CallType, ZenonT(60) DEF TypeOK
  <2>2. pc' \in [Actors -> PCs] /\ call' \in [Actors -> Calls]
    BY <1>1, <1>3, <2>1, GotoStep DEF DidSave, PCs
  <2> QED  BY <1>3, <2>2 DEF DidSave, TypeOK, stateVars, sweepVars, jobVars
<1>4. ASSUME NEW u \in Uris, DidClose(u)
      PROVE  TypeOK'
  <2>1. [Call(u, None, FALSE) EXCEPT !.old = pendingCancel[u],
                                     !.oldTimer = pendingLocks[u]] \in Calls
    <3>1. Call(u, None, FALSE) \in Calls
      BY CallType DEF MaybeText
    <3> QED  BY <3>1 DEF TypeOK, Calls
  <2>2. pc' \in [Actors -> PCs] /\ call' \in [Actors -> Calls]
    BY <1>1, <1>4, <2>1, GotoStep DEF DidClose, PCs
  <2>3. /\ documents' \in [Uris -> MaybeText] /\ cache' \in [Uris -> MaybeText]
        /\ pendingCancel' \in [Uris -> MaybeJob] /\ pendingLocks' \in [Uris -> MaybeJob]
    BY <1>4 DEF DidClose, TypeOK, MaybeText, MaybeJob
  <2> QED  BY <1>4, <2>2, <2>3 DEF DidClose, TypeOK, sweepVars, jobVars
<1>5. ASSUME NEW f \in Files, DidChangeWatchedFiles(f)
      PROVE  TypeOK'
  <2>1. Call(f, None, TRUE) \in Calls
    BY CallType DEF MaybeText
  <2>2. pc' \in [Actors -> PCs] /\ call' \in [Actors -> Calls]
    BY <1>1, <1>5, <2>1, GotoStep DEF DidChangeWatchedFiles, PCs
  <2>3. cache' \in [Uris -> MaybeText]
    BY <1>5 DEF DidChangeWatchedFiles, TypeOK, MaybeText
  <2> QED  BY <1>5, <2>2, <2>3 DEF DidChangeWatchedFiles, TypeOK, sweepVars, jobVars
<1> QED  BY <1>2, <1>3, <1>4, <1>5 DEF Notification

LEMMA ReaderTypes ==
  ASSUME TypeOK, CallsOK, ReaderStep
  PROVE  TypeOK'
<1> USE ConstantsAssumption
<1>1. Reader \in Actors
  BY DEF Actors
<1>2. NoCall \in Calls
  BY DEF NoCall, Calls, MaybeText, MaybeJob
<1>3. CASE ClearDiagnostics
  <2>1. shown' \in [Uris -> MaybeText]
    BY <1>3 DEF ClearDiagnostics, TypeOK, MaybeText
  <2> QED  BY <1>1, <1>3, <2>1, ReturnStep DEF ClearDiagnostics, TypeOK, stateVars, sweepVars, jobVars
<1>4. CASE AddWatchedChanges
  <2>1. watchedChanges' \subseteq Files
    BY <1>1, <1>4 DEF AddWatchedChanges, TypeOK, CallsOK
  <2>2. pc' \in [Actors -> PCs] /\ call' \in [Actors -> Calls]
    BY <1>1, <1>2, <1>4, GotoStep DEF AddWatchedChanges, PCs
  <2> QED  BY <1>4, <2>1, <2>2 DEF AddWatchedChanges, TypeOK, stateVars, jobVars
<1>5. CASE NeedsSweep
  <2>1. pc' \in [Actors -> PCs] /\ call' \in [Actors -> Calls]
    BY <1>1, <1>2, <1>5, GotoStep, ReturnStep DEF NeedsSweep, PCs
  <2> QED  BY <1>5, <2>1 DEF NeedsSweep, TypeOK, stateVars, sweepVars, jobVars
<1>6. ASSUME NEW s \in Sweeps, SwapWorkspaceTimer(s)
      PROVE  TypeOK'
  <2>1. [NoCall EXCEPT !.old = workspaceTimer] \in Calls
    BY <1>2 DEF TypeOK, Calls, MaybeJob
  <2>2. pc' \in [Actors -> PCs] /\ call' \in [Actors -> Calls]
    BY <1>6, <2>1 DEF SwapWorkspaceTimer, TypeOK, PCs
  <2> QED  BY <1>6, <2>2 DEF SwapWorkspaceTimer, TypeOK, stateVars, jobVars
<1>7. CASE StopOldTimer
  <2>1. pc' \in [Actors -> PCs] /\ call' \in [Actors -> Calls]
    BY <1>2, <1>7 DEF StopOldTimer, TypeOK, PCs
  <2> QED  BY <1>7, <2>1 DEF StopOldTimer, TypeOK, stateVars, sweepVars, jobVars
<1> QED  BY <1>3, <1>4, <1>5, <1>6, <1>7 DEF ReaderStep

LEMMA ActorTypes ==
  ASSUME TypeOK, CallsOK, NEW a \in Actors, ActorStep(a)
  PROVE  TypeOK'
<1> USE ConstantsAssumption
<1>1. NoCall \in Calls /\ call[a] \in Calls
  BY DEF NoCall, Calls, MaybeText, MaybeJob, TypeOK
<1>2. CASE InvalidateAnalysis(a)
  <2>1. pc' \in [Actors -> PCs] /\ call' \in [Actors -> Calls]
    BY <1>1, <1>2, GotoStep DEF InvalidateAnalysis, PCs
  <2>2. cache' \in [Uris -> MaybeText]
    BY <1>2 DEF InvalidateAnalysis, TypeOK, MaybeText
  <2> QED  BY <1>2, <2>1, <2>2 DEF InvalidateAnalysis, TypeOK, sweepVars, jobVars
<1>3. ASSUME NEW j \in Jobs, SwapPending(a, j)
      PROVE  TypeOK'
  <2> DEFINE u == call[a].uri
             c == [NoCall EXCEPT !.delay = call[a].delay, !.job = j,
                                 !.old = pendingCancel[u], !.oldTimer = pendingLocks[u]]
  <2>1. u \in Uris /\ call[a].text \in Texts /\ call[a].delay \in BOOLEAN
    BY <1>1, <1>3 DEF SwapPending, CallsOK, Calls
  <2>2. c \in Calls
    BY <1>1, <2>1 DEF TypeOK, Calls, MaybeJob
  <2>3. Goto(a, "cancelOld", c)
    BY <1>3 DEF SwapPending
  <2>4. pc' \in [Actors -> PCs] /\ call' \in [Actors -> Calls]
    BY <2>2, <2>3, GotoStep DEF PCs
  <2>5. /\ stage' \in [Jobs -> Stages]
        /\ about' \in [Jobs -> (Uris \X Texts) \cup {None}]
        /\ pendingCancel' \in [Uris -> MaybeJob] /\ pendingLocks' \in [Uris -> MaybeJob]
    BY <1>3, <2>1 DEF SwapPending, TypeOK, MaybeJob, Stages
  <2> QED  BY <1>3, <2>4, <2>5 DEF SwapPending, TypeOK, sweepVars
<1>4. CASE CancelOld(a)
  <2>1. stage' \in [Jobs -> Stages]
    BY <1>4 DEF CancelOld, TypeOK, Stages
  <2>2. about' \in [Jobs -> (Uris \X Texts) \cup {None}]
    BY <1>4 DEF CancelOld, TypeOK
  <2>3. canceled' \in [Jobs -> BOOLEAN]
    BY <1>4 DEF CancelOld, TypeOK
  <2>4. /\ Call(call[a].uri, None, FALSE) \in Calls
        /\ [NoCall EXCEPT !.job = call[a].job] \in Calls
        /\ call[a].delay \in BOOLEAN
    BY <1>1, CallType DEF Calls, MaybeText
  <2>5. \/ Goto(a, "clear", Call(call[a].uri, None, FALSE))
        \/ Return(a)
        \/ Goto(a, "wait", [NoCall EXCEPT !.job = call[a].job])
    BY <1>4, <2>4 DEF CancelOld
  <2>6. pc' \in [Actors -> PCs] /\ call' \in [Actors -> Calls]
    BY <2>4, <2>5, GotoStep, ReturnStep DEF PCs
  <2> QED  BY <1>4, <2>1, <2>2, <2>3, <2>6 DEF CancelOld, TypeOK, stateVars, sweepVars
<1>5. CASE AnalysisReturns(a)
  BY <1>5, ReturnStep DEF AnalysisReturns, TypeOK, stateVars, sweepVars, jobVars
<1> QED  BY <1>2, <1>3, <1>4, <1>5 DEF ActorStep

LEMMA SweepTypes ==
  ASSUME TypeOK, NEW s \in Sweeps, SweepStep(s)
  PROVE  TypeOK'
<1> USE ConstantsAssumption
<1>1. s \in Actors
  BY DEF Actors
<1>2. NoCall \in Calls
  BY DEF NoCall, Calls, MaybeText, MaybeJob
<1>3. CASE SweepFires(s)
  BY <1>3 DEF SweepFires, TypeOK, PCs, stateVars, sweepVars, jobVars
<1>4. CASE TakeWatchedChanges(s)
  BY <1>4 DEF TakeWatchedChanges, TypeOK, PCs, stateVars, jobVars
<1>5. CASE DocumentSnapshot(s)
  BY <1>5 DEF DocumentSnapshot, TypeOK, PCs, stateVars, jobVars
<1>6. ASSUME NEW u \in Uris, Visit(s, u)
      PROVE  TypeOK'
  <2>1. todo[s][u] \in MaybeText
    BY DEF TypeOK
  <2>2. Call(u, todo[s][u], FALSE) \in Calls
    BY <2>1, CallType
  <2>3. pc' \in [Actors -> PCs] /\ call' \in [Actors -> Calls]
    BY <1>1, <1>6, <2>2, GotoStep DEF Visit, PCs, TypeOK
  <2>4. todo' \in [Sweeps -> [Uris -> MaybeText]]
    BY <1>6 DEF Visit, TypeOK, MaybeText
  <2> QED  BY <1>6, <2>3, <2>4 DEF Visit, TypeOK, stateVars, jobVars
<1>7. CASE SweepEnds(s)
  <2>1. pc' \in [Actors -> PCs] /\ call' \in [Actors -> Calls]
    BY <1>1, <1>2, <1>7, GotoStep DEF SweepEnds, PCs
  <2> QED  BY <1>7, <2>1 DEF SweepEnds, TypeOK, stateVars, jobVars
<1> QED  BY <1>3, <1>4, <1>5, <1>6, <1>7 DEF SweepStep

(* A step of an analysis moves that analysis on, or ends it.               *)
LEMMA JobMoves ==
  ASSUME TypeOK, NEW j \in Jobs, JobStep(j)
  PROVE  /\ UNCHANGED <<documents, pendingCancel, pendingLocks, sweepVars, pc, call>>
         /\ stage[j] \notin {"free", "ready"}
         /\ \/ /\ UNCHANGED <<about, canceled>>
               /\ \E to \in Stages \ {"free", "ready", "armed"} :
                    stage' = [stage EXCEPT ![j] = to]
            \/ Ends(j)
<1>1. CASE Fire(j) \/ Analyse(j) \/ AnalysisFails(j) \/ CheckDocument(j) \/ SetAnalysisResult(j)
  BY <1>1 DEF Fire, Analyse, AnalysisFails, CheckDocument, SetAnalysisResult, Step, Stages,
              stateVars
<1>2. CASE Abandon(j) \/ Outdated(j) \/ PublishDiagnostics(j)
  BY <1>2 DEF Abandon, Outdated, PublishDiagnostics, stateVars
<1> QED  BY <1>1, <1>2 DEF JobStep

LEMMA JobTypes ==
  ASSUME TypeOK, JobsOK, NEW j \in Jobs, JobStep(j)
  PROVE  TypeOK'
<1>1. about[j] \in Uris \X Texts
  BY JobMoves DEF JobsOK
<1>2. /\ stage' \in [Jobs -> Stages]
      /\ about' \in [Jobs -> (Uris \X Texts) \cup {None}]
      /\ canceled' \in [Jobs -> BOOLEAN]
  BY JobMoves DEF Ends, TypeOK, Stages
<1>3. cache' \in [Uris -> MaybeText] /\ shown' \in [Uris -> MaybeText]
  BY <1>1 DEF JobStep, Fire, Analyse, AnalysisFails, CheckDocument, SetAnalysisResult,
              Abandon, Outdated, PublishDiagnostics, TypeOK, MaybeText, stateVars
<1> QED  BY <1>2, <1>3, JobMoves DEF TypeOK, sweepVars

LEMMA TypeStep ==
  ASSUME TypeOK, CallsOK, JobsOK, Next
  PROVE  TypeOK'
BY NotificationTypes, ReaderTypes, ActorTypes, SweepTypes, JobTypes DEF Next

-----------------------------------------------------------------------------
(* Calls and analyses stay well formed.                                    *)

(* One goroutine moves on, and starts at most the analysis it owns.        *)
LEMMA CallsKept ==
  ASSUME TypeOK, CallsOK, NEW a \in Actors, NEW l \in PCs, NEW c \in Calls, Goto(a, l, c),
         \A b \in Actors \ {a} : c.job # None => call[b].job # c.job,
         l \in {"invalidate", "swap"} => c.uri \in Uris /\ c.text \in Texts,
         l = "note" => c.uri \in Files,
         l = "cancelOld" /\ c.job # None /\ ~c.delay => stage'[c.job] = "ready",
         \A j \in Jobs : stage[j] = "ready" /\ j # call[a].job => stage'[j] = "ready"
  PROVE  CallsOK'
<1>1. /\ pc'[a] = l /\ call'[a] = c
      /\ \A b \in Actors \ {a} : pc'[b] = pc[b] /\ call'[b] = call[b]
  BY GotoStep
<1>2. ASSUME NEW b \in Actors
      PROVE  /\ pc'[b] \in {"invalidate", "swap"} =>
                  call'[b].uri \in Uris /\ call'[b].text \in Texts
             /\ pc'[b] = "note" => call'[b].uri \in Files
             /\ \A d \in Actors \ {b} : call'[b].job # None => call'[d].job # call'[b].job
  BY <1>1 DEF CallsOK
<1>3. ASSUME NEW b \in Actors, pc'[b] = "cancelOld", call'[b].job # None, ~call'[b].delay
      PROVE  stage'[call'[b].job] = "ready"
  <2>1. CASE b = a
    BY <1>1, <1>3, <2>1
  <2>2. CASE b # a
    <3>1. call[b].job \in Jobs
      BY <1>1, <1>3, <2>2 DEF TypeOK, Calls, MaybeJob
    <3>2. stage[call[b].job] = "ready" /\ call[a].job # call[b].job
      BY <1>1, <1>3, <2>2 DEF CallsOK
    <3> QED  BY <1>1, <2>2, <3>1, <3>2
  <2> QED  BY <2>1, <2>2
<1> QED  BY <1>2, <1>3 DEF CallsOK

LEMMA NotificationCalls ==
  ASSUME TypeOK, CallsOK, Notification
  PROVE  CallsOK'
<1> USE ConstantsAssumption
<1>1. Reader \in Actors
  BY DEF Actors
<1>2. ASSUME NEW u \in Uris, NEW t \in Texts, NEW d \in BOOLEAN,
             Goto(Reader, "invalidate", Call(u, t, d)), UNCHANGED stage
      PROVE  CallsOK'
  <2>1. Call(u, t, d) \in Calls /\ Call(u, t, d).uri = u /\ Call(u, t, d).text = t
        /\ Call(u, t, d).job = None
    BY CallType DEF MaybeText
  <2> QED  BY <1>1, <1>2, <2>1, CallsKept DEF PCs
<1>3. ASSUME NEW u \in Uris, NEW t \in Texts, DidOpen(u, t) \/ DidChange(u, t)
      PROVE  CallsOK'
  BY <1>2, <1>3 DEF DidOpen, DidChange, jobVars
<1>4. ASSUME NEW u \in Uris, DidSave(u)
      PROVE  CallsOK'
  <2>1. documents[u] \in Texts
    BY <1>4 DEF DidSave, TypeOK, MaybeText
  <2> QED  BY <1>2, <1>4, <2>1 DEF DidSave, jobVars
<1>5. ASSUME NEW u \in Uris, DidClose(u)
      PROVE  CallsOK'
  <2> DEFINE c == [Call(u, None, FALSE) EXCEPT !.old = pendingCancel[u],
                                               !.oldTimer = pendingLocks[u]]
  <2>1. Call(u, None, FALSE) \in Calls /\ Call(u, None, FALSE).job = None
    BY CallType DEF MaybeText
  <2>2. c \in Calls /\ c.job = None
    BY <2>1 DEF TypeOK, Calls
  <2>3. Goto(Reader, "cancelOld", c) /\ UNCHANGED stage
    BY <1>5 DEF DidClose, jobVars
  <2> HIDE DEF c
  <2> QED  BY <1>1, <2>2, <2>3, CallsKept DEF PCs
<1>6. ASSUME NEW f \in Files, DidChangeWatchedFiles(f)
      PROVE  CallsOK'
  <2> DEFINE c == Call(f, None, TRUE)
  <2>1. c \in Calls
    BY CallType DEF MaybeText
  <2>2. c.uri = f /\ c.job = None
    BY DEF Call, NoCall
  <2>3. Goto(Reader, "note", c) /\ UNCHANGED stage
    BY <1>6 DEF DidChangeWatchedFiles, jobVars
  <2> HIDE DEF c
  <2> QED  BY <1>1, <2>1, <2>2, <2>3, CallsKept DEF PCs
<1> QED  BY <1>3, <1>4, <1>5, <1>6 DEF Notification

LEMMA ReaderCalls ==
  ASSUME TypeOK, CallsOK, ReaderStep
  PROVE  CallsOK'
<1> USE ConstantsAssumption
<1>1. Reader \in Actors
  BY DEF Actors
<1>2. NoCall \in Calls /\ NoCall.job = None
  BY DEF NoCall, Calls, MaybeText, MaybeJob
<1>3. ASSUME NEW l \in PCs, l \notin {"invalidate", "swap", "note"}, Goto(Reader, l, NoCall),
             UNCHANGED stage
      PROVE  CallsOK'
  BY <1>1, <1>2, <1>3, CallsKept
<1>4. CASE ClearDiagnostics \/ NeedsSweep \/ AddWatchedChanges
  BY <1>3, <1>4 DEF ClearDiagnostics, NeedsSweep, AddWatchedChanges, Return, PCs, jobVars
<1>5. ASSUME NEW s \in Sweeps, SwapWorkspaceTimer(s)
      PROVE  CallsOK'
  <2> DEFINE c == [NoCall EXCEPT !.old = workspaceTimer]
  <2>1. c.job = None
    BY DEF NoCall
  <2>2. \A b \in Actors : /\ pc'[b] \in {"armed", "stopOld", pc[b]}
                          /\ pc'[b] \notin {"armed", "stopOld"} => call'[b] = call[b]
                          /\ call'[b].job \in {call[b].job, None}
    BY <1>1, <1>5, <2>1 DEF SwapWorkspaceTimer, TypeOK, Asleep
  <2>3. UNCHANGED stage
    BY <1>5 DEF SwapWorkspaceTimer, jobVars
  <2> QED  BY <2>2, <2>3 DEF CallsOK
<1>6. CASE StopOldTimer
  <2>1. \A b \in Actors : /\ pc'[b] \in {"idle", pc[b]}
                          /\ pc'[b] # "idle" => call'[b] = call[b]
                          /\ call'[b].job \in {call[b].job, None}
    BY <1>1, <1>2, <1>6 DEF StopOldTimer, TypeOK
  <2>2. UNCHANGED stage
    BY <1>6 DEF StopOldTimer, jobVars
  <2> QED  BY <2>1, <2>2 DEF CallsOK
<1> QED  BY <1>4, <1>5, <1>6 DEF ReaderStep

LEMMA ActorCalls ==
  ASSUME TypeOK, CallsOK, NEW a \in Actors, ActorStep(a)
  PROVE  CallsOK'
<1> USE ConstantsAssumption
<1>1. NoCall \in Calls /\ NoCall.job = None /\ call[a] \in Calls
  BY DEF NoCall, Calls, MaybeText, MaybeJob, TypeOK
<1>2. CASE InvalidateAnalysis(a)
  <2>1. call[a].uri \in Uris /\ call[a].text \in Texts
    BY <1>2 DEF InvalidateAnalysis, CallsOK
  <2>2. \A b \in Actors \ {a} : call[a].job # None => call[b].job # call[a].job
    BY DEF CallsOK
  <2> QED  BY <1>1, <1>2, <2>1, <2>2, CallsKept DEF InvalidateAnalysis, PCs, jobVars
<1>3. ASSUME NEW j \in Jobs, SwapPending(a, j)
      PROVE  CallsOK'
  <2> DEFINE u == call[a].uri
             c == [NoCall EXCEPT !.delay = call[a].delay, !.job = j,
                                 !.old = pendingCancel[u], !.oldTimer = pendingLocks[u]]
  <2>1. u \in Uris /\ call[a].delay \in BOOLEAN
    BY <1>1, <1>3 DEF SwapPending, CallsOK, Calls
  <2>2. c \in Calls
    BY <1>1, <2>1 DEF TypeOK, Calls, MaybeJob
  <2>3. c.job = j /\ c.delay = call[a].delay
    BY DEF NoCall
  <2>4. Goto(a, "cancelOld", c)
    BY <1>3 DEF SwapPending
  <2>5. \A b \in Actors : call[b].job # j
    BY <1>3 DEF SwapPending, Unused
  <2>6. stage[j] = "free" /\ (~call[a].delay => stage'[j] = "ready")
        /\ \A k \in Jobs \ {j} : stage'[k] = stage[k]
    BY <1>3 DEF SwapPending, Unused, TypeOK
  <2> HIDE DEF c
  <2> QED  BY <2>2, <2>3, <2>4, <2>5, <2>6, CallsKept DEF PCs
<1>4. CASE CancelOld(a)
  <2>1. \A j \in Jobs : stage[j] = "ready" /\ j # call[a].job => stage'[j] = "ready"
    BY <1>4 DEF CancelOld
  <2>2. CASE Goto(a, "clear", Call(call[a].uri, None, FALSE))
    <3> DEFINE c == Call(call[a].uri, None, FALSE)
    <3>1. c \in Calls
      BY <1>1, CallType DEF Calls, MaybeText
    <3>2. c.job = None
      BY DEF Call, NoCall
    <3>3. Goto(a, "clear", c)
      BY <2>2
    <3> HIDE DEF c
    <3> QED  BY <2>1, <3>1, <3>2, <3>3, CallsKept DEF PCs
  <2>3. CASE Return(a)
    BY <1>1, <2>1, <2>3, CallsKept DEF Return, PCs
  <2>4. CASE Goto(a, "wait", [NoCall EXCEPT !.job = call[a].job])
    <3> DEFINE c == [NoCall EXCEPT !.job = call[a].job]
    <3>1. c \in Calls
      BY <1>1 DEF Calls
    <3>2. c.job = call[a].job
      BY DEF NoCall
    <3>3. \A b \in Actors \ {a} : c.job # None => call[b].job # c.job
      BY <3>2 DEF CallsOK
    <3>4. Goto(a, "wait", c)
      BY <2>4
    <3> HIDE DEF c
    <3> QED  BY <2>1, <3>1, <3>3, <3>4, CallsKept DEF PCs
  <2>5. call[a].delay \in BOOLEAN
    BY <1>1 DEF Calls
  <2> QED  BY <1>4, <2>2, <2>3, <2>4, <2>5 DEF CancelOld
<1>5. CASE AnalysisReturns(a)
  BY <1>1, <1>5, CallsKept DEF AnalysisReturns, Return, PCs, jobVars
<1> QED  BY <1>2, <1>3, <1>4, <1>5 DEF ActorStep

LEMMA SweepCalls ==
  ASSUME TypeOK, CallsOK, NEW s \in Sweeps, SweepStep(s)
  PROVE  CallsOK'
<1> USE ConstantsAssumption
<1>1. s \in Actors
  BY DEF Actors
<1>2. CASE SweepFires(s) \/ TakeWatchedChanges(s) \/ DocumentSnapshot(s)
  <2>1. /\ UNCHANGED <<call, stage>>
        /\ \A b \in Actors : pc'[b] \in {"take", "idle", "snapshot", "visit", pc[b]}
    BY <1>1, <1>2 DEF SweepFires, TakeWatchedChanges, DocumentSnapshot, TypeOK, jobVars
  <2> QED  BY <2>1 DEF CallsOK
<1>3. ASSUME NEW u \in Uris, Visit(s, u)
      PROVE  CallsOK'
  <2>1. todo[s][u] \in Texts
    BY <1>3 DEF Visit, TypeOK, MaybeText
  <2> DEFINE c == Call(u, todo[s][u], FALSE)
  <2>2. c \in Calls
    BY <2>1, CallType DEF MaybeText
  <2>3. CASE Goto(s, "invalidate", c)
    <3>1. c.uri = u /\ c.text = todo[s][u] /\ c.job = None
      BY DEF Call, NoCall
    <3>2. UNCHANGED stage
      BY <1>3 DEF Visit, jobVars
    <3> HIDE DEF c
    <3> QED  BY <1>1, <2>1, <2>2, <2>3, <3>1, <3>2, CallsKept DEF PCs
  <2>4. CASE UNCHANGED <<pc, call>>
    BY <1>3, <2>4 DEF Visit, CallsOK, jobVars
  <2> QED  BY <1>3, <2>3, <2>4 DEF Visit
<1>4. CASE SweepEnds(s)
  <2>1. NoCall \in Calls /\ NoCall.job = None
    BY DEF NoCall, Calls, MaybeText, MaybeJob
  <2> QED  BY <1>1, <1>4, <2>1, CallsKept DEF SweepEnds, PCs, jobVars
<1> QED  BY <1>2, <1>3, <1>4 DEF SweepStep

LEMMA JobCalls ==
  ASSUME TypeOK, CallsOK, NEW j \in Jobs, JobStep(j)
  PROVE  CallsOK'
<1>1. \A k \in Jobs : stage[k] = "ready" => stage'[k] = "ready"
  BY JobMoves DEF Ends, TypeOK
<1>2. UNCHANGED <<pc, call>>
  BY JobMoves
<1>3. \A a \in Actors : call[a].job \in MaybeJob
  BY DEF TypeOK, Calls
<1> QED  BY <1>1, <1>2, <1>3 DEF CallsOK, MaybeJob

LEMMA CallsStep ==
  ASSUME TypeOK, CallsOK, Next
  PROVE  CallsOK'
BY NotificationCalls, ReaderCalls, ActorCalls, SweepCalls, JobCalls DEF Next

(* An analysis that is not over knows its document and its text.           *)
LEMMA JobsStep ==
  ASSUME TypeOK, CallsOK, JobsOK, Next
  PROVE  JobsOK'
<1>1. CASE Notification \/ ReaderStep \/ (\E s \in Sweeps : SweepStep(s))
  <2>1. UNCHANGED <<stage, about>>
    BY <1>1 DEF Notification, ReaderStep, SweepStep, DidOpen, DidChange, DidSave, DidClose,
                DidChangeWatchedFiles, ClearDiagnostics, AddWatchedChanges, NeedsSweep,
                SwapWorkspaceTimer, StopOldTimer, SweepFires, TakeWatchedChanges,
                DocumentSnapshot, Visit, SweepEnds, jobVars
  <2> QED  BY <2>1, SMTT(30) DEF JobsOK
<1>2. ASSUME NEW a \in Actors, ActorStep(a)
      PROVE  JobsOK'
  <2>1. CASE InvalidateAnalysis(a) \/ AnalysisReturns(a)
    BY <2>1 DEF InvalidateAnalysis, AnalysisReturns, JobsOK, jobVars
  <2>2. ASSUME NEW j \in Jobs, SwapPending(a, j)
        PROVE  JobsOK'
    <3>1. call[a].uri \in Uris /\ call[a].text \in Texts
      BY <2>2 DEF SwapPending, CallsOK
    <3> QED  BY <2>2, <3>1 DEF SwapPending, JobsOK, TypeOK
  <2>3. CASE CancelOld(a)
    <3>1. call[a].job # None /\ ~call[a].delay => stage[call[a].job] = "ready"
      BY <2>3 DEF CancelOld, CallsOK
    <3>2. ASSUME NEW j \in Jobs, stage'[j] # "free"
          PROVE  stage[j] # "free" /\ about'[j] = about[j]
      <4>1. j # None
        BY ConstantsAssumption
      <4> QED  BY <2>3, <3>1, <3>2, <4>1 DEF CancelOld
    <3> QED  BY <3>2 DEF JobsOK
  <2> QED  BY <1>2, <2>1, <2>2, <2>3 DEF ActorStep
<1>3. ASSUME NEW j \in Jobs, JobStep(j)
      PROVE  JobsOK'
  BY <1>3, JobMoves DEF Ends, JobsOK, TypeOK
<1> QED  BY <1>1, <1>2, <1>3 DEF Next

-----------------------------------------------------------------------------
(* One live analysis per document, and no orphan timer.                    *)

(* Goroutines that have an analysis to cancel keep it in hand.             *)
HandsKept == \A b \in Actors : pc[b] = "cancelOld" => pc'[b] = "cancelOld" /\ call'[b] = call[b]

LEMMA GotoKeepsHands ==
  ASSUME TypeOK, NEW a \in Actors, pc[a] # "cancelOld", NEW l, NEW c, Goto(a, l, c)
  PROVE  HandsKept
BY DEF TypeOK, Goto, HandsKept

(* The steps that touch no analysis.                                       *)
LEMMA QuietSteps ==
  ASSUME TypeOK, Next,
         \A u \in Uris : ~DidClose(u),
         \A a \in Actors : ~CancelOld(a) /\ \A j \in Jobs : ~SwapPending(a, j),
         \A j \in Jobs : ~JobStep(j)
  PROVE  HandsKept /\ UNCHANGED <<stage, about, canceled, pendingCancel, pendingLocks>>
<1>1. Reader \in Actors /\ \A s \in Sweeps : s \in Actors /\ s # Reader
  BY ConstantsAssumption DEF Actors
<1>2. CASE Notification
  <2>1. pc[Reader] = "idle" /\ \E l, c : Goto(Reader, l, c)
    BY <1>2 DEF Notification, DidOpen, DidChange, DidSave, DidClose, DidChangeWatchedFiles
  <2> QED  BY <1>1, <1>2, <2>1, GotoKeepsHands
        DEF Notification, DidOpen, DidChange, DidSave, DidChangeWatchedFiles, stateVars, jobVars
<1>3. CASE ClearDiagnostics \/ AddWatchedChanges \/ NeedsSweep
  <2>1. pc[Reader] # "cancelOld" /\ \E l, c : Goto(Reader, l, c)
    BY <1>3 DEF ClearDiagnostics, AddWatchedChanges, NeedsSweep, Return
  <2> QED  BY <1>1, <1>3, <2>1, GotoKeepsHands
        DEF ClearDiagnostics, AddWatchedChanges, NeedsSweep, stateVars, jobVars
<1>4. ASSUME NEW s \in Sweeps, SwapWorkspaceTimer(s)
      PROVE  HandsKept /\ UNCHANGED <<stage, about, canceled, pendingCancel, pendingLocks>>
  <2>1. pc[s] = "idle" /\ pc[Reader] = "swapTimer"
    BY <1>4 DEF SwapWorkspaceTimer, Asleep
  <2> QED  BY <1>4, <2>1 DEF SwapWorkspaceTimer, HandsKept, TypeOK, stateVars, jobVars
<1>5. CASE StopOldTimer
  BY <1>5 DEF StopOldTimer, HandsKept, TypeOK, stateVars, jobVars
<1>6. ASSUME NEW s \in Sweeps, SweepStep(s)
      PROVE  HandsKept /\ UNCHANGED <<stage, about, canceled, pendingCancel, pendingLocks>>
  <2>1. CASE SweepFires(s) \/ TakeWatchedChanges(s) \/ DocumentSnapshot(s)
    BY <2>1 DEF SweepFires, TakeWatchedChanges, DocumentSnapshot, HandsKept, TypeOK,
                stateVars, jobVars
  <2>2. ASSUME NEW u \in Uris, Visit(s, u)
        PROVE  HandsKept
    <3>1. CASE UNCHANGED <<pc, call>>
      BY <3>1 DEF HandsKept
    <3>2. CASE Goto(s, "invalidate", Call(u, todo[s][u], FALSE))
      BY <1>1, <2>2, <3>2, GotoKeepsHands DEF Visit
    <3> QED  BY <2>2, <3>1, <3>2 DEF Visit
  <2>3. CASE SweepEnds(s)
    BY <1>1, <2>3, GotoKeepsHands DEF SweepEnds, stateVars, jobVars
  <2> QED  BY <1>6, <2>1, <2>2, <2>3 DEF SweepStep, Visit, stateVars, jobVars
<1>7. ASSUME NEW a \in Actors, InvalidateAnalysis(a) \/ AnalysisReturns(a)
      PROVE  HandsKept /\ UNCHANGED <<stage, about, canceled, pendingCancel, pendingLocks>>
  <2>1. pc[a] # "cancelOld" /\ \E l, c : Goto(a, l, c)
    BY <1>7 DEF InvalidateAnalysis, AnalysisReturns, Return
  <2> QED  BY <1>7, <2>1, GotoKeepsHands
        DEF InvalidateAnalysis, AnalysisReturns, stateVars, jobVars
<1> QED  BY <1>2, <1>3, <1>4, <1>5, <1>6, <1>7 DEF Next, ReaderStep, ActorStep

(* didClose takes what the document has pending into its hands.            *)
LEMMA CloseTakes ==
  ASSUME TypeOK, NEW u \in Uris, DidClose(u)
  PROVE  /\ HandsKept /\ UNCHANGED <<stage, about, canceled>>
         /\ pc'[Reader] = "cancelOld"
         /\ call'[Reader].old = pendingCancel[u] /\ call'[Reader].oldTimer = pendingLocks[u]
         /\ \A v \in Uris \ {u} : /\ pendingCancel'[v] = pendingCancel[v]
                                  /\ pendingLocks'[v] = pendingLocks[v]
<1>1. Reader \in Actors
  BY DEF Actors
<1> DEFINE c == [Call(u, None, FALSE) EXCEPT !.old = pendingCancel[u],
                                             !.oldTimer = pendingLocks[u]]
<1>2. c.old = pendingCancel[u] /\ c.oldTimer = pendingLocks[u]
  BY DEF Call, NoCall
<1>3. pc[Reader] = "idle" /\ Goto(Reader, "cancelOld", c)
  BY DEF DidClose
<1>4. pc'[Reader] = "cancelOld" /\ call'[Reader] = c
  BY <1>1, <1>3 DEF TypeOK, Goto
<1>5. HandsKept
  BY <1>1, <1>3, GotoKeepsHands
<1> HIDE DEF c
<1>6. \A v \in Uris \ {u} : /\ pendingCancel'[v] = pendingCancel[v]
                            /\ pendingLocks'[v] = pendingLocks[v]
  BY DEF DidClose, TypeOK
<1>7. UNCHANGED <<stage, about, canceled>>
  BY DEF DidClose, jobVars
<1> QED  BY <1>2, <1>4, <1>5, <1>6, <1>7

(* So does resetPendingAnalysis, which puts its own in their place.        *)
LEMMA SwapTakes ==
  ASSUME TypeOK, CallsOK, NEW a \in Actors, NEW j \in Jobs, SwapPending(a, j)
  PROVE  LET u == call[a].uri
         IN /\ u \in Uris
            /\ HandsKept /\ UNCHANGED canceled
            /\ pc'[a] = "cancelOld"
            /\ call'[a].old = pendingCancel[u] /\ call'[a].oldTimer = pendingLocks[u]
            /\ about'[j] = <<u, call[a].text>>
            /\ pendingCancel'[u] = j
            /\ stage'[j] = "armed" => pendingLocks'[u] = j
            /\ \A k \in Jobs \ {j} : stage'[k] = stage[k] /\ about'[k] = about[k]
            /\ \A v \in Uris \ {u} : /\ pendingCancel'[v] = pendingCancel[v]
                                     /\ pendingLocks'[v] = pendingLocks[v]
<1> DEFINE u == call[a].uri
           c == [NoCall EXCEPT !.delay = call[a].delay, !.job = j,
                               !.old = pendingCancel[u], !.oldTimer = pendingLocks[u]]
<1>1. u \in Uris /\ pc[a] = "swap"
  BY DEF SwapPending, CallsOK
<1>2. c.old = pendingCancel[u] /\ c.oldTimer = pendingLocks[u]
  BY DEF NoCall
<1>3. Goto(a, "cancelOld", c)
  BY DEF SwapPending
<1>4. pc'[a] = "cancelOld" /\ call'[a] = c
  BY <1>3 DEF TypeOK, Goto
<1>5. HandsKept
  BY <1>1, <1>3, GotoKeepsHands
<1> HIDE DEF c
<1>6. /\ about'[j] = <<u, call[a].text>>
      /\ pendingCancel'[u] = j
      /\ UNCHANGED canceled
      /\ \A k \in Jobs \ {j} : stage'[k] = stage[k] /\ about'[k] = about[k]
  BY <1>1 DEF SwapPending, TypeOK
<1>7. stage'[j] = "armed" => pendingLocks'[u] = j
  BY <1>1 DEF SwapPending, TypeOK
<1>8. \A v \in Uris \ {u} : /\ pendingCancel'[v] = pendingCancel[v]
                            /\ pendingLocks'[v] = pendingLocks[v]
  BY <1>1 DEF SwapPending, TypeOK
<1> QED  BY <1>1, <1>2, <1>4, <1>5, <1>6, <1>7, <1>8

(* What a goroutine had in hand is cancelled, and its timer stopped.       *)
LEMMA CancelDrops ==
  ASSUME TypeOK, CallsOK, NEW a \in Actors, CancelOld(a)
  PROVE  /\ UNCHANGED <<pendingCancel, pendingLocks>>
         /\ \A b \in Actors \ {a} : pc'[b] = pc[b] /\ call'[b] = call[b]
         /\ \A k \in Jobs : stage'[k] # "free" =>
              /\ stage[k] # "free" /\ about'[k] = about[k]
              /\ canceled'[k] = (canceled[k] \/ call[a].old = k)
              /\ stage'[k] = "armed" => stage[k] = "armed" /\ call[a].oldTimer # k
<1>1. \A b \in Actors \ {a} : pc'[b] = pc[b] /\ call'[b] = call[b]
  <2>1. call[a].delay \in BOOLEAN
    BY DEF TypeOK, Calls
  <2>2. \E l, c : Goto(a, l, c)
    BY <2>1 DEF CancelOld, Return
  <2> QED  BY <2>2 DEF Goto, TypeOK
<1>2. ASSUME NEW k \in Jobs, stage'[k] # "free"
      PROVE  /\ stage[k] # "free" /\ about'[k] = about[k]
             /\ stage'[k] = "armed" => stage[k] = "armed" /\ call[a].oldTimer # k
  <2>1. k # None
    BY ConstantsAssumption
  <2>2. call[a].job = k /\ ~call[a].delay => stage[k] = "ready"
    BY <2>1 DEF CancelOld, CallsOK
  <2> QED  BY <1>2, <2>2 DEF CancelOld
<1>3. ASSUME NEW k \in Jobs, stage'[k] # "free"
      PROVE  canceled'[k] = (canceled[k] \/ call[a].old = k)
  <2>1. stage[k] # "free"
    BY <1>2, <1>3
  <2>2. ~(k = call[a].oldTimer /\ stage[k] = "armed")
    BY <1>3 DEF CancelOld
  <2>3. canceled'[k] = (canceled[k] \/ (k = call[a].old /\ stage[k] # "free"))
    BY <2>2 DEF CancelOld
  <2> QED  BY <2>1, <2>3
<1>4. UNCHANGED <<pendingCancel, pendingLocks>>
  BY DEF CancelOld, stateVars
<1> QED  BY <1>1, <1>2, <1>3, <1>4

LEMMA OneLiveStep ==
  ASSUME TypeOK, CallsOK, JobsOK, OneLiveAnalysis, Next
  PROVE  OneLiveAnalysis'
<1>1. SUFFICES ASSUME NEW k \in Jobs, stage'[k] # "free", ~canceled'[k]
               PROVE  Held(k)' \/ pendingCancel'[about'[k][1]] = k
  BY DEF OneLiveAnalysis
<1>2. stage[k] # "free" /\ ~canceled[k] => Held(k) \/ pendingCancel[about[k][1]] = k
  BY DEF OneLiveAnalysis
<1>3. HandsKept /\ Held(k) => Held(k)'
  BY DEF HandsKept, Held
<1>4. stage[k] # "free" => about[k][1] \in Uris
  BY DEF JobsOK
<1>5. Reader \in Actors
  BY DEF Actors
<1>6. ASSUME NEW u \in Uris, DidClose(u)
      PROVE  Held(k)' \/ pendingCancel'[about'[k][1]] = k
  <2>1. stage[k] # "free" /\ ~canceled[k] /\ about'[k] = about[k]
    BY <1>1, <1>6, CloseTakes
  <2>2. CASE about[k][1] = u /\ pendingCancel[u] = k
    BY <1>5, <1>6, <2>2, CloseTakes DEF Held
  <2> QED  BY <1>2, <1>3, <1>4, <1>6, <2>1, <2>2, CloseTakes
<1>7. ASSUME NEW a \in Actors, NEW j \in Jobs, SwapPending(a, j)
      PROVE  Held(k)' \/ pendingCancel'[about'[k][1]] = k
  <2>1. CASE k = j
    BY <1>7, <2>1, SwapTakes
  <2>2. CASE k # j
    <3>1. stage[k] # "free" /\ ~canceled[k] /\ about'[k] = about[k]
      BY <1>1, <1>7, <2>2, SwapTakes
    <3>2. CASE pendingCancel[about[k][1]] = k /\ about[k][1] = call[a].uri
      BY <1>7, <3>2, SwapTakes DEF Held
    <3> QED  BY <1>2, <1>3, <1>4, <1>7, <3>1, <3>2, SwapTakes
  <2> QED  BY <2>1, <2>2
<1>8. ASSUME NEW a \in Actors, CancelOld(a)
      PROVE  Held(k)' \/ pendingCancel'[about'[k][1]] = k
  <2>1. stage[k] # "free" /\ ~canceled[k] /\ about'[k] = about[k] /\ call[a].old # k
    BY <1>1, <1>8, CancelDrops
  <2>2. Held(k) => Held(k)'
    BY <1>8, <2>1, CancelDrops DEF Held
  <2> QED  BY <1>2, <1>8, <2>1, <2>2, CancelDrops
<1>9. ASSUME NEW j \in Jobs, JobStep(j)
      PROVE  Held(k)' \/ pendingCancel'[about'[k][1]] = k
  <2>1. stage[k] # "free" /\ about'[k] = about[k] /\ canceled'[k] = canceled[k]
    BY <1>1, <1>9, JobMoves DEF Ends, TypeOK
  <2>2. UNCHANGED <<pendingCancel, pc, call>>
    BY <1>9, JobMoves
  <2> QED  BY <1>1, <1>2, <2>1, <2>2 DEF Held
<1>10. CASE HandsKept /\ UNCHANGED <<stage, about, canceled, pendingCancel, pendingLocks>>
  BY <1>1, <1>2, <1>3, <1>10
<1> QED  BY <1>6, <1>7, <1>8, <1>9, <1>10, QuietSteps

LEMMA NoOrphanStep ==
  ASSUME TypeOK, CallsOK, JobsOK, NoOrphanTimer, Next
  PROVE  NoOrphanTimer'
<1> DEFINE InHand(k) == \E a \in Actors : pc[a] = "cancelOld" /\ call[a].oldTimer = k
<1>1. SUFFICES ASSUME NEW k \in Jobs, stage'[k] = "armed"
               PROVE  InHand(k)' \/ pendingLocks'[about'[k][1]] = k
  BY DEF NoOrphanTimer
<1>2. stage[k] = "armed" => InHand(k) \/ pendingLocks[about[k][1]] = k
  BY DEF NoOrphanTimer
<1>3. HandsKept /\ InHand(k) => InHand(k)'
  BY DEF HandsKept
<1>4. stage[k] = "armed" => about[k][1] \in Uris
  BY DEF JobsOK
<1>5. Reader \in Actors
  BY DEF Actors
<1>6. ASSUME NEW u \in Uris, DidClose(u)
      PROVE  InHand(k)' \/ pendingLocks'[about'[k][1]] = k
  <2>1. stage[k] = "armed" /\ about'[k] = about[k]
    BY <1>1, <1>6, CloseTakes
  <2>2. CASE about[k][1] = u /\ pendingLocks[u] = k
    BY <1>5, <1>6, <2>2, CloseTakes
  <2> QED  BY <1>2, <1>3, <1>4, <1>6, <2>1, <2>2, CloseTakes
<1>7. ASSUME NEW a \in Actors, NEW j \in Jobs, SwapPending(a, j)
      PROVE  InHand(k)' \/ pendingLocks'[about'[k][1]] = k
  <2>1. CASE k = j
    BY <1>1, <1>7, <2>1, SwapTakes
  <2>2. CASE k # j
    <3>1. stage[k] = "armed" /\ about'[k] = about[k]
      BY <1>1, <1>7, <2>2, SwapTakes
    <3>2. CASE pendingLocks[about[k][1]] = k /\ about[k][1] = call[a].uri
      BY <1>7, <3>2, SwapTakes
    <3> QED  BY <1>2, <1>3, <1>4, <1>7, <3>1, <3>2, SwapTakes
  <2> QED  BY <2>1, <2>2
<1>8. ASSUME NEW a \in Actors, CancelOld(a)
      PROVE  InHand(k)' \/ pendingLocks'[about'[k][1]] = k
  <2>1. stage[k] = "armed" /\ about'[k] = about[k] /\ call[a].oldTimer # k
    BY <1>1, <1>8, CancelDrops
  <2>2. InHand(k) => InHand(k)'
    BY <1>8, <2>1, CancelDrops
  <2> QED  BY <1>2, <1>8, <2>1, <2>2, CancelDrops
<1>9. ASSUME NEW j \in Jobs, JobStep(j)
      PROVE  InHand(k)' \/ pendingLocks'[about'[k][1]] = k
  <2>1. stage[k] = "armed" /\ about'[k] = about[k]
    BY <1>1, <1>9, JobMoves DEF Ends, TypeOK
  <2>2. UNCHANGED <<pendingLocks, pc, call>>
    BY <1>9, JobMoves
  <2> QED  BY <1>2, <2>1, <2>2
<1>10. CASE HandsKept /\ UNCHANGED <<stage, about, canceled, pendingCancel, pendingLocks>>
  BY <1>1, <1>2, <1>3, <1>10
<1> QED  BY <1>6, <1>7, <1>8, <1>9, <1>10, QuietSteps

-----------------------------------------------------------------------------
(* Changes on disk reach a sweep.                                          *)

(* A sweep that will run: its timer has fired, or nobody is stopping it.   *)
Coming(s) == \/ pc[s] = "take"
             \/ pc[s] = "armed" /\ ~(pc[Reader] = "stopOld" /\ call[Reader].old = s)

LEMMA ChangesStep ==
  ASSUME TypeOK, ChangesReachASweep, Next
  PROVE  ChangesReachASweep'
<1>1. Reader \in Actors /\ \A s \in Sweeps : s \in Actors /\ s # Reader
  BY ConstantsAssumption DEF Actors
<1>2. watchedChanges # {} =>
        pc[Reader] \in {"arm", "swapTimer"} \/ \E s \in Sweeps : Coming(s)
  BY DEF ChangesReachASweep, Coming
<1>3. SUFFICES ASSUME watchedChanges' # {}
               PROVE  pc'[Reader] \in {"arm", "swapTimer"} \/ \E s \in Sweeps : Coming(s)'
  BY DEF ChangesReachASweep, Coming
<1>4. CASE Notification
  <2>1. pc[Reader] = "idle" /\ UNCHANGED watchedChanges
    BY <1>4 DEF Notification, DidOpen, DidChange, DidSave, DidClose, DidChangeWatchedFiles,
                sweepVars
  <2>2. pc'[Reader] # "stopOld" /\ \A s \in Sweeps : pc'[s] = pc[s]
    BY <1>1, <1>4 DEF Notification, DidOpen, DidChange, DidSave, DidClose,
                      DidChangeWatchedFiles, Goto, TypeOK
  <2> QED  BY <1>2, <1>3, <2>1, <2>2 DEF Coming
<1>5. CASE ClearDiagnostics
  <2>1. pc[Reader] = "clear" /\ pc'[Reader] = "idle" /\ UNCHANGED watchedChanges
    BY <1>1, <1>5, ReturnStep DEF ClearDiagnostics, sweepVars
  <2>2. \A s \in Sweeps : pc'[s] = pc[s]
    BY <1>1, <1>5, ReturnStep DEF ClearDiagnostics
  <2> QED  BY <1>2, <1>3, <2>1, <2>2 DEF Coming
<1>6. CASE AddWatchedChanges
  BY <1>1, <1>6 DEF AddWatchedChanges, Goto, TypeOK
<1>7. CASE NeedsSweep
  BY <1>1, <1>3, <1>7 DEF NeedsSweep, Goto, TypeOK, sweepVars
<1>8. ASSUME NEW s \in Sweeps, SwapWorkspaceTimer(s)
      PROVE  Coming(s)'
  <2>1. pc'[s] = "armed" /\ s # workspaceTimer
    BY <1>1, <1>8 DEF SwapWorkspaceTimer, Asleep, TypeOK
  <2>2. call'[Reader].old = workspaceTimer
    BY <1>1, <1>8 DEF SwapWorkspaceTimer, NoCall, TypeOK
  <2> QED  BY <2>1, <2>2 DEF Coming
<1>9. CASE StopOldTimer
  <2>1. pc[Reader] = "stopOld" /\ pc'[Reader] = "idle" /\ UNCHANGED watchedChanges
    BY <1>1, <1>9 DEF StopOldTimer, sweepVars
  <2>2. \A s \in Sweeps : Coming(s) => pc'[s] = pc[s]
    BY <1>1, <1>9, <2>1 DEF StopOldTimer, Coming
  <2> QED  BY <1>2, <1>3, <2>1, <2>2 DEF Coming
<1>10. ASSUME NEW s \in Sweeps, SweepStep(s)
       PROVE  pc'[Reader] \in {"arm", "swapTimer"} \/ \E r \in Sweeps : Coming(r)'
  <2>1. CASE SweepFires(s)
    BY <1>1, <2>1 DEF SweepFires, Coming, TypeOK
  <2>2. ~TakeWatchedChanges(s)
    BY <1>3 DEF TakeWatchedChanges
  <2>3. CASE DocumentSnapshot(s) \/ SweepEnds(s) \/ \E u \in Uris : Visit(s, u)
    <3>1. /\ pc[s] \in {"snapshot", "visit"}
          /\ UNCHANGED watchedChanges
          /\ \A b \in Actors \ {s} : pc'[b] = pc[b] /\ call'[b] = call[b]
      BY <2>3 DEF DocumentSnapshot, SweepEnds, Visit, Goto, TypeOK
    <3> QED  BY <1>1, <1>2, <1>3, <3>1 DEF Coming
  <2> QED  BY <1>10, <2>1, <2>2, <2>3 DEF SweepStep
<1>11. ASSUME NEW a \in Actors, ActorStep(a)
       PROVE  pc'[Reader] \in {"arm", "swapTimer"} \/ \E r \in Sweeps : Coming(r)'
  <2>1. /\ pc[a] \in {"invalidate", "swap", "cancelOld", "wait"}
        /\ UNCHANGED watchedChanges
    BY <1>11 DEF ActorStep, InvalidateAnalysis, SwapPending, CancelOld, AnalysisReturns,
                 sweepVars
  <2>2. call[a].delay \in BOOLEAN
    BY DEF TypeOK, Calls
  <2>3. \E l, c : Goto(a, l, c) /\ l # "stopOld"
    <3>1. CASE InvalidateAnalysis(a)
      BY <3>1 DEF InvalidateAnalysis
    <3>2. CASE \E j \in Jobs : SwapPending(a, j)
      <4> PICK j \in Jobs : SwapPending(a, j)
        BY <3>2
      <4> DEFINE c == [NoCall EXCEPT !.delay = call[a].delay, !.job = j,
                                     !.old = pendingCancel[call[a].uri],
                                     !.oldTimer = pendingLocks[call[a].uri]]
      <4>1. Goto(a, "cancelOld", c)
        BY DEF SwapPending
      <4> HIDE DEF c
      <4> QED  BY <4>1
    <3>3. CASE CancelOld(a)
      <4>1. \/ Goto(a, "clear", Call(call[a].uri, None, FALSE))
            \/ Return(a)
            \/ Goto(a, "wait", [NoCall EXCEPT !.job = call[a].job])
        BY <2>2, <3>3 DEF CancelOld
      <4>2. "clear" # "stopOld" /\ "wait" # "stopOld" /\ "idle" # "stopOld" /\ "visit" # "stopOld"
        OBVIOUS
      <4> QED  BY <4>1, <4>2 DEF Return
    <3>4. CASE AnalysisReturns(a)
      BY <3>4 DEF AnalysisReturns, Return
    <3> QED  BY <1>11, <3>1, <3>2, <3>3, <3>4 DEF ActorStep
  <2>4. /\ pc'[a] # "stopOld"
        /\ \A b \in Actors \ {a} : pc'[b] = pc[b] /\ call'[b] = call[b]
    BY <2>3 DEF Goto, TypeOK
  <2> QED  BY <1>1, <1>2, <1>3, <2>1, <2>4 DEF Coming
<1>12. ASSUME NEW j \in Jobs, JobStep(j)
       PROVE  pc'[Reader] \in {"arm", "swapTimer"} \/ \E r \in Sweeps : Coming(r)'
  BY <1>2, <1>3, <1>12, JobMoves DEF Coming, sweepVars
<1> QED  BY <1>4, <1>5, <1>6, <1>7, <1>8, <1>9, <1>10, <1>11, <1>12 DEF Next, ReaderStep

-----------------------------------------------------------------------------
LEMMA Inductive ==
  ASSUME IInv, [Next]_vars
  PROVE  IInv'
<1>1. CASE Next
  BY <1>1, TypeStep, CallsStep, JobsStep, OneLiveStep, NoOrphanStep, ChangesStep DEF IInv
<1>2. CASE UNCHANGED vars
  BY <1>2 DEF IInv, TypeOK, CallsOK, JobsOK, OneLiveAnalysis, Held, NoOrphanTimer,
              ChangesReachASweep, vars, stateVars, sweepVars, jobVars
<1> QED  BY <1>1, <1>2

LEMMA InvariantHolds == Spec => []IInv
BY InitHolds, Inductive, PTL DEF Spec

(* Documents, analyses, timers and calls keep their types, whatever        *)
(* handlers and sweeps interleave.                                         *)
THEOREM TypeCorrect == Spec => []TypeOK
<1>1. IInv => TypeOK
  BY DEF IInv
<1> QED  BY <1>1, InvariantHolds, PTL

(* For any number of overlapping sweeps, a document never has two analyses *)
(* that nobody has cancelled or is about to cancel (resetPendingAnalysis,  *)
(* closeDocument).                                                         *)
THEOREM OneLiveAnalysisHolds == Spec => []OneLiveAnalysis
<1>1. IInv => OneLiveAnalysis
  BY DEF IInv
<1> QED  BY <1>1, InvariantHolds, PTL

(* A timer that may still fire is always one the document can stop         *)
(* (pendingLocks), or in the hands of a goroutine that stops it.           *)
THEOREM NoOrphanTimerHolds == Spec => []NoOrphanTimer
<1>1. IInv => NoOrphanTimer
  BY DEF IInv
<1> QED  BY <1>1, InvariantHolds, PTL

(* A watched change that nobody has taken always has a sweep to come, in   *)
(* spite of the unlocks inside resetWorkspaceReanalysis and of a sweep     *)
(* that forgets the timer of another (takeWatchedChanges).                 *)
THEOREM ChangesReachASweepHolds == Spec => []ChangesReachASweep
<1>1. IInv => ChangesReachASweep
  BY DEF IInv
<1> QED  BY <1>1, InvariantHolds, PTL

=============================================================================
