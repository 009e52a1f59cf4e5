---------------------------- MODULE LspAnalysis ----------------------------
(***************************************************************************)
(* Documents, analyses and diagnostics of the language server (lsp/).      *)
(* One goroutine reads notifications and handles each to its end.  A       *)
(* handler of an open document starts an analysis with a context of its    *)
(* own, at once and in its own goroutine (didOpen, didSave) or after a     *)
(* pause, in the goroutine of a timer (didChange).  Changed files on disk  *)
(* are collected and, after a pause, swept: in the goroutine of that       *)
(* timer the open documents they affect are analysed again, one by one.    *)
(*                                                                         *)
(* An action ends where the code releases stateMu or outputMu.  The result *)
(* of an analysis, and the diagnostics it publishes, are represented by    *)
(* the text they are about.                                                *)
(***************************************************************************)
EXTENDS FiniteSets

CONSTANTS
  Uris,     \* the documents the editor may open
  Files,    \* the files it watches, those documents among them
  Texts,    \* the texts a document may have
  None,     \* no text, no job, no sweep
  Jobs,     \* bound: the analyses that wait, run or are still referred to
  Sweeps,   \* the workspace timers, and the goroutines they start
  Reader    \* the goroutine that reads notifications

Actors == Sweeps \cup {Reader}

ASSUME ConstantsAssumption ==
  /\ Uris \subseteq Files
  /\ Reader \notin Sweeps
  /\ None \notin Files \cup Texts \cup Jobs \cup Actors

VARIABLES
  documents,       \* the text of each open document, or None
  cache,           \* the text the cached analysis result is about, or None
  pendingCancel,   \* the analysis whose context each document would cancel
  pendingLocks,    \* the analysis whose timer it would stop
  watchedChanges,  \* changed files that no sweep has taken
  workspaceTimer,  \* the sweep whose timer the next one would stop
  stage,           \* how far each analysis is
  about,           \* the document and the text it analyses
  canceled,        \* its context is cancelled
  pc,              \* what each goroutine does next
  call,            \* the arguments and local variables it does it with
  changes,         \* the changes a sweep has taken
  todo,            \* the open documents it has not come to, as it saw them
  shown            \* the text the editor's diagnostics are about, or None

stateVars == <<documents, cache, pendingCancel, pendingLocks>>
sweepVars == <<watchedChanges, workspaceTimer, changes, todo>>
jobVars   == <<stage, about, canceled>>
vars == <<stateVars, sweepVars, jobVars, pc, call, shown>>

Stages == {"free", "ready", "armed", "analyse", "broken", "check", "store",
           "recheck", "publish"}
PCs == {"idle", "invalidate", "swap", "cancelOld", "wait", "clear", "note",
        "arm", "swapTimer", "stopOld", "armed", "take", "snapshot", "visit"}

MaybeText == Texts \cup {None}
MaybeJob  == Jobs \cup {None}
Calls == [uri : Files \cup {None}, text : MaybeText, delay : BOOLEAN,
          job : MaybeJob, old : MaybeJob \cup Sweeps, oldTimer : MaybeJob]

NoText == [u \in Uris |-> None]

(* The local variables of a handler, of resetPendingAnalysis and of        *)
(* resetWorkspaceReanalysis: old is the analysis, or the sweep, replaced.  *)
NoCall == [uri |-> None, text |-> None, delay |-> FALSE, job |-> None,
           old |-> None, oldTimer |-> None]
Call(u, t, d) == [NoCall EXCEPT !.uri = u, !.text = t, !.delay = d]

Init ==
  /\ documents = NoText
  /\ cache = NoText
  /\ pendingCancel = NoText
  /\ pendingLocks = NoText
  /\ watchedChanges = {}
  /\ workspaceTimer = None
  /\ stage = [j \in Jobs |-> "free"]
  /\ about = [j \in Jobs |-> None]
  /\ canceled = [j \in Jobs |-> FALSE]
  /\ pc = [a \in Actors |-> "idle"]
  /\ call = [a \in Actors |-> NoCall]
  /\ changes = [s \in Sweeps |-> {}]
  /\ todo = [s \in Sweeps |-> NoText]
  /\ shown = NoText

Goto(a, l, c) == pc' = [pc EXCEPT ![a] = l] /\ call' = [call EXCEPT ![a] = c]

(* A handler returns; a sweep goes on to its next document.                *)
Return(a) == Goto(a, IF a = Reader THEN "idle" ELSE "visit", NoCall)

(* An analysis, or a sweep, that has ended and that nothing refers to.     *)
Unused(j) ==
  /\ stage[j] = "free"
  /\ \A u \in Uris : j \notin {pendingCancel[u], pendingLocks[u]}
  /\ \A a \in Actors : j \notin {call[a].job, call[a].old, call[a].oldTimer}
Asleep(s) == pc[s] = "idle" /\ s \notin {workspaceTimer, call[Reader].old}

-----------------------------------------------------------------------------
(* Notifications.  The editor opens a document that is closed, changes,    *)
(* saves and closes one that is open, and changes its text to another.     *)

(* didOpen: setDocument, then analyse at once.                             *)
DidOpen(u, t) ==
  /\ pc[Reader] = "idle"
  /\ documents[u] = None
  /\ documents' = [documents EXCEPT ![u] = t]
  /\ Goto(Reader, "invalidate", Call(u, t, FALSE))
  /\ UNCHANGED <<cache, pendingCancel, pendingLocks, sweepVars, jobVars, shown>>

(* didChange: setDocument, then analyse after 200 ms.                      *)
DidChange(u, t) ==
  /\ pc[Reader] = "idle"
  /\ documents[u] \notin {None, t}
  /\ documents' = [documents EXCEPT ![u] = t]
  /\ Goto(Reader, "invalidate", Call(u, t, TRUE))
  /\ UNCHANGED <<cache, pendingCancel, pendingLocks, sweepVars, jobVars, shown>>

(* didSave: the text is the document's, for the server asks for saves      *)
(* without text; analyse at once.                                          *)
DidSave(u) ==
  /\ pc[Reader] = "idle"
  /\ documents[u] # None
  /\ Goto(Reader, "invalidate", Call(u, documents[u], FALSE))
  /\ UNCHANGED <<stateVars, sweepVars, jobVars, shown>>

(* Mutant of DidClose: the timer is forgotten without being stopped.       *)
DidCloseTicking(u) ==
  /\ pc[Reader] = "idle"
  /\ documents[u] # None
  /\ documents' = [documents EXCEPT ![u] = None]
  /\ cache' = [cache EXCEPT ![u] = None]
  /\ pendingCancel' = [pendingCancel EXCEPT ![u] = None]
  /\ pendingLocks' = [pendingLocks EXCEPT ![u] = None]
  /\ Goto(Reader, "cancelOld", [Call(u, None, FALSE) EXCEPT !.old = pendingCancel[u]])
  /\ UNCHANGED <<sweepVars, jobVars, shown>>

(* didClose: closeDocument forgets the document and takes its analysis,    *)
(* to cancel it after the unlock.                                          *)
DidClose(u) ==
  /\ pc[Reader] = "idle"
  /\ documents[u] # None
  /\ documents' = [documents EXCEPT ![u] = None]
  /\ cache' = [cache EXCEPT ![u] = None]
  /\ pendingCancel' = [pendingCancel EXCEPT ![u] = None]
  /\ pendingLocks' = [pendingLocks EXCEPT ![u] = None]
  /\ Goto(Reader, "cancelOld",
          [Call(u, None, FALSE) EXCEPT !.old = pendingCancel[u],
                                       !.oldTimer = pendingLocks[u]])
  /\ UNCHANGED <<sweepVars, jobVars, shown>>

(* The last step of didClose publishes an empty list of diagnostics.       *)
ClearDiagnostics ==
  /\ pc[Reader] = "clear"
  /\ shown' = [shown EXCEPT ![call[Reader].uri] = None]
  /\ Return(Reader)
  /\ UNCHANGED <<stateVars, sweepVars, jobVars>>

(* didChangeWatchedFiles with one file: invalidate its analysis.           *)
DidChangeWatchedFiles(f) ==
  /\ pc[Reader] = "idle"
  /\ cache' = [u \in Uris |-> IF u = f THEN None ELSE cache[u]]
  /\ Goto(Reader, "note", Call(f, None, TRUE))
  /\ UNCHANGED <<documents, pendingCancel, pendingLocks, sweepVars, jobVars, shown>>

-----------------------------------------------------------------------------
(* resetPendingAnalysis, by the reader or by a sweep.                      *)

InvalidateAnalysis(a) ==
  /\ pc[a] = "invalidate"
  /\ cache' = [cache EXCEPT ![call[a].uri] = None]
  /\ Goto(a, "swap", call[a])
  /\ UNCHANGED <<documents, pendingCancel, pendingLocks, sweepVars, jobVars, shown>>

(* Mutant of SwapPending: only an analysis that still has a timer is       *)
(* cancelled.                                                              *)
SwapPendingTimed(a, j) ==
  /\ pc[a] = "swap"
  /\ Unused(j)
  /\ LET u == call[a].uri
     IN /\ stage' = [stage EXCEPT ![j] = IF call[a].delay THEN "armed" ELSE "ready"]
        /\ about' = [about EXCEPT ![j] = <<u, call[a].text>>]
        /\ pendingCancel' = [pendingCancel EXCEPT ![u] = j]
        /\ pendingLocks' = [pendingLocks EXCEPT ![u] = IF call[a].delay THEN j ELSE None]
        /\ Goto(a, "cancelOld",
                [NoCall EXCEPT !.delay = call[a].delay, !.job = j,
                               !.old = pendingLocks[u], !.oldTimer = pendingLocks[u]])
  /\ UNCHANGED <<documents, cache, canceled, sweepVars, shown>>

(* A new context, and a new timer if there is a delay, replace those of    *)
(* the document.  The timer is armed before the lock is taken, but fires   *)
(* long after it is released.                                              *)
SwapPending(a, j) ==
  /\ pc[a] = "swap"
  /\ Unused(j)
  /\ LET u == call[a].uri
     IN /\ stage' = [stage EXCEPT ![j] = IF call[a].delay THEN "armed" ELSE "ready"]
        /\ about' = [about EXCEPT ![j] = <<u, call[a].text>>]
        /\ pendingCancel' = [pendingCancel EXCEPT ![u] = j]
        /\ pendingLocks' = [pendingLocks EXCEPT ![u] = IF call[a].delay THEN j ELSE None]
        /\ Goto(a, "cancelOld",
                [NoCall EXCEPT !.delay = call[a].delay, !.job = j,
                               !.old = pendingCancel[u], !.oldTimer = pendingLocks[u]])
  /\ UNCHANGED <<documents, cache, canceled, sweepVars, shown>>

(* Mutant of CancelOld: the new context is cancelled, not the old one.     *)
CancelNew(a) ==
  /\ pc[a] = "cancelOld"
  /\ LET c == call[a]
         stops(j)  == j = c.oldTimer /\ stage[j] = "armed"
         starts(j) == j = c.job /\ ~c.delay
     IN /\ stage' = [j \in Jobs |-> IF stops(j) THEN "free"
                                    ELSE IF starts(j) THEN "analyse" ELSE stage[j]]
        /\ about' = [j \in Jobs |-> IF stops(j) THEN None ELSE about[j]]
        /\ canceled' = [j \in Jobs |-> IF stops(j) THEN FALSE
                            ELSE canceled[j] \/ (j = c.job /\ stage[j] # "free")]
        /\ CASE c.job = None        -> Goto(a, "clear", Call(c.uri, None, FALSE))
             [] c.job # None /\ c.delay  -> Return(a)
             [] c.job # None /\ ~c.delay ->
                  Goto(a, "wait", [NoCall EXCEPT !.job = c.job])
  /\ UNCHANGED <<stateVars, sweepVars, shown>>

(* Mutant of CancelOld: an analysis that is cancelled already is not run.  *)
CancelOldFirst(a) ==
  /\ pc[a] = "cancelOld"
  /\ LET c == call[a]
         stops(j)  == j = c.oldTimer /\ stage[j] = "armed"
         starts(j) == j = c.job /\ ~c.delay /\ ~canceled[j]
     IN /\ stage' = [j \in Jobs |-> IF stops(j) THEN "free"
                                    ELSE IF starts(j) THEN "analyse" ELSE stage[j]]
        /\ about' = [j \in Jobs |-> IF stops(j) THEN None ELSE about[j]]
        /\ canceled' = [j \in Jobs |-> IF stops(j) THEN FALSE
                            ELSE canceled[j] \/ (j = c.old /\ stage[j] # "free")]
        /\ CASE c.job = None        -> Goto(a, "clear", Call(c.uri, None, FALSE))
             [] c.job # None /\ c.delay  -> Return(a)
             [] c.job # None /\ ~c.delay ->
                  Goto(a, "wait", [NoCall EXCEPT !.job = c.job])
  /\ UNCHANGED <<stateVars, sweepVars, shown>>

(* After the unlock the old context is cancelled and the old timer is      *)
(* stopped, and an analysis without a delay starts.  The end of            *)
(* closeDocument does the first two.                                       *)
CancelOld(a) ==
  /\ pc[a] = "cancelOld"
  /\ LET c == call[a]
         stops(j)  == j = c.oldTimer /\ stage[j] = "armed"
         starts(j) == j = c.job /\ ~c.delay
     IN /\ stage' = [j \in Jobs |-> IF stops(j) THEN "free"
                                    ELSE IF starts(j) THEN "analyse" ELSE stage[j]]
        /\ about' = [j \in Jobs |-> IF stops(j) THEN None ELSE about[j]]
        /\ canceled' = [j \in Jobs |-> IF stops(j) THEN FALSE
                            ELSE canceled[j] \/ (j = c.old /\ stage[j] # "free")]
        /\ CASE c.job = None        -> Goto(a, "clear", Call(c.uri, None, FALSE))
             [] c.job # None /\ c.delay  -> Return(a)
             [] c.job # None /\ ~c.delay ->
                  Goto(a, "wait", [NoCall EXCEPT !.job = c.job])
  /\ UNCHANGED <<stateVars, sweepVars, shown>>

(* An analysis without a delay runs in the goroutine that started it.      *)
AnalysisReturns(a) ==
  /\ pc[a] = "wait"
  /\ stage[call[a].job] = "free"
  /\ Return(a)
  /\ UNCHANGED <<stateVars, sweepVars, jobVars, shown>>

-----------------------------------------------------------------------------
(* analyzeAndPublish.                                                      *)

Step(j, from, to) == stage[j] = from /\ stage' = [stage EXCEPT ![j] = to]

Ends(j) ==
  /\ stage' = [stage EXCEPT ![j] = "free"]
  /\ about' = [about EXCEPT ![j] = None]
  /\ canceled' = [canceled EXCEPT ![j] = FALSE]

(* Its check of the document: a closed one passes.                         *)
UpToDate(j) == documents[about[j][1]] \in {None, about[j][2]}

Fire(j) ==
  /\ Step(j, "armed", "analyse")
  /\ UNCHANGED <<stateVars, sweepVars, about, canceled, pc, call, shown>>

(* The source is analysed; the context is looked at after that.            *)
Analyse(j) ==
  /\ ~canceled[j]
  /\ Step(j, "analyse", "check")
  /\ UNCHANGED <<stateVars, sweepVars, about, canceled, pc, call, shown>>

(* There is no result, or the analysis panicked: that is published.        *)
AnalysisFails(j) ==
  /\ ~canceled[j]
  /\ Step(j, "analyse", "broken")
  /\ UNCHANGED <<stateVars, sweepVars, about, canceled, pc, call, shown>>

Abandon(j) ==
  /\ stage[j] = "analyse" /\ canceled[j]
  /\ Ends(j)
  /\ UNCHANGED <<stateVars, sweepVars, pc, call, shown>>

(* Both looks at the document, before the result is stored and before the  *)
(* diagnostics are published.                                              *)
CheckDocument(j) ==
  /\ Step(j, "check", "store") \/ Step(j, "recheck", "publish")
  /\ UpToDate(j)
  /\ UNCHANGED <<stateVars, sweepVars, about, canceled, pc, call, shown>>

Outdated(j) ==
  /\ stage[j] \in {"check", "recheck"}
  /\ ~UpToDate(j)
  /\ Ends(j)
  /\ UNCHANGED <<stateVars, sweepVars, pc, call, shown>>

SetAnalysisResult(j) ==
  /\ Step(j, "store", "recheck")
  /\ cache' = [cache EXCEPT ![about[j][1]] = about[j][2]]
  /\ UNCHANGED <<documents, pendingCancel, pendingLocks, sweepVars, about, canceled,
                 pc, call, shown>>

PublishDiagnostics(j) ==
  /\ stage[j] \in {"broken", "publish"}
  /\ shown' = [shown EXCEPT ![about[j][1]] = about[j][2]]
  /\ Ends(j)
  /\ UNCHANGED <<stateVars, sweepVars, pc, call>>

-----------------------------------------------------------------------------
(* Watched files.                                                          *)

AddWatchedChanges ==
  /\ pc[Reader] = "note"
  /\ watchedChanges' = watchedChanges \cup {call[Reader].uri}
  /\ Goto(Reader, "arm", NoCall)
  /\ UNCHANGED <<stateVars, workspaceTimer, changes, todo, jobVars, shown>>

(* resetWorkspaceReanalysis: a sweep may have taken the changes already.   *)
NeedsSweep ==
  /\ pc[Reader] = "arm"
  /\ IF watchedChanges = {} THEN Return(Reader) ELSE Goto(Reader, "swapTimer", NoCall)
  /\ UNCHANGED <<stateVars, sweepVars, jobVars, shown>>

(* Mutant of StopOldTimer: the field is read after it was replaced.        *)
StopNewTimer ==
  /\ pc[Reader] = "stopOld"
  /\ pc' = [a \in Actors |-> IF a = Reader \/ (a = workspaceTimer /\ pc[a] = "armed")
                             THEN "idle" ELSE pc[a]]
  /\ call' = [call EXCEPT ![Reader] = NoCall]
  /\ UNCHANGED <<stateVars, sweepVars, jobVars, shown>>

SwapWorkspaceTimer(s) ==
  /\ pc[Reader] = "swapTimer"
  /\ Asleep(s)
  /\ workspaceTimer' = s
  /\ pc' = [pc EXCEPT ![s] = "armed", ![Reader] = "stopOld"]
  /\ call' = [call EXCEPT ![Reader] = [NoCall EXCEPT !.old = workspaceTimer]]
  /\ UNCHANGED <<stateVars, watchedChanges, changes, todo, jobVars, shown>>

StopOldTimer ==
  /\ pc[Reader] = "stopOld"
  /\ pc' = [a \in Actors |-> IF a = Reader \/ (a = call[Reader].old /\ pc[a] = "armed")
                             THEN "idle" ELSE pc[a]]
  /\ call' = [call EXCEPT ![Reader] = NoCall]
  /\ UNCHANGED <<stateVars, sweepVars, jobVars, shown>>

SweepFires(s) ==
  /\ pc[s] = "armed"
  /\ pc' = [pc EXCEPT ![s] = "take"]
  /\ UNCHANGED <<stateVars, sweepVars, jobVars, call, shown>>

(* takeWatchedChanges, which forgets the timer, whichever it is.           *)
TakeWatchedChanges(s) ==
  /\ pc[s] = "take"
  /\ changes' = [changes EXCEPT ![s] = watchedChanges]
  /\ watchedChanges' = {}
  /\ workspaceTimer' = None
  /\ pc' = [pc EXCEPT ![s] = IF watchedChanges = {} THEN "idle" ELSE "snapshot"]
  /\ UNCHANGED <<stateVars, todo, jobVars, call, shown>>

(* documentSnapshot: the texts the sweep will analyse.                     *)
DocumentSnapshot(s) ==
  /\ pc[s] = "snapshot"
  /\ todo' = [todo EXCEPT ![s] = documents]
  /\ pc' = [pc EXCEPT ![s] = "visit"]
  /\ UNCHANGED <<stateVars, watchedChanges, workspaceTimer, changes, jobVars, call, shown>>

(* A document that changed, or that has no result, is analysed; so is one  *)
(* that imports a changed file, directly or not.  What imports what is     *)
(* left open.                                                              *)
Visit(s, u) ==
  /\ pc[s] = "visit"
  /\ todo[s][u] # None
  /\ todo' = [todo EXCEPT ![s][u] = None]
  /\ \/ Goto(s, "invalidate", Call(u, todo[s][u], FALSE))
     \/ /\ u \notin changes[s] /\ cache[u] # None
        /\ UNCHANGED <<pc, call>>
  /\ UNCHANGED <<stateVars, watchedChanges, workspaceTimer, changes, jobVars, shown>>

SweepEnds(s) ==
  /\ pc[s] = "visit"
  /\ todo[s] = NoText
  /\ changes' = [changes EXCEPT ![s] = {}]
  /\ Goto(s, "idle", NoCall)
  /\ UNCHANGED <<stateVars, watchedChanges, workspaceTimer, todo, jobVars, shown>>

-----------------------------------------------------------------------------
Notification ==
  \/ \E u \in Uris : \/ \E t \in Texts : DidOpen(u, t) \/ DidChange(u, t)
                     \/ DidSave(u)
                     \/ DidClose(u)
  \/ \E f \in Files : DidChangeWatchedFiles(f)

ActorStep(a) ==
  \/ InvalidateAnalysis(a)
  \/ \E j \in Jobs : SwapPending(a, j)
  \/ CancelOld(a)
  \/ AnalysisReturns(a)

ReaderStep == \/ ClearDiagnostics \/ AddWatchedChanges \/ NeedsSweep
              \/ \E s \in Sweeps : SwapWorkspaceTimer(s)
              \/ StopOldTimer

SweepStep(s) == \/ SweepFires(s) \/ TakeWatchedChanges(s) \/ DocumentSnapshot(s)
                \/ \E u \in Uris : Visit(s, u)
                \/ SweepEnds(s)

JobStep(j) == \/ Fire(j) \/ Analyse(j) \/ AnalysisFails(j) \/ Abandon(j)
              \/ CheckDocument(j) \/ Outdated(j)
              \/ SetAnalysisResult(j) \/ PublishDiagnostics(j)

Next == \/ Notification \/ ReaderStep
        \/ \E a \in Actors : ActorStep(a)
        \/ \E s \in Sweeps : SweepStep(s)
        \/ \E j \in Jobs : JobStep(j)

Spec == Init /\ [][Next]_vars

(* Go runs every goroutine that can run, a timer fires unless it is        *)
(* stopped, and an analysis ends.  A new analysis never waits in the code; *)
(* here it may have to, for one of Jobs to be unused, so its turn must     *)
(* come even if others keep taking theirs: strong fairness, which asks no  *)
(* more than weak of an actor's other steps, for they stay enabled.  The   *)
(* editor owes nothing.                                                    *)
Fairness ==
  /\ WF_vars(ReaderStep)
  /\ \A a \in Actors : SF_vars(ActorStep(a))
  /\ \A s \in Sweeps : WF_vars(SweepStep(s))
  /\ \A j \in Jobs : WF_vars(JobStep(j))

FairSpec == Spec /\ Fairness

-----------------------------------------------------------------------------
(* Documents, analyses, timers and local variables have their types.       *)
TypeOK ==
  /\ documents \in [Uris -> MaybeText]
  /\ cache \in [Uris -> MaybeText]
  /\ pendingCancel \in [Uris -> MaybeJob]
  /\ pendingLocks \in [Uris -> MaybeJob]
  /\ watchedChanges \subseteq Files
  /\ workspaceTimer \in Sweeps \cup {None}
  /\ stage \in [Jobs -> Stages]
  /\ about \in [Jobs -> (Uris \X Texts) \cup {None}]
  /\ canceled \in [Jobs -> BOOLEAN]
  /\ pc \in [Actors -> PCs]
  /\ call \in [Actors -> Calls]
  /\ changes \in [Sweeps -> SUBSET Files]
  /\ todo \in [Sweeps -> [Uris -> MaybeText]]
  /\ shown \in [Uris -> MaybeText]

Held(j) == \E a \in Actors : pc[a] = "cancelOld" /\ call[a].old = j

(* Whatever handlers and sweeps interleave, a document has one analysis    *)
(* that nobody has cancelled: the one pendingCancel names.  Any other is   *)
(* cancelled, or some goroutine is about to cancel it.  A cancelled one    *)
(* that has passed its look at the context goes on, and publishes even for *)
(* a document closed in between: its looks at the document let that pass.  *)
OneLiveAnalysis ==
  \A j \in Jobs :
    stage[j] # "free" /\ ~canceled[j] => Held(j) \/ pendingCancel[about[j][1]] = j

(* No timer is lost: one that may still fire can be stopped through        *)
(* pendingLocks, or some goroutine is about to stop it.                    *)
NoOrphanTimer ==
  \A j \in Jobs : stage[j] = "armed" =>
    \/ pendingLocks[about[j][1]] = j
    \/ \E a \in Actors : pc[a] = "cancelOld" /\ call[a].oldTimer = j

(* A change on disk is never forgotten: until a sweep has taken it there   *)
(* is a sweep whose timer nobody is about to stop, or the reader is about  *)
(* to start one.                                                           *)
ChangesReachASweep ==
  watchedChanges # {} =>
    \/ pc[Reader] \in {"arm", "swapTimer"}
    \/ \E s \in Sweeps :
          \/ pc[s] = "take"
          \/ pc[s] = "armed" /\ ~(pc[Reader] = "stopOld" /\ call[Reader].old = s)

(* What the proofs need besides: the arguments of a call are there when it *)
(* uses them, an analysis knows its document, and the one an actor is      *)
(* about to run is its own and ready.                                      *)
CallsOK ==
  \A a \in Actors :
    /\ pc[a] \in {"invalidate", "swap"} => call[a].uri \in Uris /\ call[a].text \in Texts
    /\ pc[a] = "note" => call[a].uri \in Files
    /\ pc[a] = "cancelOld" /\ call[a].job # None /\ ~call[a].delay =>
         stage[call[a].job] = "ready"
    /\ \A b \in Actors \ {a} : call[a].job # None => call[b].job # call[a].job
JobsOK == \A j \in Jobs : stage[j] # "free" => about[j] \in Uris \X Texts

IInv == TypeOK /\ CallsOK /\ JobsOK /\ OneLiveAnalysis /\ NoOrphanTimer /\ ChangesReachASweep

Sweeping == watchedChanges # {} \/ \E s \in Sweeps : pc[s] # "idle"

Receives(u, t) == pc[Reader] = "invalidate" /\ call[Reader] \in {Call(u, t, d) : d \in BOOLEAN}

(* A text the user opens, types or saves, and leaves in the editor, gets   *)
(* its diagnostics, unless a sweep comes in between.                       *)
TextAnalysed ==
  \A u \in Uris, t \in Texts :
    Receives(u, t) ~> documents[u] # t \/ shown[u] = t \/ Sweeping

(* No handler and no sweep waits for ever for the analysis it runs, also   *)
(* when another goroutine cancels that analysis.                           *)
HandlersReturn ==
  \A a \in Actors : pc[a] \notin {"idle", "armed"} ~> pc[a] = "idle"

(* What TestEndToEndOpenEditSaveWatchKeepsEditorStateFresh expects: a text *)
(* gets its diagnostics, sweep or no sweep.  The code breaks it: a sweep   *)
(* that took its snapshot before an edit cancels the analysis of the edit. *)
LatestTextAnalysed ==
  \A u \in Uris, t \in Texts : Receives(u, t) ~> documents[u] # t \/ shown[u] = t
=============================================================================
