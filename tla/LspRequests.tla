---------------------------- MODULE LspRequests ----------------------------
(***************************************************************************)
(* Requests of the language server (lsp/main.go, server_state.go) and the  *)
(* reference index that some of them fill (server_refs.go).  The reader    *)
(* starts a goroutine for every request and handles every notification     *)
(* itself, a $/cancelRequest among them; a request reads the analysis      *)
(* results of the workspace while the reader takes edits.                  *)
(*                                                                         *)
(* An action ends where the code releases stateMu.  A result is            *)
(* represented by the text it is about and by whether its reference index  *)
(* covers all of it.  LspAnalysis has the analysis of edits in detail;     *)
(* here one is pending from the edit until its result is stored.           *)
(***************************************************************************)
EXTENDS FiniteSets

CONSTANTS
  Requests,  \* bound: the messages with an id, and the goroutines they get
  Ids,       \* the ids the editor gives them
  Files,     \* the files of the workspace, open in the editor or not
  Texts,     \* the texts a file or a document may have
  None

ASSUME NoneAssumption == None \notin Requests \cup Ids \cup Files \cup Texts

VARIABLES
  phase,      \* main reads, then closes the server, then returns
  held,       \* the requests whose contexts Close is about to cancel
  pc,         \* how far each request is
  ids,        \* its id
  expired,    \* its context is cancelled
  canceled,   \* the ids the server was told to cancel
  active,     \* activeRequests: whose context a cancellation reaches
  todo,       \* the files a walk has not come to
  at,         \* the file it is at
  read,       \* the text it has read there
  documents,  \* the text of each open document, or None
  pending,    \* the text an analysis to come will store a result about
  disk,       \* the text of each file
  cache,      \* the result of the last analysis of each file, or None
  asked,      \* history: the ids the editor has ever cancelled
  stopped     \* history: the requests cancelled before they looked last

serverVars  == <<phase, held>>
requestVars == <<pc, ids, expired, canceled, active, stopped>>
walkVars    == <<todo, at, read>>
fileVars    == <<documents, pending, disk, cache>>
vars == <<serverVars, requestVars, walkVars, fileVars, asked>>

Phases == {"reading", "closing", "closed", "exited"}
Looking == {"spawned", "started", "handling", "walk", "read", "store", "handled"}
Ended   == {"dropped", "replied"}
PCs == {"absent"} \cup Looking \cup {"drop", "finish", "reply"} \cup Ended
(* Between startRequest and finishRequest.                                 *)
Running == (Looking \ {"spawned"}) \cup {"drop", "finish"}

Results == [text : Texts, whole : BOOLEAN]
Result(t, w) == [text |-> t, whole |-> w]

Init ==
  /\ phase = "reading" /\ held = {}
  /\ pc = [r \in Requests |-> "absent"]
  /\ ids = [r \in Requests |-> None]
  /\ expired = [r \in Requests |-> FALSE]
  /\ canceled = {} /\ asked = {} /\ stopped = {}
  /\ active = [i \in Ids |-> None]
  /\ todo = [r \in Requests |-> {}]
  /\ at = [r \in Requests |-> None]
  /\ read = [r \in Requests |-> None]
  /\ documents = [f \in Files |-> None]
  /\ pending = [f \in Files |-> None]
  /\ disk \in [Files -> Texts]
  /\ cache = [f \in Files |-> None]

Goto(r, l) == pc' = [pc EXCEPT ![r] = l]

-----------------------------------------------------------------------------
(* The reader.  The editor uses an id again only after the reply to its    *)
(* last use, and cancels any id, also one it has had the reply for.        *)

Receive(r, i) ==
  /\ phase = "reading"
  /\ pc[r] = "absent"
  /\ \A q \in Requests : ids[q] = i => pc[q] = "replied"
  /\ Goto(r, "spawned")
  /\ ids' = [ids EXCEPT ![r] = i]
  /\ UNCHANGED <<serverVars, expired, canceled, active, stopped, walkVars, fileVars, asked>>

(* Mutant of CancelRequest: every active request is cancelled.             *)
CancelAll(i) ==
  /\ phase = "reading"
  /\ canceled' = canceled \cup {i}
  /\ expired' = [r \in Requests |-> expired[r] \/ \E k \in Ids : active[k] = r]
  /\ asked' = asked \cup {i}
  /\ stopped' = stopped \cup {r \in Requests : ids[r] = i /\ pc[r] \in Looking}
  /\ UNCHANGED <<serverVars, pc, ids, active, walkVars, fileVars>>

(* Mutant of CancelRequest: a request that has not started is not found.   *)
CancelStarted(i) ==
  /\ phase = "reading"
  /\ canceled' = IF active[i] = None THEN canceled ELSE canceled \cup {i}
  /\ expired' = [r \in Requests |-> expired[r] \/ active[i] = r]
  /\ asked' = asked \cup {i}
  /\ stopped' = stopped \cup {r \in Requests : ids[r] = i /\ pc[r] \in Looking}
  /\ UNCHANGED <<serverVars, pc, ids, active, walkVars, fileVars>>

CancelRequest(i) ==
  /\ phase = "reading"
  /\ canceled' = canceled \cup {i}
  /\ expired' = [r \in Requests |-> expired[r] \/ active[i] = r]
  /\ asked' = asked \cup {i}
  /\ stopped' = stopped \cup {r \in Requests : ids[r] = i /\ pc[r] \in Looking}
  /\ UNCHANGED <<serverVars, pc, ids, active, walkVars, fileVars>>

(* didOpen and didChange: the result is dropped, an analysis is to come.   *)
Edit(f, t) ==
  /\ phase = "reading"
  /\ documents[f] # t
  /\ documents' = [documents EXCEPT ![f] = t]
  /\ pending' = [pending EXCEPT ![f] = t]
  /\ cache' = [cache EXCEPT ![f] = None]
  /\ UNCHANGED <<serverVars, requestVars, walkVars, disk, asked>>

DidClose(f) ==
  /\ phase = "reading"
  /\ documents[f] # None
  /\ documents' = [documents EXCEPT ![f] = None]
  /\ pending' = [pending EXCEPT ![f] = None]
  /\ cache' = [cache EXCEPT ![f] = None]
  /\ UNCHANGED <<serverVars, requestVars, walkVars, disk, asked>>

(* A sweep analyses an open document again when its file has changed.      *)
DidChangeWatchedFiles(f) ==
  /\ phase = "reading"
  /\ pending' = [pending EXCEPT ![f] = documents[f]]
  /\ cache' = [cache EXCEPT ![f] = None]
  /\ UNCHANGED <<serverVars, requestVars, walkVars, documents, disk, asked>>

(* The analysis of an open document, in whatever goroutine it runs.        *)
StoreAnalysis(f) ==
  /\ phase # "exited"
  /\ pending[f] # None
  /\ cache' = [cache EXCEPT ![f] = Result(pending[f], TRUE)]
  /\ pending' = [pending EXCEPT ![f] = None]
  /\ UNCHANGED <<serverVars, requestVars, walkVars, documents, disk, asked>>

(* The editor or another program writes a file.                            *)
WriteFile(f, t) ==
  /\ phase # "exited"
  /\ disk[f] # t
  /\ disk' = [disk EXCEPT ![f] = t]
  /\ UNCHANGED <<serverVars, requestVars, walkVars, documents, pending, cache, asked>>

(* The end of the input: Close empties the tables, and cancels after the   *)
(* unlock; then main returns, and no goroutine goes on.                    *)
CloseTakes ==
  /\ phase = "reading"
  /\ phase' = "closing"
  /\ held' = {r \in Requests : \E i \in Ids : active[i] = r}
  /\ active' = [i \in Ids |-> None]
  /\ canceled' = {}
  /\ pending' = [f \in Files |-> None]
  /\ UNCHANGED <<pc, ids, expired, stopped, walkVars, documents, disk, cache, asked>>

CloseCancels ==
  /\ phase = "closing"
  /\ phase' = "closed"
  /\ expired' = [r \in Requests |-> expired[r] \/ r \in held]
  /\ held' = {}
  /\ UNCHANGED <<pc, ids, canceled, active, stopped, walkVars, fileVars, asked>>

Exit ==
  /\ phase = "closed"
  /\ phase' = "exited"
  /\ UNCHANGED <<held, requestVars, walkVars, fileVars, asked>>

-----------------------------------------------------------------------------
(* handleRequest.                                                          *)

(* Mutant of StartRequest: a request that is cancelled already gets a      *)
(* context that nobody cancels.                                            *)
StartUncancelled(r) ==
  /\ phase # "exited"
  /\ pc[r] = "spawned"
  /\ active' = IF ids[r] \in canceled THEN active ELSE [active EXCEPT ![ids[r]] = r]
  /\ Goto(r, "started")
  /\ UNCHANGED <<serverVars, ids, expired, canceled, stopped, walkVars, fileVars, asked>>

StartRequest(r) ==
  /\ phase # "exited"
  /\ pc[r] = "spawned"
  /\ IF ids[r] \in canceled
     THEN /\ expired' = [expired EXCEPT ![r] = TRUE]
          /\ UNCHANGED active
     ELSE /\ active' = [active EXCEPT ![ids[r]] = r]
          /\ UNCHANGED expired
  /\ Goto(r, "started")
  /\ UNCHANGED <<serverVars, ids, canceled, stopped, walkVars, fileVars, asked>>

(* The first look asks for the mark, the second for the context too.       *)
FirstLook(r) ==
  /\ phase # "exited"
  /\ pc[r] = "started"
  /\ Goto(r, IF ids[r] \in canceled THEN "drop" ELSE "handling")
  /\ UNCHANGED <<serverVars, ids, expired, canceled, active, stopped, walkVars, fileVars, asked>>

(* Most handlers, one that panics and an unknown method change nothing.    *)
Handle(r) ==
  /\ phase # "exited"
  /\ pc[r] = "handling"
  /\ Goto(r, "handled")
  /\ UNCHANGED <<serverVars, ids, expired, canceled, active, stopped, walkVars, fileVars, asked>>

LastLook(r) ==
  /\ phase # "exited"
  /\ pc[r] = "handled"
  /\ Goto(r, IF expired[r] \/ ids[r] \in canceled THEN "drop" ELSE "finish")
  /\ UNCHANGED <<serverVars, ids, expired, canceled, active, stopped, walkVars, fileVars, asked>>

(* Mutant of FinishRequest: the context is left to the garbage collector.  *)
FinishQuietly(r) ==
  /\ phase # "exited"
  /\ pc[r] \in {"drop", "finish"}
  /\ canceled' = canceled \ {ids[r]}
  /\ active' = [active EXCEPT ![ids[r]] = None]
  /\ Goto(r, IF pc[r] = "drop" THEN "dropped" ELSE "reply")
  /\ UNCHANGED <<serverVars, ids, expired, stopped, walkVars, fileVars, asked>>

(* finishRequest: the entries of the id go, and the context that was       *)
(* registered for it, which only this goroutine looks at, is cancelled.    *)
FinishRequest(r) ==
  /\ phase # "exited"
  /\ pc[r] \in {"drop", "finish"}
  /\ canceled' = canceled \ {ids[r]}
  /\ active' = [active EXCEPT ![ids[r]] = None]
  /\ expired' = [q \in Requests |-> expired[q] \/ active[ids[r]] = q]
  /\ Goto(r, IF pc[r] = "drop" THEN "dropped" ELSE "reply")
  /\ UNCHANGED <<serverVars, ids, stopped, walkVars, fileVars, asked>>

Reply(r) ==
  /\ phase # "exited"
  /\ pc[r] = "reply"
  /\ Goto(r, "replied")
  /\ UNCHANGED <<serverVars, ids, expired, canceled, active, stopped, walkVars, fileVars, asked>>

-----------------------------------------------------------------------------
(* ensureWorkspaceRefIndex, called by references and rename.               *)

BeginWalk(r) ==
  /\ phase # "exited"
  /\ pc[r] = "handling"
  /\ Goto(r, "walk")
  /\ todo' = [todo EXCEPT ![r] = Files]
  /\ UNCHANGED <<serverVars, ids, expired, canceled, active, stopped, at, read, fileVars, asked>>

(* The results of a file are looked up.  One that has a result is done.    *)
Visit(r, f) ==
  /\ phase # "exited"
  /\ pc[r] = "walk"
  /\ ~expired[r]
  /\ f \in todo[r]
  /\ todo' = [todo EXCEPT ![r] = @ \ {f}]
  /\ IF cache[f] # None
     THEN UNCHANGED <<pc, at>>
     ELSE Goto(r, "read") /\ at' = [at EXCEPT ![r] = f]
  /\ UNCHANGED <<serverVars, ids, expired, canceled, active, stopped, read, fileVars, asked>>

(* One that has none is read from disk, open or not.                       *)
ReadFile(r) ==
  /\ phase # "exited"
  /\ pc[r] = "read"
  /\ read' = [read EXCEPT ![r] = disk[at[r]]]
  /\ Goto(r, "store")
  /\ UNCHANGED <<serverVars, ids, expired, canceled, active, stopped, todo, at, fileVars, asked>>

ReadFails(r) ==
  /\ phase # "exited"
  /\ pc[r] = "read"
  /\ at' = [at EXCEPT ![r] = None]
  /\ Goto(r, "walk")
  /\ UNCHANGED <<serverVars, ids, expired, canceled, active, stopped, todo, read, fileVars, asked>>

(* Mutant of StoreIndex: the index may end early whatever the context.     *)
StorePart(r) ==
  /\ phase # "exited"
  /\ pc[r] = "store"
  /\ \E whole \in BOOLEAN :
       cache' = [cache EXCEPT ![at[r]] = Result(read[r], whole)]
  /\ at' = [at EXCEPT ![r] = None]
  /\ read' = [read EXCEPT ![r] = None]
  /\ Goto(r, "walk")
  /\ UNCHANGED <<serverVars, ids, expired, canceled, active, stopped, todo,
                 documents, pending, disk, asked>>

(* buildReferenceIndex looks at the context between statements and returns *)
(* what it has; the result is stored in any case.                          *)
StoreIndex(r) ==
  /\ phase # "exited"
  /\ pc[r] = "store"
  /\ \E whole \in {TRUE, ~expired[r]} :
       cache' = [cache EXCEPT ![at[r]] = Result(read[r], whole)]
  /\ at' = [at EXCEPT ![r] = None]
  /\ read' = [read EXCEPT ![r] = None]
  /\ Goto(r, "walk")
  /\ UNCHANGED <<serverVars, ids, expired, canceled, active, stopped, todo,
                 documents, pending, disk, asked>>

(* Mutant of EndWalk: a walk that is cancelled waits for the files it has  *)
(* not come to.                                                            *)
EndFullWalk(r) ==
  /\ phase # "exited"
  /\ pc[r] = "walk"
  /\ todo[r] = {}
  /\ Goto(r, "handled")
  /\ UNCHANGED <<serverVars, ids, expired, canceled, active, stopped, walkVars, fileVars, asked>>

EndWalk(r) ==
  /\ phase # "exited"
  /\ pc[r] = "walk"
  /\ expired[r] \/ todo[r] = {}
  /\ todo' = [todo EXCEPT ![r] = {}]
  /\ Goto(r, "handled")
  /\ UNCHANGED <<serverVars, ids, expired, canceled, active, stopped, at, read, fileVars, asked>>

-----------------------------------------------------------------------------
Walk(r) ==
  \/ BeginWalk(r) \/ ReadFile(r) \/ ReadFails(r) \/ StoreIndex(r) \/ EndWalk(r)
  \/ \E f \in Files : Visit(r, f)

RequestStep(r) ==
  \/ StartRequest(r) \/ FirstLook(r) \/ Handle(r) \/ LastLook(r)
  \/ FinishRequest(r) \/ Reply(r) \/ Walk(r)

Edits ==
  \E f \in Files :
    \/ \E t \in Texts : Edit(f, t) \/ WriteFile(f, t)
    \/ DidClose(f) \/ DidChangeWatchedFiles(f) \/ StoreAnalysis(f)

Next ==
  \/ \E r \in Requests, i \in Ids : Receive(r, i)
  \/ \E i \in Ids : CancelRequest(i)
  \/ CloseTakes \/ CloseCancels \/ Exit
  \/ \E r \in Requests : RequestStep(r)
  \/ Edits

Spec == Init /\ [][Next]_vars

(* The Go scheduler runs every goroutine that can go on.                   *)
FairSpec == Spec /\ \A r \in Requests : WF_vars(RequestStep(r))

-----------------------------------------------------------------------------
(* Every variable keeps its type, and every stored result is about a text  *)
(* that was there to be read (ensureWorkspaceRefIndex).                    *)
TypeOK ==
  /\ phase \in Phases /\ held \subseteq Requests
  /\ pc \in [Requests -> PCs]
  /\ ids \in [Requests -> Ids \cup {None}]
  /\ expired \in [Requests -> BOOLEAN]
  /\ canceled \subseteq Ids /\ asked \subseteq Ids /\ stopped \subseteq Requests
  /\ active \in [Ids -> Requests \cup {None}]
  /\ todo \in [Requests -> SUBSET Files]
  /\ at \in [Requests -> Files \cup {None}]
  /\ read \in [Requests -> Texts \cup {None}]
  /\ documents \in [Files -> Texts \cup {None}]
  /\ pending \in [Files -> Texts \cup {None}]
  /\ disk \in [Files -> Texts]
  /\ cache \in [Files -> Results \cup {None}]

(* A request that runs with a live context is found under its id, by       *)
(* cancelRequest or by Close, or Close has its context already; and what   *)
(* is found under an id is a request that runs (server_state.go:65,        *)
(* server_state.go:201).                                                   *)
CancelReaches ==
  /\ \A r \in Requests : pc[r] \in Running /\ ~expired[r]
       => active[ids[r]] = r \/ r \in held
  /\ \A i \in Ids : active[i] # None
       => ids[active[i]] = i /\ pc[active[i]] \in Running

(* "A context created for a completed request must always be canceled"     *)
(* (server_state.go:96): also of one that was dropped, and of one that     *)
(* ends while Close is between the tables and the contexts.                *)
ContextsReleased ==
  \A r \in Requests : pc[r] \in Ended => expired[r] \/ r \in held

(* No reply goes out to a request that was cancelled before it looked for  *)
(* the last time, wherever it was then (TestCancelRequestSuppresses-       *)
(* MatchingResponse), as long as the server reads.                         *)
CancelledUnanswered ==
  phase = "reading" => \A r \in stopped : pc[r] \notin {"finish", "reply", "replied"}

(* A request stays without a reply only if the editor has cancelled its    *)
(* id, be it for an earlier request, or the server has closed.             *)
DroppedWasCancelled ==
  phase = "reading" => \A r \in Requests : pc[r] \in {"drop", "dropped"} => ids[r] \in asked

(* The reference index of a file ends early only where a request was       *)
(* cancelled or the server closed (buildReferenceIndex returns what it has *)
(* when its context is cancelled, and that is stored as the whole).        *)
PartialWasCancelled ==
  phase = "reading" /\ asked = {}
    => \A f \in Files : cache[f] # None => cache[f].whole

(* Every request ends, with a reply or without, unless the process does    *)
(* first (main.go:98).                                                     *)
RequestsEnd ==
  \A r \in Requests : pc[r] = "spawned" ~> (pc[r] \in Ended \/ phase = "exited")

(* The inductive invariant: an id names one request at a time, a cancelled *)
(* one is cancelled under its id, and Close holds contexts only while it   *)
(* runs.                                                                   *)
IdsOK ==
  /\ \A r \in Requests : ids[r] = None <=> pc[r] = "absent"
  /\ \A q, r \in Requests : ids[q] = ids[r] /\ ids[q] # None /\ q # r
       => pc[q] = "replied" \/ pc[r] = "replied"

WalksOK ==
  \A r \in Requests : /\ pc[r] \in {"read", "store"} => at[r] \in Files
                      /\ pc[r] = "store" => read[r] \in Texts

CancelsOK ==
  /\ canceled \subseteq asked
  /\ \A r \in Requests :
       /\ pc[r] \in {"absent", "spawned"} => ~expired[r] /\ r \notin held
       /\ phase = "reading" /\ expired[r] /\ pc[r] \in Looking => ids[r] \in canceled
       /\ phase = "reading" /\ r \in stopped =>
            pc[r] \in {"drop", "dropped"} \/ (pc[r] \in Looking /\ ids[r] \in canceled)

CloseOK ==
  /\ phase # "closing" => held = {}
  /\ \A r \in Requests : pc[r] = "reply" => expired[r] \/ r \in held

IInv ==
  /\ TypeOK /\ IdsOK /\ WalksOK /\ CancelsOK /\ CloseOK
  /\ CancelReaches /\ ContextsReleased /\ CancelledUnanswered
  /\ DroppedWasCancelled /\ PartialWasCancelled
=============================================================================
