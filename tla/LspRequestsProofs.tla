------------------------- MODULE LspRequestsProofs --------------------------
(***************************************************************************)
(* Proofs about LspRequests, for any requests, ids, files and texts.       *)
(***************************************************************************)
EXTENDS LspRequests, TLAPS

LEMMA InitHolds == Init => IInv
<1>1. SUFFICES ASSUME Init  PROVE IInv
  OBVIOUS
<1>2. TypeOK
  BY <1>1 DEF Init, TypeOK, Phases, PCs
<1>3. IdsOK /\ WalksOK
  BY <1>1, NoneAssumption DEF Init, IdsOK, WalksOK
<1>4. CancelsOK /\ CloseOK
  BY <1>1 DEF Init, CancelsOK, CloseOK, Looking
<1>5. CancelReaches /\ ContextsReleased
  BY <1>1 DEF Init, CancelReaches, ContextsReleased, Running, Looking, Ended
<1>6. CancelledUnanswered /\ DroppedWasCancelled /\ PartialWasCancelled
  BY <1>1 DEF Init, CancelledUnanswered, DroppedWasCancelled, PartialWasCancelled
<1> QED  BY <1>2, <1>3, <1>4, <1>5, <1>6 DEF IInv

(* A goroutine moves itself only.                                          *)
LEMMA GotoStep ==
  ASSUME TypeOK, NEW r \in Requests, NEW l \in PCs, Goto(r, l)
  PROVE  /\ pc' \in [Requests -> PCs] /\ pc'[r] = l
         /\ \A q \in Requests : q # r => pc'[q] = pc[q]
BY DEF TypeOK, Goto

-----------------------------------------------------------------------------
LEMMA ReaderTypes ==
  ASSUME TypeOK, NEW f \in Files, NEW t \in Texts,
         \/ Edit(f, t) \/ WriteFile(f, t)
         \/ DidClose(f) \/ DidChangeWatchedFiles(f) \/ StoreAnalysis(f)
  PROVE  TypeOK'
<1>1. CASE Edit(f, t)
  BY <1>1 DEF Edit, TypeOK, serverVars, requestVars, walkVars
<1>2. CASE WriteFile(f, t)
  BY <1>2 DEF WriteFile, TypeOK, serverVars, requestVars, walkVars
<1>3. CASE DidClose(f)
  BY <1>3 DEF DidClose, TypeOK, serverVars, requestVars, walkVars
<1>4. CASE DidChangeWatchedFiles(f)
  BY <1>4 DEF DidChangeWatchedFiles, TypeOK, serverVars, requestVars, walkVars
<1>5. CASE StoreAnalysis(f)
  <2>1. Result(pending[f], TRUE) \in Results
    BY <1>5 DEF StoreAnalysis, TypeOK, Result, Results
  <2>2. cache' \in [Files -> Results \cup {None}] /\ pending' \in [Files -> Texts \cup {None}]
    BY <1>5, <2>1 DEF StoreAnalysis, TypeOK
  <2> QED  BY <1>5, <2>2 DEF StoreAnalysis, TypeOK, serverVars, requestVars, walkVars
<1> QED  BY <1>1, <1>2, <1>3, <1>4, <1>5

(* Edits change none of what the invariant says of requests.               *)
LEMMA EditsStep ==
  ASSUME IInv, NEW f \in Files, NEW t \in Texts,
         \/ Edit(f, t) \/ WriteFile(f, t)
         \/ DidClose(f) \/ DidChangeWatchedFiles(f) \/ StoreAnalysis(f)
  PROVE  IInv'
<1>1. TypeOK'
  BY ReaderTypes DEF IInv
<1>2. UNCHANGED <<serverVars, requestVars, walkVars, asked>>
  BY DEF Edit, WriteFile, DidClose, DidChangeWatchedFiles, StoreAnalysis
<1>3. IdsOK' /\ WalksOK' /\ CancelsOK' /\ CloseOK'
  BY <1>2 DEF IInv, serverVars, requestVars, walkVars, IdsOK, WalksOK, CancelsOK, CloseOK
<1>4. CancelReaches' /\ ContextsReleased' /\ CancelledUnanswered' /\ DroppedWasCancelled'
  BY <1>2 DEF IInv, serverVars, requestVars, CancelReaches, ContextsReleased,
              CancelledUnanswered, DroppedWasCancelled
<1>5. ASSUME NEW g \in Files, cache'[g] # None
      PROVE  (cache[g] # None /\ cache'[g].whole = cache[g].whole) \/ cache'[g].whole = TRUE
  <2>1. cache \in [Files -> Results \cup {None}]
    BY DEF IInv, TypeOK
  <2>2. CASE StoreAnalysis(f)
    <3>1. Result(pending[f], TRUE).whole = TRUE
      BY DEF Result
    <3> QED  BY <1>5, <2>1, <2>2, <3>1 DEF StoreAnalysis
  <2>3. CASE ~StoreAnalysis(f)
    BY <2>1, <2>3, <1>5 DEF Edit, WriteFile, DidClose, DidChangeWatchedFiles
  <2> QED  BY <2>2, <2>3
<1>6. PartialWasCancelled'
  BY <1>2, <1>5 DEF IInv, serverVars, requestVars, PartialWasCancelled
<1> QED  BY <1>1, <1>3, <1>4, <1>6 DEF IInv

-----------------------------------------------------------------------------
(* Steps of the reader and of Close.                                       *)

LEMMA ReceiveStep ==
  ASSUME IInv, NEW r \in Requests, NEW i \in Ids, Receive(r, i)
  PROVE  IInv'
<1> USE NoneAssumption
<1>1. /\ pc' \in [Requests -> PCs] /\ pc'[r] = "spawned"
      /\ \A q \in Requests : q # r => pc'[q] = pc[q]
  BY GotoStep DEF IInv, Receive, PCs, Looking
<1>2. /\ ids' \in [Requests -> Ids \cup {None}] /\ ids'[r] = i
      /\ \A q \in Requests : q # r => ids'[q] = ids[q]
  BY DEF IInv, TypeOK, Receive
<1>3. TypeOK'
  BY <1>1, <1>2 DEF IInv, TypeOK, Receive, serverVars, walkVars, fileVars
<1>4. IdsOK'
  BY <1>1, <1>2 DEF IInv, IdsOK, Receive
<1>5. WalksOK'
  BY <1>1 DEF IInv, WalksOK, Receive, walkVars
<1>6. pc[r] = "absent" /\ UNCHANGED <<phase, held, expired, canceled, active, stopped, asked, cache>>
  BY DEF Receive, serverVars, fileVars
<1>7. CancelsOK' /\ CloseOK'
  BY <1>1, <1>2, <1>6 DEF IInv, CancelsOK, CloseOK, Looking
<1>8. CancelReaches'
  BY <1>1, <1>2, <1>6 DEF IInv, TypeOK, CancelReaches, Running, Looking
<1>9. ContextsReleased'
  BY <1>1, <1>6 DEF IInv, ContextsReleased, Ended
<1>10. CancelledUnanswered'
  <2>1. stopped \subseteq Requests
    BY DEF IInv, TypeOK
  <2> QED  BY <1>1, <1>6, <2>1 DEF IInv, CancelledUnanswered
<1>11. DroppedWasCancelled' /\ PartialWasCancelled'
  BY <1>1, <1>2, <1>6 DEF IInv, DroppedWasCancelled, PartialWasCancelled
<1> QED  BY <1>3, <1>4, <1>5, <1>7, <1>8, <1>9, <1>10, <1>11 DEF IInv

LEMMA CancelStep ==
  ASSUME IInv, NEW i \in Ids, CancelRequest(i)
  PROVE  IInv'
<1> USE NoneAssumption
<1>1. /\ expired' \in [Requests -> BOOLEAN]
      /\ \A r \in Requests : expired'[r] <=> expired[r] \/ active[i] = r
  BY DEF IInv, TypeOK, CancelRequest
<1>2. UNCHANGED <<phase, held, pc, ids, active, todo, at, read, documents, pending, disk, cache>>
  BY DEF CancelRequest, serverVars, walkVars, fileVars
<1>3. canceled' = canceled \cup {i} /\ asked' = asked \cup {i} /\ phase = "reading"
  BY DEF CancelRequest
<1>4. /\ stopped' \subseteq Requests
      /\ \A r \in stopped' : r \in stopped \/ (ids[r] = i /\ pc[r] \in Looking)
  BY DEF IInv, TypeOK, CancelRequest
<1>5. TypeOK'
  BY <1>1, <1>2, <1>3, <1>4 DEF IInv, TypeOK
<1>6. IdsOK' /\ WalksOK'
  BY <1>2 DEF IInv, IdsOK, WalksOK
<1>7. \A r \in Requests : active[i] = r => ids[r] = i /\ pc[r] \in Running
  BY DEF IInv, CancelReaches
<1>8. CancelsOK'
  BY <1>1, <1>2, <1>3, <1>4, <1>7 DEF IInv, CancelsOK, Running, Looking
<1>9. CloseOK' /\ ContextsReleased' /\ CancelReaches'
  BY <1>1, <1>2 DEF IInv, CloseOK, ContextsReleased, CancelReaches
<1>10. CancelledUnanswered'
  BY <1>2, <1>4 DEF IInv, CancelledUnanswered, Looking
<1>11. DroppedWasCancelled' /\ PartialWasCancelled'
  BY <1>2, <1>3 DEF IInv, DroppedWasCancelled, PartialWasCancelled
<1> QED  BY <1>5, <1>6, <1>8, <1>9, <1>10, <1>11 DEF IInv

LEMMA CloseTakesStep ==
  ASSUME IInv, CloseTakes
  PROVE  IInv'
<1> USE NoneAssumption
<1>1. /\ phase = "reading" /\ phase' = "closing" /\ canceled' = {}
      /\ UNCHANGED <<pc, ids, expired, stopped, todo, at, read, documents, disk, cache, asked>>
  BY DEF CloseTakes, walkVars
<1>2. held' \subseteq Requests /\ \A r \in Requests : r \in held' <=> \E i \in Ids : active[i] = r
  BY DEF CloseTakes
<1>3. active' \in [Ids -> Requests \cup {None}] /\ \A i \in Ids : active'[i] = None
  BY DEF CloseTakes
<1>4. held = {}
  BY <1>1 DEF IInv, CloseOK
<1>5. TypeOK'
  BY <1>1, <1>2, <1>3 DEF IInv, TypeOK, CloseTakes, Phases
<1>6. IdsOK' /\ WalksOK'
  BY <1>1 DEF IInv, IdsOK, WalksOK
<1>7. \A r \in Requests : r \in held' => pc[r] \in Running
  BY <1>2 DEF IInv, CancelReaches
<1>8. CancelsOK'
  BY <1>1, <1>7 DEF IInv, CancelsOK, Running, Looking
<1>9. \A r \in Requests : pc[r] \in Running /\ ~expired[r] => r \in held'
  <2>1. SUFFICES ASSUME NEW r \in Requests, pc[r] \in Running, ~expired[r]  PROVE r \in held'
    OBVIOUS
  <2>2. active[ids[r]] = r /\ ids[r] \in Ids
    BY <1>4, <2>1 DEF IInv, CancelReaches, IdsOK, TypeOK, Running, Looking
  <2> QED  BY <1>2, <2>2
<1>10. CancelReaches'
  BY <1>1, <1>3, <1>9 DEF CancelReaches
<1>11. CloseOK' /\ ContextsReleased'
  BY <1>1, <1>4 DEF IInv, CloseOK, ContextsReleased
<1>12. CancelledUnanswered' /\ DroppedWasCancelled' /\ PartialWasCancelled'
  BY <1>1 DEF CancelledUnanswered, DroppedWasCancelled, PartialWasCancelled
<1> QED  BY <1>5, <1>6, <1>8, <1>10, <1>11, <1>12 DEF IInv

LEMMA CloseCancelsStep ==
  ASSUME IInv, CloseCancels
  PROVE  IInv'
<1>1. /\ phase = "closing" /\ phase' = "closed" /\ held' = {}
      /\ UNCHANGED <<pc, ids, canceled, active, stopped, todo, at, read, documents, pending,
                     disk, cache, asked>>
  BY DEF CloseCancels, walkVars, fileVars
<1>2. /\ expired' \in [Requests -> BOOLEAN]
      /\ \A r \in Requests : expired'[r] <=> expired[r] \/ r \in held
  BY DEF IInv, TypeOK, CloseCancels
<1>3. TypeOK'
  BY <1>1, <1>2 DEF IInv, TypeOK, Phases
<1>4. IdsOK' /\ WalksOK'
  BY <1>1 DEF IInv, IdsOK, WalksOK
<1>5. CancelsOK' /\ CloseOK'
  BY <1>1, <1>2 DEF IInv, CancelsOK, CloseOK
<1>6. CancelReaches' /\ ContextsReleased'
  BY <1>1, <1>2 DEF IInv, CancelReaches, ContextsReleased
<1>7. CancelledUnanswered' /\ DroppedWasCancelled' /\ PartialWasCancelled'
  BY <1>1 DEF CancelledUnanswered, DroppedWasCancelled, PartialWasCancelled
<1> QED  BY <1>3, <1>4, <1>5, <1>6, <1>7 DEF IInv

LEMMA ExitStep ==
  ASSUME IInv, Exit
  PROVE  IInv'
<1>1. phase = "closed" /\ phase' = "exited" /\ UNCHANGED <<held, requestVars, walkVars, fileVars, asked>>
  BY DEF Exit
<1>2. TypeOK' /\ IdsOK' /\ WalksOK'
  BY <1>1 DEF IInv, TypeOK, IdsOK, WalksOK, Phases, requestVars, walkVars, fileVars
<1>3. CancelsOK' /\ CloseOK' /\ CancelReaches' /\ ContextsReleased'
  BY <1>1 DEF IInv, CancelsOK, CloseOK, CancelReaches, ContextsReleased, requestVars
<1>4. CancelledUnanswered' /\ DroppedWasCancelled' /\ PartialWasCancelled'
  BY <1>1 DEF CancelledUnanswered, DroppedWasCancelled, PartialWasCancelled
<1> QED  BY <1>2, <1>3, <1>4 DEF IInv

-----------------------------------------------------------------------------
(* Steps of a request.                                                     *)

LEMMA StartStep ==
  ASSUME IInv, NEW r \in Requests, StartRequest(r)
  PROVE  IInv'
<1> USE NoneAssumption
<1>1. /\ pc' \in [Requests -> PCs] /\ pc'[r] = "started" /\ pc[r] = "spawned"
      /\ \A q \in Requests : q # r => pc'[q] = pc[q]
  BY GotoStep DEF IInv, StartRequest, PCs, Looking
<1>2. UNCHANGED <<phase, held, ids, canceled, stopped, todo, at, read, documents, pending,
                  disk, cache, asked>>
  BY DEF StartRequest, serverVars, walkVars, fileVars
<1>3. ids[r] \in Ids
  BY <1>1 DEF IInv, IdsOK, TypeOK
<1>4. /\ expired' \in [Requests -> BOOLEAN]
      /\ \A q \in Requests : expired'[q] <=> expired[q] \/ (q = r /\ ids[r] \in canceled)
  BY <1>3 DEF IInv, TypeOK, StartRequest
<1>5. /\ active' \in [Ids -> Requests \cup {None}]
      /\ active'[ids[r]] = (IF ids[r] \in canceled THEN active[ids[r]] ELSE r)
      /\ \A i \in Ids : i # ids[r] => active'[i] = active[i]
  BY <1>3 DEF IInv, TypeOK, StartRequest
<1>6. active[ids[r]] = None
  <2>1. SUFFICES ASSUME active[ids[r]] # None  PROVE FALSE
    OBVIOUS
  <2>2. active[ids[r]] \in Requests
    BY <1>3, <2>1 DEF IInv, TypeOK
  <2>3. ids[active[ids[r]]] = ids[r] /\ pc[active[ids[r]]] \in Running
    BY <1>3, <2>1 DEF IInv, CancelReaches
  <2>4. active[ids[r]] # r
    BY <1>1, <2>3 DEF Running, Looking
  <2>5. pc[active[ids[r]]] = "replied"
    BY <1>1, <1>3, <2>2, <2>3, <2>4 DEF IInv, IdsOK
  <2> QED  BY <2>3, <2>5 DEF Running, Looking
<1>7. TypeOK'
  BY <1>1, <1>2, <1>4, <1>5 DEF IInv, TypeOK
<1>8. IdsOK' /\ WalksOK'
  BY <1>1, <1>2 DEF IInv, IdsOK, WalksOK
<1>9. CancelsOK'
  BY <1>1, <1>2, <1>4 DEF IInv, CancelsOK, Looking
<1>10. CloseOK' /\ ContextsReleased'
  BY <1>1, <1>2, <1>4 DEF IInv, CloseOK, ContextsReleased, Ended
<1>11. CancelReaches'
  <2>1. ASSUME NEW q \in Requests, pc'[q] \in Running, ~expired'[q]
        PROVE  active'[ids'[q]] = q \/ q \in held'
    <3>1. CASE q = r
      BY <1>2, <1>3, <1>4, <1>5, <2>1, <3>1
    <3>2. CASE q # r
      <4>1. pc[q] \in Running /\ ~expired[q] /\ ids[q] \in Ids
        BY <1>1, <1>4, <2>1, <3>2 DEF IInv, IdsOK, TypeOK, Running, Looking
      <4>2. ids[q] # ids[r]
        BY <1>1, <1>3, <3>2, <4>1 DEF IInv, IdsOK, Running, Looking
      <4> QED  BY <1>2, <1>5, <4>1, <4>2 DEF IInv, CancelReaches
    <3> QED  BY <3>1, <3>2
  <2>2. ASSUME NEW i \in Ids, active'[i] # None
        PROVE  ids'[active'[i]] = i /\ pc'[active'[i]] \in Running
    <3>1. CASE i = ids[r]
      BY <1>1, <1>2, <1>5, <1>6, <2>2, <3>1 DEF Running, Looking
    <3>2. CASE i # ids[r]
      <4>1. active[i] \in Requests /\ ids[active[i]] = i /\ pc[active[i]] \in Running
        BY <1>5, <2>2, <3>2 DEF IInv, TypeOK, CancelReaches
      <4> QED  BY <1>1, <1>2, <1>5, <3>2, <4>1 DEF Running, Looking
    <3> QED  BY <3>1, <3>2
  <2> QED  BY <2>1, <2>2 DEF CancelReaches
<1>12. CancelledUnanswered' /\ DroppedWasCancelled' /\ PartialWasCancelled'
  <2>1. stopped \subseteq Requests
    BY DEF IInv, TypeOK
  <2> QED  BY <1>1, <1>2, <2>1 DEF IInv, CancelledUnanswered, DroppedWasCancelled, PartialWasCancelled
<1> QED  BY <1>7, <1>8, <1>9, <1>10, <1>11, <1>12 DEF IInv

(* A step inside the handler: the request stays between startRequest and   *)
(* finishRequest, and no table of the server changes.                      *)
LEMMA InsideStep ==
  ASSUME IInv, NEW r \in Requests, NEW l \in Running, pc[r] \in Running \ {"drop", "finish"},
         Goto(r, l),
         l \in {"drop", "finish"} => pc[r] \in {"started", "handled"},
         l = "drop" => expired[r] \/ ids[r] \in canceled,
         l = "finish" => ~(expired[r] \/ ids[r] \in canceled),
         UNCHANGED <<phase, held, ids, expired, canceled, active, stopped, asked>>
  PROVE  /\ pc' \in [Requests -> PCs] /\ IdsOK' /\ CancelsOK' /\ CloseOK'
         /\ CancelReaches' /\ ContextsReleased' /\ CancelledUnanswered' /\ DroppedWasCancelled'
<1> USE NoneAssumption
<1>1. /\ pc' \in [Requests -> PCs] /\ pc'[r] = l
      /\ \A q \in Requests : q # r => pc'[q] = pc[q]
  BY GotoStep DEF IInv, Running, Looking, PCs
<1>2. pc[r] \in Looking
  BY DEF Running, Looking
<1>3. phase = "reading" /\ r \in stopped => ids[r] \in canceled
  BY <1>2 DEF IInv, CancelsOK, Looking
<1>4. phase = "reading" /\ l = "drop" => ids[r] \in asked
  BY <1>2 DEF IInv, CancelsOK
<1>5. IdsOK'
  BY <1>1, <1>2 DEF IInv, IdsOK, Running, Looking
<1>6. CancelsOK'
  BY <1>1, <1>2, <1>3 DEF IInv, CancelsOK, Running, Looking
<1>7. CloseOK' /\ ContextsReleased'
  BY <1>1 DEF IInv, CloseOK, ContextsReleased, Running, Looking, Ended
<1>8. CancelReaches'
  BY <1>1 DEF IInv, CancelReaches, TypeOK
<1>9. CancelledUnanswered'
  <2>1. stopped \subseteq Requests
    BY DEF IInv, TypeOK
  <2> QED  BY <1>1, <1>3, <2>1 DEF IInv, CancelledUnanswered, Running, Looking
<1>10. DroppedWasCancelled'
  BY <1>1, <1>4 DEF IInv, DroppedWasCancelled, Running, Looking
<1> QED  BY <1>1, <1>5, <1>6, <1>7, <1>8, <1>9, <1>10

LEMMA LookStep ==
  ASSUME IInv, NEW r \in Requests, FirstLook(r) \/ Handle(r) \/ LastLook(r)
  PROVE  IInv'
<1>1. PICK l \in Running :
        /\ Goto(r, l) /\ l \in {"drop", "finish", "handling", "handled"}
        /\ pc[r] \in Running \ {"drop", "finish"}
        /\ l \in {"drop", "finish"} => pc[r] \in {"started", "handled"}
        /\ l = "drop" => expired[r] \/ ids[r] \in canceled
        /\ l = "finish" => ~(expired[r] \/ ids[r] \in canceled)
  BY DEF FirstLook, Handle, LastLook, Running, Looking
<1>2. UNCHANGED <<phase, held, ids, expired, canceled, active, stopped, asked, walkVars, fileVars>>
  BY DEF FirstLook, Handle, LastLook, serverVars
<1>3. /\ pc' \in [Requests -> PCs] /\ IdsOK' /\ CancelsOK' /\ CloseOK'
      /\ CancelReaches' /\ ContextsReleased' /\ CancelledUnanswered' /\ DroppedWasCancelled'
  BY <1>1, <1>2, InsideStep
<1>4. TypeOK' /\ PartialWasCancelled'
  BY <1>2, <1>3 DEF IInv, TypeOK, PartialWasCancelled, walkVars, fileVars
<1>5. WalksOK'
  BY <1>1, <1>2 DEF IInv, TypeOK, WalksOK, Goto, walkVars
<1> QED  BY <1>3, <1>4, <1>5 DEF IInv

LEMMA WalkStep ==
  ASSUME IInv, NEW r \in Requests, Walk(r)
  PROVE  IInv'
<1> USE NoneAssumption
<1>1. UNCHANGED <<phase, held, ids, expired, canceled, active, stopped, asked, documents,
                  pending, disk>>
  BY DEF Walk, BeginWalk, ReadFile, ReadFails, StoreIndex, EndWalk, Visit, serverVars, fileVars
<1>2. PICK l \in {pc[r], "handled", "walk", "read", "store"} : Goto(r, l)
  <2>1. ASSUME NEW f \in Files, Visit(r, f)
        PROVE  Goto(r, pc[r]) \/ Goto(r, "read")
    BY <2>1 DEF Visit, Goto, IInv, TypeOK
  <2> QED  BY <2>1 DEF Walk, BeginWalk, ReadFile, ReadFails, StoreIndex, EndWalk
<1>3. pc[r] \in {"handling", "walk", "read", "store"}
  BY DEF Walk, BeginWalk, ReadFile, ReadFails, StoreIndex, EndWalk, Visit
<1>4. /\ pc' \in [Requests -> PCs] /\ IdsOK' /\ CancelsOK' /\ CloseOK'
      /\ CancelReaches' /\ ContextsReleased' /\ CancelledUnanswered' /\ DroppedWasCancelled'
  BY <1>1, <1>2, <1>3, InsideStep DEF Running, Looking
<1>5. ASSUME BeginWalk(r) \/ EndWalk(r) \/ ReadFails(r) \/ ReadFile(r)
      PROVE  TypeOK' /\ WalksOK' /\ PartialWasCancelled'
  <2>1. cache' = cache /\ PartialWasCancelled'
    BY <1>1, <1>5 DEF IInv, PartialWasCancelled, BeginWalk, EndWalk, ReadFails, ReadFile, fileVars
  <2>2. CASE BeginWalk(r)
    BY <1>1, <1>4, <2>1, <2>2 DEF IInv, TypeOK, WalksOK, BeginWalk, Goto
  <2>3. CASE EndWalk(r)
    BY <1>1, <1>4, <2>1, <2>3 DEF IInv, TypeOK, WalksOK, EndWalk, Goto
  <2>4. CASE ReadFails(r)
    BY <1>1, <1>4, <2>1, <2>4 DEF IInv, TypeOK, WalksOK, ReadFails, Goto
  <2>5. CASE ReadFile(r)
    <3>1. at[r] \in Files /\ disk[at[r]] \in Texts
      BY <2>5 DEF IInv, TypeOK, WalksOK, ReadFile
    <3> QED  BY <1>1, <1>4, <2>1, <2>5, <3>1 DEF IInv, TypeOK, WalksOK, ReadFile, Goto
  <2> QED  BY <1>5, <2>1, <2>2, <2>3, <2>4, <2>5
<1>6. ASSUME NEW f \in Files, Visit(r, f)
      PROVE  TypeOK' /\ WalksOK' /\ PartialWasCancelled'
  <2>1. /\ todo' \in [Requests -> SUBSET Files] /\ read' = read /\ cache' = cache
        /\ pc[r] = "walk"
    BY <1>6 DEF IInv, TypeOK, Visit, fileVars
  <2>2. at' \in [Requests -> Files \cup {None}]
    BY <1>6 DEF IInv, TypeOK, Visit
  <2>3. TypeOK' /\ PartialWasCancelled'
    BY <1>1, <1>4, <2>1, <2>2 DEF IInv, TypeOK, PartialWasCancelled
  <2>4. WalksOK'
    BY <1>6, <2>1 DEF IInv, TypeOK, WalksOK, Visit, Goto
  <2> QED  BY <2>3, <2>4
<1>7. ASSUME StoreIndex(r)
      PROVE  TypeOK' /\ WalksOK' /\ PartialWasCancelled'
  <2>1. pc[r] = "store" /\ at[r] \in Files /\ read[r] \in Texts
    BY <1>7 DEF IInv, WalksOK, StoreIndex
  <2>2. PICK w \in {TRUE, ~expired[r]} : cache' = [cache EXCEPT ![at[r]] = Result(read[r], w)]
    BY <1>7 DEF StoreIndex
  <2>3. Result(read[r], w) \in Results /\ Result(read[r], w).whole = w
    BY <2>1, <2>2 DEF Result, Results
  <2>4. cache' \in [Files -> Results \cup {None}]
    BY <2>2, <2>3 DEF IInv, TypeOK
  <2>5. at' \in [Requests -> Files \cup {None}] /\ read' \in [Requests -> Texts \cup {None}] /\ todo' = todo
    BY <1>7 DEF IInv, TypeOK, StoreIndex
  <2>6. TypeOK'
    BY <1>1, <1>4, <2>4, <2>5 DEF IInv, TypeOK
  <2>7. WalksOK'
    BY <1>7 DEF IInv, TypeOK, WalksOK, StoreIndex, Goto
  <2>8. phase = "reading" /\ asked = {} => ~expired[r]
    BY <2>1 DEF IInv, CancelsOK, Looking
  <2>9. phase = "reading" /\ asked = {} => w = TRUE
    BY <2>2, <2>8
  <2>10. PartialWasCancelled'
    BY <1>1, <2>1, <2>2, <2>3, <2>9 DEF IInv, TypeOK, PartialWasCancelled
  <2> QED  BY <2>6, <2>7, <2>10
<1>8. TypeOK' /\ WalksOK' /\ PartialWasCancelled'
  BY <1>5, <1>6, <1>7 DEF Walk
<1> QED  BY <1>4, <1>8 DEF IInv

LEMMA FinishStep ==
  ASSUME IInv, NEW r \in Requests, FinishRequest(r)
  PROVE  IInv'
<1> USE NoneAssumption
<1>1. /\ pc' \in [Requests -> PCs] /\ pc'[r] \in {"dropped", "reply"}
      /\ pc[r] \in {"drop", "finish"} /\ (pc'[r] = "dropped" <=> pc[r] = "drop")
      /\ \A q \in Requests : q # r => pc'[q] = pc[q]
  <2>1. pc[r] \in {"drop", "finish"} /\ Goto(r, IF pc[r] = "drop" THEN "dropped" ELSE "reply")
    BY DEF FinishRequest
  <2> QED  BY <2>1, GotoStep DEF IInv, PCs, Ended
<1>2. UNCHANGED <<phase, held, ids, stopped, todo, at, read, documents, pending, disk, cache, asked>>
  BY DEF FinishRequest, serverVars, walkVars, fileVars
<1>3. ids[r] \in Ids /\ pc[r] \in Running
  BY <1>1 DEF IInv, IdsOK, TypeOK, Running
<1>4. canceled' = canceled \ {ids[r]}
  BY DEF FinishRequest
<1>5. /\ active' \in [Ids -> Requests \cup {None}] /\ active'[ids[r]] = None
      /\ \A i \in Ids : i # ids[r] => active'[i] = active[i]
  BY <1>3 DEF IInv, TypeOK, FinishRequest
<1>6. \A q \in Requests : q # r /\ pc[q] \in Looking \cup Running => ids[q] # ids[r]
  BY <1>1, <1>3 DEF IInv, IdsOK, Running, Looking
<1>7. \A q \in Requests : active[ids[r]] = q => q = r
  <2>1. SUFFICES ASSUME NEW q \in Requests, active[ids[r]] = q, q # r  PROVE FALSE
    OBVIOUS
  <2>2. ids[q] = ids[r] /\ pc[q] \in Running
    BY <1>3, <2>1 DEF IInv, CancelReaches
  <2> QED  BY <1>6, <2>1, <2>2
<1>8. /\ expired' \in [Requests -> BOOLEAN]
      /\ \A q \in Requests : expired'[q] <=> expired[q] \/ (q = r /\ active[ids[r]] = r)
  <2>1. expired' = [q \in Requests |-> expired[q] \/ active[ids[r]] = q]
    BY DEF FinishRequest
  <2> QED  BY <1>7, <2>1 DEF IInv, TypeOK
<1>9. expired'[r] \/ r \in held
  BY <1>3, <1>8 DEF IInv, CancelReaches
<1>10. TypeOK'
  BY <1>1, <1>2, <1>4, <1>5, <1>8 DEF IInv, TypeOK
<1>11. IdsOK' /\ WalksOK'
  BY <1>1, <1>2 DEF IInv, IdsOK, WalksOK
<1>12. CancelsOK'
  BY <1>1, <1>2, <1>4, <1>6, <1>8 DEF IInv, CancelsOK, CancelledUnanswered, Looking
<1>13. CloseOK' /\ ContextsReleased'
  BY <1>1, <1>2, <1>8, <1>9 DEF IInv, CloseOK, ContextsReleased
<1>14. CancelReaches'
  <2>1. ASSUME NEW q \in Requests, pc'[q] \in Running, ~expired'[q]
        PROVE  active'[ids'[q]] = q \/ q \in held'
    <3>1. q # r /\ pc[q] \in Running /\ ~expired[q]
      BY <1>1, <1>8, <2>1 DEF Running, Looking
    <3>2. ids[q] \in Ids /\ ids[q] # ids[r]
      BY <1>6, <3>1 DEF IInv, IdsOK, TypeOK, Running, Looking
    <3> QED  BY <1>2, <1>5, <3>1, <3>2 DEF IInv, CancelReaches
  <2>2. ASSUME NEW i \in Ids, active'[i] # None
        PROVE  ids'[active'[i]] = i /\ pc'[active'[i]] \in Running
    <3>1. i # ids[r] /\ active'[i] = active[i] /\ active[i] \in Requests
      BY <1>5, <2>2 DEF IInv, TypeOK
    <3>2. ids[active[i]] = i /\ pc[active[i]] \in Running /\ active[i] # r
      BY <2>2, <3>1 DEF IInv, CancelReaches
    <3> QED  BY <1>1, <1>2, <3>1, <3>2
  <2> QED  BY <2>1, <2>2 DEF CancelReaches
<1>15. CancelledUnanswered'
  <2>1. stopped \subseteq Requests
    BY DEF IInv, TypeOK
  <2> QED  BY <1>1, <1>2, <2>1 DEF IInv, CancelledUnanswered
<1>16. DroppedWasCancelled' /\ PartialWasCancelled'
  BY <1>1, <1>2 DEF IInv, DroppedWasCancelled, PartialWasCancelled
<1> QED  BY <1>10, <1>11, <1>12, <1>13, <1>14, <1>15, <1>16 DEF IInv

LEMMA ReplyStep ==
  ASSUME IInv, NEW r \in Requests, Reply(r)
  PROVE  IInv'
<1>1. /\ pc' \in [Requests -> PCs] /\ pc'[r] = "replied" /\ pc[r] = "reply"
      /\ \A q \in Requests : q # r => pc'[q] = pc[q]
  BY GotoStep DEF IInv, Reply, PCs, Ended
<1>2. UNCHANGED <<phase, held, ids, expired, canceled, active, stopped, asked, walkVars, fileVars>>
  BY DEF Reply, serverVars
<1>3. TypeOK' /\ IdsOK' /\ WalksOK'
  BY <1>1, <1>2 DEF IInv, TypeOK, IdsOK, WalksOK, walkVars, fileVars
<1>4. CancelsOK'
  BY <1>1, <1>2 DEF IInv, CancelsOK, CancelledUnanswered, Looking
<1>5. CloseOK' /\ ContextsReleased'
  BY <1>1, <1>2 DEF IInv, CloseOK, ContextsReleased, Ended
<1>6. CancelReaches'
  <2>1. ASSUME NEW q \in Requests, pc'[q] \in Running
        PROVE  pc[q] \in Running
    BY <1>1, <2>1 DEF Running, Looking
  <2>2. ASSUME NEW i \in Ids, active[i] # None
        PROVE  pc'[active[i]] \in Running
    <3>1. active[i] \in Requests /\ pc[active[i]] \in Running
      BY <2>2 DEF IInv, TypeOK, CancelReaches
    <3> QED  BY <1>1, <3>1 DEF Running, Looking
  <2> QED  BY <1>2, <2>1, <2>2 DEF IInv, CancelReaches
<1>7. CancelledUnanswered'
  <2>1. stopped \subseteq Requests
    BY DEF IInv, TypeOK
  <2> QED  BY <1>1, <1>2, <2>1 DEF IInv, CancelledUnanswered
<1>8. DroppedWasCancelled' /\ PartialWasCancelled'
  BY <1>1, <1>2 DEF IInv, DroppedWasCancelled, PartialWasCancelled, fileVars
<1> QED  BY <1>3, <1>4, <1>5, <1>6, <1>7, <1>8 DEF IInv

-----------------------------------------------------------------------------
LEMMA StepHolds ==
  ASSUME IInv, [Next]_vars
  PROVE  IInv'
<1>1. ASSUME NEW f \in Files, \/ \E t \in Texts : Edit(f, t) \/ WriteFile(f, t)
                              \/ DidClose(f) \/ DidChangeWatchedFiles(f) \/ StoreAnalysis(f)
      PROVE  IInv'
  <2>1. disk[f] \in Texts
    BY DEF IInv, TypeOK
  <2> QED  BY <1>1, <2>1, EditsStep
<1>2. CASE Edits
  BY <1>1, <1>2 DEF Edits
<1>3. ASSUME NEW r \in Requests, RequestStep(r)
      PROVE  IInv'
  BY <1>3, StartStep, LookStep, FinishStep, ReplyStep, WalkStep DEF RequestStep
<1>4. CASE UNCHANGED vars
  BY <1>4 DEF IInv, TypeOK, IdsOK, WalksOK, CancelsOK, CloseOK, CancelReaches, ContextsReleased,
              CancelledUnanswered, DroppedWasCancelled, PartialWasCancelled,
              vars, serverVars, requestVars, walkVars, fileVars
<1> QED
  BY <1>2, <1>3, <1>4, ReceiveStep, CancelStep, CloseTakesStep, CloseCancelsStep, ExitStep DEF Next

LEMMA Invariant == Spec => []IInv
BY InitHolds, StepHolds, PTL DEF Spec

(* Every variable of the request tables, the walks and the results keeps   *)
(* its type (server_state.go:56-120, server_refs.go:205).                  *)
THEOREM TypeCorrect == Spec => []TypeOK
<1>1. IInv => TypeOK
  BY DEF IInv
<1> QED  BY <1>1, Invariant, PTL

(* Whatever runs with a live context can be cancelled under its id         *)
(* (server_state.go:65), for any number of requests and ids.               *)
THEOREM CancelReachesHolds == Spec => []CancelReaches
<1>1. IInv => CancelReaches
  BY DEF IInv
<1> QED  BY <1>1, Invariant, PTL

(* "A context created for a completed request must always be canceled"     *)
(* (server_state.go:96).                                                   *)
THEOREM ContextsReleasedHolds == Spec => []ContextsReleased
<1>1. IInv => ContextsReleased
  BY DEF IInv
<1> QED  BY <1>1, Invariant, PTL

(* A request that is cancelled in time is never answered (main.go:106).    *)
THEOREM CancelledUnansweredHolds == Spec => []CancelledUnanswered
<1>1. IInv => CancelledUnanswered
  BY DEF IInv
<1> QED  BY <1>1, Invariant, PTL

(* A request is dropped only if its id was cancelled (main.go:100, 106).   *)
THEOREM DroppedWasCancelledHolds == Spec => []DroppedWasCancelled
<1>1. IInv => DroppedWasCancelled
  BY DEF IInv
<1> QED  BY <1>1, Invariant, PTL

(* An index that ends early comes from a cancelled request                 *)
(* (server_refs.go:251).                                                   *)
THEOREM PartialWasCancelledHolds == Spec => []PartialWasCancelled
<1>1. IInv => PartialWasCancelled
  BY DEF IInv
<1> QED  BY <1>1, Invariant, PTL
=============================================================================
