-------------------------- MODULE BakFramesProofs --------------------------
(***************************************************************************)
(* Proofs about BakFrames, for every size of the frame array and every     *)
(* bound.                                                                  *)
(***************************************************************************)
EXTENDS BakFrames, SequenceTheorems, TLAPS

FrameArray == [Depths -> CallFrame]

LEMMA NewFrameType ==
  ASSUME NEW b \in Nat, NEW h \in Nat, NEW d \in BOOLEAN,
         NEW i \in 0 .. MaxDefers, NEW t \in BOOLEAN
  PROVE  NewFrame(b, h, d, i, t) \in CallFrame
BY DEF NewFrame, CallFrame

LEMMA DeadFrameType == DeadFrame \in CallFrame
BY ConstantsAssumption DEF DeadFrame, NewFrame, CallFrame

(* A prefix of a sequence has the sequence's elements.                     *)
LEMMA PrefixSeq ==
  ASSUME NEW S, NEW s \in Seq(S), NEW n \in Nat, n <= Len(s)
  PROVE  /\ SubSeq(s, 1, n) \in Seq(S)
         /\ Len(SubSeq(s, 1, n)) = n
         /\ \A k \in 1 .. n : SubSeq(s, 1, n)[k] = s[k]
BY SubSeqProperties

(* Removing the last element of a sequence keeps the others.               *)
LEMMA PoppedSeq ==
  ASSUME NEW S, NEW s \in Seq(S), s # <<>>
  PROVE  /\ Len(s) \in Nat \ {0}
         /\ SubSeq(s, 1, Len(s) - 1) \in Seq(S)
         /\ Len(SubSeq(s, 1, Len(s) - 1)) = Len(s) - 1
         /\ \A k \in 1 .. Len(s) - 1 : SubSeq(s, 1, Len(s) - 1)[k] = s[k]
         /\ s[Len(s)] \in S
<1>1. Len(s) \in Nat \ {0}
  OBVIOUS
<1>2. Len(s) - 1 \in Nat /\ Len(s) - 1 <= Len(s)
  BY <1>1
<1>3. /\ SubSeq(s, 1, Len(s) - 1) \in Seq(S)
      /\ Len(SubSeq(s, 1, Len(s) - 1)) = Len(s) - 1
      /\ \A k \in 1 .. Len(s) - 1 : SubSeq(s, 1, Len(s) - 1)[k] = s[k]
  BY <1>2, PrefixSeq
<1>4. s[Len(s)] \in S
  BY <1>1
<1> QED  BY <1>1, <1>3, <1>4

(* Updating one frame, and one field of a frame, keeps the types.         *)
LEMMA UpdateType ==
  ASSUME NEW f \in CallFrame
  PROVE  /\ \A h \in Nat : [f EXCEPT !.started = TRUE, !.height = h] \in CallFrame
         /\ [f EXCEPT !.returning = TRUE] \in CallFrame
         /\ [f EXCEPT !.scope = FALSE] \in CallFrame
         /\ \A s \in Seq(DeferAction) : [f EXCEPT !.defers = s] \in CallFrame
BY DEF CallFrame

LEMMA ReplaceType ==
  ASSUME NEW fs \in FrameArray, NEW d, NEW f \in CallFrame
  PROVE  [fs EXCEPT ![d] = f] \in FrameArray
BY DEF FrameArray

(* The frames on which an instruction can leave the machine.               *)
LEMMA SteppedType ==
  ASSUME TypeOK, fp \in Depths, NEW h \in Nat
  PROVE  /\ Stepped(h) \in FrameArray
         /\ Returning(h) \in FrameArray
         /\ [frames EXCEPT ![fp].returning = TRUE] \in FrameArray
<1>1. /\ frames \in FrameArray
      /\ frames[fp] \in CallFrame
  BY DEF TypeOK, FrameArray
<1>2. Stepped(h) \in FrameArray
  BY <1>1, UpdateType, ReplaceType DEF Stepped, FrameArray
<1>3. Stepped(h)[fp] \in CallFrame
  BY <1>2 DEF FrameArray
<1>4. Returning(h) \in FrameArray
  BY <1>2, <1>3, UpdateType, ReplaceType DEF Returning, FrameArray
<1>5. [frames EXCEPT ![fp].returning = TRUE] \in FrameArray
  BY <1>1, UpdateType, ReplaceType DEF FrameArray
<1> QED  BY <1>2, <1>4, <1>5

(* fs differs from the frame array in what resumeReturn does not read.     *)
SameFrames(fs) ==
  \A d \in Depths : /\ fs[d].base = frames[d].base
                    /\ fs[d].defers = frames[d].defers
                    /\ fs[d].discard = frames[d].discard

LEMMA SteppedSame ==
  ASSUME TypeOK, fp \in Depths, NEW h \in Nat
  PROVE  /\ SameFrames(Stepped(h))
         /\ SameFrames(Returning(h))
         /\ SameFrames([frames EXCEPT ![fp].returning = TRUE])
         /\ SameFrames(frames)
BY DEF TypeOK, Stepped, Returning, SameFrames, CallFrame, Depths

LEMMA PoppedType ==
  ASSUME NEW fs \in FrameArray, fp \in Depths, fs[fp].defers # <<>>
  PROVE  /\ Popped(fs) \in FrameArray
         /\ \A d \in Depths : Popped(fs)[d].base = fs[d].base
         /\ Youngest(fs) \in DeferAction
<1>1. fs[fp] \in CallFrame /\ fs[fp].defers \in Seq(DeferAction)
  BY DEF FrameArray, CallFrame
<1>2. /\ SubSeq(fs[fp].defers, 1, Len(fs[fp].defers) - 1) \in Seq(DeferAction)
      /\ Youngest(fs) \in DeferAction
  BY <1>1, PoppedSeq DEF Youngest
<1>3. Popped(fs) \in FrameArray
  BY <1>1, <1>2, UpdateType, ReplaceType DEF Popped, FrameArray
<1>4. \A d \in Depths : Popped(fs)[d].base = fs[d].base
  BY <1>1 DEF Popped, FrameArray, CallFrame
<1> QED  BY <1>2, <1>3, <1>4

-----------------------------------------------------------------------------
(* Types.                                                                  *)

(* What the inductive invariant says of types and of callee slots.         *)
TypeInv == TypeOK /\ CalleeSlot /\ HasFrame

LEMMA TraceType ==
  ASSUME TypeOK
  PROVE  /\ \A d \in Depths : TraceExit(d) \in [Depths -> Int]
         /\ \A d \in Depths, t \in BOOLEAN : TraceEnter(d, t) \in [Depths -> Int]
         /\ TraceExitAll \in [Depths -> Int]
BY DEF TypeOK, TraceExit, TraceEnter, TraceExitAll

LEMMA ClearScopeType ==
  ASSUME NEW fs \in FrameArray
  PROVE  /\ [d \in Depths |-> [fs[d] EXCEPT !.scope = FALSE]] \in FrameArray
         /\ \A d \in Depths : [fs[d] EXCEPT !.scope = FALSE].base = fs[d].base
         /\ \A d \in Depths : [fs[d] EXCEPT !.scope = FALSE].defers = fs[d].defers
<1>1. \A d \in Depths : fs[d] \in CallFrame
  BY DEF FrameArray
<1>2. \A d \in Depths : [fs[d] EXCEPT !.scope = FALSE] \in CallFrame
  BY <1>1, UpdateType
<1>3. [d \in Depths |-> [fs[d] EXCEPT !.scope = FALSE]] \in FrameArray
  BY <1>2, Zenon DEF FrameArray
<1> QED  BY <1>1, <1>3 DEF CallFrame

(* Leaving the top frame.                                                  *)
LEMMA LeaveType ==
  ASSUME TypeInv, Running, NEW fs \in FrameArray, SameFrames(fs),
         NEW delivers \in BOOLEAN, Leave(fs, delivers)
  PROVE  /\ frames' \in FrameArray /\ fp' \in 0 .. FramesMax /\ sp' \in Nat
         /\ outcome' \in Outcomes /\ CalleeSlot' /\ HasFrame'
<1>1. /\ fp \in Depths /\ fp \in 1 .. FramesMax /\ FramesMax \in Nat
      /\ outcome = "running"
  BY ConstantsAssumption DEF TypeInv, TypeOK, HasFrame, Running, Depths
<1>2. \A d \in Depths : fs[d] \in CallFrame /\ fs[d].base \in Nat
  BY DEF FrameArray, CallFrame
<1>3. \A d \in 2 .. fp : d \in Depths /\ fs[d].base > 0
  <2>1. \A d \in 2 .. fp : d \in Depths
    BY <1>1 DEF Depths
  <2>2. \A d \in 2 .. fp : frames[d].base > 0
    BY DEF TypeInv, CalleeSlot
  <2> QED  BY <2>1, <2>2 DEF SameFrames
<1>4. frames' \in FrameArray
  BY DeadFrameType, ReplaceType DEF Leave
<1>5. \A d \in 2 .. fp - 1 : frames'[d] = fs[d]
  BY <1>1 DEF Leave, FrameArray, Depths
<1>6. fp' = fp - 1 /\ CalleeSlot'
  BY <1>1, <1>3, <1>5 DEF Leave, CalleeSlot
<1>7. CASE fp = 1
  BY <1>1, <1>4, <1>6, <1>7 DEF Leave, TypeInv, TypeOK, HasFrame, Running, Outcomes
<1>8. CASE fp > 1
  BY <1>1, <1>2, <1>3, <1>4, <1>6, <1>8 DEF Leave, HasFrame, Running, Outcomes
<1> QED  BY <1>1, <1>7, <1>8

LEMMA ResumeType ==
  ASSUME TypeInv, Running, NEW fs \in FrameArray, SameFrames(fs),
         NEW h \in Nat, ResumeReturn(fs, h)
  PROVE  /\ frames' \in FrameArray
         /\ fp' \in 0 .. FramesMax
         /\ sp' \in Nat
         /\ outcome' \in Outcomes
         /\ opened' \in [Depths -> Int]
         /\ begun' \subseteq 1 .. MaxDefers
         /\ CalleeSlot'
         /\ HasFrame'
<1>1. /\ fp \in Depths /\ fp \in 1 .. FramesMax /\ FramesMax \in Nat
      /\ MaxDefers \in Nat
      /\ opened \in [Depths -> Int]
      /\ begun \subseteq 1 .. MaxDefers
      /\ outcome = "running"
  BY ConstantsAssumption DEF TypeInv, TypeOK, HasFrame, Running, Depths
<1>2. \A d \in Depths : fs[d] \in CallFrame /\ fs[d].base \in Nat
  BY DEF FrameArray, CallFrame
<1>3. \A d \in 2 .. fp : d \in Depths /\ fs[d].base > 0
  <2>1. \A d \in 2 .. fp : d \in Depths
    BY <1>1 DEF Depths
  <2>2. \A d \in 2 .. fp : frames[d].base > 0
    BY DEF TypeInv, CalleeSlot
  <2> QED  BY <2>1, <2>2 DEF SameFrames
<1>4. CASE fs[fp].defers # <<>> /\ EnterDeferred(Popped(fs), h, Youngest(fs))
  <2>1. /\ Youngest(fs).id \in 1 .. MaxDefers
        /\ Youngest(fs).argc \in Nat
        /\ Popped(fs) \in FrameArray
        /\ \A d \in Depths : Popped(fs)[d].base = fs[d].base
    <3>1. /\ Youngest(fs) \in DeferAction /\ Popped(fs) \in FrameArray
          /\ \A d \in Depths : Popped(fs)[d].base = fs[d].base
      BY <1>1, <1>4, PoppedType
    <3>2. Youngest(fs).id \in 1 .. MaxDefers /\ Youngest(fs).argc \in ArgCounts
      BY <3>1 DEF DeferAction
    <3> QED  BY <3>1, <3>2 DEF ArgCounts
  <2> DEFINE g == NewFrame(h + 1, Youngest(fs).argc, TRUE, Youngest(fs).id, FALSE)
  <2>2. g \in CallFrame /\ g.base = h + 1
    <3>1. h + 1 \in Nat /\ Youngest(fs).id \in 0 .. MaxDefers
      BY <1>1, <2>1
    <3> QED  BY <2>1, <3>1 DEF NewFrame, CallFrame
  <2>3. /\ frames' = [Popped(fs) EXCEPT ![fp + 1] = g]
        /\ fp < FramesMax /\ fp' = fp + 1
        /\ sp' = h + 1 + Youngest(fs).argc
        /\ begun' = begun \cup {Youngest(fs).id}
        /\ outcome' = outcome /\ opened' = opened
    BY <1>4 DEF EnterDeferred
  <2> HIDE DEF g
  <2>4. frames' \in FrameArray
    BY <2>1, <2>2, <2>3, ReplaceType
  <2>5. CalleeSlot'
    <3>1. fp + 1 \in Depths /\ frames'[fp + 1].base = h + 1
      BY <1>1, <2>1, <2>2, <2>3 DEF FrameArray, Depths
    <3>2. \A d \in 2 .. fp : frames'[d].base = fs[d].base
      BY <1>1, <1>3, <2>1, <2>3 DEF FrameArray
    <3> QED  BY <1>1, <1>3, <2>3, <3>1, <3>2 DEF CalleeSlot
  <2>6. fp' \in 0 .. FramesMax /\ sp' \in Nat /\ HasFrame'
    BY <1>1, <2>1, <2>3 DEF HasFrame
  <2>7. begun' \subseteq 1 .. MaxDefers
    BY <1>1, <2>1, <2>3
  <2> QED  BY <1>1, <2>3, <2>4, <2>5, <2>6, <2>7 DEF Outcomes
<1>5. CASE fs[fp].defers # <<>> /\ RunNative(Popped(fs), h, Youngest(fs))
  <2>1. /\ Youngest(fs).id \in 1 .. MaxDefers
        /\ Popped(fs) \in FrameArray
        /\ \A d \in Depths : Popped(fs)[d].base = fs[d].base
    BY <1>1, <1>5, PoppedType DEF DeferAction
  <2>2. /\ frames' = Popped(fs) /\ sp' = h /\ begun' = begun \cup {Youngest(fs).id}
        /\ fp' = fp /\ outcome' = outcome /\ opened' = opened
    BY <1>5 DEF RunNative
  <2>3. CalleeSlot' /\ HasFrame'
    BY <1>1, <1>3, <2>1, <2>2 DEF CalleeSlot, HasFrame
  <2>4. begun' \subseteq 1 .. MaxDefers
    BY <1>1, <2>1, <2>2
  <2> QED  BY <1>1, <2>1, <2>2, <2>3, <2>4 DEF Outcomes
<1>6. CASE fs[fp].defers # <<>> /\ DeferredFails(Popped(fs), h, Youngest(fs))
  <2>1. /\ Popped(fs) \in FrameArray
        /\ \A d \in Depths : Popped(fs)[d].base = fs[d].base
    BY <1>1, <1>6, PoppedType
  <2>2. /\ frames' \in FrameArray
        /\ \A d \in Depths : frames'[d].base = fs[d].base
    BY <1>6, <2>1, ClearScopeType DEF DeferredFails
  <2>3. opened' \in [Depths -> Int]
    BY <1>6, TraceType DEF DeferredFails, TypeInv
  <2>4. /\ outcome' = "error" /\ fp' = fp /\ begun' = begun
        /\ sp' = h + (IF Youngest(fs).kind = "call" THEN 1 + Youngest(fs).argc ELSE 0)
    BY <1>6 DEF DeferredFails
  <2>6. sp' \in Nat
    <3>1. Youngest(fs).argc \in Nat
      BY <1>1, <1>6, PoppedType DEF DeferAction, ArgCounts
    <3> QED  BY <2>4, <3>1
  <2>5. CalleeSlot' /\ HasFrame'
    BY <1>1, <1>3, <2>2, <2>4 DEF CalleeSlot, HasFrame
  <2> QED  BY <1>1, <2>2, <2>3, <2>4, <2>5, <2>6 DEF Outcomes
<1>7. CASE /\ Leave(fs, ~fs[fp].discard /\ ~panicking)
           /\ opened' = TraceExit(fp)
           /\ begun' = begun
  <2>1. opened' \in [Depths -> Int]
    BY <1>1, <1>7, TraceType DEF TypeInv
  <2> QED  BY <1>1, <1>7, <2>1, LeaveType
<1> QED  BY <1>4, <1>5, <1>6, <1>7 DEF ResumeReturn

(* Stopping the run keeps the types.                                       *)
LEMMA StopType ==
  ASSUME TypeInv, Fail \/ Crash
  PROVE  TypeInv'
<1>1. CASE Fail
  <2>1. /\ frames' \in FrameArray
        /\ \A d \in Depths : frames'[d].base = frames[d].base
    BY <1>1, ClearScopeType DEF Fail, TypeInv, TypeOK, FrameArray
  <2>2. opened' \in [Depths -> Int]
    BY <1>1, TraceType DEF Fail, TypeInv
  <2>3. /\ outcome' = "error" /\ fp' = fp /\ sp' = sp
        /\ panicking' = panicking /\ panicBase' = panicBase
        /\ registered' = registered /\ begun' = begun /\ cut' = cut /\ leaked' = leaked
    BY <1>1 DEF Fail, Stop
  <2>4. \A i \in 2 .. fp : i \in Depths
    BY ConstantsAssumption DEF TypeInv, TypeOK, Depths
  <2>5. CalleeSlot'
    BY <2>1, <2>3, <2>4 DEF CalleeSlot, TypeInv
  <2> QED  BY <2>1, <2>2, <2>3, <2>5 DEF TypeInv, TypeOK, FrameArray, HasFrame, Running, Outcomes
<1>2. CASE Crash
  BY <1>2 DEF Crash, Stop, TypeInv, TypeOK, CalleeSlot, HasFrame, Running, Outcomes
<1> QED  BY <1>1, <1>2

(* Updating only the top frame keeps the callee slots.                     *)
LEMMA SteppedSlot ==
  ASSUME TypeInv, fp \in Depths, NEW h \in Nat
  PROVE  /\ \A i \in 2 .. fp : Stepped(h)[i].base > 0
         /\ Stepped(h) \in FrameArray
         /\ Stepped(h)[fp].defers \in Seq(DeferAction)
         /\ Stepped(h)[fp].base = frames[fp].base
<1>1. \A i \in 2 .. fp : i \in Depths /\ frames[i].base > 0
  BY ConstantsAssumption DEF TypeInv, CalleeSlot, TypeOK, Depths
<1>2. SameFrames(Stepped(h)) /\ Stepped(h) \in FrameArray
  BY SteppedSame, SteppedType DEF TypeInv
<1> QED  BY <1>1, <1>2 DEF SameFrames, FrameArray, CallFrame

(* An instruction that changes the top frame only keeps the types.         *)
LEMMA TopStepType ==
  ASSUME TypeInv, fp \in Depths, NEW h \in Nat,
         frames' = Stepped(h), sp' \in Nat,
         panicking' \in BOOLEAN, panicBase' \in 0 .. FramesMax,
         UNCHANGED <<fp, outcome, opened, registered, begun, cut, leaked>>
  PROVE  TypeInv'
<1>1. /\ \A i \in 2 .. fp : frames'[i].base > 0
      /\ frames' \in FrameArray
  BY SteppedSlot
<1>2. CalleeSlot'
  BY <1>1 DEF CalleeSlot
<1> QED  BY <1>1, <1>2 DEF TypeInv, TypeOK, HasFrame, Running, FrameArray

(* A running machine has a well-formed top frame.                          *)
LEMMA TopType ==
  ASSUME TypeInv, Running
  PROVE  /\ fp \in Depths /\ fp \in 1 .. FramesMax /\ FramesMax \in Nat /\ fp \in Nat
         /\ frames[fp] \in CallFrame /\ Top.height \in Nat
         /\ frames \in FrameArray /\ SameFrames(frames)
         /\ sp \in Nat /\ panicking \in BOOLEAN /\ panicBase \in 0 .. FramesMax
  BY ConstantsAssumption, SMTT(30)
     DEF TypeInv, TypeOK, HasFrame, Depths, CallFrame, Top, FrameArray, SameFrames

LEMMA PushType ==
  ASSUME TypeInv, PushValue  PROVE TypeInv'
<1>1. Running /\ Top.height + 1 \in Nat /\ sp + 1 \in Nat
  BY TopType DEF PushValue, Executing
<1> QED  BY <1>1, TopType, TopStepType DEF PushValue

LEMMA PopType ==
  ASSUME TypeInv, PopValue  PROVE TypeInv'
<1>1. Running /\ Top.height \in Nat /\ Top.height > 0 /\ sp \in Nat
  BY TopType DEF PopValue, Executing
<1>2. CASE sp = 0
  BY <1>2, StopType DEF PopValue
<1>3. CASE sp # 0
  <2>1. Top.height - 1 \in Nat /\ sp - 1 \in Nat
    BY <1>1, <1>3
  <2> QED  BY <1>1, <1>3, <2>1, TopType, TopStepType DEF PopValue
<1> QED  BY <1>2, <1>3

LEMMA PanicType ==
  ASSUME TypeInv, Panic  PROVE TypeInv'
<1>1. Running /\ Top.height \in Nat /\ Top.height > 0 /\ sp \in Nat /\ fp \in 0 .. FramesMax
  BY TopType DEF Panic, Executing
<1>2. CASE sp = 0
  BY <1>2, StopType DEF Panic
<1>3. CASE sp # 0
  <2>1. Top.height - 1 \in Nat /\ sp - 1 \in Nat
    BY <1>1, <1>3
  <2> QED  BY <1>1, <1>3, <2>1, TopType, TopStepType DEF Panic
<1> QED  BY <1>2, <1>3

LEMMA CallNativeType ==
  ASSUME TypeInv, NEW argc \in ArgCounts, CallNative(argc)  PROVE TypeInv'
<1>1. /\ Running /\ Top.height \in Nat /\ sp \in Nat
      /\ Top.height >= argc + 1 /\ argc \in Nat
  BY TopType, ConstantsAssumption DEF CallNative, Executing, ArgCounts
<1>2. CASE sp < argc + 1
  BY <1>2, StopType DEF CallNative
<1>3. CASE ~(sp < argc + 1)
  <2>1. Top.height - argc \in Nat /\ sp - argc \in Nat
    BY <1>1, <1>3
  <2> QED  BY <1>1, <1>3, <2>1, TopType, TopStepType DEF CallNative
<1> QED  BY <1>2, <1>3

LEMMA CallType ==
  ASSUME TypeInv, NEW argc \in ArgCounts, NEW traced \in TraceFlags, Call(argc, traced)
  PROVE  TypeInv'
<1>1. /\ Running /\ Top.height \in Nat /\ sp \in Nat
      /\ Top.height >= argc + 1 /\ argc \in Nat /\ traced \in BOOLEAN
  <2>1. Running /\ Top.height >= argc + 1
    BY DEF Call, Executing
  <2>2. argc \in Nat
    BY ConstantsAssumption DEF ArgCounts
  <2>3. traced \in BOOLEAN
    BY DEF TraceFlags
  <2> QED  BY <2>1, <2>2, <2>3, TopType
<1>2. CASE sp < argc + 1 \/ fp = FramesMax
  BY <1>2, StopType DEF Call
<1>3. CASE ~(sp < argc + 1) /\ fp # FramesMax
  <2> DEFINE g == NewFrame(sp - argc, argc, FALSE, 0, traced)
             h == Top.height - argc
  <2>1. /\ sp - argc \in Nat /\ sp - argc > 0 /\ h \in Nat
        /\ fp \in Depths /\ fp \in Nat
    BY <1>1, <1>3, TopType
  <2>2. fp + 1 \in Depths /\ fp + 1 \in 0 .. FramesMax
    BY <1>1, <1>3, TopType DEF Depths
  <2>3. g \in CallFrame /\ g.base = sp - argc
    BY <1>1, <2>1, ConstantsAssumption DEF NewFrame, CallFrame
  <2>4. /\ frames' = [Stepped(h) EXCEPT ![fp + 1] = g]
        /\ fp' = fp + 1
        /\ opened' = TraceEnter(fp + 1, traced)
        /\ UNCHANGED <<sp, panicking, panicBase, outcome, registered, begun, cut, leaked>>
    BY <1>3 DEF Call
  <2> HIDE DEF g, h
  <2>5. /\ \A i \in 2 .. fp : Stepped(h)[i].base > 0
        /\ Stepped(h) \in FrameArray
    BY <2>1, SteppedSlot
  <2>6. frames' \in FrameArray
    BY <2>3, <2>4, <2>5, ReplaceType
  <2>7. frames'[fp + 1].base > 0
    BY <2>1, <2>2, <2>3, <2>4, <2>5 DEF FrameArray
  <2>8. \A i \in 2 .. fp : frames'[i].base > 0
    <3>1. \A i \in 2 .. fp : i \in Depths /\ i # fp + 1
      BY <1>1, <2>1, TopType DEF Depths
    <3> QED  BY <2>4, <2>5, <3>1 DEF FrameArray
  <2>9. CalleeSlot'
    BY <2>1, <2>4, <2>7, <2>8 DEF CalleeSlot
  <2>10. opened' \in [Depths -> Int]
    BY <1>1, <2>2, <2>4, TraceType DEF TypeInv
  <2>11. HasFrame'
    BY <2>1, <2>4 DEF HasFrame
  <2> QED  BY <2>2, <2>4, <2>6, <2>9, <2>10, <2>11 DEF TypeInv, TypeOK, FrameArray
<1> QED  BY <1>2, <1>3

LEMMA DeferType ==
  ASSUME TypeInv, NEW kind \in DeferKinds, NEW operands \in 0 .. MaxArgs + 1,
         NEW argc \in ArgCounts, Defer(kind, operands, argc)
  PROVE  TypeInv'
<1>1. /\ Running /\ Top.height \in Nat /\ sp \in Nat
      /\ Top.height >= operands /\ operands \in Nat
  BY TopType, ConstantsAssumption DEF Defer, Executing
<1>2. CASE sp < operands
  BY <1>2, StopType DEF Defer
<1>3. CASE ~(sp < operands)
  <2> DEFINE a  == [id |-> registered + 1, kind |-> kind, argc |-> argc]
             h  == Top.height - operands
             fs == Stepped(h)
  <2>1. h \in Nat /\ sp - operands \in Nat /\ fp \in Depths /\ fp \in Nat
    BY <1>1, <1>3, TopType
  <2>2. registered + 1 \in 1 .. MaxDefers
    BY ConstantsAssumption DEF Defer, TypeInv, TypeOK
  <2>3. a \in DeferAction
    BY <2>2 DEF DeferAction
  <2>4. /\ frames' = [fs EXCEPT ![fp].defers = Append(@, a)]
        /\ registered' = registered + 1 /\ sp' = sp - operands
        /\ UNCHANGED <<fp, panicking, panicBase, outcome, opened, begun, cut, leaked>>
    BY <1>3 DEF Defer
  <2> HIDE DEF a
  <2>5. /\ \A i \in 2 .. fp : fs[i].base > 0
        /\ fs \in FrameArray
        /\ fs[fp].defers \in Seq(DeferAction)
    BY <2>1, SteppedSlot
  <2> HIDE DEF fs, h
  <2>6. Append(fs[fp].defers, a) \in Seq(DeferAction)
    BY <2>3, <2>5
  <2>7. [fs[fp] EXCEPT !.defers = Append(fs[fp].defers, a)] \in CallFrame
    BY <2>1, <2>5, <2>6, UpdateType DEF FrameArray
  <2>8. frames' = [fs EXCEPT ![fp] = [fs[fp] EXCEPT !.defers = Append(fs[fp].defers, a)]]
    BY <2>4
  <2>9. frames' \in FrameArray
    BY <2>5, <2>7, <2>8, ReplaceType
  <2>10. \A i \in 2 .. fp : i \in Depths
    BY <1>1, TopType DEF Depths
  <2>11. fs[fp] \in CallFrame
    BY <2>1, <2>5 DEF FrameArray
  <2>12. \A i \in 2 .. fp : frames'[i].base = fs[i].base
    BY <2>5, <2>8, <2>10, <2>11 DEF FrameArray, CallFrame
  <2>13. CalleeSlot'
    BY <2>4, <2>5, <2>12 DEF CalleeSlot
  <2>14. registered' \in 0 .. MaxDefers
    BY <2>2, <2>4
  <2> QED  BY <2>1, <2>4, <2>9, <2>13, <2>14
           DEF TypeInv, TypeOK, FrameArray, HasFrame, Running
<1> QED  BY <1>2, <1>3

(* A resumption from an instruction that leaves h slots in the top frame. *)
LEMMA AfterResume ==
  ASSUME TypeInv, Running, NEW h \in Nat, NEW s \in Nat,
         ResumeReturn(Returning(h), s),
         UNCHANGED <<panicking, panicBase, registered, cut, leaked>>
  PROVE  TypeInv'
<1>1. Returning(h) \in FrameArray /\ SameFrames(Returning(h))
  BY SteppedType, SteppedSame, TopType DEF TypeInv
<1>2. /\ frames' \in FrameArray /\ fp' \in 0 .. FramesMax /\ sp' \in Nat
      /\ outcome' \in Outcomes /\ opened' \in [Depths -> Int]
      /\ begun' \subseteq 1 .. MaxDefers /\ CalleeSlot' /\ HasFrame'
  BY <1>1, ResumeType
<1> QED  BY <1>2 DEF TypeInv, TypeOK, FrameArray

LEMMA ReturnType ==
  ASSUME TypeInv, Return  PROVE TypeInv'
<1>1. Running /\ Top.height \in Nat /\ Top.height > 0 /\ sp \in Nat /\ fp \in Depths
  BY TopType DEF Return, Executing
<1>2. CASE sp = 0
  BY <1>2, StopType DEF Return
<1>3. CASE sp # 0 /\ Top.defers = <<>> /\ ~panicking
  <2>1. /\ Leave(frames, ~Top.discard) /\ opened' = TraceExit(fp) /\ begun' = begun
        /\ UNCHANGED <<panicking, panicBase, registered, cut, leaked>>
    BY <1>3 DEF Return
  <2>2. /\ frames' \in FrameArray /\ fp' \in 0 .. FramesMax /\ sp' \in Nat
        /\ outcome' \in Outcomes /\ CalleeSlot' /\ HasFrame'
    BY <1>1, <2>1, TopType, LeaveType
  <2>3. opened' \in [Depths -> Int]
    BY <1>1, <2>1, TraceType DEF TypeInv
  <2> QED  BY <2>1, <2>2, <2>3 DEF TypeInv, TypeOK, FrameArray
<1>4. CASE sp # 0 /\ ~(Top.defers = <<>> /\ ~panicking)
  <2>1. /\ ResumeReturn(Returning(Top.height - 1), sp - 1)
        /\ UNCHANGED <<panicking, panicBase, registered, cut, leaked>>
    BY <1>4 DEF Return
  <2>2. Top.height - 1 \in Nat /\ sp - 1 \in Nat
    BY <1>1, <1>4
  <2> QED  BY <1>1, <2>1, <2>2, AfterResume
<1> QED  BY <1>2, <1>3, <1>4

LEMMA UnwrapErrType ==
  ASSUME TypeInv, UnwrapErr  PROVE TypeInv'
<1>1. Running /\ Top.height \in Nat /\ Top.height > 0 /\ sp \in Nat /\ fp \in Depths
  BY TopType DEF UnwrapErr, Executing
<1>2. CASE sp = 0
  BY <1>2, StopType DEF UnwrapErr
<1>3. CASE sp # 0 /\ Top.defers = <<>> /\ ~panicking
  <2>1. /\ Leave(frames, ~Top.discard) /\ leaked' = (leaked \/ Top.scope)
        /\ UNCHANGED <<panicking, panicBase, registered, cut, opened, begun>>
    BY <1>3 DEF UnwrapErr
  <2>2. /\ frames' \in FrameArray /\ fp' \in 0 .. FramesMax /\ sp' \in Nat
        /\ outcome' \in Outcomes /\ CalleeSlot' /\ HasFrame'
    BY <1>1, <2>1, TopType, LeaveType
  <2>3. leaked' \in BOOLEAN
    BY <1>1, <2>1, TopType DEF TypeInv, TypeOK, CallFrame, Top
  <2> QED  BY <2>1, <2>2, <2>3 DEF TypeInv, TypeOK, FrameArray
<1>4. CASE sp # 0 /\ ~(Top.defers = <<>> /\ ~panicking)
  <2>1. /\ ResumeReturn(Returning(Top.height - 1), sp - 1)
        /\ UNCHANGED <<panicking, panicBase, registered, cut, leaked>>
    BY <1>4 DEF UnwrapErr
  <2>2. Top.height - 1 \in Nat /\ sp - 1 \in Nat
    BY <1>1, <1>4
  <2> QED  BY <1>1, <2>1, <2>2, AfterResume
<1> QED  BY <1>2, <1>3, <1>4

LEMMA UnwindType ==
  ASSUME TypeInv, Unwind  PROVE TypeInv'
<1>1. Running /\ fp \in Depths /\ sp \in Nat
  BY TopType DEF Unwind
<1>2. Top.deferId \in 0 .. MaxDefers
  BY <1>1, TopType DEF CallFrame, Top
<1>3. cut' \subseteq 1 .. MaxDefers
  <2>1. cut' = cut \/ (Top.deferId > 0 /\ cut' = cut \cup {Top.deferId})
    BY DEF Unwind
  <2>2. cut \subseteq 1 .. MaxDefers
    BY DEF TypeInv, TypeOK
  <2>3. Top.deferId > 0 => Top.deferId \in 1 .. MaxDefers
    BY <1>2, ConstantsAssumption
  <2> QED  BY <2>1, <2>2, <2>3
<1> DEFINE fs == [frames EXCEPT ![fp].returning = TRUE]
<1>4. fs \in FrameArray /\ SameFrames(fs)
  BY <1>1, SteppedType, SteppedSame, TopType DEF TypeInv
<1>5. ResumeReturn(fs, sp) /\ UNCHANGED <<panicking, panicBase, registered, leaked>>
  BY DEF Unwind
<1> HIDE DEF fs
<1>6. /\ frames' \in FrameArray /\ fp' \in 0 .. FramesMax /\ sp' \in Nat
      /\ outcome' \in Outcomes /\ opened' \in [Depths -> Int]
      /\ begun' \subseteq 1 .. MaxDefers /\ CalleeSlot' /\ HasFrame'
  BY <1>1, <1>4, <1>5, ResumeType
<1> QED  BY <1>3, <1>5, <1>6 DEF TypeInv, TypeOK, FrameArray

LEMMA TypeStep ==
  ASSUME TypeInv, [Next]_vars  PROVE TypeInv'
<1>1. CASE UNCHANGED vars
  BY <1>1 DEF vars, TypeInv, TypeOK, CalleeSlot, HasFrame, Running
<1>2. CASE PushValue            BY <1>2, PushType
<1>3. CASE PopValue             BY <1>3, PopType
<1>4. CASE \E argc \in ArgCounts, traced \in TraceFlags : Call(argc, traced)
  BY <1>4, CallType
<1>5. CASE \E argc \in ArgCounts : CallNative(argc)
  BY <1>5, CallNativeType
<1>6. CASE \E kind \in DeferKinds, operands \in 0 .. MaxArgs + 1, argc \in ArgCounts :
             Defer(kind, operands, argc)
  BY <1>6, DeferType
<1>7. CASE Panic                BY <1>7, PanicType
<1>8. CASE RuntimeError         BY <1>8, StopType DEF RuntimeError
<1>9. CASE Return               BY <1>9, ReturnType
<1>10. CASE ReturnVoid
  <2>1. /\ Running /\ ResumeReturn(Returning(Top.height), sp)
        /\ UNCHANGED <<panicking, panicBase, registered, cut, leaked>>
    BY <1>10 DEF ReturnVoid, Executing
  <2> QED  BY <2>1, TopType, AfterResume
<1>11. CASE UnwrapErr           BY <1>11, UnwrapErrType
<1>12. CASE Resume
  <2>1. /\ Running /\ ResumeReturn(frames, sp)
        /\ UNCHANGED <<panicking, panicBase, registered, cut, leaked>>
    BY <1>12 DEF Resume
  <2> QED  BY <2>1, TopType, ResumeType DEF TypeInv, TypeOK, FrameArray
<1>13. CASE Unwind              BY <1>13, UnwindType
<1> QED  BY <1>1, <1>2, <1>3, <1>4, <1>5, <1>6, <1>7, <1>8, <1>9, <1>10, <1>11, <1>12, <1>13
         DEF Next

LEMMA TypeInit ==
  ASSUME Init  PROVE TypeInv
<1>0. PICK argc \in ArgCounts, traced \in TraceFlags : Start(argc, traced)
  BY DEF Init
<1> argc \in Nat /\ traced \in BOOLEAN
  <2>1. argc \in Nat
    BY DEF ArgCounts
  <2>2. traced \in BOOLEAN
    BY DEF TraceFlags
  <2> QED  BY <2>1, <2>2
<1>1. frames \in FrameArray
  <2>1. NewFrame(0, argc, FALSE, 0, traced) \in CallFrame
    BY ConstantsAssumption DEF NewFrame, CallFrame
  <2> QED  BY <1>0, <2>1, DeadFrameType DEF Start, FrameArray
<1>2. opened \in [Depths -> Int] /\ sp \in Nat
  BY <1>0 DEF Start
<1>3. fp = 1 /\ CalleeSlot /\ HasFrame
  BY DEF Init, CalleeSlot, HasFrame
<1>4. /\ fp \in 0 .. FramesMax /\ panicBase \in 0 .. FramesMax
      /\ registered \in 0 .. MaxDefers
  BY ConstantsAssumption DEF Init
<1>5. /\ panicking \in BOOLEAN /\ outcome \in Outcomes /\ leaked \in BOOLEAN
      /\ begun \subseteq 1 .. MaxDefers /\ cut \subseteq 1 .. MaxDefers
  BY DEF Init, Outcomes
<1> QED  BY <1>1, <1>2, <1>3, <1>4, <1>5 DEF TypeInv, TypeOK, FrameArray

THEOREM TypesHold == Spec => []TypeInv
<1>1. Init => TypeInv
  BY TypeInit
<1>2. TypeInv /\ [Next]_vars => TypeInv'
  BY TypeStep
<1> QED  BY <1>1, <1>2, PTL DEF Spec

(* Every reachable state of the machine is well typed.                     *)
THEOREM TypeCorrect == Spec => []TypeOK
<1>1. TypeInv => TypeOK
  BY DEF TypeInv
<1> QED  BY <1>1, TypesHold, PTL

-----------------------------------------------------------------------------
(* The layout of the operand stack.                                        *)

Gap(f) == IF f.discard THEN 1 ELSE 0

(* n frames of fs lie on a stack of s slots as the compiler believes.      *)
Layout(fs, n, s) ==
  /\ \A i \in 1 .. n - 1 : fs[i + 1].base = fs[i].base + fs[i].height + Gap(fs[i + 1])
  /\ fs[1].base = 0
  /\ s = fs[n].base + fs[n].height

LEMMA DisciplineIsLayout ==
  StackDiscipline <=> (Running /\ ~panicking => Layout(frames, fp, sp))
BY DEF StackDiscipline, Layout, Gap, Top

(* gs differs from the first n frames of fs in the height of the n-th and  *)
(* in fields that do not matter to the layout.                             *)
SameLayout(fs, gs, n) ==
  /\ \A d \in 1 .. n : gs[d].base = fs[d].base /\ gs[d].discard = fs[d].discard
  /\ \A d \in 1 .. n - 1 : gs[d].height = fs[d].height

LEMMA FrameFields ==
  ASSUME NEW fs \in FrameArray, NEW d \in Depths
  PROVE  fs[d] \in CallFrame /\ fs[d].base \in Nat /\ fs[d].height \in Nat
         /\ fs[d].discard \in BOOLEAN /\ Gap(fs[d]) \in {0, 1}
BY DEF FrameArray, CallFrame, Gap

LEMMA LayoutTop ==
  ASSUME NEW fs, NEW gs, NEW n \in Nat \ {0}, NEW s, NEW t,
         Layout(fs, n, s), SameLayout(fs, gs, n), t = gs[n].base + gs[n].height
  PROVE  Layout(gs, n, t)
<1>1. ASSUME NEW i \in 1 .. n - 1
      PROVE  gs[i + 1].base = gs[i].base + gs[i].height + Gap(gs[i + 1])
  <2>1. i \in 1 .. n /\ i + 1 \in 1 .. n
    OBVIOUS
  <2>2. gs[i].base = fs[i].base /\ gs[i].height = fs[i].height
    BY <2>1 DEF SameLayout
  <2>3. gs[i + 1].base = fs[i + 1].base /\ Gap(gs[i + 1]) = Gap(fs[i + 1])
    BY <2>1 DEF SameLayout, Gap
  <2> QED  BY <2>2, <2>3 DEF Layout
<1>2. gs[1].base = 0
  BY DEF SameLayout, Layout
<1> QED  BY <1>1, <1>2 DEF Layout

LEMMA LayoutPush ==
  ASSUME NEW fs \in FrameArray, NEW n \in Nat \ {0}, NEW s, NEW g,
         n + 1 \in Depths, Layout(fs, n, s), g.base = s + Gap(g)
  PROVE  Layout([fs EXCEPT ![n + 1] = g], n + 1, g.base + g.height)
<1> DEFINE gs == [fs EXCEPT ![n + 1] = g]
<1>1. gs[n + 1] = g
  BY DEF FrameArray
<1>2. \A d \in 1 .. n : gs[d] = fs[d]
  <2>1. \A d \in 1 .. n : d # n + 1 /\ d \in Depths
    BY ConstantsAssumption DEF Depths
  <2> QED  BY <2>1 DEF FrameArray
<1> HIDE DEF gs
<1>3. ASSUME NEW i \in 1 .. n
      PROVE  gs[i + 1].base = gs[i].base + gs[i].height + Gap(gs[i + 1])
  <2>1. CASE i = n
    BY <1>1, <1>2, <2>1 DEF Layout
  <2>2. CASE i # n
    <3>1. i \in 1 .. n - 1 /\ i + 1 \in 1 .. n
      BY <2>2
    <3> QED  BY <1>2, <3>1 DEF Layout
  <2> QED  BY <2>1, <2>2
<1>4. gs[1].base = 0
  BY <1>2 DEF Layout
<1> QED  BY <1>1, <1>3, <1>4 DEF Layout, gs

LEMMA LayoutDrop ==
  ASSUME NEW fs \in FrameArray, NEW n \in Depths, n > 1, NEW s, Layout(fs, n, s)
  PROVE  Layout([fs EXCEPT ![n] = DeadFrame], n - 1, fs[n].base - Gap(fs[n]))
<1> DEFINE gs == [fs EXCEPT ![n] = DeadFrame]
<1>1. n \in Nat /\ n - 1 \in 1 .. n - 1
  BY ConstantsAssumption DEF Depths
<1>2. \A d \in 1 .. n - 1 : gs[d] = fs[d]
  <2>1. \A d \in 1 .. n - 1 : d # n /\ d \in Depths
    BY ConstantsAssumption DEF Depths
  <2> QED  BY <2>1 DEF FrameArray
<1> HIDE DEF gs
<1>3. ASSUME NEW i \in 1 .. (n - 1) - 1
      PROVE  gs[i + 1].base = gs[i].base + gs[i].height + Gap(gs[i + 1])
  <2>1. i \in 1 .. n - 1 /\ i + 1 \in 1 .. n - 1
    BY <1>1
  <2> QED  BY <1>2, <2>1 DEF Layout
<1>4. gs[1].base = 0
  BY <1>1, <1>2 DEF Layout
<1>5. fs[n].base - Gap(fs[n]) = gs[n - 1].base + gs[n - 1].height
  <2>1. n - 1 + 1 = n
    BY <1>1
  <2>2. fs[n].base = fs[n - 1].base + fs[n - 1].height + Gap(fs[n])
    BY <1>1, <2>1 DEF Layout
  <2>3. n - 1 \in Depths
    BY <1>1, ConstantsAssumption DEF Depths
  <2>4. /\ fs[n - 1].base \in Nat /\ fs[n - 1].height \in Nat
        /\ fs[n].base \in Nat /\ Gap(fs[n]) \in {0, 1}
    BY <2>3, FrameFields
  <2> QED  BY <1>1, <1>2, <2>2, <2>4
<1> QED  BY <1>3, <1>4, <1>5 DEF Layout, gs

LEMMA SteppedLayout ==
  ASSUME TypeInv, Running, NEW h \in Nat
  PROVE  /\ SameLayout(frames, Stepped(h), fp) /\ Stepped(h)[fp].height = h
         /\ SameLayout(frames, Returning(h), fp) /\ Returning(h)[fp].height = h
         /\ Stepped(h)[fp].base = Top.base /\ Returning(h)[fp].base = Top.base
<1>1. /\ fp \in 1 .. FramesMax /\ FramesMax \in Nat /\ frames \in FrameArray
      /\ \A d \in Depths : frames[d] \in CallFrame
  BY TopType, FrameFields
<1>2. \A d \in 1 .. fp : d \in Depths
  BY <1>1 DEF Depths
<1>3. \A d \in 1 .. fp - 1 : d \in Depths /\ d # fp
  BY <1>1 DEF Depths
<1> QED  BY <1>1, <1>2, <1>3, SMTT(30) DEF SameLayout, Stepped, Returning, FrameArray, CallFrame, Top

(* Leaving a frame without a panic puts the result where the caller, which *)
(* gave up the callee's slot and the arguments, expects it.                *)
LEMMA LeaveLayout ==
  ASSUME TypeInv, Running, ~panicking, NEW fs \in FrameArray, NEW s,
         Layout(fs, fp, s), Leave(fs, ~fs[fp].discard)
  PROVE  outcome' = "running" => Layout(frames', fp', sp')
<1>1. fp \in Depths /\ fp \in 1 .. FramesMax /\ outcome = "running"
  BY TopType DEF Running
<1>2. CASE fp = 1
  BY <1>2 DEF Leave
<1>3. CASE fp # 1
  <2>1. /\ fp' = fp - 1 /\ frames' = [fs EXCEPT ![fp] = DeadFrame]
        /\ sp' = fs[fp].base - 1 + (IF ~fs[fp].discard THEN 1 ELSE 0)
    BY <1>3 DEF Leave
  <2>2. fs[fp].base \in Nat /\ fs[fp].discard \in BOOLEAN
    BY <1>1, FrameFields
  <2>3. sp' = fs[fp].base - Gap(fs[fp])
    BY <2>1, <2>2 DEF Gap
  <2>4. fp > 1
    BY <1>1, <1>3
  <2> QED  BY <1>1, <2>1, <2>3, <2>4, LayoutDrop
<1> QED  BY <1>2, <1>3

LEMMA ResumeLayout ==
  ASSUME TypeInv, Running, ~panicking, NEW fs \in FrameArray,
         NEW h \in Nat, Layout(fs, fp, h), ResumeReturn(fs, h)
  PROVE  outcome' = "running" => Layout(frames', fp', sp')
<1>1. fp \in Depths /\ fp \in 1 .. FramesMax /\ fp \in Nat \ {0} /\ FramesMax \in Nat
  BY TopType
<1>2. ASSUME fs[fp].defers # <<>>
      PROVE  /\ Popped(fs) \in FrameArray /\ Youngest(fs) \in DeferAction
             /\ Layout(Popped(fs), fp, h)
  <2>1. Popped(fs) \in FrameArray /\ Youngest(fs) \in DeferAction
    BY <1>1, <1>2, PoppedType
  <2>2. \A d \in 1 .. fp : d \in Depths /\ fs[d] \in CallFrame
    BY <1>1 DEF Depths, FrameArray
  <2>3. /\ SameLayout(fs, Popped(fs), fp)
        /\ Popped(fs)[fp].base = fs[fp].base
        /\ Popped(fs)[fp].height = fs[fp].height
    <3>1. \A d \in 1 .. fp : /\ Popped(fs)[d].base = fs[d].base
                             /\ Popped(fs)[d].discard = fs[d].discard
                             /\ Popped(fs)[d].height = fs[d].height
      BY <2>2 DEF Popped, FrameArray, CallFrame
    <3> QED  BY <1>1, <3>1 DEF SameLayout
  <2>4. h = Popped(fs)[fp].base + Popped(fs)[fp].height
    BY <2>3 DEF Layout
  <2> QED  BY <1>1, <2>1, <2>3, <2>4, LayoutTop
<1>3. CASE fs[fp].defers # <<>> /\ EnterDeferred(Popped(fs), h, Youngest(fs))
  <2> DEFINE a == Youngest(fs)
             g == NewFrame(h + 1, a.argc, TRUE, a.id, FALSE)
  <2>1. /\ frames' = [Popped(fs) EXCEPT ![fp + 1] = g]
        /\ fp < FramesMax /\ fp' = fp + 1 /\ sp' = h + 1 + a.argc
    BY <1>3 DEF EnterDeferred
  <2>2. g.base = h + 1 /\ g.height = a.argc /\ Gap(g) = 1
    BY DEF NewFrame, Gap
  <2>3. fp + 1 \in Depths
    BY <1>1, <2>1 DEF Depths
  <2> HIDE DEF a, g
  <2>4. Layout([Popped(fs) EXCEPT ![fp + 1] = g], fp + 1, g.base + g.height)
    BY <1>1, <1>2, <1>3, <2>2, <2>3, LayoutPush
  <2> QED  BY <2>1, <2>2, <2>4
<1>4. CASE fs[fp].defers # <<>> /\ RunNative(Popped(fs), h, Youngest(fs))
  BY <1>2, <1>4 DEF RunNative
<1>5. CASE fs[fp].defers # <<>> /\ DeferredFails(Popped(fs), h, Youngest(fs))
  BY <1>5 DEF DeferredFails
<1>6. CASE Leave(fs, ~fs[fp].discard /\ ~panicking)
  <2>1. Leave(fs, ~fs[fp].discard)
    <3>1. (~fs[fp].discard /\ ~panicking) = ~fs[fp].discard
      BY <1>1, FrameFields
    <3> QED  BY <1>6, <3>1
  <2> QED  BY <2>1, LeaveLayout
<1> QED  BY <1>3, <1>4, <1>5, <1>6 DEF ResumeReturn

(* The layout once the top frame has executed an instruction.              *)
LEMMA SteppedFits ==
  ASSUME TypeInv, Running, Layout(frames, fp, sp), NEW h \in Nat, NEW t \in Int,
         t - sp = h - Top.height
  PROVE  Layout(Stepped(h), fp, t) /\ Layout(Returning(h), fp, t)
<1>1. /\ fp \in Nat \ {0} /\ sp \in Nat /\ Top.height \in Nat /\ Top.base \in Nat
  BY TopType, FrameFields DEF Top
<1>2. t = Top.base + h
  BY <1>1 DEF Layout, Top
<1> QED  BY <1>1, <1>2, SteppedLayout, LayoutTop

(* Every step keeps the layout while no panic is raised.                   *)
LEMMA StackStep ==
  ASSUME TypeInv, StackDiscipline, Next, outcome' = "running", ~panicking'
  PROVE  Layout(frames', fp', sp')
<1>1. /\ Running /\ ~panicking /\ Layout(frames, fp, sp)
      /\ fp \in Depths /\ fp \in Nat \ {0} /\ sp \in Nat /\ Top.height \in Nat
      /\ frames \in FrameArray /\ FramesMax \in Nat /\ fp \in 1 .. FramesMax
  <2>1. Running
    BY DEF Next, PushValue, PopValue, Call, CallNative, Defer, Panic, RuntimeError, Return,
           ReturnVoid, UnwrapErr, Resume, Unwind, Executing
  <2>2. ~panicking
    <3>1. ASSUME panicking PROVE panicking'
      BY <3>1 DEF Next, PushValue, PopValue, Call, CallNative, Defer, Panic, RuntimeError,
           Return, ReturnVoid, UnwrapErr, Resume, Unwind, Fail, Crash, Stop
    <3> QED  BY <3>1
  <2> QED  BY <2>1, <2>2, TopType, DisciplineIsLayout
<1>2. ~Fail /\ ~Crash
  BY DEF Fail, Crash, Stop
<1>3. CASE PushValue
  <2>1. Top.height + 1 \in Nat /\ sp + 1 \in Nat /\ (sp + 1) - sp = (Top.height + 1) - Top.height
    BY <1>1
  <2> QED  BY <1>1, <1>3, <2>1, SteppedFits DEF PushValue
<1>4. CASE PopValue
  <2>1. /\ Top.height > 0 /\ frames' = Stepped(Top.height - 1) /\ sp' = sp - 1 /\ fp' = fp
    BY <1>2, <1>4 DEF PopValue
  <2>2. Top.height - 1 \in Nat /\ sp - 1 \in Int /\ (sp - 1) - sp = (Top.height - 1) - Top.height
    BY <1>1, <2>1
  <2> QED  BY <1>1, <2>1, <2>2, SteppedFits
<1>5. ASSUME NEW argc \in ArgCounts, CallNative(argc)
      PROVE  Layout(frames', fp', sp')
  <2>1. /\ Top.height >= argc + 1 /\ frames' = Stepped(Top.height - argc)
        /\ sp' = sp - argc /\ fp' = fp /\ argc \in Nat
    BY <1>2, <1>5 DEF CallNative, ArgCounts
  <2>2. /\ Top.height - argc \in Nat /\ sp - argc \in Int
        /\ (sp - argc) - sp = (Top.height - argc) - Top.height
    BY <1>1, <2>1
  <2> QED  BY <1>1, <2>1, <2>2, SteppedFits
<1>6. ASSUME NEW argc \in ArgCounts, NEW traced \in TraceFlags, Call(argc, traced)
      PROVE  Layout(frames', fp', sp')
  <2> DEFINE g == NewFrame(sp - argc, argc, FALSE, 0, traced)
             h == Top.height - argc
  <2>1. /\ Top.height >= argc + 1 /\ ~(sp < argc + 1) /\ fp # FramesMax
        /\ frames' = [Stepped(h) EXCEPT ![fp + 1] = g]
        /\ sp' = sp /\ fp' = fp + 1 /\ argc \in Nat
    <3>1. argc \in Nat
      BY DEF ArgCounts
    <3>2. Top.height >= argc + 1 /\ ~(sp < argc + 1) /\ fp # FramesMax
      BY <1>2, <1>6 DEF Call
    <3> QED  BY <1>6, <3>1, <3>2 DEF Call
  <2>2. /\ h \in Nat /\ sp - argc \in Int /\ (sp - argc) - sp = h - Top.height
    BY <1>1, <2>1
  <2>3. g.base = sp - argc /\ g.height = argc /\ Gap(g) = 0
    BY DEF NewFrame, Gap
  <2>4. fp + 1 \in Depths
    BY <1>1, <2>1 DEF Depths
  <2> HIDE DEF g, h
  <2>5. Layout(Stepped(h), fp, sp - argc) /\ Stepped(h) \in FrameArray
    BY <1>1, <2>2, SteppedFits, SteppedSlot
  <2>6. g.base = (sp - argc) + Gap(g) /\ g.base + g.height = sp
    BY <1>1, <2>1, <2>3
  <2>7. Layout([Stepped(h) EXCEPT ![fp + 1] = g], fp + 1, g.base + g.height)
    BY <1>1, <2>4, <2>5, <2>6, LayoutPush
  <2> QED  BY <2>1, <2>6, <2>7
<1>7. ASSUME NEW kind \in DeferKinds, NEW operands \in 0 .. MaxArgs + 1,
             NEW argc \in ArgCounts, Defer(kind, operands, argc)
      PROVE  Layout(frames', fp', sp')
  <2> DEFINE h == Top.height - operands
  <2>1. /\ Top.height >= operands /\ operands \in Nat /\ sp' = sp - operands /\ fp' = fp
        /\ frames' = [Stepped(h) EXCEPT ![fp].defers =
              Append(@, [id |-> registered + 1, kind |-> kind, argc |-> argc])]
    BY <1>2, <1>7, ConstantsAssumption DEF Defer
  <2>2. h \in Nat /\ sp - operands \in Int /\ (sp - operands) - sp = h - Top.height
    BY <1>1, <2>1
  <2> HIDE DEF h
  <2>3. Layout(Stepped(h), fp, sp') /\ Stepped(h) \in FrameArray
    BY <1>1, <2>1, <2>2, SteppedFits, SteppedSlot
  <2>4. \A d \in 1 .. fp : /\ frames'[d].base = Stepped(h)[d].base
                           /\ frames'[d].discard = Stepped(h)[d].discard
                           /\ frames'[d].height = Stepped(h)[d].height
    <3>1. \A d \in 1 .. fp : d \in Depths /\ Stepped(h)[d] \in CallFrame
      BY <1>1, <2>3 DEF Depths, FrameArray
    <3> QED  BY <2>1, <2>3, <3>1 DEF FrameArray, CallFrame
  <2>5. SameLayout(Stepped(h), frames', fp) /\ sp' = frames'[fp].base + frames'[fp].height
    BY <1>1, <2>3, <2>4 DEF SameLayout, Layout
  <2> QED  BY <1>1, <2>1, <2>3, <2>5, LayoutTop
<1>8. ~Panic
  BY <1>2 DEF Panic
<1>9. ~RuntimeError
  BY <1>2 DEF RuntimeError
<1>10. ASSUME Top.height > 0
       PROVE  /\ Layout(Returning(Top.height - 1), fp, sp - 1)
              /\ Returning(Top.height - 1) \in FrameArray
  <2>1. /\ Top.height - 1 \in Nat /\ sp - 1 \in Int
        /\ (sp - 1) - sp = (Top.height - 1) - Top.height
    BY <1>1, <1>10
  <2> QED  BY <1>1, <2>1, SteppedFits, SteppedType DEF TypeInv
<1>11. ASSUME Return \/ UnwrapErr
       PROVE  Layout(frames', fp', sp')
  <2>1. /\ Top.height > 0 /\ sp # 0
        /\ \/ Leave(frames, ~Top.discard)
           \/ ResumeReturn(Returning(Top.height - 1), sp - 1)
    BY <1>2, <1>11 DEF Return, UnwrapErr
  <2>2. CASE Leave(frames, ~Top.discard)
    BY <1>1, <2>2, LeaveLayout DEF Top
  <2>3. CASE ResumeReturn(Returning(Top.height - 1), sp - 1)
    <3>1. sp - 1 \in Nat
      BY <1>1, <2>1
    <3> QED  BY <1>1, <1>10, <2>1, <2>3, <3>1, ResumeLayout
  <2> QED  BY <2>1, <2>2, <2>3
<1>12. CASE ReturnVoid
  <2>1. /\ Layout(Returning(Top.height), fp, sp)
        /\ Returning(Top.height) \in FrameArray
    BY <1>1, SteppedFits, SteppedType DEF TypeInv
  <2> QED  BY <1>1, <1>12, <2>1, ResumeLayout DEF ReturnVoid
<1>13. CASE Resume
  BY <1>1, <1>13, ResumeLayout DEF Resume
<1>14. ~Unwind
  BY <1>1 DEF Unwind, Forced
<1> QED  BY <1>3, <1>4, <1>5, <1>6, <1>7, <1>8, <1>9, <1>11, <1>12, <1>13, <1>14 DEF Next

LEMMA StackInit ==
  ASSUME Init  PROVE StackDiscipline
<1>1. PICK argc \in ArgCounts, traced \in TraceFlags : Start(argc, traced)
  BY DEF Init
<1>2. fp = 1 /\ sp = argc /\ frames[1].base = 0 /\ frames[1].height = argc
  BY <1>1, ConstantsAssumption DEF Init, Start, NewFrame, Depths
<1> QED  BY <1>2 DEF StackDiscipline, Top, ArgCounts

(* As long as no panic is raised, every slot a frame's code names is the   *)
(* one the compiler meant: calls, returns, early returns and deferred      *)
(* blocks, in any order and to any depth, leave the stack where it should  *)
(* be.                                                                     *)
THEOREM StackDisciplineHolds == Spec => []StackDiscipline
<1>1. Init => TypeInv /\ StackDiscipline
  BY TypeInit, StackInit
<1>2. TypeInv /\ StackDiscipline /\ [Next]_vars => (TypeInv /\ StackDiscipline)'
  <2>1. SUFFICES ASSUME TypeInv, StackDiscipline, [Next]_vars
                 PROVE  (TypeInv /\ StackDiscipline)'
    OBVIOUS
  <2>2. CASE UNCHANGED vars
    BY <2>1, <2>2, TypeStep DEF vars, StackDiscipline, Running, Top
  <2>3. CASE Next
    <3>1. Running' /\ ~panicking' => Layout(frames', fp', sp')
      BY <2>1, <2>3, StackStep DEF Running
    <3>2. StackDiscipline'
      BY <3>1 DEF StackDiscipline, Layout, Gap, Top, Running
    <3> QED  BY <2>1, <3>2, TypeStep
  <2> QED  BY <2>1, <2>2, <2>3
<1> QED  BY <1>1, <1>2, PTL DEF Spec

-----------------------------------------------------------------------------
(* The trace of BakFrames is balanced, up to the activations left through  *)
(* the fast path of UnwrapErr.  As far as trace events go every step of    *)
(* the machine is one of five kinds.                                       *)

ScopesKept(n) == \A i \in 1 .. n : frames'[i].scope = frames[i].scope

(* No event.                                                               *)
Silent == fp' = fp /\ ScopesKept(fp) /\ opened' = opened /\ leaked' = leaked

(* A frame is entered, with an enter event if it is traced.                *)
Opening ==
  /\ fp' = fp + 1 /\ fp' \in Depths /\ ScopesKept(fp)
  /\ opened' = TraceEnter(fp + 1, frames'[fp + 1].scope)
  /\ leaked' = leaked

(* The run fails and every live scope exits.                               *)
Clearing ==
  /\ fp' = fp /\ \A d \in Depths : frames'[d].scope = FALSE
  /\ opened' = TraceExitAll /\ leaked' = leaked

(* A frame is left, with its exit event or, in the fast path, without.     *)
Closing == fp' = fp - 1 /\ ScopesKept(fp - 1) /\ opened' = TraceExit(fp) /\ leaked' = leaked
Leaking ==
  /\ fp' = fp - 1 /\ ScopesKept(fp - 1) /\ opened' = opened
  /\ leaked' = (leaked \/ Top.scope)

SameScopes(fs) == \A d \in Depths : fs[d].scope = frames[d].scope

-----------------------------------------------------------------------------
(* The machine takes no other steps.                                       *)

LEMMA LowDepths ==
  ASSUME TypeInv, Running
  PROVE  /\ fp \in Depths /\ fp \in Nat \ {0} /\ fp \in 1 .. FramesMax /\ FramesMax \in Nat
         /\ \A i \in 1 .. fp : i \in Depths /\ i # fp + 1
         /\ \A i \in 1 .. fp - 1 : i \in Depths /\ i # fp /\ i \in 1 .. fp
<1>1. fp \in Depths /\ fp \in Nat \ {0} /\ fp \in 1 .. FramesMax /\ FramesMax \in Nat
  BY TopType
<1> QED  BY <1>1 DEF Depths

LEMMA LeaveScopes ==
  ASSUME TypeInv, Running, NEW fs \in FrameArray, SameScopes(fs),
         NEW delivers \in BOOLEAN, Leave(fs, delivers)
  PROVE  fp' = fp - 1 /\ ScopesKept(fp - 1)
<1>1. frames' = [fs EXCEPT ![fp] = DeadFrame] /\ fp' = fp - 1
  BY DEF Leave
<1>2. ASSUME NEW i \in 1 .. fp - 1  PROVE frames'[i].scope = frames[i].scope
  <2>1. i \in Depths /\ i # fp
    BY LowDepths
  <2>2. frames'[i] = fs[i]
    BY <1>1, <2>1 DEF FrameArray
  <2> QED  BY <2>1, <2>2 DEF SameScopes
<1> QED  BY <1>1, <1>2 DEF ScopesKept

LEMMA SteppedScopes ==
  ASSUME TypeInv, Running, NEW h \in Nat
  PROVE  /\ Stepped(h) \in FrameArray /\ Returning(h) \in FrameArray
         /\ [frames EXCEPT ![fp].returning = TRUE] \in FrameArray
         /\ SameScopes(Stepped(h)) /\ SameScopes(Returning(h)) /\ SameScopes(frames)
         /\ SameScopes([frames EXCEPT ![fp].returning = TRUE])
<1>1. fp \in Depths
  BY TopType
<1>2. /\ Stepped(h) \in FrameArray /\ Returning(h) \in FrameArray
      /\ [frames EXCEPT ![fp].returning = TRUE] \in FrameArray
  BY <1>1, SteppedType DEF TypeInv
<1>3. /\ SameScopes(Stepped(h)) /\ SameScopes(Returning(h)) /\ SameScopes(frames)
      /\ SameScopes([frames EXCEPT ![fp].returning = TRUE])
  BY <1>1 DEF TypeInv, TypeOK, Stepped, Returning, SameScopes, CallFrame, Depths
<1> QED  BY <1>2, <1>3

LEMMA PoppedScopes ==
  ASSUME TypeInv, Running, NEW fs \in FrameArray, SameScopes(fs), fs[fp].defers # <<>>
  PROVE  Popped(fs) \in FrameArray /\ SameScopes(Popped(fs))
<1>1. fp \in Depths
  BY TopType
<1>2. Popped(fs) \in FrameArray
  BY <1>1, PoppedType
<1>3. fs[fp] \in CallFrame
  BY <1>1 DEF FrameArray
<1>4. \A d \in Depths : Popped(fs)[d].scope = fs[d].scope
  BY <1>1, <1>3 DEF Popped, FrameArray, CallFrame
<1> QED  BY <1>2, <1>4 DEF SameScopes

LEMMA ResumeEvents ==
  ASSUME TypeInv, Running, NEW fs \in FrameArray, SameScopes(fs),
         NEW h \in Nat, ResumeReturn(fs, h), leaked' = leaked
  PROVE  Silent \/ Opening \/ Clearing \/ Closing
<1>1. ASSUME fs[fp].defers # <<>>
      PROVE  /\ Popped(fs) \in FrameArray
             /\ \A d \in Depths : Popped(fs)[d].scope = frames[d].scope
  BY <1>1, PoppedScopes DEF SameScopes
<1>2. CASE fs[fp].defers # <<>> /\ EnterDeferred(Popped(fs), h, Youngest(fs))
  <2> DEFINE g == NewFrame(h + 1, Youngest(fs).argc, TRUE, Youngest(fs).id, FALSE)
  <2>1. /\ frames' = [Popped(fs) EXCEPT ![fp + 1] = g]
        /\ fp < FramesMax /\ fp' = fp + 1 /\ opened' = opened
    BY <1>2 DEF EnterDeferred
  <2>2. g.scope = FALSE
    BY DEF NewFrame
  <2> HIDE DEF g
  <2>3. fp + 1 \in Depths
    BY <2>1, LowDepths DEF Depths
  <2>4. frames'[fp + 1].scope = FALSE
    BY <1>1, <1>2, <2>1, <2>2, <2>3 DEF FrameArray
  <2>5. \A i \in 1 .. fp : frames'[i] = Popped(fs)[i]
    BY <1>1, <1>2, <2>1, LowDepths DEF FrameArray
  <2>6. ScopesKept(fp)
    BY <1>1, <1>2, <2>5, LowDepths DEF ScopesKept
  <2>7. opened' = TraceEnter(fp + 1, FALSE)
    <3>1. opened \in [Depths -> Int]
      BY DEF TypeInv, TypeOK
    <3> QED  BY <2>1, <3>1 DEF TraceEnter
  <2> QED  BY <2>1, <2>3, <2>4, <2>6, <2>7 DEF Opening
<1>3. CASE fs[fp].defers # <<>> /\ RunNative(Popped(fs), h, Youngest(fs))
  BY <1>1, <1>3, LowDepths DEF RunNative, Silent, ScopesKept
<1>4. CASE fs[fp].defers # <<>> /\ DeferredFails(Popped(fs), h, Youngest(fs))
  <2>1. /\ frames' = [d \in Depths |-> [Popped(fs)[d] EXCEPT !.scope = FALSE]]
        /\ fp' = fp /\ opened' = TraceExitAll
    BY <1>4 DEF DeferredFails
  <2>2. \A d \in Depths : Popped(fs)[d] \in CallFrame
    BY <1>1, <1>4 DEF FrameArray
  <2>3. \A d \in Depths : frames'[d].scope = FALSE
    BY <2>1, <2>2 DEF CallFrame
  <2> QED  BY <2>1, <2>3 DEF Clearing
<1>5. CASE /\ fs[fp].defers = <<>>
           /\ Leave(fs, ~fs[fp].discard /\ ~panicking)
           /\ opened' = TraceExit(fp)
  BY <1>5, LeaveScopes DEF Closing
<1> QED  BY <1>2, <1>3, <1>4, <1>5 DEF ResumeReturn

LEMMA StopEvents ==
  ASSUME TypeInv, Running, Fail \/ Crash
  PROVE  Silent \/ Clearing
<1>1. CASE Fail
  <2>1. /\ frames' = [d \in Depths |-> [frames[d] EXCEPT !.scope = FALSE]]
        /\ fp' = fp /\ opened' = TraceExitAll /\ leaked' = leaked
    BY <1>1 DEF Fail, Stop
  <2>2. \A d \in Depths : frames[d] \in CallFrame
    BY DEF TypeInv, TypeOK
  <2>3. \A d \in Depths : frames'[d].scope = FALSE
    BY <2>1, <2>2 DEF CallFrame
  <2> QED  BY <2>1, <2>3 DEF Clearing
<1>2. CASE Crash
  BY <1>2 DEF Crash, Stop, Silent, ScopesKept
<1> QED  BY <1>1, <1>2

LEMMA InstructionSilent ==
  ASSUME TypeInv, Running, NEW h \in Nat, frames' = Stepped(h),
         UNCHANGED <<fp, opened, leaked>>
  PROVE  Silent
BY LowDepths, SteppedScopes DEF Silent, ScopesKept, SameScopes

LEMMA CallEvents ==
  ASSUME TypeInv, NEW argc \in ArgCounts, NEW traced \in TraceFlags, Call(argc, traced)
  PROVE  Silent \/ Opening \/ Clearing
<1>1. /\ Running /\ Top.height \in Nat /\ argc \in Nat /\ Top.height >= argc + 1
  BY TopType DEF Call, Executing, ArgCounts
<1>2. CASE Fail \/ Crash
  BY <1>1, <1>2, StopEvents
<1>3. CASE ~Fail /\ ~Crash
  <2> DEFINE g == NewFrame(sp - argc, argc, FALSE, 0, traced)
             h == Top.height - argc
  <2>1. /\ fp # FramesMax
        /\ frames' = [Stepped(h) EXCEPT ![fp + 1] = g] /\ fp' = fp + 1
        /\ opened' = TraceEnter(fp + 1, traced) /\ leaked' = leaked
    BY <1>3 DEF Call
  <2>2. h \in Nat
    BY <1>1
  <2>3. g.scope = traced
    BY DEF NewFrame
  <2> HIDE DEF g, h
  <2>4. fp + 1 \in Depths
    BY <1>1, <2>1, LowDepths DEF Depths
  <2>5. Stepped(h) \in FrameArray /\ SameScopes(Stepped(h))
    BY <1>1, <2>2, SteppedScopes
  <2>6. frames'[fp + 1].scope = traced
    BY <2>1, <2>3, <2>4, <2>5 DEF FrameArray
  <2>7. \A i \in 1 .. fp : frames'[i] = Stepped(h)[i]
    BY <1>1, <2>1, <2>5, LowDepths DEF FrameArray
  <2>8. ScopesKept(fp)
    BY <1>1, <2>5, <2>7, LowDepths DEF ScopesKept, SameScopes
  <2> QED  BY <2>1, <2>4, <2>6, <2>8 DEF Opening
<1> QED  BY <1>2, <1>3

LEMMA DeferSilent ==
  ASSUME TypeInv, NEW kind \in DeferKinds, NEW operands \in 0 .. MaxArgs + 1,
         NEW argc \in ArgCounts, Defer(kind, operands, argc)
  PROVE  Silent \/ Clearing
<1>1. /\ Running /\ Top.height \in Nat /\ operands \in Nat /\ Top.height >= operands
  BY TopType, ConstantsAssumption DEF Defer, Executing
<1>2. CASE Crash
  BY <1>1, <1>2, StopEvents
<1>3. CASE ~Crash
  <2> DEFINE a == [id |-> registered + 1, kind |-> kind, argc |-> argc]
             h == Top.height - operands
  <2>1. /\ frames' = [Stepped(h) EXCEPT ![fp].defers = Append(@, a)]
        /\ UNCHANGED <<fp, opened, leaked>>
    BY <1>3 DEF Defer
  <2>2. h \in Nat
    BY <1>1
  <2> HIDE DEF a, h
  <2>3. Stepped(h) \in FrameArray /\ SameScopes(Stepped(h)) /\ fp \in Depths
    BY <1>1, <2>2, SteppedScopes, LowDepths
  <2>4. Stepped(h)[fp] \in CallFrame
    BY <2>3 DEF FrameArray
  <2>5. \A d \in Depths : frames'[d].scope = Stepped(h)[d].scope
    BY <2>1, <2>3, <2>4 DEF FrameArray, CallFrame
  <2>6. ScopesKept(fp)
    BY <1>1, <2>3, <2>5, LowDepths DEF ScopesKept, SameScopes
  <2> QED  BY <2>1, <2>6 DEF Silent
<1> QED  BY <1>2, <1>3

LEMMA ReturnEvents ==
  ASSUME TypeInv, Return \/ ReturnVoid \/ UnwrapErr
  PROVE  Silent \/ Opening \/ Clearing \/ Closing \/ Leaking
<1>1. /\ Running /\ Top.height \in Nat /\ sp \in Nat /\ frames \in FrameArray
      /\ Top.discard \in BOOLEAN
  BY TopType DEF Return, ReturnVoid, UnwrapErr, Executing, CallFrame, Top
<1>2. CASE Crash
  BY <1>1, <1>2, StopEvents
<1>3. CASE ReturnVoid
  BY <1>1, <1>3, SteppedScopes, ResumeEvents DEF ReturnVoid
<1>4. CASE (Return \/ UnwrapErr) /\ ~Crash
  <2>1. Top.height > 0 /\ sp # 0
    BY <1>4 DEF Return, UnwrapErr
  <2>2. Top.height - 1 \in Nat /\ sp - 1 \in Nat
    BY <1>1, <2>1
  <2>3. CASE ResumeReturn(Returning(Top.height - 1), sp - 1) /\ leaked' = leaked
    BY <1>1, <2>1, <2>2, <2>3, SteppedScopes, ResumeEvents
  <2>4. CASE Leave(frames, ~Top.discard) /\ opened' = TraceExit(fp) /\ leaked' = leaked
    <3>1. SameScopes(frames) /\ (~Top.discard) \in BOOLEAN
      BY DEF SameScopes
    <3>2. fp' = fp - 1 /\ ScopesKept(fp - 1)
      BY <1>1, <2>4, <3>1, LeaveScopes
    <3> QED  BY <2>4, <3>2 DEF Closing
  <2>5. CASE Leave(frames, ~Top.discard) /\ opened' = opened /\ leaked' = (leaked \/ Top.scope)
    <3>1. SameScopes(frames) /\ (~Top.discard) \in BOOLEAN
      BY DEF SameScopes
    <3>2. fp' = fp - 1 /\ ScopesKept(fp - 1)
      BY <1>1, <2>5, <3>1, LeaveScopes
    <3> QED  BY <2>5, <3>2 DEF Leaking
  <2> QED  BY <1>4, <2>1, <2>3, <2>4, <2>5 DEF Return, UnwrapErr
<1> QED  BY <1>2, <1>3, <1>4

LEMMA StepEvents ==
  ASSUME TypeInv, Next
  PROVE  Running /\ (Silent \/ Opening \/ Clearing \/ Closing \/ Leaking)
<1>1. Running
  BY DEF Next, PushValue, PopValue, Call, CallNative, Defer, Panic, RuntimeError, Return,
         ReturnVoid, UnwrapErr, Resume, Unwind, Executing
<1>2. Top.height \in Nat /\ sp \in Nat /\ frames \in FrameArray /\ 0 \in Nat
  BY <1>1, TopType
<1>3. CASE PushValue
  <2>1. Top.height + 1 \in Nat
    BY <1>2
  <2> QED  BY <1>1, <1>3, <2>1, InstructionSilent DEF PushValue
<1>4. CASE PopValue \/ Panic
  <2>1. CASE Crash
    BY <1>1, <2>1, StopEvents
  <2>2. CASE ~Crash
    <3>1. Top.height > 0 /\ frames' = Stepped(Top.height - 1)
      BY <1>4, <2>2 DEF PopValue, Panic
    <3>2. UNCHANGED <<fp, opened, leaked>>
      BY <1>4, <2>2 DEF PopValue, Panic
    <3>3. Top.height - 1 \in Nat
      BY <1>2, <3>1
    <3> QED  BY <1>1, <3>1, <3>2, <3>3, InstructionSilent
  <2> QED  BY <2>1, <2>2
<1>5. ASSUME NEW argc \in ArgCounts, CallNative(argc)  PROVE Silent \/ Clearing
  <2>1. CASE Crash
    BY <1>1, <2>1, StopEvents
  <2>2. CASE ~Crash
    <3>1. /\ Top.height >= argc + 1 /\ argc \in Nat
          /\ frames' = Stepped(Top.height - argc) /\ UNCHANGED <<fp, opened, leaked>>
      BY <1>5, <2>2 DEF CallNative, ArgCounts
    <3>2. Top.height - argc \in Nat
      BY <1>2, <3>1
    <3> QED  BY <1>1, <3>1, <3>2, InstructionSilent
  <2> QED  BY <2>1, <2>2
<1>6. CASE RuntimeError
  BY <1>1, <1>6, StopEvents DEF RuntimeError
<1>7. CASE Resume
  BY <1>1, <1>2, <1>7, SteppedScopes, ResumeEvents DEF Resume
<1>8. CASE Unwind
  <2>1. /\ [frames EXCEPT ![fp].returning = TRUE] \in FrameArray
        /\ SameScopes([frames EXCEPT ![fp].returning = TRUE])
    BY <1>1, <1>2, SteppedScopes
  <2> QED  BY <1>1, <1>2, <1>8, <2>1, ResumeEvents DEF Unwind
<1> QED  BY <1>1, <1>3, <1>4, <1>5, <1>6, <1>7, <1>8, CallEvents, DeferSilent, ReturnEvents
         DEF Next

-----------------------------------------------------------------------------
(* Balance.                                                                *)

ScopeInv == TypeInv /\ TraceBalanced

LEMMA TraceStep ==
  ASSUME ScopeInv, Next
  PROVE  TraceBalanced'
<1>1. /\ TypeInv /\ Running /\ TraceBalanced /\ opened \in [Depths -> Int]
      /\ (Silent \/ Opening \/ Clearing \/ Closing \/ Leaking)
  BY StepEvents DEF ScopeInv, TypeInv, TypeOK
<1>2. /\ fp \in Depths /\ fp \in Nat \ {0} /\ fp \in 1 .. FramesMax /\ FramesMax \in Nat
      /\ \A d \in Depths : d \in Nat \ {0}
  BY <1>1, LowDepths DEF Depths
<1>3. SUFFICES ASSUME ~leaked', NEW d \in Depths
               PROVE  opened'[d] = IF d <= fp' /\ frames'[d].scope THEN 1 ELSE 0
  BY DEF TraceBalanced
<1>4. ~leaked
  BY <1>1, <1>3 DEF Silent, Opening, Clearing, Closing, Leaking
<1>5. opened[d] = IF d <= fp /\ frames[d].scope THEN 1 ELSE 0
  BY <1>1, <1>3, <1>4 DEF TraceBalanced
<1>6. ASSUME NEW n \in Nat, ScopesKept(n), d <= n  PROVE frames'[d].scope = frames[d].scope
  <2>1. d \in 1 .. n
    BY <1>2, <1>3, <1>6
  <2> QED  BY <1>6, <2>1 DEF ScopesKept
<1>7. CASE Silent
  BY <1>2, <1>5, <1>6, <1>7 DEF Silent
<1>8. CASE Opening
  <2>1. /\ fp' = fp + 1 /\ fp + 1 \in Depths /\ ScopesKept(fp)
        /\ opened' = TraceEnter(fp + 1, frames'[fp + 1].scope)
    BY <1>8 DEF Opening
  <2>2. CASE d = fp + 1
    <3>1. ~(d <= fp) /\ d <= fp'
      BY <1>2, <2>1, <2>2
    <3>2. opened[d] = 0
      BY <1>5, <3>1
    <3>3. opened'[d] = IF frames'[d].scope THEN opened[d] + 1 ELSE opened[d]
      BY <1>1, <2>1, <2>2 DEF TraceEnter
    <3> QED  BY <3>1, <3>2, <3>3
  <2>3. CASE d # fp + 1
    <3>1. opened'[d] = opened[d]
      BY <1>1, <1>3, <2>1, <2>3 DEF TraceEnter
    <3>2. d <= fp' <=> d <= fp
      BY <1>2, <1>3, <2>1, <2>3
    <3>3. d <= fp => frames'[d].scope = frames[d].scope
      BY <1>2, <1>6, <2>1
    <3> QED  BY <1>5, <3>1, <3>2, <3>3
  <2> QED  BY <2>2, <2>3
<1>9. CASE Clearing
  <2>1. frames'[d].scope = FALSE /\ opened' = TraceExitAll
    BY <1>3, <1>9 DEF Clearing
  <2>2. opened'[d] = IF d <= fp /\ frames[d].scope THEN opened[d] - 1 ELSE opened[d]
    BY <1>3, <2>1 DEF TraceExitAll
  <2>3. opened'[d] = 0
    BY <1>5, <2>2
  <2> QED  BY <2>1, <2>3
<1>10. CASE Closing
  <2>1. fp' = fp - 1 /\ ScopesKept(fp - 1) /\ opened' = TraceExit(fp)
    BY <1>10 DEF Closing
  <2>2. CASE d = fp
    <3>1. d <= fp /\ ~(d <= fp')
      BY <1>2, <2>1, <2>2
    <3>2. opened'[d] = IF frames[d].scope THEN opened[d] - 1 ELSE opened[d]
      BY <1>1, <1>3, <2>1, <2>2 DEF TraceExit
    <3> QED  BY <1>5, <3>1, <3>2
  <2>3. CASE d # fp
    <3>1. opened'[d] = opened[d]
      BY <1>1, <1>3, <2>1, <2>3 DEF TraceExit
    <3>2. (d <= fp' <=> d <= fp) /\ (d <= fp => d <= fp - 1) /\ fp - 1 \in Nat
      BY <1>2, <1>3, <2>1, <2>3
    <3>3. d <= fp => frames'[d].scope = frames[d].scope
      BY <1>6, <2>1, <3>2
    <3> QED  BY <1>5, <3>1, <3>2, <3>3
  <2> QED  BY <2>2, <2>3
<1>11. CASE Leaking
  <2>1. fp' = fp - 1 /\ ScopesKept(fp - 1) /\ opened' = opened /\ ~frames[fp].scope
    BY <1>3, <1>11 DEF Leaking, Top
  <2>2. CASE d = fp
    <3>1. ~(d <= fp')
      BY <1>2, <2>1, <2>2
    <3> QED  BY <1>5, <2>1, <2>2, <3>1
  <2>3. CASE d # fp
    <3>2. (d <= fp' <=> d <= fp) /\ (d <= fp => d <= fp - 1) /\ fp - 1 \in Nat
      BY <1>2, <1>3, <2>1, <2>3
    <3>3. d <= fp => frames'[d].scope = frames[d].scope
      BY <1>6, <2>1, <3>2
    <3> QED  BY <1>5, <2>1, <3>2, <3>3
  <2> QED  BY <2>2, <2>3
<1> QED  BY <1>1, <1>7, <1>8, <1>9, <1>10, <1>11

LEMMA TraceInit ==
  ASSUME Init
  PROVE  ScopeInv
<1>1. TypeInv
  BY TypeInit
<1>2. PICK argc \in ArgCounts, traced \in TraceFlags : Start(argc, traced)
  BY DEF Init
<1>3. ASSUME NEW d \in Depths
      PROVE  opened[d] = IF d <= fp /\ frames[d].scope THEN 1 ELSE 0
  <2>1. fp = 1 /\ d \in Nat \ {0}
    BY DEF Init, Depths
  <2>2. opened[d] = IF d = 1 /\ traced THEN 1 ELSE 0
    BY <1>2 DEF Start
  <2>3. CASE d = 1
    <3>1. frames[d].scope = traced
      BY <1>2, <2>3 DEF Start, NewFrame
    <3> QED  BY <2>1, <2>2, <2>3, <3>1
  <2>4. CASE d # 1
    BY <2>1, <2>2, <2>4
  <2> QED  BY <2>3, <2>4
<1> QED  BY <1>1, <1>3 DEF ScopeInv, TraceBalanced

(* At every depth the enter events without an exit are those of the live   *)
(* traced activation, unless a traced activation took the fast path of     *)
(* OP_UNWRAP; a failing run closes all of them.                            *)
THEOREM TraceBalancedHolds == Spec => []TraceBalanced
<1>1. Init => ScopeInv
  BY TraceInit
<1>2. ScopeInv /\ [Next]_vars => ScopeInv'
  <2>1. ASSUME ScopeInv, Next  PROVE ScopeInv'
    BY <2>1, TypeStep, TraceStep DEF ScopeInv
  <2>2. ASSUME ScopeInv, UNCHANGED vars  PROVE ScopeInv'
    <3>1. TypeInv'
      BY <2>2, TypeStep DEF ScopeInv
    <3>2. UNCHANGED <<frames, fp, opened, leaked>>
      BY <2>2 DEF vars
    <3> QED  BY <2>2, <3>1, <3>2 DEF ScopeInv, TraceBalanced
  <2> QED  BY <2>1, <2>2
<1>3. ScopeInv => TraceBalanced
  BY DEF ScopeInv
<1> QED  BY <1>1, <1>2, <1>3, PTL DEF Spec

-----------------------------------------------------------------------------
(***************************************************************************)
(* The deferred actions: that none is lost or run twice, that they run     *)
(* last in first out, and that the frames implement DeferStack.  Every     *)
(* step of the machine is one of six kinds as far as deferred actions go.  *)
(***************************************************************************)

Kept(n) == \A i \in 1 .. n : frames'[i].defers = frames[i].defers
LastOf(s)  == s[Len(s)]
FrontOf(s) == SubSeq(s, 1, Len(s) - 1)

(* An instruction or an end of the run that does not touch them.           *)
Quiet ==
  /\ fp' = fp /\ Kept(fp) /\ UNCHANGED <<registered, begun>>
  /\ outcome' \in {"running", "error", "crash"}

(* A call.                                                                 *)
Entering ==
  /\ fp' = fp + 1 /\ Kept(fp) /\ frames'[fp + 1].defers = <<>>
  /\ UNCHANGED <<registered, begun>> /\ outcome' = "running"

Deferring ==
  /\ fp' = fp /\ Kept(fp - 1)
  /\ \E a \in DeferAction :
       a.id = registered + 1 /\ frames'[fp].defers = Append(Top.defers, a)
  /\ registered' = registered + 1 /\ begun' = begun /\ outcome' = "running"

(* The last action of the top frame begins, in a frame of its own or not.  *)
Taking ==
  /\ Top.defers # <<>> /\ Kept(fp - 1) /\ frames'[fp].defers = FrontOf(Top.defers)
  /\ begun' = begun \cup {LastOf(Top.defers).id}
  /\ fp' = fp \/ (fp' = fp + 1 /\ frames'[fp + 1].defers = <<>>)
  /\ registered' = registered /\ outcome' = "running"

(* It is taken and fails.                                                  *)
Failing ==
  /\ Top.defers # <<>> /\ Kept(fp - 1) /\ frames'[fp].defers = FrontOf(Top.defers)
  /\ fp' = fp /\ UNCHANGED <<registered, begun>> /\ outcome' = "error"

Leaving ==
  /\ Top.defers = <<>> /\ fp' = fp - 1 /\ Kept(fp - 1)
  /\ UNCHANGED <<registered, begun>>
  /\ outcome' = IF fp > 1 THEN "running" ELSE IF panicking THEN "panic" ELSE "ok"

-----------------------------------------------------------------------------
(* The machine takes no other steps.                                       *)

LEMMA LeaveKind ==
  ASSUME TypeInv, Running, NEW fs \in FrameArray, SameFrames(fs),
         NEW delivers \in BOOLEAN, Leave(fs, delivers), fs[fp].defers = <<>>,
         UNCHANGED <<registered, begun>>
  PROVE  Leaving
<1>1. fp \in Depths /\ fp \in 1 .. FramesMax /\ fp \in Nat \ {0} /\ FramesMax \in Nat
  BY TopType
<1>2. frames' = [fs EXCEPT ![fp] = DeadFrame] /\ fp' = fp - 1
  BY DEF Leave
<1>3. Kept(fp - 1)
  <2>1. ASSUME NEW i \in 1 .. fp - 1  PROVE frames'[i].defers = frames[i].defers
    <3>1. i \in Depths /\ i # fp
      BY <1>1 DEF Depths
    <3>2. frames'[i] = fs[i]
      BY <1>2, <3>1 DEF FrameArray
    <3> QED  BY <3>1, <3>2 DEF SameFrames
  <2> QED  BY <2>1 DEF Kept
<1>4. Top.defers = <<>>
  BY <1>1 DEF SameFrames, Top
<1>5. outcome' = IF fp > 1 THEN "running" ELSE IF panicking THEN "panic" ELSE "ok"
  <2>1. CASE fp = 1
    BY <2>1 DEF Leave
  <2>2. CASE fp # 1
    BY <1>1, <2>2 DEF Leave, Running
  <2> QED  BY <2>1, <2>2
<1> QED  BY <1>2, <1>3, <1>4, <1>5 DEF Leaving

(* The frames without the last action of the top one.                      *)
LEMMA PoppedDefers ==
  ASSUME TypeInv, Running, NEW fs \in FrameArray, SameFrames(fs), fs[fp].defers # <<>>
  PROVE  /\ Top.defers # <<>>
         /\ Popped(fs)[fp].defers = FrontOf(Top.defers)
         /\ \A i \in 1 .. fp - 1 : Popped(fs)[i].defers = frames[i].defers
         /\ Youngest(fs) = LastOf(Top.defers)
<1>1. fp \in Depths /\ fp \in 1 .. FramesMax /\ fp \in Nat \ {0} /\ FramesMax \in Nat
  BY TopType
<1>2. fs[fp].defers = Top.defers /\ fs[fp] \in CallFrame
  BY <1>1 DEF SameFrames, Top, FrameArray
<1>3. Popped(fs)[fp].defers = FrontOf(Top.defers)
  BY <1>1, <1>2 DEF Popped, FrontOf, FrameArray, CallFrame
<1>4. ASSUME NEW i \in 1 .. fp - 1  PROVE Popped(fs)[i].defers = frames[i].defers
  <2>1. i \in Depths /\ i # fp
    BY <1>1 DEF Depths
  <2>2. Popped(fs)[i] = fs[i]
    BY <2>1 DEF Popped, FrameArray
  <2> QED  BY <2>1, <2>2 DEF SameFrames
<1> QED  BY <1>2, <1>3, <1>4 DEF Youngest, LastOf

LEMMA ResumeKind ==
  ASSUME TypeInv, Running, NEW fs \in FrameArray, SameFrames(fs),
         NEW h \in Nat, ResumeReturn(fs, h), registered' = registered
  PROVE  Taking \/ Failing \/ Leaving
<1>1. /\ fp \in Depths /\ fp \in 1 .. FramesMax /\ fp \in Nat \ {0} /\ FramesMax \in Nat
      /\ outcome = "running"
  BY TopType DEF Running
<1>2. ASSUME fs[fp].defers # <<>>
      PROVE  /\ Top.defers # <<>>
             /\ Popped(fs) \in FrameArray
             /\ Popped(fs)[fp].defers = FrontOf(Top.defers)
             /\ \A i \in 1 .. fp - 1 : Popped(fs)[i].defers = frames[i].defers
             /\ Youngest(fs) = LastOf(Top.defers)
  BY <1>1, <1>2, PoppedDefers, PoppedType
<1>3. \A i \in 1 .. fp : i \in Depths /\ i # fp + 1
  BY <1>1 DEF Depths
<1>4. \A i \in 1 .. fp - 1 : i \in 1 .. fp
  BY <1>1
<1>5. CASE fs[fp].defers # <<>> /\ EnterDeferred(Popped(fs), h, Youngest(fs))
  <2> DEFINE g == NewFrame(h + 1, Youngest(fs).argc, TRUE, Youngest(fs).id, FALSE)
  <2>1. /\ frames' = [Popped(fs) EXCEPT ![fp + 1] = g]
        /\ fp < FramesMax /\ fp' = fp + 1
        /\ begun' = begun \cup {Youngest(fs).id} /\ outcome' = "running"
    BY <1>1, <1>5 DEF EnterDeferred
  <2>2. g.defers = <<>>
    BY DEF NewFrame
  <2> HIDE DEF g
  <2>3. fp + 1 \in Depths
    BY <1>1, <2>1 DEF Depths
  <2>4. frames'[fp + 1].defers = <<>>
    BY <1>2, <1>5, <2>1, <2>2, <2>3 DEF FrameArray
  <2>5. \A i \in 1 .. fp : frames'[i] = Popped(fs)[i]
    BY <1>2, <1>3, <1>5, <2>1 DEF FrameArray
  <2>6. Kept(fp - 1)
    BY <1>2, <1>4, <1>5, <2>5 DEF Kept
  <2>7. frames'[fp].defers = FrontOf(Top.defers)
    BY <1>1, <1>2, <1>5, <2>5
  <2> QED  BY <1>2, <1>5, <2>1, <2>4, <2>6, <2>7 DEF Taking
<1>6. CASE fs[fp].defers # <<>> /\ RunNative(Popped(fs), h, Youngest(fs))
  BY <1>1, <1>2, <1>6 DEF RunNative, Taking, Kept
<1>7. CASE fs[fp].defers # <<>> /\ DeferredFails(Popped(fs), h, Youngest(fs))
  <2>1. /\ frames' = [d \in Depths |-> [Popped(fs)[d] EXCEPT !.scope = FALSE]]
        /\ fp' = fp /\ begun' = begun /\ outcome' = "error"
    BY <1>7 DEF DeferredFails
  <2>2. \A d \in Depths : frames'[d].defers = Popped(fs)[d].defers
    BY <1>2, <1>7, <2>1, ClearScopeType
  <2>3. Kept(fp - 1)
    BY <1>2, <1>3, <1>4, <1>7, <2>2 DEF Kept
  <2>4. frames'[fp].defers = FrontOf(Top.defers)
    BY <1>1, <1>2, <1>7, <2>2
  <2> QED  BY <1>2, <1>7, <2>1, <2>3, <2>4 DEF Failing
<1>8. CASE /\ fs[fp].defers = <<>>
           /\ Leave(fs, ~fs[fp].discard /\ ~panicking)
           /\ begun' = begun
  BY <1>8, LeaveKind
<1> QED  BY <1>5, <1>6, <1>7, <1>8 DEF ResumeReturn

(* A frame's code has executed an instruction.                             *)
LEMMA SteppedDefers ==
  ASSUME TypeInv, Running, NEW h \in Nat
  PROVE  /\ Stepped(h) \in FrameArray /\ Returning(h) \in FrameArray
         /\ SameFrames(Stepped(h)) /\ SameFrames(Returning(h))
         /\ \A i \in 1 .. fp : i \in Depths /\ Stepped(h)[i].defers = frames[i].defers
<1>1. fp \in Depths /\ fp \in 1 .. FramesMax /\ FramesMax \in Nat
  BY TopType
<1>2. /\ Stepped(h) \in FrameArray /\ Returning(h) \in FrameArray
      /\ SameFrames(Stepped(h)) /\ SameFrames(Returning(h))
  BY <1>1, SteppedType, SteppedSame DEF TypeInv
<1>3. \A i \in 1 .. fp : i \in Depths
  BY <1>1 DEF Depths
<1> QED  BY <1>2, <1>3 DEF SameFrames

LEMMA StopKind ==
  ASSUME TypeInv, Running, Fail \/ Crash
  PROVE  Quiet
<1>1. \A i \in 1 .. fp : i \in Depths
  BY TopType DEF Depths
<1>2. CASE Fail
  <2>1. \A d \in Depths : frames'[d].defers = frames[d].defers
    BY <1>2, TopType, ClearScopeType DEF Fail
  <2> QED  BY <1>1, <1>2, <2>1 DEF Fail, Stop, Quiet, Kept
<1>3. CASE Crash
  BY <1>3 DEF Crash, Stop, Quiet, Kept
<1> QED  BY <1>2, <1>3

LEMMA InstructionKind ==
  ASSUME TypeInv, Running, NEW h \in Nat, frames' = Stepped(h), fp' = fp,
         UNCHANGED <<registered, begun, outcome>>
  PROVE  Quiet
BY SteppedDefers DEF Quiet, Kept, Running

LEMMA CallKind ==
  ASSUME TypeInv, NEW argc \in ArgCounts, NEW traced \in TraceFlags, Call(argc, traced)
  PROVE  Quiet \/ Entering
<1>1. /\ Running /\ outcome = "running" /\ fp \in 1 .. FramesMax /\ FramesMax \in Nat
      /\ Top.height \in Nat /\ argc \in Nat
  BY TopType DEF Call, Executing, Running, ArgCounts
<1>2. CASE Fail \/ Crash
  BY <1>1, <1>2, StopKind
<1>3. CASE ~Fail /\ ~Crash
  <2> DEFINE g == NewFrame(sp - argc, argc, FALSE, 0, traced)
             h == Top.height - argc
  <2>1. /\ Top.height >= argc + 1 /\ fp # FramesMax
        /\ frames' = [Stepped(h) EXCEPT ![fp + 1] = g] /\ fp' = fp + 1
        /\ UNCHANGED <<registered, begun, outcome>>
    BY <1>3 DEF Call
  <2>2. h \in Nat
    BY <1>1, <2>1
  <2>3. g.defers = <<>>
    BY DEF NewFrame
  <2> HIDE DEF g, h
  <2>4. fp + 1 \in Depths /\ \A i \in 1 .. fp : i # fp + 1
    BY <1>1, <2>1 DEF Depths
  <2>5. frames'[fp + 1].defers = <<>>
    BY <1>1, <2>1, <2>2, <2>3, <2>4, SteppedDefers DEF FrameArray
  <2>6. Kept(fp)
    BY <1>1, <2>1, <2>2, <2>4, SteppedDefers DEF Kept, FrameArray
  <2> QED  BY <1>1, <2>1, <2>5, <2>6 DEF Entering
<1> QED  BY <1>2, <1>3

LEMMA DeferKind ==
  ASSUME TypeInv, NEW kind \in DeferKinds, NEW operands \in 0 .. MaxArgs + 1,
         NEW argc \in ArgCounts, Defer(kind, operands, argc)
  PROVE  Quiet \/ Deferring
<1>1. /\ Running /\ outcome = "running" /\ fp \in 1 .. FramesMax /\ FramesMax \in Nat
      /\ Top.height \in Nat /\ operands \in Nat
      /\ registered \in 0 .. MaxDefers /\ MaxDefers \in Nat
  BY TopType, ConstantsAssumption DEF Defer, Executing, Running, TypeInv, TypeOK
<1>2. CASE Crash
  BY <1>1, <1>2, StopKind
<1>3. CASE ~Crash
  <2> DEFINE a == [id |-> registered + 1, kind |-> kind, argc |-> argc]
             h == Top.height - operands
  <2>1. /\ Top.height >= operands /\ registered < MaxDefers
        /\ frames' = [Stepped(h) EXCEPT ![fp].defers = Append(@, a)] /\ fp' = fp
        /\ registered' = registered + 1 /\ UNCHANGED <<begun, outcome>>
    BY <1>3 DEF Defer
  <2>2. h \in Nat /\ registered + 1 \in 1 .. MaxDefers
    BY <1>1, <2>1
  <2>3. a \in DeferAction /\ a.id = registered + 1
    BY <2>2 DEF DeferAction
  <2> HIDE DEF a, h
  <2>4. /\ Stepped(h) \in FrameArray /\ fp \in Depths
        /\ \A i \in 1 .. fp : i \in Depths /\ Stepped(h)[i].defers = frames[i].defers
    BY <1>1, <2>2, SteppedDefers DEF Depths
  <2>5. Stepped(h)[fp] \in CallFrame
    BY <2>4 DEF FrameArray
  <2>6. frames'[fp].defers = Append(Top.defers, a)
    <3>1. frames'[fp] = [Stepped(h)[fp] EXCEPT !.defers = Append(@, a)]
      BY <2>1, <2>4 DEF FrameArray
    <3>2. fp \in 1 .. fp
      BY <1>1
    <3>3. Stepped(h)[fp].defers = Top.defers
      BY <2>4, <3>2 DEF Top
    <3> QED  BY <2>5, <3>1, <3>3 DEF CallFrame
  <2>7. Kept(fp - 1)
    <3>1. ASSUME NEW i \in 1 .. fp - 1  PROVE frames'[i].defers = frames[i].defers
      <4>1. i \in 1 .. fp /\ i # fp
        BY <1>1
      <4> QED  BY <2>1, <2>4, <4>1 DEF FrameArray
    <3> QED  BY <3>1 DEF Kept
  <2> QED  BY <1>1, <2>1, <2>3, <2>6, <2>7 DEF Deferring
<1> QED  BY <1>2, <1>3

(* OP_RETURN, OP_RETURN_VOID and the early return of try.                  *)
LEMMA ReturnKind ==
  ASSUME TypeInv, Return \/ ReturnVoid \/ UnwrapErr
  PROVE  Quiet \/ Taking \/ Failing \/ Leaving
<1>1. /\ Running /\ Top.height \in Nat /\ sp \in Nat /\ frames \in FrameArray
      /\ SameFrames(frames) /\ Top.defers = frames[fp].defers
  BY TopType DEF Return, ReturnVoid, UnwrapErr, Executing, Top
<1>2. CASE Crash
  BY <1>1, <1>2, StopKind
<1>3. CASE ReturnVoid
  BY <1>1, <1>3, SteppedDefers, ResumeKind DEF ReturnVoid
<1>4. CASE (Return \/ UnwrapErr) /\ ~Crash
  <2>1. Top.height > 0 /\ sp # 0 /\ registered' = registered
    BY <1>4 DEF Return, UnwrapErr
  <2>2. Top.height - 1 \in Nat /\ sp - 1 \in Nat
    BY <1>1, <2>1
  <2>3. CASE ResumeReturn(Returning(Top.height - 1), sp - 1)
    BY <1>1, <2>1, <2>2, <2>3, SteppedDefers, ResumeKind
  <2>4. CASE Top.defers = <<>> /\ Leave(frames, ~Top.discard) /\ begun' = begun
    BY <1>1, <2>1, <2>4, LeaveKind
  <2> QED  BY <1>4, <2>1, <2>3, <2>4 DEF Return, UnwrapErr
<1> QED  BY <1>2, <1>3, <1>4

LEMMA StepKind ==
  ASSUME TypeInv, Next
  PROVE  Running /\ (Quiet \/ Entering \/ Deferring \/ Taking \/ Failing \/ Leaving)
<1>1. Running
  BY DEF Next, PushValue, PopValue, Call, CallNative, Defer, Panic, RuntimeError, Return,
         ReturnVoid, UnwrapErr, Resume, Unwind, Executing
<1>2. /\ Top.height \in Nat /\ sp \in Nat /\ fp \in Depths /\ frames \in FrameArray
      /\ SameFrames(frames)
  BY <1>1, TopType
<1>3. CASE PushValue
  <2>1. Top.height + 1 \in Nat
    BY <1>2
  <2> QED  BY <1>1, <1>3, <2>1, InstructionKind DEF PushValue
<1>4. CASE PopValue \/ Panic
  <2>1. CASE Crash
    BY <1>1, <2>1, StopKind
  <2>2. CASE ~Crash
    <3>1. Top.height > 0 /\ frames' = Stepped(Top.height - 1) /\ fp' = fp
      BY <1>4, <2>2 DEF PopValue, Panic
    <3>2. UNCHANGED <<registered, begun, outcome>>
      BY <1>4, <2>2 DEF PopValue, Panic
    <3>3. Top.height - 1 \in Nat
      BY <1>2, <3>1
    <3> QED  BY <1>1, <3>1, <3>2, <3>3, InstructionKind
  <2> QED  BY <2>1, <2>2
<1>5. ASSUME NEW argc \in ArgCounts, CallNative(argc)  PROVE Quiet
  <2>1. CASE Crash
    BY <1>1, <2>1, StopKind
  <2>2. CASE ~Crash
    <3>1. /\ Top.height >= argc + 1 /\ argc \in Nat
          /\ frames' = Stepped(Top.height - argc) /\ fp' = fp
          /\ UNCHANGED <<registered, begun, outcome>>
      BY <1>5, <2>2 DEF CallNative, ArgCounts
    <3>2. Top.height - argc \in Nat
      BY <1>2, <3>1
    <3> QED  BY <1>1, <3>1, <3>2, InstructionKind
  <2> QED  BY <2>1, <2>2
<1>6. CASE RuntimeError
  BY <1>1, <1>6, StopKind DEF RuntimeError
<1>7. CASE Resume
  BY <1>1, <1>2, <1>7, ResumeKind DEF Resume
<1>8. CASE Unwind
  <2>1. /\ [frames EXCEPT ![fp].returning = TRUE] \in FrameArray
        /\ SameFrames([frames EXCEPT ![fp].returning = TRUE])
    <3>1. 0 \in Nat
      OBVIOUS
    <3> QED  BY <1>2, <3>1, SteppedType, SteppedSame DEF TypeInv
  <2> QED  BY <1>1, <1>2, <1>8, <2>1, ResumeKind DEF Unwind
<1> QED  BY <1>1, <1>3, <1>4, <1>5, <1>6, <1>7, <1>8, CallKind, DeferKind, ReturnKind DEF Next

-----------------------------------------------------------------------------
(* Accounting for deferred actions.                                        *)

DeferInv == TypeInv /\ CutByPanic /\ DeferOrder /\ DeferAccounting /\ NormalEndComplete

LEMMA IdsOfAppend ==
  ASSUME NEW s \in Seq(DeferAction), NEW a \in DeferAction
  PROVE  Ids(Append(s, a)) = Ids(s) \cup {a.id}
<1> DEFINE t == Append(s, a)
<1>1. /\ Len(t) = Len(s) + 1 /\ Len(s) \in Nat /\ t[Len(s) + 1] = a
      /\ \A i \in 1 .. Len(s) : t[i] = s[i]
  BY AppendProperties
<1> HIDE DEF t
<1>2. \A i \in 1 .. Len(s) + 1 : i \in 1 .. Len(s) \/ i = Len(s) + 1
  BY <1>1
<1>3. 1 .. Len(s) \subseteq 1 .. Len(s) + 1 /\ Len(s) + 1 \in 1 .. Len(s) + 1
  BY <1>1
<1>4. Ids(t) = Ids(s) \cup {a.id}
  BY <1>1, <1>2, <1>3 DEF Ids
<1> QED  BY <1>4 DEF t

LEMMA IdsOfFront ==
  ASSUME NEW s \in Seq(DeferAction), s # <<>>
  PROVE  /\ Ids(s) = Ids(FrontOf(s)) \cup {LastOf(s).id}
         /\ FrontOf(s) \in Seq(DeferAction) /\ Len(FrontOf(s)) = Len(s) - 1
         /\ Len(s) \in Nat \ {0}
         /\ \A i \in 1 .. Len(s) - 1 : FrontOf(s)[i] = s[i]
<1>1. /\ FrontOf(s) \in Seq(DeferAction) /\ Len(FrontOf(s)) = Len(s) - 1
      /\ Len(s) \in Nat \ {0}
      /\ \A i \in 1 .. Len(s) - 1 : FrontOf(s)[i] = s[i]
  BY PoppedSeq DEF FrontOf
<1>2. \A i \in 1 .. Len(s) : i \in 1 .. Len(s) - 1 \/ i = Len(s)
  BY <1>1
<1>3. 1 .. Len(s) - 1 \subseteq 1 .. Len(s) /\ Len(s) \in 1 .. Len(s)
  BY <1>1
<1>4. Ids(s) = Ids(FrontOf(s)) \cup {LastOf(s).id}
  BY <1>1, <1>2, <1>3 DEF Ids, LastOf
<1> QED  BY <1>1, <1>4

LEMMA IdsOfNone == Ids(<<>>) = {}
BY DEF Ids

LEMMA DefersType ==
  ASSUME TypeInv, NEW i \in 1 .. fp
  PROVE  frames[i].defers \in Seq(DeferAction)
<1>1. i \in Depths
  BY ConstantsAssumption DEF TypeInv, TypeOK, Depths
<1> QED  BY <1>1 DEF TypeInv, TypeOK, CallFrame

(* The last action of the top frame is younger than all others pending.    *)
LEMMA LastIsYoungest ==
  ASSUME DeferInv, Running, Top.defers # <<>>
  PROVE  /\ \A m \in Ids(FrontOf(Top.defers)) : m < LastOf(Top.defers).id
         /\ \A i \in 1 .. fp - 1 : \A m \in Ids(frames[i].defers) : m < LastOf(Top.defers).id
         /\ Ids(Top.defers) = Ids(FrontOf(Top.defers)) \cup {LastOf(Top.defers).id}
<1> DEFINE s == frames[fp].defers
<1>1. fp \in Nat \ {0} /\ fp \in 1 .. fp
  BY TopType DEF DeferInv
<1>2. s \in Seq(DeferAction) /\ s = Top.defers
  BY <1>1, DefersType DEF DeferInv, Top
<1>3. /\ Ids(s) = Ids(FrontOf(s)) \cup {LastOf(s).id} /\ Len(s) \in Nat \ {0}
      /\ Len(FrontOf(s)) = Len(s) - 1
      /\ \A i \in 1 .. Len(s) - 1 : FrontOf(s)[i] = s[i]
  BY <1>2, IdsOfFront
<1>4. ASSUME NEW m \in Ids(FrontOf(s))  PROVE m < LastOf(s).id
  <2>1. PICK j \in 1 .. Len(s) - 1 : m = s[j].id
    BY <1>3 DEF Ids
  <2>2. j \in 1 .. Len(s) /\ Len(s) \in 1 .. Len(s) /\ j < Len(s)
    BY <1>3, <2>1
  <2>3. s[j].id < s[Len(s)].id
    BY <1>1, <2>2 DEF DeferInv, DeferOrder
  <2> QED  BY <2>1, <2>3 DEF LastOf
<1>5. ASSUME NEW i \in 1 .. fp - 1, NEW m \in Ids(frames[i].defers)
      PROVE  m < LastOf(s).id
  <2>1. i \in 1 .. fp /\ i < fp
    BY <1>1
  <2>2. LastOf(s).id \in Ids(s)
    BY <1>3
  <2> QED  BY <1>1, <2>1, <2>2 DEF DeferInv, DeferOrder
<1> QED  BY <1>2, <1>3, <1>4, <1>5

(* An invariant of the pending actions of n frames.                        *)
InOrder(fs, n) ==
  /\ \A i \in 1 .. n : \A j, k \in 1 .. Len(fs[i].defers) :
       j < k => fs[i].defers[j].id < fs[i].defers[k].id
  /\ \A i, j \in 1 .. n : i < j =>
       \A m \in Ids(fs[i].defers), k \in Ids(fs[j].defers) : m < k

LEMMA OrderIsInOrder == DeferOrder <=> InOrder(frames, fp)
BY DEF DeferOrder, InOrder

LEMMA KeepOrder ==
  ASSUME NEW n \in Nat, InOrder(frames, n), Kept(n)
  PROVE  InOrder(frames', n)
BY DEF InOrder, Kept

LEMMA LowerOrder ==
  ASSUME NEW n \in Nat, NEW fs, InOrder(fs, n)
  PROVE  InOrder(fs, n - 1)
<1>1. 1 .. n - 1 \subseteq 1 .. n
  OBVIOUS
<1> QED  BY <1>1 DEF InOrder

LEMMA HigherOrder ==
  ASSUME NEW n \in Nat \ {0}, NEW fs, InOrder(fs, n - 1),
         \A j, k \in 1 .. Len(fs[n].defers) :
           j < k => fs[n].defers[j].id < fs[n].defers[k].id,
         \A i \in 1 .. n - 1 : \A m \in Ids(fs[i].defers), k \in Ids(fs[n].defers) : m < k
  PROVE  InOrder(fs, n)
<1>1. \A i \in 1 .. n : i \in 1 .. n - 1 \/ i = n
  OBVIOUS
<1>2. \A i \in 1 .. n : \A j, k \in 1 .. Len(fs[i].defers) :
        j < k => fs[i].defers[j].id < fs[i].defers[k].id
  BY <1>1 DEF InOrder
<1>3. ASSUME NEW i \in 1 .. n, NEW j \in 1 .. n, i < j,
             NEW m \in Ids(fs[i].defers), NEW k \in Ids(fs[j].defers)
      PROVE  m < k
  <2>1. i \in 1 .. n - 1
    BY <1>3
  <2> QED  BY <1>1, <1>3, <2>1 DEF InOrder
<1> QED  BY <1>2, <1>3 DEF InOrder

(* The actions pending in the n lowest frames.                             *)
Low(n) == UNION {Ids(frames[i].defers) : i \in 1 .. n}

LEMMA PendingNow ==
  ASSUME TypeInv, Running
  PROVE  Pending = Low(fp - 1) \cup Ids(Top.defers)
<1>1. fp \in Nat \ {0}
  BY TopType
<1>2. \A i \in 1 .. fp : i \in 1 .. fp - 1 \/ i = fp
  BY <1>1
<1>3. 1 .. fp - 1 \subseteq 1 .. fp /\ fp \in 1 .. fp
  BY <1>1
<1> QED  BY <1>2, <1>3 DEF Pending, Low, Top

LEMMA PendingNext ==
  ASSUME NEW n \in Nat, Kept(n)
  PROVE  /\ fp' = n => Pending' = Low(n)
         /\ fp' = n + 1 => Pending' = Low(n) \cup Ids(frames'[n + 1].defers)
         /\ fp' = n + 2 => Pending' = Low(n) \cup Ids(frames'[n + 1].defers)
                                              \cup Ids(frames'[n + 2].defers)
<1>1. \A i \in 1 .. n : Ids(frames'[i].defers) = Ids(frames[i].defers)
  BY DEF Kept
<1>2. ASSUME fp' = n  PROVE Pending' = Low(n)
  <2>1. Pending' = UNION {Ids(frames'[i].defers) : i \in 1 .. n}
    BY <1>2 DEF Pending, Ids
  <2> QED  BY <1>1, <2>1 DEF Low
<1>3. ASSUME fp' = n + 1  PROVE Pending' = Low(n) \cup Ids(frames'[n + 1].defers)
  <2>1. \A i \in 1 .. n + 1 : i \in 1 .. n \/ i = n + 1
    OBVIOUS
  <2>2. 1 .. n \subseteq 1 .. n + 1 /\ n + 1 \in 1 .. n + 1
    OBVIOUS
  <2>3. Pending' = UNION {Ids(frames'[i].defers) : i \in 1 .. n + 1}
    BY <1>3 DEF Pending, Ids
  <2> QED  BY <1>1, <2>1, <2>2, <2>3 DEF Low
<1>4. ASSUME fp' = n + 2
      PROVE  Pending' = Low(n) \cup Ids(frames'[n + 1].defers) \cup Ids(frames'[n + 2].defers)
  <2>1. \A i \in 1 .. n + 2 : i \in 1 .. n \/ i = n + 1 \/ i = n + 2
    OBVIOUS
  <2>2. 1 .. n \subseteq 1 .. n + 2 /\ n + 1 \in 1 .. n + 2 /\ n + 2 \in 1 .. n + 2
    OBVIOUS
  <2>3. Pending' = UNION {Ids(frames'[i].defers) : i \in 1 .. n + 2}
    BY <1>4 DEF Pending, Ids
  <2> QED  BY <1>1, <2>1, <2>2, <2>3 DEF Low
<1> QED  BY <1>2, <1>3, <1>4

(* A panic is never taken back, nothing is cut short without one, and a    *)
(* step that ends the program normally raises none.                        *)
LEMMA PanicStep ==
  ASSUME TypeInv, Next
  PROVE  /\ panicking => panicking'
         /\ ~panicking => cut' = cut
         /\ outcome' = "ok" => panicking' = panicking
<1>1. Running
  BY StepKind
<1>2. CASE Panic
  BY <1>1, <1>2 DEF Panic, Crash, Stop, Running
<1>3. CASE Unwind
  BY <1>3 DEF Unwind, Forced
<1>4. ASSUME ~Panic, ~Unwind  PROVE panicking' = panicking /\ cut' = cut
  BY <1>4 DEF Next, PushValue, PopValue, Call, CallNative, Defer, RuntimeError, Return,
         ReturnVoid, UnwrapErr, Resume, Fail, Crash, Stop
<1> QED  BY <1>2, <1>3, <1>4

LEMMA DeferStep ==
  ASSUME DeferInv, Next
  PROVE  DeferOrder' /\ DeferAccounting' /\ NormalEndComplete' /\ CutByPanic'
<1>1. TypeInv /\ Running /\ fp \in Nat \ {0} /\ InOrder(frames, fp) /\ registered \in Nat
  <2>1. TypeInv /\ Running
    BY StepKind DEF DeferInv
  <2> QED  BY <2>1, TopType, OrderIsInOrder DEF DeferInv, TypeInv, TypeOK
<1>2. /\ Pending \cap begun = {} /\ Pending \cup begun = 1 .. registered
      /\ Pending = Low(fp - 1) \cup Ids(Top.defers)
  BY <1>1, PendingNow DEF DeferInv, DeferAccounting
<1>3. fp - 1 \in Nat /\ (fp - 1) + 1 = fp /\ (fp - 1) + 2 = fp + 1
      /\ Top.defers = frames[fp].defers /\ Top.defers \in Seq(DeferAction)
  <2>1. fp \in 1 .. fp
    BY <1>1
  <2> QED  BY <1>1, <2>1, DefersType DEF Top
<1>4. CutByPanic'
  BY <1>1, PanicStep DEF DeferInv, CutByPanic
<1>5. outcome' # "ok" => NormalEndComplete'
  BY DEF NormalEndComplete
<1>6. InOrder(frames, fp - 1)
  BY <1>1, LowerOrder
<1>7. InOrder(frames', fp') => DeferOrder'
  BY DEF DeferOrder, InOrder, Ids
<1>8. CASE Quiet
  <2>1. /\ fp' = fp /\ Kept(fp) /\ registered' = registered /\ begun' = begun
        /\ outcome' # "ok"
    BY <1>8 DEF Quiet
  <2>2. Pending' = Low(fp) /\ Pending = Low(fp)
    BY <1>1, <2>1, PendingNext DEF Pending, Low
  <2>3. DeferAccounting'
    BY <1>2, <2>1, <2>2 DEF DeferAccounting
  <2>4. InOrder(frames', fp')
    BY <1>1, <2>1, KeepOrder
  <2> QED  BY <1>4, <1>5, <1>7, <2>1, <2>3, <2>4
<1>9. CASE Entering
  <2>1. /\ fp' = fp + 1 /\ Kept(fp) /\ frames'[fp + 1].defers = <<>>
        /\ registered' = registered /\ begun' = begun /\ outcome' # "ok"
    BY <1>9 DEF Entering
  <2>2. Pending' = Low(fp) \cup Ids(<<>>) /\ Pending = Low(fp)
    BY <1>1, <2>1, PendingNext DEF Pending, Low
  <2>3. DeferAccounting'
    BY <1>2, <2>1, <2>2, IdsOfNone DEF DeferAccounting
  <2>4. InOrder(frames', fp)
    BY <1>1, <2>1, KeepOrder
  <2>5. fp + 1 \in Nat \ {0} /\ (fp + 1) - 1 = fp
    BY <1>1
  <2>6. Len(frames'[fp + 1].defers) = 0 /\ Ids(frames'[fp + 1].defers) = {}
    BY <2>1, IdsOfNone
  <2>7. InOrder(frames', fp + 1)
    BY <2>4, <2>5, <2>6, HigherOrder
  <2> QED  BY <1>4, <1>5, <1>7, <2>1, <2>3, <2>7
<1>10. CASE Deferring
  <2>1. /\ fp' = fp /\ Kept(fp - 1)
        /\ registered' = registered + 1 /\ begun' = begun /\ outcome' # "ok"
    BY <1>10 DEF Deferring
  <2>2. PICK a \in DeferAction :
          a.id = registered + 1 /\ frames'[fp].defers = Append(Top.defers, a)
    BY <1>10 DEF Deferring
  <2> DEFINE s == Top.defers
             t == Append(s, a)
  <2>3. Ids(t) = Ids(s) \cup {registered + 1}
    BY <1>3, <2>2, IdsOfAppend
  <2>4. Pending' = Pending \cup {registered + 1}
    <3>1. Pending' = Low(fp - 1) \cup Ids(t)
      BY <1>3, <2>1, <2>2, PendingNext
    <3> QED  BY <1>2, <2>3, <3>1
  <2>5. 1 .. registered' = (1 .. registered) \cup {registered + 1}
        /\ registered + 1 \notin 1 .. registered
    BY <1>1, <2>1
  <2>6. DeferAccounting'
    BY <1>2, <2>1, <2>4, <2>5 DEF DeferAccounting
  <2>7. InOrder(frames', fp - 1)
    BY <1>3, <1>6, <2>1, KeepOrder
  <2>8. /\ Len(t) = Len(s) + 1 /\ Len(s) \in Nat /\ t[Len(s) + 1] = a
        /\ \A i \in 1 .. Len(s) : t[i] = s[i]
    BY <1>3, AppendProperties
  <2>9. \A m \in Pending : m < registered + 1
    BY <1>1, <1>2
  <2>10. ASSUME NEW j \in 1 .. Len(t), NEW k \in 1 .. Len(t), j < k
         PROVE  t[j].id < t[k].id
    <3>1. j \in 1 .. Len(s) /\ (k \in 1 .. Len(s) \/ k = Len(s) + 1)
      BY <2>8, <2>10
    <3>2. CASE k \in 1 .. Len(s)
      <4>1. fp \in 1 .. fp
        BY <1>1
      <4> QED  BY <1>1, <1>3, <2>8, <2>10, <3>1, <3>2, <4>1 DEF InOrder
    <3>3. CASE k = Len(s) + 1
      <4>1. s[j].id \in Ids(s)
        BY <3>1 DEF Ids
      <4> QED  BY <1>2, <2>2, <2>8, <2>9, <3>1, <3>3, <4>1
    <3> QED  BY <3>1, <3>2, <3>3
  <2>11. ASSUME NEW i \in 1 .. fp - 1, NEW m \in Ids(frames'[i].defers), NEW k \in Ids(t)
         PROVE  m < k
    <3>1. m \in Ids(frames[i].defers)
      BY <2>1, <2>11 DEF Kept
    <3>2. m \in Pending
      BY <1>2, <3>1 DEF Low
    <3>3. CASE k = registered + 1
      BY <2>9, <3>2, <3>3
    <3>4. CASE k \in Ids(s)
      <4>1. i \in 1 .. fp /\ fp \in 1 .. fp /\ i < fp
        BY <1>1
      <4> QED  BY <1>1, <1>3, <3>1, <3>4, <4>1 DEF InOrder
    <3> QED  BY <2>3, <3>3, <3>4
  <2> HIDE DEF t, s
  <2>12. frames'[fp].defers = t
    BY <2>2 DEF t, s
  <2>13. InOrder(frames', fp)
    BY <1>1, <2>7, <2>10, <2>11, <2>12, HigherOrder
  <2> QED  BY <1>4, <1>5, <1>7, <2>1, <2>6, <2>13
<1>11. ASSUME Top.defers # <<>>, Kept(fp - 1), frames'[fp].defers = FrontOf(Top.defers)
       PROVE  /\ InOrder(frames', fp)
              /\ Pending = Low(fp - 1) \cup Ids(FrontOf(Top.defers)) \cup {LastOf(Top.defers).id}
              /\ \A m \in Low(fp - 1) \cup Ids(FrontOf(Top.defers)) : m < LastOf(Top.defers).id
              /\ LastOf(Top.defers).id \in Nat
              /\ fp' = fp => Pending' = Low(fp - 1) \cup Ids(FrontOf(Top.defers))
              /\ fp' = fp + 1 /\ frames'[fp + 1].defers = <<>> =>
                   Pending' = Low(fp - 1) \cup Ids(FrontOf(Top.defers))
  <2> DEFINE s == Top.defers
             y == LastOf(s).id
  <2>1. /\ \A m \in Ids(FrontOf(s)) : m < y
        /\ \A i \in 1 .. fp - 1 : \A m \in Ids(frames[i].defers) : m < y
        /\ Ids(s) = Ids(FrontOf(s)) \cup {y}
    BY <1>1, <1>11, LastIsYoungest
  <2>2. /\ Len(s) \in Nat \ {0} /\ Len(FrontOf(s)) = Len(s) - 1
        /\ \A i \in 1 .. Len(s) - 1 : FrontOf(s)[i] = s[i]
    BY <1>3, <1>11, IdsOfFront
  <2>3. InOrder(frames', fp - 1)
    BY <1>3, <1>6, <1>11, KeepOrder
  <2>4. fp \in 1 .. fp /\ 1 .. Len(s) - 1 \subseteq 1 .. Len(s)
        /\ \A i \in 1 .. fp - 1 : i \in 1 .. fp /\ i < fp
    BY <1>1, <2>2
  <2>5. \A j, k \in 1 .. Len(FrontOf(s)) : j < k => FrontOf(s)[j].id < FrontOf(s)[k].id
    BY <1>1, <1>3, <2>2, <2>4, ZenonT(60) DEF InOrder
  <2>6. ASSUME NEW i \in 1 .. fp - 1, NEW m \in Ids(frames'[i].defers), NEW k \in Ids(FrontOf(s))
        PROVE  m < k
    <3>1. m \in Ids(frames[i].defers) /\ k \in Ids(s)
      BY <1>11, <2>1, <2>6 DEF Kept
    <3> QED  BY <1>1, <1>3, <2>4, <3>1 DEF InOrder
  <2>7. InOrder(frames', fp)
    BY <1>1, <1>11, <2>3, <2>5, <2>6, HigherOrder
  <2>8. Pending = Low(fp - 1) \cup Ids(FrontOf(s)) \cup {y}
    BY <1>2, <2>1
  <2>9. \A m \in Low(fp - 1) \cup Ids(FrontOf(s)) : m < y
    BY <2>1 DEF Low
  <2>10. y \in Nat
    <3>1. s[Len(s)] \in DeferAction
      BY <1>3, <2>2
    <3>2. y \in 1 .. MaxDefers /\ MaxDefers \in Nat
      BY <3>1, ConstantsAssumption DEF LastOf, DeferAction
    <3> QED  BY <3>2
  <2>11. fp' = fp => Pending' = Low(fp - 1) \cup Ids(FrontOf(s))
    BY <1>3, <1>11, PendingNext
  <2>12. fp' = fp + 1 /\ frames'[fp + 1].defers = <<>> =>
           Pending' = Low(fp - 1) \cup Ids(FrontOf(s))
    BY <1>3, <1>11, PendingNext, IdsOfNone
  <2> QED  BY <2>7, <2>8, <2>9, <2>10, <2>11, <2>12
<1>12. CASE Taking
  <2> DEFINE y == LastOf(Top.defers).id
             R == Low(fp - 1) \cup Ids(FrontOf(Top.defers))
  <2>1. /\ Top.defers # <<>> /\ Kept(fp - 1) /\ frames'[fp].defers = FrontOf(Top.defers)
        /\ begun' = begun \cup {y} /\ registered' = registered /\ outcome' # "ok"
        /\ fp' = fp \/ (fp' = fp + 1 /\ frames'[fp + 1].defers = <<>>)
    BY <1>12 DEF Taking
  <2>2. /\ InOrder(frames', fp) /\ Pending = R \cup {y} /\ Pending' = R
        /\ \A m \in R : m < y
        /\ y \in Nat
    BY <1>11, <2>1
  <2>3. y \notin R
    BY <2>2
  <2>4. DeferAccounting'
    BY <1>2, <2>1, <2>2, <2>3 DEF DeferAccounting
  <2>5. InOrder(frames', fp')
    <3>1. CASE fp' = fp
      BY <2>2, <3>1
    <3>2. CASE fp' = fp + 1 /\ frames'[fp + 1].defers = <<>>
      <4>1. fp + 1 \in Nat \ {0} /\ (fp + 1) - 1 = fp
        BY <1>1
      <4>2. Len(frames'[fp + 1].defers) = 0 /\ Ids(frames'[fp + 1].defers) = {}
        BY <3>2, IdsOfNone
      <4> QED  BY <2>2, <3>2, <4>1, <4>2, HigherOrder
    <3> QED  BY <2>1, <3>1, <3>2
  <2> QED  BY <1>4, <1>5, <1>7, <2>1, <2>4, <2>5
<1>13. CASE Failing
  <2>1. /\ Top.defers # <<>> /\ Kept(fp - 1) /\ frames'[fp].defers = FrontOf(Top.defers)
        /\ begun' = begun /\ registered' = registered /\ outcome' = "error" /\ fp' = fp
    BY <1>13 DEF Failing
  <2>2. InOrder(frames', fp) /\ Pending' \subseteq Pending
    BY <1>11, <2>1
  <2>3. DeferAccounting'
    BY <1>2, <2>1, <2>2 DEF DeferAccounting, Running
  <2> QED  BY <1>4, <1>5, <1>7, <2>1, <2>2, <2>3
<1>14. CASE Leaving
  <2>1. /\ Top.defers = <<>> /\ fp' = fp - 1 /\ Kept(fp - 1)
        /\ registered' = registered /\ begun' = begun
        /\ outcome' = IF fp > 1 THEN "running" ELSE IF panicking THEN "panic" ELSE "ok"
    BY <1>14 DEF Leaving
  <2>2. Pending' = Low(fp - 1) /\ Pending = Low(fp - 1)
    BY <1>2, <1>3, <2>1, PendingNext, IdsOfNone
  <2>3. DeferAccounting'
    BY <1>2, <2>1, <2>2 DEF DeferAccounting
  <2>4. InOrder(frames', fp')
    BY <1>3, <1>6, <2>1, KeepOrder
  <2>5. NormalEndComplete'
    <3>1. SUFFICES ASSUME outcome' = "ok"  PROVE NormalEndComplete'
      BY <1>5
    <3>2. ~panicking /\ ~(fp > 1)
      BY <2>1, <3>1
    <3>3. fp - 1 = 0
      BY <1>1, <3>2
    <3>4. Pending = {}
      BY <2>2, <3>3 DEF Low
    <3>5. cut' = {} /\ panicking' = panicking
      BY <1>1, <3>1, <3>2, PanicStep DEF DeferInv, CutByPanic
    <3> QED  BY <1>2, <2>1, <3>2, <3>4, <3>5 DEF NormalEndComplete
  <2> QED  BY <1>4, <1>7, <2>3, <2>4, <2>5
<1> QED  BY <1>1, <1>8, <1>9, <1>10, <1>12, <1>13, <1>14, StepKind

LEMMA DeferInit ==
  ASSUME Init
  PROVE  DeferInv
<1>1. TypeInv
  BY TypeInit
<1>2. /\ fp = 1 /\ registered = 0 /\ begun = {} /\ cut = {} /\ outcome = "running"
  BY DEF Init
<1>3. frames[1].defers = <<>>
  <2>1. 1 \in Depths
    BY ConstantsAssumption DEF Depths
  <2>2. PICK argc \in ArgCounts, traced \in TraceFlags : Start(argc, traced)
    BY DEF Init
  <2>3. frames[1] = NewFrame(0, argc, FALSE, 0, traced)
    BY <2>1, <2>2 DEF Start
  <2> QED  BY <2>3 DEF NewFrame
<1>4. \A i \in 1 .. fp : i = 1
  BY <1>2
<1>5. \A i \in 1 .. fp : Len(frames[i].defers) = 0 /\ Ids(frames[i].defers) = {}
  BY <1>3, <1>4, IdsOfNone
<1>6. DeferOrder
  BY <1>5 DEF DeferOrder
<1>7. Pending = {} /\ 1 .. registered = {}
  BY <1>2, <1>5 DEF Pending
<1>8. DeferAccounting
  BY <1>2, <1>7 DEF DeferAccounting
<1> QED  BY <1>1, <1>2, <1>6, <1>8 DEF DeferInv, CutByPanic, NormalEndComplete

(* The accounting of deferred actions is inductive.                        *)
THEOREM DeferInvHolds == Spec => []DeferInv
<1>1. Init => DeferInv
  BY DeferInit
<1>2. DeferInv /\ [Next]_vars => DeferInv'
  <2>1. ASSUME DeferInv, Next  PROVE DeferInv'
    <3>1. TypeInv'
      BY <2>1, TypeStep DEF DeferInv
    <3> QED  BY <2>1, <3>1, DeferStep DEF DeferInv
  <2>2. ASSUME DeferInv, UNCHANGED vars  PROVE DeferInv'
    <3>1. UNCHANGED <<frames, fp, sp, panicking, panicBase, outcome, opened,
                      registered, begun, cut, leaked>>
      BY <2>2 DEF vars
    <3>2. Pending' = Pending /\ Running' = Running
      BY <3>1 DEF Pending, Ids, Running
    <3>3. TypeInv'
      BY <2>2, <3>1, <3>2 DEF DeferInv, TypeInv, TypeOK, CalleeSlot, HasFrame
    <3>4. DeferOrder'
      BY <2>2, <3>1 DEF DeferInv, DeferOrder, Ids
    <3>5. DeferAccounting' /\ CutByPanic' /\ NormalEndComplete'
      BY <2>2, <3>1, <3>2 DEF DeferInv, DeferAccounting, CutByPanic, NormalEndComplete
    <3> QED  BY <3>3, <3>4, <3>5 DEF DeferInv
  <2> QED  BY <2>1, <2>2
<1> QED  BY <1>1, <1>2, PTL DEF Spec

(* While the program runs every deferred action is pending in a live frame *)
(* or has begun, never both and never neither.                             *)
THEOREM DeferAccountingHolds == Spec => []DeferAccounting
<1>1. DeferInv => DeferAccounting
  BY DEF DeferInv
<1> QED  BY <1>1, DeferInvHolds, PTL

(* A normal end has run every deferred action and swallowed no panic.      *)
THEOREM NormalEndCompleteHolds == Spec => []NormalEndComplete
<1>1. DeferInv => NormalEndComplete
  BY DEF DeferInv
<1> QED  BY <1>1, DeferInvHolds, PTL

(* Deferred actions begin last in, first out along the whole thread.       *)
THEOREM LastInFirstOutHolds == Spec => LastInFirstOut
<1> DEFINE Younger == \A m \in begun' \ begun : \A n \in Pending' : n < m
<1>1. ASSUME DeferInv, Next  PROVE Younger
  <2>1. CASE Taking
    <3> DEFINE y == LastOf(Top.defers).id
    <3>1. TypeInv /\ Running
      BY <1>1, StepKind DEF DeferInv
    <3>2. /\ Top.defers # <<>> /\ Kept(fp - 1) /\ frames'[fp].defers = FrontOf(Top.defers)
          /\ begun' = begun \cup {y}
          /\ fp' = fp \/ (fp' = fp + 1 /\ frames'[fp + 1].defers = <<>>)
      BY <2>1 DEF Taking
    <3>3. fp - 1 \in Nat /\ (fp - 1) + 1 = fp /\ (fp - 1) + 2 = fp + 1
      BY <3>1, TopType
    <3>4. Pending' = Low(fp - 1) \cup Ids(FrontOf(Top.defers))
      BY <3>2, <3>3, PendingNext, IdsOfNone
    <3>5. \A n \in Pending' : n < y
      BY <1>1, <3>1, <3>2, <3>4, LastIsYoungest DEF Low
    <3> QED  BY <3>2, <3>5
  <2>2. CASE ~Taking
    <3>1. begun' = begun
      BY <1>1, <2>2, StepKind DEF DeferInv, Quiet, Entering, Deferring, Failing, Leaving
    <3> QED  BY <3>1
  <2> QED  BY <2>1, <2>2
<1>2. ASSUME DeferInv, [Next]_vars  PROVE [Younger]_vars
  BY <1>1, <1>2
<1> QED  BY <1>2, DeferInvHolds, PTL DEF Spec, LastInFirstOut

-----------------------------------------------------------------------------
(* The frames of BakFrames implement DeferStack.                           *)

IdSeq(s)    == [k \in 1 .. Len(s) |-> s[k].id]
Acts(fs, n) == [i \in 1 .. n |-> IdSeq(fs[i].defers)]
Typed(fs, n) == \A i \in 1 .. n : fs[i].defers \in Seq(DeferAction)

-----------------------------------------------------------------------------
(* The numbers of a sequence of actions.                                   *)

LEMMA IdSeqType ==
  ASSUME NEW s \in Seq(DeferAction)
  PROVE  /\ IdSeq(s) \in Seq(Nat) /\ Len(IdSeq(s)) = Len(s) /\ Len(s) \in Nat
         /\ \A k \in 1 .. Len(s) : IdSeq(s)[k] = s[k].id /\ s[k].id \in Nat
<1>1. Len(s) \in Nat /\ \A k \in 1 .. Len(s) : s[k] \in DeferAction
  OBVIOUS
<1>2. \A k \in 1 .. Len(s) : s[k].id \in Nat
  <2>1. \A a \in DeferAction : a.id \in Nat
    BY ConstantsAssumption DEF DeferAction
  <2> QED  BY <1>1, <2>1
<1>3. IdSeq(s) \in [1 .. Len(s) -> Nat]
  BY <1>2 DEF IdSeq
<1>4. \A k \in 1 .. Len(s) : IdSeq(s)[k] = s[k].id
  BY DEF IdSeq
<1> QED  BY <1>1, <1>2, <1>3, <1>4

LEMMA IdSeqAppend ==
  ASSUME NEW s \in Seq(DeferAction), NEW a \in DeferAction
  PROVE  IdSeq(Append(s, a)) = Append(IdSeq(s), a.id)
<1> DEFINE t == Append(s, a)
           u == Append(IdSeq(s), a.id)
<1>1. /\ t \in Seq(DeferAction) /\ Len(t) = Len(s) + 1 /\ t[Len(s) + 1] = a
      /\ \A k \in 1 .. Len(s) : t[k] = s[k]
  BY AppendProperties
<1>2. /\ IdSeq(s) \in Seq(Nat) /\ Len(IdSeq(s)) = Len(s) /\ Len(s) \in Nat
      /\ \A k \in 1 .. Len(s) : IdSeq(s)[k] = s[k].id
  BY IdSeqType
<1>3. a.id \in Nat
  BY ConstantsAssumption DEF DeferAction
<1>4. /\ u \in Seq(Nat) /\ Len(u) = Len(s) + 1 /\ u[Len(s) + 1] = a.id
      /\ \A k \in 1 .. Len(s) : u[k] = IdSeq(s)[k]
  BY <1>2, <1>3, AppendProperties
<1> HIDE DEF t, u
<1>5. /\ IdSeq(t) \in Seq(Nat) /\ Len(IdSeq(t)) = Len(s) + 1
      /\ \A k \in 1 .. Len(s) + 1 : IdSeq(t)[k] = t[k].id
  BY <1>1, IdSeqType
<1>6. \A k \in 1 .. Len(s) + 1 : k \in 1 .. Len(s) \/ k = Len(s) + 1
  BY <1>2
<1>7. \A k \in 1 .. Len(s) + 1 : IdSeq(t)[k] = u[k]
  BY <1>1, <1>2, <1>4, <1>5, <1>6
<1>8. IdSeq(t) = u
  BY <1>4, <1>5, <1>7, SeqEqual
<1> QED  BY <1>8 DEF t, u

LEMMA IdSeqFront ==
  ASSUME NEW s \in Seq(DeferAction), s # <<>>
  PROVE  /\ IdSeq(s) # <<>>
         /\ IdSeq(FrontOf(s)) = SubSeq(IdSeq(s), 1, Len(IdSeq(s)) - 1)
<1>1. /\ FrontOf(s) \in Seq(DeferAction) /\ Len(FrontOf(s)) = Len(s) - 1
      /\ Len(s) \in Nat \ {0}
      /\ \A k \in 1 .. Len(s) - 1 : FrontOf(s)[k] = s[k]
  BY IdsOfFront
<1>2. /\ IdSeq(s) \in Seq(Nat) /\ Len(IdSeq(s)) = Len(s)
      /\ \A k \in 1 .. Len(s) : IdSeq(s)[k] = s[k].id
  BY IdSeqType
<1>3. IdSeq(s) # <<>>
  BY <1>1, <1>2
<1> DEFINE u == SubSeq(IdSeq(s), 1, Len(IdSeq(s)) - 1)
<1>4. /\ u \in Seq(Nat) /\ Len(u) = Len(s) - 1
      /\ \A k \in 1 .. Len(s) - 1 : u[k] = IdSeq(s)[k]
  BY <1>2, <1>3, PoppedSeq
<1> HIDE DEF u
<1>5. /\ IdSeq(FrontOf(s)) \in Seq(Nat) /\ Len(IdSeq(FrontOf(s))) = Len(s) - 1
      /\ \A k \in 1 .. Len(s) - 1 : IdSeq(FrontOf(s))[k] = FrontOf(s)[k].id
  BY <1>1, IdSeqType
<1>6. \A k \in 1 .. Len(s) - 1 : k \in 1 .. Len(s)
  BY <1>1
<1>7. \A k \in 1 .. Len(s) - 1 : IdSeq(FrontOf(s))[k] = u[k]
  BY <1>1, <1>2, <1>4, <1>5, <1>6
<1>8. IdSeq(FrontOf(s)) = u
  BY <1>4, <1>5, <1>7, SeqEqual
<1> QED  BY <1>3, <1>8 DEF u

LEMMA IdSeqNone == IdSeq(<<>>) = <<>>
<1>1. <<>> \in Seq(DeferAction) /\ Len(<<>>) = 0
  OBVIOUS
<1>2. IdSeq(<<>>) \in Seq(Nat) /\ Len(IdSeq(<<>>)) = 0
  BY <1>1, IdSeqType
<1> QED  BY <1>2

-----------------------------------------------------------------------------
(* The activations of n frames.                                            *)

LEMMA ActsType ==
  ASSUME NEW fs, NEW n \in Nat, Typed(fs, n)
  PROVE  /\ Acts(fs, n) \in Seq(Seq(Nat)) /\ Len(Acts(fs, n)) = n
         /\ \A i \in 1 .. n : Acts(fs, n)[i] = IdSeq(fs[i].defers)
<1>1. \A i \in 1 .. n : IdSeq(fs[i].defers) \in Seq(Nat)
  BY IdSeqType DEF Typed
<1>2. Acts(fs, n) \in [1 .. n -> Seq(Nat)]
  BY <1>1 DEF Acts
<1>3. \A i \in 1 .. n : Acts(fs, n)[i] = IdSeq(fs[i].defers)
  BY DEF Acts
<1> QED  BY <1>2, <1>3

LEMMA ActsKept ==
  ASSUME NEW n \in Nat, Kept(n)
  PROVE  Acts(frames', n) = Acts(frames, n)
BY DEF Kept, Acts, IdSeq

(* The top activation changes.                                             *)
LEMMA ActsReplace ==
  ASSUME NEW n \in Nat \ {0}, Kept(n - 1), Typed(frames, n), Typed(frames', n)
  PROVE  Acts(frames', n) = [Acts(frames, n) EXCEPT ![n] = IdSeq(frames'[n].defers)]
<1> DEFINE r == IdSeq(frames'[n].defers)
           u == [Acts(frames, n) EXCEPT ![n] = r]
<1>1. /\ Acts(frames, n) \in Seq(Seq(Nat)) /\ Len(Acts(frames, n)) = n
      /\ \A i \in 1 .. n : Acts(frames, n)[i] = IdSeq(frames[i].defers)
  BY ActsType
<1>2. /\ Acts(frames', n) \in Seq(Seq(Nat)) /\ Len(Acts(frames', n)) = n
      /\ \A i \in 1 .. n : Acts(frames', n)[i] = IdSeq(frames'[i].defers)
  BY ActsType
<1>3. n \in 1 .. n /\ \A i \in 1 .. n : i \in 1 .. n - 1 \/ i = n
  OBVIOUS
<1>4. r \in Seq(Nat)
  BY <1>3, IdSeqType DEF Typed
<1> HIDE DEF r
<1>5. u \in Seq(Seq(Nat)) /\ Len(u) = n
  BY <1>1, <1>3, <1>4, ExceptSeq
<1>6. \A i \in 1 .. n : u[i] = IF i = n THEN r ELSE Acts(frames, n)[i]
  BY <1>1, <1>3, <1>4
<1> HIDE DEF u
<1>7. \A i \in 1 .. n - 1 : frames'[i].defers = frames[i].defers
  BY DEF Kept
<1>8. ASSUME NEW i \in 1 .. n  PROVE Acts(frames', n)[i] = u[i]
  <2>1. CASE i = n
    BY <1>2, <1>6, <2>1 DEF r
  <2>2. CASE i # n
    <3>1. frames'[i].defers = frames[i].defers
      BY <1>3, <1>7, <2>2
    <3> QED  BY <1>1, <1>2, <1>6, <2>2, <3>1
  <2> QED  BY <2>1, <2>2
<1>9. Acts(frames', n) = u
  BY <1>2, <1>5, <1>8, SeqEqual
<1> QED  BY <1>9 DEF u, r

(* An activation without pending actions is entered.                       *)
LEMMA ActsEnter ==
  ASSUME NEW fs, NEW n \in Nat, Typed(fs, n + 1), fs[n + 1].defers = <<>>
  PROVE  Acts(fs, n + 1) = Append(Acts(fs, n), <<>>)
<1> DEFINE u == Append(Acts(fs, n), <<>>)
<1>1. \A i \in 1 .. n : i \in 1 .. n + 1
  OBVIOUS
<1>2. /\ Acts(fs, n) \in Seq(Seq(Nat)) /\ Len(Acts(fs, n)) = n
      /\ \A i \in 1 .. n : Acts(fs, n)[i] = IdSeq(fs[i].defers)
  BY <1>1, ActsType DEF Typed
<1>3. /\ Acts(fs, n + 1) \in Seq(Seq(Nat)) /\ Len(Acts(fs, n + 1)) = n + 1
      /\ \A i \in 1 .. n + 1 : Acts(fs, n + 1)[i] = IdSeq(fs[i].defers)
  <2>1. n + 1 \in Nat
    OBVIOUS
  <2> QED  BY <2>1, ActsType
<1>4. <<>> \in Seq(Nat)
  OBVIOUS
<1>5. /\ u \in Seq(Seq(Nat)) /\ Len(u) = n + 1 /\ u[n + 1] = <<>>
      /\ \A i \in 1 .. n : u[i] = Acts(fs, n)[i]
  BY <1>2, <1>4, AppendProperties
<1> HIDE DEF u
<1>6. \A i \in 1 .. n + 1 : i \in 1 .. n \/ i = n + 1
  OBVIOUS
<1>7. Acts(fs, n + 1)[n + 1] = <<>>
  <2>1. n + 1 \in 1 .. n + 1
    OBVIOUS
  <2> QED  BY <1>3, <2>1, IdSeqNone
<1>8. \A i \in 1 .. n + 1 : Acts(fs, n + 1)[i] = u[i]
  BY <1>1, <1>2, <1>3, <1>5, <1>6, <1>7
<1>9. Acts(fs, n + 1) = u
  BY <1>3, <1>5, <1>8, SeqEqual
<1> QED  BY <1>9 DEF u

(* The top activation is left.                                             *)
LEMMA ActsLeave ==
  ASSUME NEW n \in Nat \ {0}, Typed(frames, n)
  PROVE  Acts(frames, n - 1) = SubSeq(Acts(frames, n), 1, n - 1)
<1> DEFINE u == SubSeq(Acts(frames, n), 1, n - 1)
<1>1. \A i \in 1 .. n - 1 : i \in 1 .. n
  OBVIOUS
<1>2. /\ Acts(frames, n) \in Seq(Seq(Nat)) /\ Len(Acts(frames, n)) = n
      /\ \A i \in 1 .. n : Acts(frames, n)[i] = IdSeq(frames[i].defers)
  BY ActsType
<1>3. /\ Acts(frames, n - 1) \in Seq(Seq(Nat)) /\ Len(Acts(frames, n - 1)) = n - 1
      /\ \A i \in 1 .. n - 1 : Acts(frames, n - 1)[i] = IdSeq(frames[i].defers)
  <2>1. n - 1 \in Nat
    OBVIOUS
  <2>2. Typed(frames, n - 1)
    BY <1>1 DEF Typed
  <2> QED  BY <2>1, <2>2, ActsType
<1>4. /\ u \in Seq(Seq(Nat)) /\ Len(u) = n - 1
      /\ \A i \in 1 .. n - 1 : u[i] = Acts(frames, n)[i]
  <2>1. n - 1 \in Nat /\ n - 1 <= Len(Acts(frames, n))
    BY <1>2
  <2> QED  BY <1>2, <2>1, PrefixSeq
<1> HIDE DEF u
<1>5. \A i \in 1 .. n - 1 : Acts(frames, n - 1)[i] = u[i]
  BY <1>1, <1>2, <1>3, <1>4
<1>6. Acts(frames, n - 1) = u
  BY <1>3, <1>4, <1>5, SeqEqual
<1> QED  BY <1>6 DEF u

-----------------------------------------------------------------------------
(* Every step is one of the abstract stack, or changes nothing of it.      *)

LEMMA ActivationsAre == Activations = Acts(frames, fp)
BY DEF Activations, Acts, IdSeq

LEMMA ActivationsNext == Activations' = Acts(frames', fp')
BY DEF Activations, Acts, IdSeq

LEMMA AllTyped ==
  ASSUME TypeInv
  PROVE  Typed(frames, fp) /\ fp \in Nat
<1>1. fp \in Nat
  BY ConstantsAssumption DEF TypeInv, TypeOK
<1> QED  BY <1>1, DefersType DEF Typed

LEMMA TopActivation ==
  ASSUME TypeInv, Running
  PROVE  /\ Len(Activations) = fp /\ Activations[fp] = IdSeq(Top.defers)
         /\ Top.defers \in Seq(DeferAction) /\ fp \in Nat \ {0}
         /\ Contract!Depth = fp /\ Contract!Youngest = IdSeq(Top.defers)
<1>1. fp \in Nat \ {0} /\ fp \in 1 .. fp /\ Typed(frames, fp)
  BY TopType, AllTyped
<1>2. Len(Activations) = fp /\ Activations[fp] = IdSeq(Top.defers)
  BY <1>1, ActsType, ActivationsAre DEF Top
<1>3. Top.defers \in Seq(DeferAction)
  BY <1>1 DEF Typed, Top
<1> QED  BY <1>1, <1>2, <1>3 DEF Contract!Depth, Contract!Youngest

LEMMA AbstractStep ==
  ASSUME TypeInv, TypeInv', Next
  PROVE  [Contract!Next]_(Contract!vars)
<1>1. /\ Running /\ Len(Activations) = fp
      /\ Top.defers \in Seq(DeferAction) /\ fp \in Nat \ {0}
      /\ Contract!Depth = fp /\ Contract!Youngest = IdSeq(Top.defers)
  BY StepKind, TopActivation
<1>2. /\ Typed(frames, fp) /\ Typed(frames', fp')
      /\ Activations = Acts(frames, fp) /\ Activations' = Acts(frames', fp')
  <2>1. Typed(frames', fp')
    <3>1. \A i \in 1 .. fp' : i \in Depths
      BY ConstantsAssumption DEF TypeInv, TypeOK, Depths
    <3> QED  BY <3>1 DEF Typed, TypeInv, TypeOK, CallFrame
  <2> QED  BY <2>1, AllTyped, ActivationsAre, ActivationsNext
<1>3. fp - 1 \in Nat /\ (fp - 1) + 1 = fp /\ fp + 1 \in Nat /\ (fp + 1) - 1 = fp
  BY <1>1
<1>4. CASE Quiet
  <2>1. fp' = fp /\ Kept(fp) /\ registered' = registered
    BY <1>4 DEF Quiet
  <2>2. Activations' = Activations
    BY <1>1, <1>2, <2>1, ActsKept
  <2>3. CASE Running'
    BY <1>1, <2>1, <2>2, <2>3 DEF Contract!vars
  <2>4. CASE ~Running'
    <3>1. Contract!Abort
      BY <1>1, <2>1, <2>2, <2>4 DEF Contract!Abort
    <3> QED  BY <3>1 DEF Contract!Next
  <2> QED  BY <2>3, <2>4
<1>5. CASE Entering
  <2>1. /\ fp' = fp + 1 /\ Kept(fp) /\ frames'[fp + 1].defers = <<>>
        /\ registered' = registered /\ Running'
    BY <1>5 DEF Entering, Running
  <2>2. Activations' = Append(Activations, <<>>)
    <3>1. Acts(frames', fp) = Acts(frames, fp)
      BY <1>1, <2>1, ActsKept
    <3>2. Acts(frames', fp + 1) = Append(Acts(frames', fp), <<>>)
      BY <1>1, <1>2, <2>1, ActsEnter
    <3> QED  BY <1>2, <2>1, <3>1, <3>2
  <2>3. Contract!Enter
    BY <1>1, <2>1, <2>2 DEF Contract!Enter
  <2> QED  BY <2>3 DEF Contract!Next
<1>6. CASE Deferring
  <2>1. fp' = fp /\ Kept(fp - 1) /\ registered' = registered + 1 /\ Running'
    BY <1>6 DEF Deferring, Running
  <2>2. PICK a \in DeferAction :
          a.id = registered + 1 /\ frames'[fp].defers = Append(Top.defers, a)
    BY <1>6 DEF Deferring
  <2>3. IdSeq(frames'[fp].defers) = Append(IdSeq(Top.defers), registered + 1)
    BY <1>1, <2>2, IdSeqAppend
  <2>4. Activations' = [Activations EXCEPT ![fp] = Append(IdSeq(Top.defers), registered + 1)]
    BY <1>1, <1>2, <2>1, <2>3, ActsReplace
  <2>5. Contract!Defer
    BY <1>1, <2>1, <2>4 DEF Contract!Defer, Contract!Replace
  <2> QED  BY <2>5 DEF Contract!Next
<1> DEFINE rest == [Activations EXCEPT ![fp] = SubSeq(IdSeq(Top.defers), 1,
                                                      Len(IdSeq(Top.defers)) - 1)]
<1>7. ASSUME Top.defers # <<>>, Kept(fp - 1), frames'[fp].defers = FrontOf(Top.defers),
             Typed(frames', fp)
      PROVE  Acts(frames', fp) = rest /\ IdSeq(Top.defers) # <<>>
  <2>1. /\ IdSeq(Top.defers) # <<>>
        /\ IdSeq(frames'[fp].defers)
             = SubSeq(IdSeq(Top.defers), 1, Len(IdSeq(Top.defers)) - 1)
    BY <1>1, <1>7, IdSeqFront
  <2> QED  BY <1>1, <1>2, <1>7, <2>1, ActsReplace
<1> HIDE DEF rest
<1>8. Contract!Replace(SubSeq(IdSeq(Top.defers), 1, Len(IdSeq(Top.defers)) - 1)) = rest
  BY <1>1 DEF Contract!Replace, rest
<1>9. CASE Taking
  <2>1. /\ Top.defers # <<>> /\ Kept(fp - 1) /\ frames'[fp].defers = FrontOf(Top.defers)
        /\ fp' = fp \/ (fp' = fp + 1 /\ frames'[fp + 1].defers = <<>>)
        /\ registered' = registered /\ Running'
    BY <1>9 DEF Taking, Running
  <2>2. Typed(frames', fp)
    <3>1. \A i \in 1 .. fp : i \in 1 .. fp'
      BY <1>1, <2>1
    <3> QED  BY <1>2, <3>1 DEF Typed
  <2>3. Acts(frames', fp) = rest /\ IdSeq(Top.defers) # <<>>
    BY <1>7, <2>1, <2>2
  <2>4. Activations' \in {rest, Append(rest, <<>>)}
    <3>1. CASE fp' = fp
      BY <1>2, <2>3, <3>1
    <3>2. CASE fp' = fp + 1 /\ frames'[fp + 1].defers = <<>>
      <4>1. Acts(frames', fp + 1) = Append(Acts(frames', fp), <<>>)
        BY <1>1, <1>2, <3>2, ActsEnter
      <4> QED  BY <1>2, <2>3, <3>2, <4>1
    <3> QED  BY <2>1, <3>1, <3>2
  <2>5. Contract!Take
    BY <1>1, <1>8, <2>1, <2>3, <2>4 DEF Contract!Take
  <2> QED  BY <2>5 DEF Contract!Next
<1>10. CASE Failing
  <2>1. /\ Top.defers # <<>> /\ Kept(fp - 1) /\ frames'[fp].defers = FrontOf(Top.defers)
        /\ fp' = fp /\ registered' = registered /\ ~Running'
    BY <1>10 DEF Failing, Running
  <2>2. Activations' = rest /\ IdSeq(Top.defers) # <<>>
    BY <1>2, <1>7, <2>1
  <2>3. Contract!Abort
    BY <1>1, <1>8, <2>1, <2>2 DEF Contract!Abort
  <2> QED  BY <2>3 DEF Contract!Next
<1>11. CASE Leaving
  <2>1. /\ Top.defers = <<>> /\ fp' = fp - 1 /\ Kept(fp - 1) /\ registered' = registered
        /\ outcome' = IF fp > 1 THEN "running" ELSE IF panicking THEN "panic" ELSE "ok"
    BY <1>11 DEF Leaving
  <2>2. Activations' = SubSeq(Activations, 1, fp - 1)
    <3>1. Acts(frames', fp - 1) = Acts(frames, fp - 1)
      BY <1>3, <2>1, ActsKept
    <3>2. Acts(frames, fp - 1) = SubSeq(Acts(frames, fp), 1, fp - 1)
      BY <1>1, <1>2, ActsLeave
    <3> QED  BY <1>2, <2>1, <3>1, <3>2
  <2>3. ~Running' <=> fp = 1
    BY <1>1, <2>1 DEF Running
  <2>4. IdSeq(Top.defers) = <<>>
    BY <2>1, IdSeqNone
  <2>5. Contract!Leave
    BY <1>1, <2>1, <2>2, <2>3, <2>4 DEF Contract!Leave
  <2> QED  BY <2>5 DEF Contract!Next
<1> QED  BY <1>4, <1>5, <1>6, <1>9, <1>10, <1>11, StepKind

LEMMA AbstractInit ==
  ASSUME Init
  PROVE  Contract!Init
<1>1. fp = 1 /\ registered = 0 /\ Running
  BY DEF Init, Running
<1>2. frames[1].defers = <<>>
  <2>1. 1 \in Depths
    BY ConstantsAssumption DEF Depths
  <2>2. PICK argc \in ArgCounts, traced \in TraceFlags : Start(argc, traced)
    BY DEF Init
  <2>3. frames[1] = NewFrame(0, argc, FALSE, 0, traced)
    BY <2>1, <2>2 DEF Start
  <2> QED  BY <2>3 DEF NewFrame
<1>3. Typed(frames, 0 + 1)
  <2>1. \A i \in 1 .. 0 + 1 : i = 1
    OBVIOUS
  <2>2. <<>> \in Seq(DeferAction)
    OBVIOUS
  <2> QED  BY <1>2, <2>1, <2>2 DEF Typed
<1>4. Acts(frames, 0 + 1) = Append(Acts(frames, 0), <<>>)
  BY <1>2, <1>3, ActsEnter
<1>5. Acts(frames, 0) = <<>>
  <2>1. Typed(frames, 0)
    BY DEF Typed
  <2>2. Acts(frames, 0) \in Seq(Seq(Nat)) /\ Len(Acts(frames, 0)) = 0
    BY <2>1, ActsType
  <2> QED  BY <2>2
<1>6. Activations = << <<>> >>
  <2>1. 0 + 1 = 1 /\ Append(<<>>, <<>>) = << <<>> >>
    OBVIOUS
  <2>2. Activations = Acts(frames, 1)
    BY <1>1, ActivationsAre
  <2>3. Acts(frames, 1) = Append(<<>>, <<>>)
    BY <1>4, <1>5, <2>1
  <2> QED  BY <2>1, <2>2, <2>3
<1> QED  BY <1>1, <1>6 DEF Contract!Init

(* The frames implement the abstract stack of activations: whatever calls, *)
(* returns, panics, early returns and errors do, an activation ends only   *)
(* with nothing pending and only the youngest pending action is taken.     *)
THEOREM ImplementsDeferStackHolds == Spec => ImplementsDeferStack
<1>1. Init => Contract!Init
  BY AbstractInit
<1>2. TypeInv /\ TypeInv' /\ [Next]_vars => [Contract!Next]_(Contract!vars)
  <2>1. ASSUME UNCHANGED vars  PROVE UNCHANGED Contract!vars
    <3>1. UNCHANGED <<frames, fp, registered, outcome>>
      BY <2>1 DEF vars
    <3> QED  BY <3>1 DEF Contract!vars, Activations, Running
  <2> QED  BY <2>1, AbstractStep
<1> QED  BY <1>1, <1>2, TypesHold, PTL DEF Spec, ImplementsDeferStack, Contract!Spec
=============================================================================
