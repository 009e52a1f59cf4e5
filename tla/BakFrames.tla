----------------------------- MODULE BakFrames -----------------------------
(***************************************************************************)
(* The call frames of one Bak virtual machine (pkg/vm/vm.go): calls,       *)
(* returns, deferred blocks, panics, the early return of `try`, runtime    *)
(* errors and the trace events of traced functions.                        *)
(*                                                                         *)
(* The running program is left open: an executing frame performs any       *)
(* sequence of instructions that type-correct bytecode can contain.  The   *)
(* values on the operand stack are abstracted to the stack pointer.  The   *)
(* field "height" of a frame is what the compiler knows statically: the    *)
(* number of slots the frame's code believes it owns above its base.       *)
(***************************************************************************)
EXTENDS Integers, Sequences, FiniteSets

CONSTANTS
  FramesMax,   \* capacity of the frame array
  MaxHeight,   \* bound: slots a frame's code uses above its base
  MaxArgs,     \* bound: arguments of a call
  MaxDefers,   \* bound: defer statements executed in a run
  MaxScopes,   \* bound: unmatched trace events at one depth
  Tracing      \* is a tracer installed?

ASSUME ConstantsAssumption ==
  /\ FramesMax \in Nat \ {0}
  /\ MaxHeight \in Nat
  /\ MaxArgs \in Nat
  /\ MaxDefers \in Nat
  /\ MaxScopes \in Nat
  /\ Tracing \in BOOLEAN

VARIABLES
  frames,      \* vm.frames
  fp,          \* vm.fp: the number of live frames
  sp,          \* vm.sp: the height of the operand stack
  panicking,   \* vm.panicking
  panicBase,   \* vm.panicBaseFP
  outcome,     \* how the run ended, or "running"
  opened,      \* trace output: enter events without an exit, by depth
  registered,  \* number of defer statements executed; they are numbered in order
  begun,       \* deferred actions the VM has begun to execute
  cut,         \* deferred blocks ended before their first instruction
  leaked       \* has a traced activation ended without its exit event?

vars == <<frames, fp, sp, panicking, panicBase, outcome, opened,
          registered, begun, cut, leaked>>

Depths     == 1 .. FramesMax
ArgCounts  == 0 .. MaxArgs
DeferKinds == {"call", "native"}
Outcomes   == {"running", "ok", "panic", "error", "crash"}
TraceFlags == IF Tracing THEN BOOLEAN ELSE {FALSE}

(* A deferred action: a Bak function, or a native method or builtin that   *)
(* completes within the VM step that starts it.                            *)
DeferAction == [id : 1 .. MaxDefers, kind : DeferKinds, argc : ArgCounts]

CallFrame ==
  [base      : Nat,
   height    : Nat,
   defers    : Seq(DeferAction),
   started   : BOOLEAN,          \* ip > 0
   returning : BOOLEAN,
   discard   : BOOLEAN,          \* discardReturn
   deferId   : 0 .. MaxDefers,   \* the deferred action it runs, 0 for none
   scope     : BOOLEAN]          \* traceScope.active

NewFrame(base, height, discard, deferId, traced) ==
  [base |-> base, height |-> height, defers |-> <<>>, started |-> FALSE,
   returning |-> FALSE, discard |-> discard, deferId |-> deferId, scope |-> traced]

(* The content of a slot of the frame array that holds no live frame.      *)
DeadFrame == NewFrame(0, 0, FALSE, 0, FALSE)

Top        == frames[fp]
Running    == outcome = "running"
Ids(s)     == {s[i].id : i \in 1 .. Len(s)}
Pending    == UNION {Ids(frames[i].defers) : i \in 1 .. fp}

(* The check at the head of the run loop: a panic ends every frame at or   *)
(* below the depth recorded when it was raised.                            *)
Forced     == panicking /\ ~Top.returning /\ fp <= panicBase
Executing  == Running /\ ~Top.returning /\ ~Forced

(* The first frame: main has no arguments, and the function of a spawned   *)
(* thread has its arguments on the new VM's stack, without a callee.       *)
Start(argc, traced) ==
  /\ frames = [d \in Depths |->
                 IF d = 1 THEN NewFrame(0, argc, FALSE, 0, traced) ELSE DeadFrame]
  /\ sp = argc
  /\ opened = [d \in Depths |-> IF d = 1 /\ traced THEN 1 ELSE 0]

Init ==
  /\ \E argc \in ArgCounts, traced \in TraceFlags : Start(argc, traced)
  /\ fp = 1
  /\ panicking = FALSE
  /\ panicBase = 0
  /\ outcome = "running"
  /\ registered = 0
  /\ begun = {}
  /\ cut = {}
  /\ leaked = FALSE

-----------------------------------------------------------------------------
(* Trace events.                                                           *)

(* startFrameTrace for the frame at depth d.                               *)
TraceEnter(d, traced) == [opened EXCEPT ![d] = IF traced THEN @ + 1 ELSE @]

(* finishFrameTrace for the frame at depth d.                              *)
TraceExit(d) == [opened EXCEPT ![d] = IF frames[d].scope THEN @ - 1 ELSE @]

(* failActiveTraceScopes: run() returns an error, every live scope exits.  *)
TraceExitAll ==
  [d \in Depths |-> IF d <= fp /\ frames[d].scope THEN opened[d] - 1 ELSE opened[d]]

-----------------------------------------------------------------------------
(* Ends of a run other than a return from the bottom frame.                *)

Stop(result) ==
  /\ outcome' = result
  /\ UNCHANGED <<fp, sp, panicking, panicBase, registered, begun, cut, leaked>>

(* Mutant of Fail: the live trace scopes are forgotten, not closed.        *)
FailSilently == Stop("error") /\ opened' = opened
                /\ frames' = [d \in Depths |-> [frames[d] EXCEPT !.scope = FALSE]]

(* An error value returned by an instruction ends the run at once: the     *)
(* deferred actions still pending are not executed.                        *)
Fail == Stop("error") /\ opened' = TraceExitAll
        /\ frames' = [d \in Depths |-> [frames[d] EXCEPT !.scope = FALSE]]

(* A Go panic, such as pop's "stack underflow", escapes run().             *)
Crash == Stop("crash") /\ UNCHANGED <<frames, opened>>

-----------------------------------------------------------------------------
(* Leaving a frame and running its deferred actions.                       *)

(* The frame below takes over: the stack is cut back to the callee's slot  *)
(* and the result, when there is one to deliver, takes that slot.          *)
Leave(fs, delivers) ==
  /\ fp' = fp - 1
  /\ frames' = [fs EXCEPT ![fp] = DeadFrame]
  /\ IF fp = 1
       THEN /\ outcome' = IF panicking THEN "panic" ELSE "ok"
            /\ sp' = sp
       ELSE /\ outcome' = outcome
            /\ sp' = fs[fp].base - 1 + (IF delivers THEN 1 ELSE 0)

(* executeDefer for a Bak function: push it and its arguments and enter    *)
(* it with discardReturn set.                                              *)
EnterDeferred(fs, height, a) ==
  /\ a.kind = "call"
  /\ fp < FramesMax
  /\ frames' = [fs EXCEPT ![fp + 1] =
                  NewFrame(height + 1, a.argc, TRUE, a.id, FALSE)]
  /\ fp' = fp + 1
  /\ sp' = height + 1 + a.argc
  /\ begun' = begun \cup {a.id}
  /\ UNCHANGED <<outcome, opened>>

(* executeDefer for a native method or builtin.                            *)
RunNative(fs, height, a) ==
  /\ a.kind = "native"
  /\ frames' = fs
  /\ sp' = height
  /\ begun' = begun \cup {a.id}
  /\ UNCHANGED <<fp, outcome, opened>>

(* callWithFlags at the frame limit, or a failing native action.           *)
DeferredFails(fs, height, a) ==
  /\ \/ a.kind = "call" /\ fp = FramesMax
     \/ a.kind = "native"
  /\ frames' = [d \in Depths |-> [fs[d] EXCEPT !.scope = FALSE]]
  /\ sp' = height + (IF a.kind = "call" THEN 1 + a.argc ELSE 0)
  /\ outcome' = "error"
  /\ opened' = TraceExitAll
  /\ UNCHANGED <<fp, begun>>

(* The last deferred action of the top frame, and the frames without it.   *)
Youngest(fs) == fs[fp].defers[Len(fs[fp].defers)]
Popped(fs)   == [fs EXCEPT ![fp].defers = SubSeq(@, 1, Len(@) - 1)]

(* Mutant of ResumeReturn: the result of a deferred block is delivered.    *)
ResumeDelivering(fs, height) ==
  \/ /\ fs[fp].defers # <<>>
     /\ \/ EnterDeferred(Popped(fs), height, Youngest(fs))
        \/ RunNative(Popped(fs), height, Youngest(fs))
        \/ DeferredFails(Popped(fs), height, Youngest(fs))
  \/ /\ fs[fp].defers = <<>>
     /\ Leave(fs, ~panicking)
     /\ opened' = TraceExit(fp)
     /\ begun' = begun

(* resumeReturn: run the last pending deferred action of the top frame, or *)
(* leave the frame when none is left.  fs and height are the frames and    *)
(* the stack height at the call.                                           *)
ResumeReturn(fs, height) ==
  \/ /\ fs[fp].defers # <<>>
     /\ \/ EnterDeferred(Popped(fs), height, Youngest(fs))
        \/ RunNative(Popped(fs), height, Youngest(fs))
        \/ DeferredFails(Popped(fs), height, Youngest(fs))
  \/ /\ fs[fp].defers = <<>>
     /\ Leave(fs, ~fs[fp].discard /\ ~panicking)
     /\ opened' = TraceExit(fp)
     /\ begun' = begun

-----------------------------------------------------------------------------
(* Instructions of an executing frame.                                     *)

(* frames after the top frame has executed an instruction that leaves its  *)
(* code with h slots above its base.                                       *)
Stepped(h) == [frames EXCEPT ![fp].started = TRUE, ![fp].height = h]

(* OP_CONST, OP_GET_LOCAL, OP_GET_FUNC and every other net push.           *)
PushValue ==
  /\ Executing
  /\ Top.height < MaxHeight
  /\ frames' = Stepped(Top.height + 1)
  /\ sp' = sp + 1
  /\ UNCHANGED <<fp, panicking, panicBase, outcome, opened, registered, begun, cut, leaked>>

(* OP_POP, OP_SET_GLOBAL and every other net pop.                          *)
PopValue ==
  /\ Executing
  /\ Top.height > 0
  /\ IF sp = 0
       THEN Crash
       ELSE /\ frames' = Stepped(Top.height - 1)
            /\ sp' = sp - 1
            /\ UNCHANGED <<fp, panicking, panicBase, outcome, opened, registered,
                           begun, cut, leaked>>

(* OP_CALL of a Bak function: the callee's slot and its argc arguments are *)
(* replaced, when the call returns, by its result.                         *)
Call(argc, traced) ==
  /\ Executing
  /\ Top.height >= argc + 1
  /\ IF sp < argc + 1 THEN Crash
     ELSE IF fp = FramesMax THEN Fail
     ELSE /\ traced => opened[fp + 1] < MaxScopes
          /\ frames' = [Stepped(Top.height - argc) EXCEPT ![fp + 1] =
                          NewFrame(sp - argc, argc, FALSE, 0, traced)]
          /\ fp' = fp + 1
          /\ opened' = TraceEnter(fp + 1, traced)
          /\ UNCHANGED <<sp, panicking, panicBase, outcome, registered, begun, cut, leaked>>

(* OP_CALL of a builtin object, OP_CALL_METHOD of a native method.         *)
CallNative(argc) ==
  /\ Executing
  /\ Top.height >= argc + 1
  /\ IF sp < argc + 1
       THEN Crash
       ELSE /\ frames' = Stepped(Top.height - argc)
            /\ sp' = sp - argc
            /\ UNCHANGED <<fp, panicking, panicBase, outcome, opened, registered,
                           begun, cut, leaked>>

(* OP_DEFER, OP_DEFER_METHOD (argc arguments and a callee or receiver) and *)
(* OP_DEFER_BUILTIN (argc arguments only): the operands are taken now.     *)
Defer(kind, operands, argc) ==
  /\ Executing
  /\ registered < MaxDefers
  /\ operands \in IF kind = "call" THEN {argc + 1} ELSE {argc, argc + 1}
  /\ Top.height >= operands
  /\ IF sp < operands
       THEN Crash
       ELSE /\ registered' = registered + 1
            /\ frames' = [Stepped(Top.height - operands) EXCEPT ![fp].defers =
                   Append(@, [id |-> registered + 1, kind |-> kind, argc |-> argc])]
            /\ sp' = sp - operands
            /\ UNCHANGED <<fp, panicking, panicBase, outcome, opened, begun, cut, leaked>>

(* OP_PANIC.                                                               *)
Panic ==
  /\ Executing
  /\ Top.height > 0
  /\ IF sp = 0
       THEN Crash
       ELSE /\ panicking' = TRUE
            /\ panicBase' = fp
            /\ frames' = Stepped(Top.height - 1)
            /\ sp' = sp - 1
            /\ UNCHANGED <<fp, outcome, opened, registered, begun, cut, leaked>>

(* Any instruction that finds an operand it cannot work on.                *)
RuntimeError == Executing /\ Fail

(* frames once the top frame, left with h slots, is returning.             *)
Returning(h) == [Stepped(h) EXCEPT ![fp].returning = TRUE]

(* Mutant of Return: the fast path does not look at the deferred actions.  *)
ReturnFast ==
  /\ Executing
  /\ Top.height > 0
  /\ IF sp = 0
       THEN Crash
       ELSE /\ IF ~panicking
                 THEN /\ Leave(frames, ~Top.discard)
                      /\ opened' = TraceExit(fp)
                      /\ begun' = begun
                 ELSE ResumeReturn(Returning(Top.height - 1), sp - 1)
            /\ UNCHANGED <<panicking, panicBase, registered, cut, leaked>>

(* OP_RETURN: the result is taken from the stack.                          *)
Return ==
  /\ Executing
  /\ Top.height > 0
  /\ IF sp = 0
       THEN Crash
       ELSE /\ IF Top.defers = <<>> /\ ~panicking
                 THEN /\ Leave(frames, ~Top.discard)
                      /\ opened' = TraceExit(fp)
                      /\ begun' = begun
                 ELSE ResumeReturn(Returning(Top.height - 1), sp - 1)
            /\ UNCHANGED <<panicking, panicBase, registered, cut, leaked>>

(* OP_RETURN_VOID, and falling off the end of the code.                    *)
ReturnVoid ==
  /\ Executing
  /\ ResumeReturn(Returning(Top.height), sp)
  /\ UNCHANGED <<panicking, panicBase, registered, cut, leaked>>

(* OP_UNWRAP of an Err or a None: an early return of the operand.  Its     *)
(* fast path leaves the frame without finishFrameTrace.                    *)
UnwrapErr ==
  /\ Executing
  /\ Top.height > 0
  /\ IF sp = 0
       THEN Crash
       ELSE /\ IF Top.defers = <<>> /\ ~panicking
                 THEN /\ Leave(frames, ~Top.discard)
                      /\ leaked' = (leaked \/ Top.scope)
                      /\ UNCHANGED <<opened, begun>>
                 ELSE /\ ResumeReturn(Returning(Top.height - 1), sp - 1)
                      /\ leaked' = leaked
            /\ UNCHANGED <<panicking, panicBase, registered, cut>>

-----------------------------------------------------------------------------
(* Steps the run loop takes before it reads an instruction.                *)

(* A frame that is returning runs its next deferred action or is left.     *)
Resume ==
  /\ Running
  /\ Top.returning
  /\ ResumeReturn(frames, sp)
  /\ UNCHANGED <<panicking, panicBase, registered, cut, leaked>>

(* Mutant of Unwind: a panic leaves the frame at once.                     *)
UnwindAtOnce ==
  /\ Running
  /\ Forced
  /\ Leave(frames, FALSE)
  /\ opened' = TraceExit(fp)
  /\ UNCHANGED <<panicking, panicBase, registered, begun, cut, leaked>>

(* A panic makes the top frame return.                                     *)
Unwind ==
  /\ Running
  /\ Forced
  /\ cut' = IF Top.deferId > 0 /\ ~Top.started THEN cut \cup {Top.deferId} ELSE cut
  /\ ResumeReturn([frames EXCEPT ![fp].returning = TRUE], sp)
  /\ UNCHANGED <<panicking, panicBase, registered, leaked>>

Next ==
  \/ PushValue
  \/ PopValue
  \/ \E argc \in ArgCounts, traced \in TraceFlags : Call(argc, traced)
  \/ \E argc \in ArgCounts : CallNative(argc)
  \/ \E kind \in DeferKinds, operands \in 0 .. MaxArgs + 1, argc \in ArgCounts :
        Defer(kind, operands, argc)
  \/ Panic
  \/ RuntimeError
  \/ Return
  \/ ReturnVoid
  \/ UnwrapErr
  \/ Resume
  \/ Unwind

Spec == Init /\ [][Next]_vars

-----------------------------------------------------------------------------
(* What calls, returns and panics promise for deferred actions.            *)
Activations == [i \in 1 .. fp |->
                  [k \in 1 .. Len(frames[i].defers) |-> frames[i].defers[k].id]]

Contract == INSTANCE DeferStack
              WITH pending <- Activations, count <- registered, ended <- ~Running

(* Every run of the VM is a run of the abstract stack of activations.      *)
ImplementsDeferStack == Contract!Spec

(* The frame array, the stack pointer and the bookkeeping have their types. *)
TypeOK ==
  /\ frames \in [Depths -> CallFrame]
  /\ fp \in 0 .. FramesMax
  /\ sp \in Nat
  /\ panicking \in BOOLEAN
  /\ panicBase \in 0 .. FramesMax
  /\ outcome \in Outcomes
  /\ opened \in [Depths -> Int]
  /\ registered \in 0 .. MaxDefers
  /\ begun \subseteq 1 .. MaxDefers
  /\ cut \subseteq 1 .. MaxDefers
  /\ leaked \in BOOLEAN

(* The operand stack is exactly where the compiler believes it is: every   *)
(* frame sits on the slots its caller left for it, and the stack pointer   *)
(* is the top frame's base plus the slots its code owns.  Every local slot *)
(* the bytecode names depends on it.  It is claimed only while no panic    *)
(* has been raised: a call completed during a panic delivers no result, and *)
(* its deferred block goes on one slot short, down to a crash.             *)
StackDiscipline ==
  Running /\ ~panicking =>
    /\ \A i \in 1 .. fp - 1 :
         frames[i + 1].base = frames[i].base + frames[i].height
                                + (IF frames[i + 1].discard THEN 1 ELSE 0)
    /\ frames[1].base = 0
    /\ sp = Top.base + Top.height

(* Deferred actions are pending in the order in which they were deferred,  *)
(* within a frame and along the stack of frames.                           *)
DeferOrder ==
  /\ \A i \in 1 .. fp : \A j, k \in 1 .. Len(frames[i].defers) :
       j < k => frames[i].defers[j].id < frames[i].defers[k].id
  /\ \A i, j \in 1 .. fp : i < j =>
       \A m \in Ids(frames[i].defers), n \in Ids(frames[j].defers) : m < n

(* Last in, first out across the whole thread: a deferred action is begun  *)
(* only when every action still pending, in the returning frame or in any  *)
(* frame below it, was deferred earlier.                                   *)
LastInFirstOut ==
  [][\A m \in begun' \ begun : \A n \in Pending' : n < m]_vars

(* While the program runs no deferred action is lost or run twice: each    *)
(* one that was registered is either pending in a live frame or has been   *)
(* begun, never both.                                                      *)
DeferAccounting ==
  /\ Pending \cap begun = {}
  /\ Running => Pending \cup begun = 1 .. registered

(* A program that ends normally has run every block it deferred, none of   *)
(* them was cut short by a panic, and no panic was raised on the way: a    *)
(* panic cannot be swallowed by a deferred block that returns.             *)
NormalEndComplete ==
  outcome = "ok" => ~panicking /\ cut = {} /\ begun = 1 .. registered

(* The trace is balanced: at every depth the enter events without an exit  *)
(* are those of the live traced activation.  An activation left through    *)
(* the fast path of UnwrapErr is the exception: its exit is never emitted. *)
TraceBalanced ==
  ~leaked => \A d \in Depths :
               opened[d] = IF d <= fp /\ frames[d].scope THEN 1 ELSE 0

(* "panic aborts execution after running deferred blocks" (README.md): no  *)
(* deferred block is ended by the panic before its first instruction.      *)
PanicRunsDeferred == cut = {}

-----------------------------------------------------------------------------
(* The inductive invariant.                                                *)

(* A live frame above the first has a callee's slot below its base.        *)
CalleeSlot == \A i \in 2 .. fp : frames[i].base > 0

(* A running machine has a frame to run.                                   *)
HasFrame == Running => fp > 0

(* Only a panic cuts deferred blocks short.                                *)
CutByPanic == cut # {} => panicking

IInv ==
  /\ TypeOK
  /\ CalleeSlot
  /\ HasFrame
  /\ CutByPanic
  /\ StackDiscipline
  /\ DeferOrder
  /\ DeferAccounting
  /\ NormalEndComplete

=============================================================================
