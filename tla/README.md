# Bak: a verification development

TLA+ models of the Bak toolchain (`src/`), model-checked with TLC, and theorems
about them proved with TLAPS. Paths below are relative to `src/`.

Bak is a compiled language written in Go: lexer, parser, type checker with
ownership, a bytecode compiler and a stack VM with goroutine threads, a native
back end that writes machine code, a formatter, a linter and a language server.
The models are about what tests do not reach: the control of the VM's frame
stack, the threads of a program, the goroutines of the language server and of
`os.exec`, the recursion over imports, where one component's termination rests
on another's check, and the pairs of components that must agree on what a text
means: the type checker and the execution, the two code generators, the parser
and the formatter.

## 1. Inventory

| component | state | operations | what is hard | what makes it correct |
|---|---|---|---|---|
| VM frames, calls, defers, panics (`pkg/vm/vm.go`) | frame array, `fp`, `sp`, operand stack, `panicking`, `panicBaseFP`; per frame `defers`, `returning`, `discardReturn`, `traceScope` | call, return, early return of `try`, defer, panic, runtime error, unwinding | a return interleaves with the deferred blocks it starts, which call, return, defer and panic themselves; three different exits of a frame | slots stay where the compiler put them; deferred blocks run last in first out, each once; a panic is not swallowed |
| Threads (`pkg/vm/vm_builtins.go:1325-1516`) | handle tables and id counters under `mutexMu` and `cancelMu`, one `sync.Mutex` or atomic flag per handle, `thread.Done`, `thread.Err`, the globals slice | spawn, join, mutex new/lock/unlock, token new/cancel/poll, global get/set | lookup and use of a handle are two steps; read and write of a global are two instructions; `Err` and `Done` are published separately | exclusion, no lost update, joins report errors, cancellation is final, waiting ends |
| Trace runtime (`pkg/trace`) | the event stream | enter, exit | exits are emitted at several places | enter and exit events pair up |
| Language server: documents and analyses (`lsp/server_state.go`, `lsp/server_analysis.go`) | `Documents`, `AnalysisCache`, `pendingCancel`, `pendingLocks`, `watchedChanges`, `workspaceTimer` under `stateMu`; contexts and timers | didOpen, didChange, didSave, didClose, watched files, debounce timers, sweeps over affected documents, publication | every handler unlocks between its steps; timers fire while they are being replaced; a sweep works on an old snapshot; an analysis outlives its cancellation | one live analysis per document, no timer and no change on disk is lost, the last text gets its diagnostics |
| Language server: requests (`lsp/main.go`, `lsp/server_state.go:50-240`) | `activeRequests`, `canceled`, the contexts of requests | receive, start, cancel, finish, close, exit | a cancellation arrives before, while or after its request runs; ids are used again; Close works on what it took under the lock | each request is answered or was cancelled; contexts are released |
| Language server: reference index (`lsp/server_refs.go`) | reference index inside each analysis result | the walk over the workspace of references and rename, reading of files, storing of results | a request stores results beside the analyses, and may be cut off in the middle | an index that ends early is stored only after a cancellation; walks end |
| Language server: other features (`lsp/server_*.go`) | none of their own | completion, hover, code actions, ... | queries over an analysis result | |
| Package registry (`pkg/packages`) | `packages`, `ResolvedImports`, fingerprints | register, get, record import, search for cycles, invalidate | the graph is searched while it is being built | no cycle passes, no diamond is rejected |
| Type checker: imports (`pkg/typechecker/imports.go`) | a checker per package, `imports`, `importedSymbols` | check an import, load a package | recursion through the registry | errors of a package reach the program |
| Type checker: ownership (`env_ownership.go`, `infer.go`, `check_stmt.go`, `stmt_control.go`) | per environment: moved names, mutable and shared borrows | move, borrow, release, branch, loop, defer, declare again | a body is checked once, in the order of the text, with environments that see each other or not | no use after move, no mutation while borrowed, a function that must return does |
| Type checker: the rest | types and symbols | inference | functions of a tree | |
| Compiler (`pkg/compiler`) | function under construction, locals with depths, `loopStart`, `continueDest`, break and continue jumps, loop depths; loaded modules | statements, loops, jump patching, scopes, deferred blocks, import of modules, remapping of imported bytecode | each loop saves another part of the state of the loop around it; a jump leaves any number of scopes | the bytecode does what the text says, and its stack is the locals in scope |
| Native back end, statements (`pkg/backend/native/codegen.go`, `scope.go`) | scopes, slots of names, the deferred blocks seen so far | the same statements, with deferred blocks inlined at exits | names stay after their scope; what is deferred is decided by the text | the same values and the same deferred blocks as the bytecode |
| Lexer and parser (`pkg/lexer`, `pkg/parser`) | two tokens of lookahead | declarations, types, statements, expressions | lines end no statement, so where one ends depends on what follows | no part of the text is passed over |
| Formatter (`pkg/formatter`) | the output | print each kind of node | precedence tables and separators of its own, kept in step by hand | what is printed is read as the same program; nothing is dropped |
| Subprocess execution (`pkg/runtimecap/exec.go`; `pkg/backend/native/fs_os.go:1117-1645`) | an output budget shared by two captures, the deadline; in machine code slots of a frame | start, copy, watch, wait, decide; fork, poll, kill, read | two streams race for one budget, and the deadline races the exit | the budget holds, the outcome is the command's, the call returns |
| Diagnostics, prelude, object model, linter, builtins, VM methods and formatting, bytecode JSON, the rest of the native back end, command line tools, extension, scripts | | | trees and tables, input/output, or machine code | |

How they interact: `internal/pipeline` runs parser, type checker, compiler and VM
in sequence. The type checker and the native back end share the registry; the
bytecode compiler does not. VM threads share globals and handle tables. The
language server runs the same parser and checker in goroutines and shares its
state with timers and requests. `PROJECT.json` lists each component with its files
and status, and every hazard at its line.

## 2. The modules

| module | models | composes or implements | instance | proofs |
|---|---|---|---|---|
| `BakFrames` | `pkg/vm/vm.go`, frames of one VM | implements `DeferStack` | `MCBakFrames` | `BakFramesProofs` |
| `BakThreads` | `pkg/vm/vm_builtins.go`, threads | implements `ThreadContract` | `MCBakThreads` | `BakThreadsProofs` |
| `LspAnalysis` | `lsp/`, documents, analyses, sweeps | | `MCLspAnalysis` | `LspAnalysisProofs` |
| `LspRequests` | `lsp/`, requests, cancellation, reference index | | `MCLspRequests` | `LspRequestsProofs` |
| `Imports` | registry, import checking, recursive compilation | checker and compiler | `MCImports` | `ImportsProofs` |
| `Ownership` | moves and borrows in `pkg/typechecker` | checker, and execution of what it accepts | `MCOwnership` | `OwnershipProofs` |
| `Bodies` | what the statements of a function body mean | | | |
| `BodyCode` | `pkg/compiler/compiler.go`, statements | extends `Bodies` | | |
| `BodyNative` | `pkg/backend/native/codegen.go`, `scope.go` | extends `Bodies` | | |
| `Conformance` | | composes the three above in lock step | `MCConformance` | `ConformanceInvariant` (the inductive invariants), `ConformanceProofs` |
| `Tokens` | the lexer, and the parser of types and parameters | | | |
| `Syntax` | the parser of expressions, statements, declarations | extends `Tokens` | | |
| `Printing` | `pkg/formatter` | extends `Syntax` | | |
| `Formatting` | reading, writing and reading again | composes parser and formatter | `MCFormatting` | |
| `ExecCommand` | the command, its background process, the clock | | | |
| `ExecCapture` | `pkg/runtimecap/exec.go` over Go's `os/exec` | extends `ExecCommand` | | |
| `ExecNative` | `emitOsExec` in `pkg/backend/native/fs_os.go` | extends `ExecCommand` | | |
| `OsExec` | one call of `os.exec` | composes the three above | itself | `OsExecProofs` |

The models of different rows of the inventory share no state, because the code's
components do not either: the frames of `BakFrames` belong to one thread of
`BakThreads`, which sees of them only that a thread runs, ends normally or
fails. `LspRequests` and `LspAnalysis` meet in the documents and in the cache of
results; each has the other's part in the form its own properties need
(`LspRequests`: an analysis is pending from the edit until its result is
stored; `LspAnalysis`: nobody else stores results).

### BakFrames

The program is left open: an executing frame performs any instruction
that type-correct bytecode can contain. Values are abstracted to the stack
pointer; `height` in a frame is what the compiler believes statically about the
slots above the frame's base, and `StackDiscipline` compares it with `sp`.
`Call`, `Defer`, `Panic`, `Return`, `ReturnVoid` and `UnwrapErr` are the opcode
cases of `VM.run`. `Resume` is the continuation of a frame whose deferred block
has returned (`returning`), and `Unwind` one step of the loop that ends frames
during a panic (the base of the panic, `panicBase`, included). `Leave` is the
end of `resumeReturn`, with the delivery of the result and the end of the run;
`EnterDeferred` and `RunNative` are the two ways in which `executeDefer` begins
a deferred action. A native deferred action
is done within the step that begins it. `registered`, `begun`, `cut`, `opened`
and `leaked` are history variables for the properties.

`DeferStack` is what the language promises of `defer` without frames, stack or
panics: activations with pending actions, of which only the youngest can be
taken, and which end only when nothing is pending. A run that ends in an error
abandons them.

### BakThreads

Each thread has a `pc` for the builtin it is in, so that the lookup of a handle
under `mutexMu` and its use outside are two steps (`LockRequest`, `LockAcquire`;
`Cancel`, `CancelStore`; `Poll`, `PollLoad`), and so are the read and the write of a
global. The end of a thread is three steps, in the order in which the goroutine
takes them: the body returns, `Err` is stored, `Done` is closed. `polls` is the
token a thread's body loops on, and `inside`, `joined`, `cancelled` and
`writes` record what the properties speak of. With `Disciplined` the program uses mutexes the way
`std/sync` means them to be used; without it any call can be made at any time, and Go's
fatal "unlock of unlocked mutex" ends the process. A handle is joined by the
thread that spawned it. The process ends when `main` returns, whatever other
threads are doing.

`ThreadContract` says the same of threads, owners and tokens without channels,
tables and counters.

### LspAnalysis

Actors are the reader goroutine, which handles notifications one after another,
and the goroutines of workspace timers (`Sweeps`). An action ends where the code
releases `stateMu` or `outputMu`, so everything that can interleave does. `Jobs`
are analyses; the stages of a job are those of `analyzeAndPublish`, in its own
goroutine or in the caller's: wait for the timer, analyse, look at the context,
store unless outdated, look again, publish. A result is represented by the text
it is about, so "stale" can be expressed. Which open documents a changed file
affects is left open, because the import graph that decides it is not modelled.

Assumptions: a timer does not fire between `time.AfterFunc` and the assignment
that registers it (the delays are 100 and 200 ms); a watched-files notification
names one file; the editor opens closed documents, changes a text to a different
one, and saves and closes open documents. Creating the workspace timer is one
action with the look at the old one, since arming commutes with what others do.

### LspRequests

The reader handles `Receive` (a request gets its goroutine), `CancelRequest`,
`Edit` (didOpen and didChange), `DidClose` and `DidChangeWatchedFiles`. The
goroutine of a request goes through `StartRequest` (the entry in
`activeRequests`), `FirstLook` at its context, `Handle`, `LastLook` and
`FinishRequest`; `Reply` writes the answer. What is handled is the walk of
`ensureWorkspaceRefIndex`: `BeginWalk`, then for each file `Visit`, `ReadFile`
or `ReadFails`, `StoreIndex`, and `EndWalk`. `StoreAnalysis` stores what an edit
made pending, and `WriteFile` is somebody else's write to the disk. Close is two
steps, `CloseTakes` under the lock and `CloseCancels` after it, before the
process exits. An action ends where `stateMu` is released. A result is the text
it is about and whether its index is whole; `asked` and `stopped` are history.
The editor does not use an id again before it has the answer.

### Imports

The checker is a stack of checkers, one per package in the middle of its check,
the compiler a stack of compilers. `FindsCycle` is `checkCyclicImport`: `Path`
says that a file is in every set closed under the edges, which is reachability
without recursion, and the edges leave out the importer's own directory as the
code does. The raw import paths used for a package none of whose imports resolved
are left out: nothing registered can be named by them. `erroneous` holds the
files in which an error was reported; errors of a module become errors of its
importer. Other errors are left open, so that the order of errors, loads and
returns is arbitrary. `Dir` is a constant: the run puts one file into the
program's, and each of the others into one of its own.
The files do not change while the pipeline runs.

### Ownership

A function body is chosen statement by statement, and checked as it is chosen:
`envs` is the chain of `TypeEnv`s, with the isolated ones that the code makes for
loop bodies, cases and branches that return. A body the checker has accepted is then
executed, each condition and each loop going either way, with deferred blocks
run where the function is left; a read of a variable whose value has moved is a
fault. Names do not interact in the checker, so there is one, `x`, which a body
may declare again; checking stops at the first error.

### Bodies, BodyCode, BodyNative, Conformance

`Bodies` chooses a body in the same way and says what it means: a value is the
place of the statement that wrote it, `vals` has the value of each declaration
of `x`, `defers` the blocks still to run. `BodyCode` is the bytecode compiler's
treatment of the statements, as each is chosen: locals with their depths,
`BeginScope` and `EndScope`, `loopStart`, `continueDest`, the jumps to be patched
and what each kind of loop saves of the loop around it (`ctl` is the part that
Go keeps in local variables of the recursive calls); and the machine that runs
the result. `BodyNative` keeps of the machine code what is not decided by
the shape of the text: the slot each statement uses and the deferred blocks
that are emitted, inline, at each exit. `Conformance` has both emit each
statement and then runs the body, the bytecode and the machine code in step.

A body that the bytecode compiler refuses goes to the phase `refused`. `built`
is FALSE where machine code cannot be emitted (a `return` in a deferred block).
A loop defers a block at most twice.

### Tokens, Syntax, Printing, Formatting

A text is a sequence of tokens on one line; a tree has kinds, words and kids.
`Tokens` has the lexer as far as it matters for printed text (which neighbours
become one token) and the parser of types and parameters, with the division of
`>>` and `>=` into two; `Syntax` the functions that the parser registers for
prefix and infix tokens, its statements and declarations; `Printing` the text of
every kind of node, with white space where the formatter writes some.
`Formatting` reads a text, writes it and reads it again. `Parse` also returns
the tokens that the parser has seen, because there are texts of which it passes one over.

Not modelled: comments and blank lines, the margin of the formatter and lists
spread because of it, what strings and characters contain, generic types inside
expressions, and what the parser does after an error: a text with one is
refused, as it is by the formatter.

### ExecCommand, ExecCapture, ExecNative, OsExec

`ExecCommand` is the world: the command writes to two streams, may leave a
process behind that has them too, exits with a code or is killed, and the
deadline passes. Bytes are numbered, so that what is kept can be compared with
what was written. `ExecCapture` is the Go path: `Cmd.Start` and the three waits
of `Cmd.Wait`, the goroutine that watches the deadline, one copier per stream,
and `limitedCapture.Write` in its two critical sections (`TakeBudget` under the
budget's mutex, `AppendOutput` under its own). `ExecNative` is the loop of
machine code: look at the deadline and kill, poll the command, then for each of
two files in memory the size and the bytes, standard output first. `r14` says
whether that register holds something else than 0 when the call begins: the code
reads it by mistake (finding 3). SIGKILL is taken to work at once, and a pipe
has room for everything.

## 3. Runs

| run | question | bounds | result |
|---|---|---|---|
| `frames` | stack layout, order and accounting of defers, trace balance, refinement of `DeferStack` | 4 frames, heights to 2, 1 argument, 2 defers, tracing on; 2.2 million states | holds |
| `panic_runs_deferred` | does a panic run the deferred blocks of all frames? | 4 frames, 1 defer | violated |
| `threads` | exclusion, lost updates, joins, tokens, refinement of `ThreadContract`; progress of locks, joins and cancelled workers | 3 threads, 1 mutex, 1 token, 1 increment; 53 thousand states | holds |
| `lsp` | live analyses, timers, changes on disk; diagnostics for the last text, handlers return | 1 document, 2 texts, 2 analyses, 1 sweep; 322 thousand states | holds |
| `lsp_edit_lost` | the last text gets diagnostics in spite of sweeps | as `lsp` | violated |
| `requests` | cancellation, contexts, partial indexes, end of requests | 2 requests, 2 ids, 1 file, 2 texts | holds |
| `imports` | which cycles reach the compiler; diamonds, errors, termination | graphs of up to 6 imports over 4 files, 2 of them in one directory; 441 thousand states | holds |
| `ownership` | missed moves, false alarms, borrows, missing returns | all bodies of 7 statements and block ends, of 3 mixes of statements | holds |
| `conformance` | bytecode against meaning, machine code against bytecode | all bodies of 7 statements and block ends, of 5 mixes | holds |
| `format` | is what is printed the program that was read? | see below; 575 thousand states | holds |
| `exec` | capture, outcome and end of `os.exec`, both back ends | 3 bytes per stream, a budget of 3, codes 0 and 1; 730 thousand states | holds |
| `exec_native_times_out` | does the deadline end a native call? | as `exec` | violated |

Why the bounds are enough. Four frames hold a frame that panics, its caller, a
deferred block and a function that block calls; two defers give an order, and a
defer executed while another runs. Three threads give a holder and two waiters,
of which one can starve; that handles are not confused, whatever their number,
is proved. Two analyses are the one replaced and the one that replaces it, and a
sweep races both; that sweeps do not disturb each other is proved for any
number. Two requests with two ids give a request that uses the id of an earlier
one while a cancellation is on its way. Four files contain self imports, cycles
through and beside the program and of one to three directories, cycles that leave
the program's directory and come back, and a file imported along two ways; six
imports are all there are among three files. Only the program may import itself.
(Only with
five files does a search meet a package twice, which is what the deferred
`delete` in `checkCyclicImport` is for; `FindsCycle` states what the search finds
and has no counterpart of it.) Seven statements and block ends hold two nested
blocks with a statement before, in and after each; a mix has the statements that
can disturb each other, since all together are too many. `format` has
bodies of one and two statements over all expressions of up to two operators,
struct literals of up to three fields in and out of order,
every place a statement has for an expression, declarations over all types of up
to two constructors, and all texts of up to four tokens of 17, or three of 15
inside the six frames that begin and end a declaration: two operators are what a
precedence decides between, and two statements what a separator stands between.
In `exec` a stream alone can fill the budget, both can, and both can stay below.

Deadlock is not reported, because every one of these systems may stop: programs end,
the editor may never send another notification, pipelines end. Where
stopping would be wrong a liveness property says so. Type invariants are proved
for every value of the constants (section 5) and not run again where they are.

### Properties worth a remark

* `StackDiscipline` is claimed while no panic has been raised; finding 4 is what
  happens afterwards.
* `TraceBalanced` excuses activations left through the fast path of `try`
  (finding 5).
* `MutualExclusion`, `NoLostUpdate` and `NoFatalUnlock` are claims about
  disciplined programs, `JoinReports` and `CancelIsFinal` about all: the
  theorems show them for all.
* `LockGranted` excuses a mutex whose holder failed inside: the VM leaves it locked.
* `TextAnalysed` excuses a text during a sweep; `lsp_edit_lost` shows why.
* `DroppedWasCancelled` speaks of ids: a cancellation that comes after its
  request has ended stays in `canceled` and drops a later request with that id.
* `ReentryRepeatsDirectory` is what is left of "the compiler meets no cycle"
  (`NoReentry`), which fails of files in one directory (finding 8): a file that
  is compiled inside its own compilation was reached by way of two such files,
  though the cycle may leave their directory in between. `PipelineEnds` excuses
  just that.
* `CompilesOnlyChecked` relates the compiler to the errors of a checker that
  shares no state with it. A package that failed is still in the registry, and
  a second importer binds it silently.
* `MissedMoves` names the faults that an accepted body can have: the move is in
  a loop, a case or a branch that returns; the use stands before it in the text,
  in a loop or a deferred block (finding 9); or `x` was declared over.
  `AlarmsMeanPaths` is the converse: nothing stands between a move and a use
  that are reported that would keep one from the other.
* `NativeNames` and `NativeDefers` name the cases in which machine code differs
  from bytecode (finding 11), and claim agreement in all others.
* `TreeKept` excuses the shapes of `Changed` (finding 12): taking one away makes
  TLC show it. Idempotence follows: the same tree is printed as the same text.
  `WordsKept` says that no word is added, lost or moved; it excuses the fields of
  a struct literal that are out of order, which the formatter sorts by name.
* `CaptureExact`, `OutcomeTrue` and `CallReturns` are one contract for both
  back ends; the second and third need `r14` to be 0 (finding 3).

### Fairness

* `BakThreads`: Go schedules a goroutine that can run (weak fairness of
  `RunsOn`); `sync.Mutex` hands the lock to a waiter that has starved (strong
  fairness of `LockAcquire`); a critical section is finite, which is about
  the program, not the VM (strong fairness of `LeavesSection`). Nothing obliges a program to
  spawn, lock or poll.
* `LspAnalysis`: goroutines are scheduled, timers that are not stopped fire,
  analyses end (weak fairness). A new analysis may have to wait for one of `Jobs`, which
  the code does not; strong fairness of `ActorStep` makes up for
  that bound. The editor owes nothing.
* `LspRequests`: the goroutine of each request is scheduled (weak fairness of
  `RequestStep`). Neither editor, reader nor analyses owe anything.
* `Imports`: the pipeline goes on while it can.
* `OsExec`: the goroutines and the machine code are scheduled, and the deadline
  comes. Neither the command nor what it leaves behind owes anything.

## 4. Findings

Kept as runs:

1. **A panic skips deferred blocks of callers** (`pkg/vm/vm.go:321`, run
   `panic_runs_deferred`). README.md:188 says "panic aborts execution after
   running deferred blocks". A deferred block of a frame below the one that
   panicked is entered and ended before its first instruction.
2. **The diagnostics of an edit get lost** (`lsp/server_state.go:326`, run
   `lsp_edit_lost`). A sweep that took its snapshot before the edit cancels the
   analysis of the edit; its own is discarded as outdated, and nothing starts
   another. lsp/main_test.go:718 expects fresh diagnostics.
3. **Native os.exec ignores the deadline after a call that timed out**
   (`pkg/backend/native/fs_os.go:1139`, run `exec_native_times_out`). The flag
   "timed out" is the slot in which R14 was saved and is never cleared. With R14
   not 0 no command is killed, and every outcome is "timed out", -1. The call
   restores R14 from that slot, so a call that times out spoils the next.
   The comment at fs_os.go:1114-1117 says it applies the configured timeout.

Met while modelling; each is named as an exception in a property or left out of
the bounds, and can be shown as described:

4. **Stack underflow in a deferred block during a panic** (`pkg/vm/vm.go:1766`).
   A call made by a deferred block while panicking delivers no result, and the
   block pops what is not there: the assertion in `pop` (`pkg/vm/vm.go:1427`)
   fails. `BakFrames`: `outcome # "crash"` as an invariant.
5. **No exit event after `try`** (`pkg/vm/vm.go:1283`), against
   docs/OBSERVABILITY_PHASE4.md:48. `BakFrames`: `~leaked`.
6. **Diagnostics of a closed document** (`lsp/server_analysis.go:74`). An
   analysis past its look at the context publishes after didClose has cleared
   the diagnostics, since its checks let a closed document pass.
   lsp/main_test.go:524 expects none. `LspAnalysis`: nothing is shown for a
   document that is closed while no action is in progress.
7. **A walk stores an old result** (`lsp/server_refs.go:223-259`, against
   lsp/main_test.go:459). `Visit` finds no result and `ReadFile` reads the disk;
   the analysis of an edit stores its result; `StoreIndex` overwrites it with
   that of the text on the disk, although the document is open.
8. **Import cycles within a directory** (`pkg/packages/registry.go:531`).
   Imports in the importer's own directory are exempt from the search for
   cycles, though docs/CORE_LANGUAGE_SPEC.md:68 and
   docs/PACKAGE_BOUNDARIES.md:23 say cycles are rejected; the compiler then
   compiles the files inside one another without end. So it does when the cycle
   leaves the directory in between: `main` imports `a`, `a` imports `b`, `b`
   imports `main`, with `main` and `b` in one directory. `Imports`: `NoReentry`
   as an invariant in Imports.cfg.
9. **A move in a loop is accepted** (`pkg/typechecker/stmt_control.go:72`):
   `while c { consume(data) }`, against
   docs/ownership_and_borrowing_rule.txt:83-84.
10. **The first break of a function is refused** (`pkg/compiler/compiler.go:1553`):
    `func main() { while true { break } }`. `loopStart` 0 means both "no loop" and
    "a loop at the first byte".
11. **The back ends differ.** Machine code runs no deferred block on a panic, and
    the blocks it runs elsewhere are those that stand before the exit in the
    text, reached or not (`pkg/backend/native/codegen.go:1462`;
    docs/BACKEND_CONFORMANCE.md:36 cites tests/run_defer_panic_conformance.sh,
    which builds nothing natively). A `return` in a deferred block makes the
    generator recurse without end. `var x = x` declares before it evaluates. The
    variable of a second range loop, or of one that shadows a name of the scope
    around it, reads the slot of the first (`scope.go:65`; the comment at
    codegen.go:1733). The VM evaluates a `for`'s iterable in every round, machine
    code once; the bytecode has the default case last, machine code in the order
    of the text. Jumps of 16 bits and slots of 8 are cut off without a word.
12. **Formatting changes programs**, against docs/STABLE_LANGUAGE.md:172
    ("parse-preserving and idempotent"), the comment at
    pkg/formatter/formatter.go:401-403 and `FuzzFormatIdempotent`:
    * `x = y; f().g()` is printed `(f()).g()` on a line of its own and read as a
      call of `y`; the same after any statement that can go on;
    * a range gets no parentheses: `(a..b).c`, `-(a..b)`; `[a..b,]` becomes `[a..b]`;
    * `(x.f)()` becomes the method call `x.f()`; `&(mut x)` becomes `&mut x`;
    * `return [a], b` gets a comma at its end;
    * `return; x` and `var x; y = 1` lose their semicolon;
    * `if (a.T) {}` becomes `if a.T {}`, a struct literal;
    * `({x: 0}).a = y`, `(mut x) = y` and `(type).x = y` lose their parentheses;
    * `T{b: x, a: y}` becomes `T{a: y, b: x}` (formatter.go:1237-1241; the comment
      at pkg/ast/ast_expressions.go:237 says that source order is preserved), and
      a field that is given twice is printed once;
    * `trace` of a function (formatter.go:755) and `pub` of `pub const (...)` are dropped;
    * `var x: (a: int)` is printed `a: int`, and `& &T` is printed `&&T`.
13. **The parser passes words over.** Dividing `>>` or `>=` at the end of type
    arguments loses the third token after it (`pkg/parser/parser.go:484-524`,
    against its comment): `func f(a: Option<Option<int>>) -> (int)` is
    refused, and `var m: Option<Option<int>> = None` before `defer {...}` loses the
    `defer`. `mut` at the start of a statement, words in the bodies of structs,
    enums and impls and all but the last value of a repeated struct field are skipped;
    `pub` before `}` skips the brace. A comma after the last type parameter or
    the last field of a variant is refused, although the comments at
    parser.go:1589 and parser.go:1834 allow it.
14. **os.exec.** In Go a process left in the background keeps the call
    from returning after the deadline, since `WaitDelay` is not set
    (`pkg/runtimecap/exec.go:92`; docs/TRUST_MODEL.md:51 says `--exec-timeout`
    controls runtime). A command that failed by itself is reported as timed out if
    the deadline passes before `exec.go:105`. docs/TRUST_MODEL.md:52 says native
    `os.exec` has neither timeout nor capture; it has both. It never closes its
    two files, gives standard output the budget first where Go gives it in the order
    of arrival, and returns code 127 for a command that does not exist, where Go
    returns an error.

Without a promise to hold them against: a diagnostics message for an older text
can be published after a newer one (`lsp/server_analysis.go:130`); threads
share the globals slice without synchronisation, and a value is several words
(`pkg/vm/vm_builtins.go:1345`); a document whose result was just invalidated has
no reverse dependencies when a sweep looks for them (`lsp/server_state.go:391`);
the compiler parses every import from the disk again after the checker did
(`pkg/compiler/compiler.go:883`).

## 5. Proofs

All theorems hold for every value of the constants that satisfies the module's
assumptions, and for unbounded behaviours.

* **BakFrames.** `BakFramesProofs` (`TypeCorrect`, `StackDisciplineHolds`): the
  type invariant is strengthened by `CalleeSlot` (a callee's base is above slot 0:
  returning there may not make `sp` negative), `HasFrame` and `CutByPanic`. For
  `StackDiscipline` the chain of bases is followed through each way
  a frame is entered, left and resumed; one lemma per action.
  A second part of the module (`TraceBalancedHolds`) sorts the actions into five
  kinds by what they do to enter and exit events (silent, opening, clearing,
  closing, leaking).
  A third (`DeferAccountingHolds`, `NormalEndCompleteHolds`,
  `LastInFirstOutHolds`) sorts them into six by what they do to
  pending and begun actions (quiet, entering, deferring, taking, failing,
  leaving) and proves the invariant once per kind;
  `ImplementsDeferStackHolds` shows each of the six kinds to be a step of
  `DeferStack` or a stutter.
* **BakThreads** (`TypeCorrect`, `JoinReportsHold`, `CancelIsFinalHolds`,
  `MutualExclusionHolds`, `NoLostUpdateHolds`, `NoFatalUnlockHolds`,
  `ThreadsImplementContract`). Four layers: types, with "a call in progress is about a
  thread or an issued handle"; threads, with "an ended thread has a result and
  `Err` is recorded before `Done` is closed", without which `JoinReports` is not
  inductive; tokens, with "a cancelled token was issued", so that a new token's
  flag is never that of an old one; and locks, where exclusion, the counter and
  the absence of fatal unlocks need each other and two facts more: a
  thread waits for a mutex only from outside, and a value read inside a mutex is
  current while the mutex is held. The refinement is for disciplined programs: initial
  states map to initial states, and each action to a step of the contract or to
  a stutter, under a mapping of `pc` and `result` to `life` and of `inside` to `owner`.
* **LspAnalysis** (`TypeCorrect`, `OneLiveAnalysisHolds`,
  `NoOrphanTimerHolds`, `ChangesReachASweepHolds`). The inductive invariant is
  `IInv`: the three properties, with `CallsOK` (the arguments of a suspended
  call are there, the analysis an actor is about to run is ready, and no two
  actors have the same one) and `JobsOK`. The number of documents,
  analyses and overlapping sweeps is arbitrary.
* **LspRequests** (`TypeCorrect`, `CancelReachesHolds`, `ContextsReleasedHolds`,
  `CancelledUnansweredHolds`, `DroppedWasCancelledHolds`,
  `PartialWasCancelledHolds`). `IInv` adds to the five properties `IdsOK` (of two
  requests with one id, one was answered), `WalksOK` (the file and the text a
  walk is at), `CancelsOK` (what is in `canceled` was asked for, and a cancelled
  request that has not come to its last look will see it) and `CloseOK` (what
  Close holds, and whose contexts are still to be cancelled).
* **Imports** (`TypeCorrect`, `CheckedOnceHolds`, `CompilesOnlyCheckedHolds`,
  `AcyclicAcceptedHolds`, `ReentryRepeatsDirectoryHolds`). Errors surface along the checker's
  stack; without errors every import of a loaded package is recorded; within
  any set of files of different directories the recorded imports are acyclic, by
  reasoning about the sets closed under them instead of about paths; and the
  compilers on the stack follow recorded imports, so that the part of the stack
  between two compilations of one file has two files of one directory. Nothing
  is assumed of `Dir`; where every file has a directory of its own, `NoReentry`
  is a corollary (`NoReentryHolds`).
* **Ownership** (`SharedNotMutatedHolds`, `MutableBorrowGuardedHolds`,
  `MissedMovesHolds`, `AlarmsMeanPathsHolds`, `ReturnsWhenRequiredHolds`). The
  properties speak of a text and of all its executions, so `IInv` says what the
  checker knows of the text it has read. `Body(prog, blocks, envs, f, U)` is
  stated for an alignment `f` of the open blocks with the environments (a block
  inside an isolated environment has none of its own) and a set `U` of places
  that execution never comes to. Its parts: `Shape` (how blocks, environments
  and the paths of statements nest), `Decls` (which declaration an environment
  stands for), `MovesKnown` (a move outside isolated blocks is marked where
  its declaration stands), `MarksKnown` (the converse: a mark is of a move of what
  `x` means there, and no isolated block around that move is over), `BorrowsKnown` (a
  borrow whose block is open is still counted, or was cleared after `&mut x`
  was lent), `ReturnsKnown`, `Heads` (the parts of a statement, in order),
  `Flow` (which places follow which, and that `U` is closed under it), and
  `MovesSeen` and `Guarded`, the properties themselves of the text.
  Each step of the checker adds a statement, opens a block or closes one, or
  closes one and opens the next; a lemma for each part and each of these
  changes, applied by every action. Execution keeps out of `U`
  (`RunsOn`), and marks as moved only what a statement of the text has moved; so
  a fault is a pair of statements of which `MovesSeen` holds, and the end of a
  body that returns is in `U`.
* **Conformance** (`DueDefersRun`, `CodeInStep`). `BodyInv` says of the text that is written
  which blocks are around each statement, which parts and which end a statement
  has, and that statements are nested (`TextOK`, one lemma for each of the five ways it
  grows). On a text that is complete `Settle`, a recursive function, is shown to
  satisfy its equations (`SettleIs`), by constructing it from the end of the text; so
  where control goes after each statement follows by going down from the end
  (`SettleInside`, `SettleMain`). The generator of machine code leaves out a
  set of places `D` and has at each place a stack `S` of the deferred blocks
  emitted so far (`DefersOK`). Where none stands in a branch or a loop, the body
  that runs has at every place in the function exactly `S` to run (`NatRun`).
  For the bytecode, `R` says where control goes from each place of the text,
  after each statement, and when a test fails (`Respects`); while the text is
  written, nobody knows `R`, so the invariant holds for all that respect
  the text so far. Every position of the code is annotated with the statement
  that does something next when the machine is there (`Fits`), and `Written`
  says what the compiler holds: the test that the innermost branch leaves open,
  its jumps to the end, and the jumps and the state of the loops around
  (`Held`, `LoopsOK`), for each open block and each state saved for later (`Under`);
  a jump that is not patched is one of these (`Pending`). One lemma for each way
  a block is opened, continued and closed (`NextGen`, `BranchEnds`,
  `WhileEnds`, `ForEnds`, `DeferEndGen`, ...). When the body is complete no block is
  open, so no jump is open either (`RunsFrom`), and `Settle` is such an `R`
  (`GoingsExist`); then the annotation of the position of the
  machine is always the statement that the body comes to (`InCode`).
* **OsExec** (`TypeCorrect`, `CaptureExactHolds`, `OutcomeTrueHolds`), for any budget
  and any command. `CommandInv`: only a command that has started writes or is
  killed. `PrefixInv`: what is kept is a beginning of the stream, at every step. In
  Go (`GoInv`) what the captures hold, what the copiers were allowed and what
  remains add up to the budget (`GoBudget`), each copier holds the
  rest of what it has taken (`GoCopier`), and the error of `Wait` follows the watcher
  (`GoError`); in machine code (`NativeInv`) one stream is done before the other.
  `AnswerInv` is the contract of the answer itself.

Only model-checked: all liveness properties, since TLAPS supports neither
ENABLED nor liveness under fairness; of `Conformance`, `StackIsLocals` and
`NativeNames`, which relate what is on the stack, and in which slot, to the
declarations in scope at every position; and `Formatting`, whose parser
and printer are recursive operators, about which tlapm cannot reason.

## 6. What is not modelled, and why

* In the components above: the values of the VM, `StackMax` and the socket
  tables (private to a VM); torn reads of a global; the resolution of import
  paths, symbols, fingerprints and invalidation; errors of a cancelled check;
  struct fields, several variables and switches with a default in ownership;
  expressions, escaping locals, jump widths and the remapping of imported
  bytecode in the compiler; what section 2 names for the parser and formatter.
* Inference and checking of types (`pkg/typechecker`, apart from imports and
  ownership): functions of a tree and a symbol table, several hundred rules
  without state of their own that a step could leave inconsistent.
* Instruction selection, the runtime and the ELF writer of the native back end:
  about the meaning of machine code, which the models do not have.
* Features of the language server apart from references and rename: read-only
  queries over an analysis result.
* The rest of the inventory's last row: message tables, generated code,
  formatting of values, wrappers of the operating system and of SQL drivers,
  argument parsing.

## 7. What could come next

1. The proof of `StackIsLocals`: a second annotation of the code, with the
   locals that are on the stack at each position, along the lines of that of
   `CodeInStep`.
2. The remapping of imported functions (`pkg/compiler/compiler.go:764-975`)
   against a decoder, on short sequences of instructions, with the widths of
   jump and local operands.
3. `LspRequests` and `LspAnalysis` in one module, over one cache.
4. Several variables in `Bodies`, and values of iterables.
