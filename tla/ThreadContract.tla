--------------------------- MODULE ThreadContract ---------------------------
(***************************************************************************)
(* What threads, mutexes and cancel tokens promise a Bak program, without  *)
(* goroutines, channels or handle tables: a thread that was joined without *)
(* an error had ended without one, a mutex has one owner at a time, and a  *)
(* cancelled token stays cancelled.                                        *)
(***************************************************************************)
CONSTANTS Threads, Handles, None

VARIABLES
  life,       \* of each thread: "none", "alive", "ok" or "error"
  joined,     \* the joins that returned: <<joiner, joined>>
  owner,      \* of each mutex: the thread inside it, or None
  cancelled,  \* the tokens that are cancelled
  halted      \* is the process over?

vars == <<life, joined, owner, cancelled, halted>>

Init ==
  /\ \E main \in Threads :
       life = [t \in Threads |-> IF t = main THEN "alive" ELSE "none"]
  /\ joined = {}
  /\ owner = [m \in Handles |-> None]
  /\ cancelled = {}
  /\ halted = FALSE

Fork(t) ==
  /\ life[t] = "none"
  /\ life' = [life EXCEPT ![t] = "alive"]
  /\ UNCHANGED <<joined, owner, cancelled, halted>>

End(t, result) ==
  /\ life[t] = "alive"
  /\ life' = [life EXCEPT ![t] = result]
  /\ UNCHANGED <<joined, owner, cancelled, halted>>

(* A join that returns normally: the joined thread has ended normally.     *)
Join(t, u) ==
  /\ life[t] = "alive"
  /\ life[u] = "ok"
  /\ joined' = joined \cup {<<t, u>>}
  /\ UNCHANGED <<life, owner, cancelled, halted>>

Acquire(t, m) ==
  /\ life[t] = "alive"
  /\ owner[m] = None
  /\ owner' = [owner EXCEPT ![m] = t]
  /\ UNCHANGED <<life, joined, cancelled, halted>>

Release(m) ==
  /\ owner[m] # None
  /\ owner' = [owner EXCEPT ![m] = None]
  /\ UNCHANGED <<life, joined, cancelled, halted>>

Cancel(c) ==
  /\ cancelled' = cancelled \cup {c}
  /\ UNCHANGED <<life, joined, owner, halted>>

Halt ==
  /\ halted' = TRUE
  /\ UNCHANGED <<life, joined, owner, cancelled>>

Next ==
  /\ ~halted
  /\ \/ \E t \in Threads : Fork(t)
     \/ \E t \in Threads, result \in {"ok", "error"} : End(t, result)
     \/ \E t, u \in Threads : Join(t, u)
     \/ \E t \in Threads, m \in Handles : Acquire(t, m)
     \/ \E m \in Handles : Release(m)
     \/ \E c \in Handles : Cancel(c)
     \/ Halt

Spec == Init /\ [][Next]_vars

=============================================================================
