----------------------------- MODULE DeferStack -----------------------------
(***************************************************************************)
(* What Bak promises about deferred blocks, without frames, instructions   *)
(* or panics: a stack of activations, each with the actions it has         *)
(* deferred.  An activation ends only when it has nothing pending, and     *)
(* only its youngest pending action can be taken.  The whole run can be    *)
(* cut off by an error, and only then are pending actions abandoned.       *)
(***************************************************************************)
EXTENDS Integers, Sequences

VARIABLES
  pending,   \* one sequence of deferred action numbers per activation
  count,     \* number of actions deferred so far
  ended      \* is the run over?

vars == <<pending, count, ended>>

Depth     == Len(pending)
Youngest  == pending[Depth]
Replace(s) == [pending EXCEPT ![Depth] = s]

Init ==
  /\ pending = << <<>> >>
  /\ count = 0
  /\ ended = FALSE

Enter ==
  /\ ~ended
  /\ pending' = Append(pending, <<>>)
  /\ UNCHANGED <<count, ended>>

Defer ==
  /\ ~ended
  /\ count' = count + 1
  /\ pending' = Replace(Append(Youngest, count + 1))
  /\ UNCHANGED ended

(* Take the youngest action of the top activation; it runs in an           *)
(* activation of its own, or at once.                                      *)
Take ==
  /\ ~ended
  /\ Youngest # <<>>
  /\ LET rest == Replace(SubSeq(Youngest, 1, Len(Youngest) - 1))
     IN pending' \in {rest, Append(rest, <<>>)}
  /\ UNCHANGED <<count, ended>>

Leave ==
  /\ ~ended
  /\ Youngest = <<>>
  /\ pending' = SubSeq(pending, 1, Depth - 1)
  /\ ended' = (Depth = 1)
  /\ UNCHANGED count

(* An error ends the run, at the latest when a taken action fails.         *)
Abort ==
  /\ ~ended
  /\ ended' = TRUE
  /\ pending' \in {pending} \cup
       (IF Youngest = <<>> THEN {}
        ELSE {Replace(SubSeq(Youngest, 1, Len(Youngest) - 1))})
  /\ UNCHANGED count

Next == Enter \/ Defer \/ Take \/ Leave \/ Abort

Spec == Init /\ [][Next]_vars

=============================================================================
