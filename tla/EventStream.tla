---------------------------- MODULE EventStream ----------------------------
(***************************************************************************)
(* What Worker.Events promises its reader: the lines of the core in the    *)
(* order in which they were written, each at most once, some of them lost, *)
(* and an end after which nothing comes.                                   *)
(***************************************************************************)
EXTENDS Integers, Sequences

CONSTANTS
  Lines      \* numbers of the lines

VARIABLES
  pending,   \* lines written and neither received nor lost
  received,  \* lines received, oldest first
  over       \* the reader has seen the end

Init == pending = <<>> /\ received = <<>> /\ over = FALSE

\* A line is newer than all that is there.
Put ==
  /\ ~over
  /\ \E x \in Lines :
       /\ \A i \in DOMAIN pending : x > pending[i]
       /\ \A i \in DOMAIN received : x > received[i]
       /\ pending' = Append(pending, x)
  /\ UNCHANGED <<received, over>>

Lose ==
  /\ \E i \in DOMAIN pending :
       pending' = SubSeq(pending, 1, i - 1) \o SubSeq(pending, i + 1, Len(pending))
  /\ UNCHANGED <<received, over>>

Take ==
  /\ pending # <<>>
  /\ received' = Append(received, Head(pending)) /\ pending' = Tail(pending)
  /\ UNCHANGED over

End == ~over /\ pending = <<>> /\ over' = TRUE /\ UNCHANGED <<pending, received>>

Spec == Init /\ [][Put \/ Lose \/ Take \/ End]_<<pending, received, over>>
=============================================================================
