-------------------------- MODULE GrinderProtocol --------------------------
(***************************************************************************)
(* What a grinder promises on its stdout, whichever way it is built (the   *)
(* README's IPC protocol): it is ready exactly once, at the start; a run   *)
(* ends with at most one of found and stopped, after which nothing more is *)
(* said of it; and the events of two runs are never mixed.  An event says  *)
(* which run it belongs to, 0 for none: the JSON does not, which is why    *)
(* the order must tell.                                                    *)
(***************************************************************************)
EXTENDS Naturals, Sequences

CONSTANT MaxRuns   \* runs a behaviour may have

VARIABLE out       \* the events written so far

Ends == {"found", "stopped"}
Events ==
  [ev : {"ready", "devices", "error"}, run : {0}]
    \cup [ev : {"progress", "error"} \cup Ends, run : 1..MaxRuns]

\* Event e may follow the events h.
Follows(e, h) ==
  /\ e.ev = "ready" <=> h = <<>>
  /\ e.run # 0 => \A i \in DOMAIN h :
                    h[i].run <= e.run /\ ~(h[i].run = e.run /\ h[i].ev \in Ends)

Init == out = <<>>
Emit(e) == Follows(e, out) /\ out' = Append(out, e)
Next == \E e \in Events : Emit(e)
Spec == Init /\ [][Next]_out
=============================================================================
