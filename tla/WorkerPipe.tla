----------------------------- MODULE WorkerPipe -----------------------------
(***************************************************************************)
(* Worker (internal/orchestrator/worker.go) from the inside: the pipes to  *)
(* and from the core, the goroutine that reads its lines into              *)
(* Worker.events, and what the main goroutine does with workersMu held:    *)
(* retargetAll, which sends the core a job, and Stop, which waits for the  *)
(* reader.  Engine has the pipe and the channel as one queue.              *)
(***************************************************************************)
EXTENDS Integers, Sequences

CONSTANTS
  EventCap,  \* capacity of Worker.events (256 in NewWorker)
  PipeCap    \* lines a pipe holds, to the core or from it, before the writer blocks

ASSUME PipeAssumption == EventCap \in Nat \ {0} /\ PipeCap \in Nat \ {0}

VARIABLES
  written,  \* lines the core has written so far
  pipe,     \* the stdout pipe
  child,    \* "alive" or "dead"
  grinds,   \* the core has a job
  reader,   \* where readEvents is
  held,     \* the line readEvents has scanned
  events,   \* Worker.events
  closed,   \* Worker.closed: the channel is closed
  orders,   \* jobs in the stdin pipe
  locker,   \* where the main goroutine is; it has workersMu in "retarget" and in "wait"
  lost      \* history: since the core took its last job, a solution was lost or could not be
            \* submitted, or the core refused the job or died

pipeVars == <<written, pipe, child, grinds, reader, held, events, closed, orders, locker, lost>>

\* "note" stands for the events that are only logged and for a line that does not parse, which
\* becomes an event as well; a blank line does not.
LineKinds == {"progress", "found", "note", "blank"}
Line(n, kind) == [id |-> n, kind |-> kind]
Nothing == Line(0, "blank")

PipeInit ==
  /\ written = 0 /\ pipe = <<>> /\ child = "alive" /\ grinds = TRUE
  /\ reader = "scan" /\ held = Nothing /\ events = <<>> /\ closed = FALSE
  /\ orders = 0 /\ locker = "no" /\ lost = FALSE

\* The core reports its solution and has no job any more.
WriteLine ==
  /\ child = "alive" /\ Len(pipe) < PipeCap
  /\ \E kind \in LineKinds :
       /\ kind = "found" => grinds
       /\ pipe' = Append(pipe, Line(written + 1, kind))
       /\ grinds' = (grinds /\ kind # "found")
  /\ written' = written + 1
  /\ UNCHANGED <<child, reader, held, events, closed, orders, locker, lost>>

Die ==
  /\ child = "alive" /\ child' = "dead" /\ lost' = TRUE
  /\ UNCHANGED <<written, pipe, grinds, reader, held, events, closed, orders, locker>>

\* mutant: the reader gives up with the process, not with its pipe
ScanUntilDeath ==
  /\ reader = "scan"
  /\ \/ /\ child = "alive" /\ pipe # <<>> /\ pipe' = Tail(pipe)
        /\ IF Head(pipe).kind = "blank" THEN UNCHANGED <<reader, held>>
           ELSE reader' = "deliver" /\ held' = Head(pipe)
     \/ child = "dead" /\ reader' = "end" /\ UNCHANGED <<pipe, held>>
  /\ UNCHANGED <<written, child, grinds, events, closed, orders, locker, lost>>

\* The end of the pipe is reached when the core is gone and the pipe is empty.
Scan ==
  /\ reader = "scan"
  /\ \/ /\ pipe # <<>> /\ pipe' = Tail(pipe)
        /\ IF Head(pipe).kind = "blank" THEN UNCHANGED <<reader, held>>
           ELSE reader' = "deliver" /\ held' = Head(pipe)
     \/ pipe = <<>> /\ child = "dead" /\ reader' = "end" /\ UNCHANGED <<pipe, held>>
  /\ UNCHANGED <<written, child, grinds, events, closed, orders, locker, lost>>

\* mutant: no default case, the reader waits for room
DeliverBlocking ==
  /\ reader = "deliver" /\ Len(events) < EventCap
  /\ events' = Append(events, held) /\ reader' = "scan" /\ held' = Nothing
  /\ UNCHANGED <<written, pipe, child, grinds, closed, orders, locker, lost>>

\* mutant: the channel is a slice that grows
DeliverUnbounded ==
  /\ reader = "deliver" /\ reader' = "scan" /\ held' = Nothing
  /\ events' = Append(events, held)
  /\ UNCHANGED <<written, pipe, child, grinds, closed, orders, locker, lost>>

\* An event that finds the channel full is dropped.
Deliver ==
  /\ reader = "deliver" /\ reader' = "scan" /\ held' = Nothing
  /\ IF Len(events) < EventCap
     THEN events' = Append(events, held) /\ UNCHANGED lost
     ELSE UNCHANGED events /\ lost' = (lost \/ held.kind = "found")
  /\ UNCHANGED <<written, pipe, child, grinds, closed, orders, locker>>

\* mutant: the reader returns without closing the channel
CloseForgotten ==
  /\ reader = "end" /\ reader' = "done"
  /\ UNCHANGED <<written, pipe, child, grinds, held, events, closed, orders, locker, lost>>

CloseEvents ==
  /\ reader = "end" /\ reader' = "done" /\ closed' = TRUE
  /\ UNCHANGED <<written, pipe, child, grinds, held, events, orders, locker, lost>>

\* Worker.Send.
SendCommand == child = "alive" /\ orders < PipeCap /\ orders' = orders + 1

\* The core takes a job, once the run it had is over (MinerCore), or refuses it.
TakeCommand ==
  /\ child = "alive" /\ orders > 0 /\ orders' = orders - 1
  /\ grinds' \in BOOLEAN /\ lost' = ~grinds'
  /\ UNCHANGED <<written, pipe, child, reader, held, events, closed, locker>>

RetargetLock ==
  /\ locker = "no" /\ locker' = "retarget"
  /\ UNCHANGED <<written, pipe, child, grinds, reader, held, events, closed, orders, lost>>

\* A challenge that cannot be fetched or a pipe that is broken leaves the core its old job.
RetargetSend ==
  /\ locker = "retarget" /\ locker' = "no"
  /\ SendCommand \/ UNCHANGED orders
  /\ UNCHANGED <<written, pipe, child, grinds, reader, held, events, closed, lost>>

\* Stop: close stdin, kill, and wait for the readers.
StopKill ==
  /\ locker = "no" /\ locker' = "wait" /\ child' = "dead" /\ lost' = TRUE
  /\ UNCHANGED <<written, pipe, grinds, reader, held, events, closed, orders>>

StopWait ==
  /\ locker = "wait" /\ reader = "done" /\ locker' = "done"
  /\ UNCHANGED <<written, pipe, child, grinds, reader, held, events, closed, orders, lost>>

ReadEvents == Scan \/ Deliver \/ CloseEvents
=============================================================================
