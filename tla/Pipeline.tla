------------------------------ MODULE Pipeline ------------------------------
(***************************************************************************)
(* One account from the line in which its core reports a solution to the   *)
(* transaction in a block: Worker, handleWorkerEvents with onFound, and    *)
(* Submitter.SubmitMine, while blocks are mined and while the main         *)
(* goroutine retargets or stops the worker.  Every solution is a new one,  *)
(* and mine() is packed as if the nonce were given (Engine has the         *)
(* submitted map, the local verification, the other accounts, and the      *)
(* nonce that is missing).                                                 *)
(***************************************************************************)
EXTENDS WorkerPipe, Submitter

CONSTANTS
  Bounds  \* bound: records of how many lines and blocks a behaviour may have together

ASSUME BoundsAssumption == Bounds \subseteq [lines : Nat, blocks : Nat]

VARIABLES
  received   \* history: numbers of the lines the handler has received

handlerVars == <<draft, hpc, received>>
vars == <<pipeVars, chainVars, handlerVars>>

Init == PipeInit /\ SubmitterInit /\ received = <<>>

Within(lines, blocks) == \E b \in Bounds : lines <= b.lines /\ blocks <= b.blocks

-----------------------------------------------------------------------------
(* The handler. *)

Receive ==
  /\ hpc = "recv" /\ events # <<>>
  /\ LET e == Head(events) IN
     /\ received' = Append(received, e.id)
     /\ hpc' = CASE e.kind = "found" -> "found" [] e.kind = "progress" -> "stats" [] OTHER -> "recv"
  /\ events' = Tail(events)
  /\ UNCHANGED <<written, pipe, child, grinds, reader, held, closed, orders, locker, lost, chainVars,
                 draft>>

\* A channel that is closed gives what it holds, and then ends the loop.
EndOfEvents ==
  /\ hpc = "recv" /\ events = <<>> /\ closed
  /\ hpc' = "done"
  /\ UNCHANGED <<pipeVars, chainVars, draft, received>>

\* updateWorkerStats needs workersMu.
UpdateWorkerStats ==
  /\ hpc = "stats" /\ locker \notin {"retarget", "wait"}
  /\ hpc' = "recv"
  /\ UNCHANGED <<pipeVars, chainVars, draft, received>>

Submit == (ChooseTip \/ SubmitMine) /\ UNCHANGED <<pipeVars, received>>

\* onFound returns an error, which is logged: the core has no job until the next retarget.
Failed ==
  /\ hpc = "failed" /\ hpc' = "recv" /\ lost' = TRUE
  /\ UNCHANGED <<written, pipe, child, grinds, reader, held, events, closed, orders, locker, chainVars,
                 draft, received>>

\* mutant: a submission that succeeds does not restart the job
RestartForgotten ==
  /\ hpc = "restart" /\ hpc' = "recv"
  /\ UNCHANGED <<pipeVars, chainVars, draft, received>>

\* startJob: an RPC for the challenge, and a command to the core.
FetchChallenge ==
  /\ hpc = "submitted" /\ hpc' \in {"restart", "failed"}
  /\ UNCHANGED <<pipeVars, chainVars, draft, received>>
Restart ==
  /\ hpc = "restart"
  /\ \/ SendCommand /\ hpc' = "recv"
     \/ child = "dead" /\ hpc' = "failed" /\ UNCHANGED orders
  /\ UNCHANGED <<written, pipe, child, grinds, reader, held, events, closed, locker, lost,
                 chainVars, draft, received>>

Handler == Receive \/ EndOfEvents \/ UpdateWorkerStats \/ Submit \/ Failed \/ FetchChallenge \/ Restart

-----------------------------------------------------------------------------
Core ==
  /\ WriteLine /\ Within(written', head)
  /\ UNCHANGED <<chainVars, handlerVars>>
Block == MineBlock /\ Within(written, head') /\ UNCHANGED <<pipeVars, received>>
Reader == ReadEvents /\ UNCHANGED <<chainVars, handlerVars>>
Job == TakeCommand /\ UNCHANGED <<chainVars, handlerVars>>
Main ==
  /\ RetargetLock \/ RetargetSend \/ StopKill \/ StopWait
  /\ UNCHANGED <<chainVars, handlerVars>>
CoreDies == Die /\ UNCHANGED <<chainVars, handlerVars>>

Next == Core \/ Job \/ Block \/ Reader \/ Main \/ CoreDies \/ Handler

\* Goroutines are scheduled and every RPC ends with its timeout; the core, the chain and the
\* decision to stop owe nothing.
Fairness ==
  WF_vars(Reader) /\ WF_vars(Handler) /\ WF_vars(StopWait /\ UNCHANGED <<chainVars, handlerVars>>)

Spec == Init /\ [][Next]_vars /\ Fairness

-----------------------------------------------------------------------------
(* Properties. *)

Event == [id : Nat, kind : LineKinds]
Amounts == [tip : Nat, cap : Nat, at : Nat, estimate : Nat, gas : Nat, nonce : Nat,
            knew : SUBSET Nat]
Sent == [nonce : Nat, tip : Nat, cap : Nat, at : Nat, knew : SUBSET Nat]
TypeOK ==
  /\ written \in Nat /\ grinds \in BOOLEAN /\ closed \in BOOLEAN /\ lost \in BOOLEAN
  /\ pipe \in Seq(Event) /\ Len(pipe) <= PipeCap
  /\ events \in Seq(Event) /\ Len(events) <= EventCap
  /\ held \in Event
  /\ child \in {"alive", "dead"} /\ reader \in {"scan", "deliver", "end", "done"}
  /\ orders \in 0 .. PipeCap /\ locker \in {"no", "retarget", "wait", "done"}
  /\ head \in Nat /\ base \in Nat \ 0..7 /\ mined \in Nat
  /\ txs \in Seq(Sent)
  /\ draft \in Amounts
  /\ hpc \in {"recv", "stats", "found", "pack", "fees", "gas", "nonce", "send", "submitted",
              "restart", "failed", "done"}
  /\ received \in Seq(Nat)

\* A transaction that has just been priced can wait: until five blocks after the header it was
\* priced by, it can still pay the base fee and its whole tip, however fast the fee grows.
PricedForFiveBlocks ==
  \A i \in DOMAIN txs : head - txs[i].at <= 5 => txs[i].cap >= base + txs[i].tip

\* The gas limit of a transaction that is about to be signed covers what the node estimated,
\* unless that is above the ceiling, and lies between the floor and the ceiling; the ceiling
\* wins over a floor above it.
GasCovers ==
  hpc \in {"nonce", "send"} =>
    /\ draft.gas \in Min2(MinGas, MaxGas) .. MaxGas
    /\ MultNum >= MultDen /\ draft.estimate <= MaxGas => draft.gas >= draft.estimate

\* Two transactions of the account compete for a nonce only when the endpoint that gave the
\* later one its nonce had not heard of the earlier one, also when the answer to the earlier
\* one was lost and a retarget gave the core the job that led to the later one.  No
\* transaction waits for a nonce nobody has, whatever the endpoints know.
NoncesInLine ==
  /\ \A i, j \in DOMAIN txs : i < j /\ txs[i].nonce = txs[j].nonce => i \notin txs[j].knew
  /\ \A i \in DOMAIN txs : \A n \in 0 .. (txs[i].nonce - 1) :
       n < mined \/ \E j \in DOMAIN txs : txs[j].nonce = n

OnItsWay(q) == \E i \in DOMAIN q : q[i].kind = "found"

\* A core that has no job has reported a solution that is still on its way, or a job is on its
\* way to it, unless since its last job a solution was dropped by a full channel or not
\* submitted, or the core refused that job or died.
IdleForAReason ==
  \/ grinds \/ lost \/ orders > 0
  \/ OnItsWay(pipe) \/ held.kind = "found" \/ OnItsWay(events)
  \/ hpc \notin {"recv", "stats", "done"}

\* Stop returns, whatever the handler is doing: it may wait for workersMu, which Stop's caller
\* has, or for an RPC, with a full channel behind it.
StopReturns == locker = "wait" ~> locker = "done"

\* After Stop the handler's goroutine ends: the channel is closed once, and drained.
HandlerEnds == locker = "done" ~> hpc = "done"

Ids(q) == [i \in DOMAIN q |-> q[i].id]
Pending == Ids(events) \o (IF reader = "deliver" THEN <<held.id>> ELSE <<>>) \o Ids(pipe)
Stream ==
  INSTANCE EventStream WITH
    Lines <- UNION {1 .. b.lines : b \in Bounds},
    pending <- Pending, received <- received, over <- hpc = "done"

\* Worker implements the stream of events: in order, at most once, nothing after the end.
IsEventStream == Stream!Spec
=============================================================================
