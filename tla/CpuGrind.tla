------------------------------ MODULE CpuGrind ------------------------------
(***************************************************************************)
(* run_cpu (miner-core/src/cpu.rs): a run grinds one challenge on a rayon  *)
(* pool.  Task t starts at counter t * 2^48, takes batches, checks two     *)
(* flags between batches, and the first task that finds a winning nonce    *)
(* fills the result slot.  A reporter thread sends progress until the run  *)
(* ends.  Counters are Space-bounded (2^64 in the code) and wrap.          *)
(*                                                                         *)
(* Every access to shared memory is a step: the flags, the counter of      *)
(* hashes, the slot.  The Relaxed accesses are modelled as interleaved     *)
(* ones: no property here relates two of them in program order except      *)
(* through the join at the end of the run, which synchronises.             *)
(***************************************************************************)
EXTENDS Integers, FiniteSets, NonceSpace

CONSTANTS
  Tasks,    \* n: cfg.threads.max(1)
  Pool,     \* threads of the rayon pool
  Stride,   \* distance between the tasks' first counters
  Batch     \* hashes between two looks at the flags

ASSUME TasksAssumption == Tasks \in Nat \ {0} /\ Pool \in Nat \ {0}
ASSUME BatchAssumption == Stride \in Nat /\ Batch \in Nat \ {0} /\ Batch < Space

Task == 0..(Tasks - 1)

VARIABLES
  pc,        \* where each task is
  counter,   \* the next counter of each task
  end,       \* where its batch ends
  localH,    \* local_hashes of its batch
  found,     \* the flag of a find; stop is the other one
  slot,      \* result_slot
  total,     \* total_hashes
  mpc,       \* the run thread: joining the tasks, joining the reporter, returned
  rpc,       \* the reporter: running or gone
  reported,  \* hashes of the last progress update
  result,    \* what run_cpu returns: the nonce and the hash count
  hashed     \* history: keccak evaluations so far

taskVars == <<pc, counter, end, localH>>
vars == <<taskVars, found, stop, slot, total, mpc, rpc, reported, result, hashed>>

Init ==
  /\ pc = [t \in Task |-> "queued"]
  /\ counter = [t \in Task |-> Wrap(t * Stride)]
  /\ end = [t \in Task |-> 0]
  /\ localH = [t \in Task |-> 0]
  /\ found = FALSE /\ stop = FALSE /\ slot = None /\ total = 0
  /\ mpc = "tasks" /\ rpc = "run" /\ reported = 0
  /\ result = [nonce |-> None, hashes |-> 0] /\ hashed = 0

Goto(t, p) == pc' = [pc EXCEPT ![t] = p]
Busy == {t \in Task : pc[t] \notin {"queued", "done"}}
RunFrame == UNCHANGED <<mpc, rpc, reported, result>>

\* rayon gives a task to a pool thread when one is free.
Schedule(t) ==
  /\ pc[t] = "queued" /\ Cardinality(Busy) < Pool
  /\ Goto(t, "check")
  /\ UNCHANGED <<counter, end, localH, found, stop, slot, total, hashed>> /\ RunFrame

\* mutant: the flags are looked at once, before the loop
CheckHoisted(t) ==
  /\ pc[t] = "check"
  /\ IF (found \/ stop) /\ end[t] = 0
     THEN Goto(t, "done") /\ UNCHANGED <<end, localH>>
     ELSE /\ Goto(t, "grind")
          /\ end' = [end EXCEPT ![t] = Wrap(counter[t] + Batch)]
          /\ localH' = [localH EXCEPT ![t] = 0]
  /\ UNCHANGED <<counter, found, stop, slot, total, hashed>> /\ RunFrame

\* The flags are looked at between batches; end wraps like the counter.
Check(t) ==
  /\ pc[t] = "check"
  /\ IF found \/ stop
     THEN Goto(t, "done") /\ UNCHANGED <<end, localH>>
     ELSE /\ Goto(t, "grind")
          /\ end' = [end EXCEPT ![t] = Wrap(counter[t] + Batch)]
          /\ localH' = [localH EXCEPT ![t] = 0]
  /\ UNCHANGED <<counter, found, stop, slot, total, hashed>> /\ RunFrame

\* One nonce: hash it, and go on to the next one or to the result.
Hash(t) ==
  /\ pc[t] = "grind" /\ counter[t] < end[t]
  /\ localH' = [localH EXCEPT ![t] = @ + 1]
  /\ hashed' = hashed + 1
  /\ IF counter[t] \in Winning
     THEN Goto(t, "swap") /\ UNCHANGED counter
     ELSE counter' = [counter EXCEPT ![t] = Wrap(@ + 1)] /\ UNCHANGED pc
  /\ UNCHANGED <<end, found, stop, slot, total>> /\ RunFrame

\* mutant: a load and a store instead of the swap, and the load was the batch check's
SwapLate(t) ==
  /\ pc[t] = "swap"
  /\ found' = TRUE
  /\ Goto(t, "slot")
  /\ UNCHANGED <<counter, end, localH, stop, slot, total, hashed>> /\ RunFrame

\* mutant: the value that swap returns is taken for the new one
SwapInverted(t) ==
  /\ pc[t] = "swap"
  /\ found' = TRUE
  /\ Goto(t, IF found THEN "slot" ELSE "last")
  /\ UNCHANGED <<counter, end, localH, stop, slot, total, hashed>> /\ RunFrame

\* found.swap(true): only the task that sees false goes on to the slot.
Swap(t) ==
  /\ pc[t] = "swap"
  /\ found' = TRUE
  /\ Goto(t, IF found THEN "last" ELSE "slot")
  /\ UNCHANGED <<counter, end, localH, stop, slot, total, hashed>> /\ RunFrame

FillSlot(t) ==
  /\ pc[t] = "slot"
  /\ slot' = counter[t]
  /\ Goto(t, "last")
  /\ UNCHANGED <<counter, end, localH, found, stop, total, hashed>> /\ RunFrame

\* mutant: the task that found a nonce returns without adding its last batch
AddHashesNotLast(t) ==
  /\ \/ pc[t] = "last" /\ Goto(t, "done") /\ UNCHANGED total
     \/ /\ pc[t] = "grind" /\ counter[t] >= end[t] /\ Goto(t, "check")
        /\ total' = total + localH[t]
  /\ UNCHANGED <<counter, end, localH, found, stop, slot, hashed>> /\ RunFrame

\* total_hashes.fetch_add: after the batch, or after a find, when the task returns.
AddHashes(t) ==
  /\ \/ pc[t] = "last" /\ Goto(t, "done")
     \/ pc[t] = "grind" /\ counter[t] >= end[t] /\ Goto(t, "check")
  /\ total' = total + localH[t]
  /\ UNCHANGED <<counter, end, localH, found, stop, slot, hashed>> /\ RunFrame

\* ActiveRun::stop_and_wait sets the flag from another thread.
Stop ==
  /\ ~stop /\ mpc # "returned"
  /\ stop' = TRUE
  /\ UNCHANGED <<taskVars, found, slot, total, hashed>> /\ RunFrame

\* mutant: batches count as done from the moment they start
ReportWholeBatches ==
  /\ rpc = "run"
  /\ IF stop \/ mpc = "reporter"
     THEN rpc' = "gone" /\ UNCHANGED reported
     ELSE reported' = total + Batch * Cardinality(Busy) /\ UNCHANGED rpc
  /\ UNCHANGED <<taskVars, found, stop, slot, total, mpc, result, hashed>>

\* The reporter wakes up every 500 ms; it ends once it sees either stop flag.
Report ==
  /\ rpc = "run"
  /\ IF stop \/ mpc = "reporter"
     THEN rpc' = "gone" /\ UNCHANGED reported
     ELSE reported' = total /\ UNCHANGED rpc
  /\ UNCHANGED <<taskVars, found, stop, slot, total, mpc, result, hashed>>

\* mutant: the run thread goes on at the first task that returns
JoinFirst ==
  /\ mpc = "tasks" /\ \E t \in Task : pc[t] = "done"
  /\ mpc' = "reporter"
  /\ UNCHANGED <<taskVars, found, stop, slot, total, rpc, reported, result, hashed>>

\* for_each_with returns when every task has; reporter_stop is then set.
JoinTasks ==
  /\ mpc = "tasks" /\ \A t \in Task : pc[t] = "done"
  /\ mpc' = "reporter"
  /\ UNCHANGED <<taskVars, found, stop, slot, total, rpc, reported, result, hashed>>

\* The reporter is joined, the hash count read and the slot taken.
Return ==
  /\ mpc = "reporter" /\ rpc = "gone"
  /\ mpc' = "returned"
  /\ result' = [nonce |-> slot, hashes |-> total]
  /\ slot' = None
  /\ UNCHANGED <<taskVars, found, stop, total, rpc, reported, hashed>>

TaskStep(t) ==
  Schedule(t) \/ Check(t) \/ Hash(t) \/ Swap(t) \/ FillSlot(t) \/ AddHashes(t)
Terminated == mpc = "returned" /\ UNCHANGED vars

Next ==
  \/ \E t \in Task : TaskStep(t)
  \/ Stop \/ Report \/ JoinTasks \/ Return \/ Terminated

Spec == Init /\ [][Next]_vars

-----------------------------------------------------------------------------
(* Properties. *)

\* Every variable has its type.
TypeOK ==
  /\ pc \in [Task -> {"queued", "check", "grind", "swap", "slot", "last", "done"}]
  /\ counter \in [Task -> Counter] /\ end \in [Task -> Counter]
  /\ localH \in [Task -> 0..Batch]
  /\ found \in BOOLEAN /\ stop \in BOOLEAN
  /\ slot \in Counter \cup {None}
  /\ total \in Nat /\ reported \in Nat /\ hashed \in Nat
  /\ mpc \in {"tasks", "reporter", "returned"} /\ rpc \in {"run", "gone"}
  /\ result \in [nonce : Counter \cup {None}, hashes : Nat]

\* However many tasks find a nonce at the same time, one fills the slot and no other
\* overwrites it before the run thread takes it (swap, then the mutex).
SlotWrittenOnce == [][slot # None => slot' \in {slot, None}]_vars

\* What the run returns is a nonce below the target.
ResultWins == result.nonce # None => result.nonce \in Winning

\* A run that was not stopped returns a nonce, and found implies one: the flag is set
\* before the slot is, but the slot is read only after every task has returned.
ReturnsForCause ==
  mpc = "returned" => /\ found => result.nonce # None
                      /\ ~found => stop

\* The hash count of the result is exact: the batch a task was in when it found a nonce,
\* or when it stopped, is counted once.
HashesExact == mpc = "returned" => result.hashes = hashed

\* Progress never runs ahead of the hashes done, so the final count is at least the last
\* one reported (the emitter writes progress before the terminal event).
ProgressBelowResult == mpc = "returned" => reported <= result.hashes

\* The counters that a task has passed do not win (see NoneSkipped in GrindRun).
TasksSkipNone ==
  \A t \in Task : Winning \cap {c \in Counter : Wrap(t * Stride) <= c /\ c < counter[t]} = {}

=============================================================================
