------------------------------ MODULE GrindRun ------------------------------
(***************************************************************************)
(* The grind of one run thread (start_run in miner-core/src/main.rs): it   *)
(* calls run_gpu or run_cpu, by the mode of the job.  Both are given the   *)
(* same stop flag, and both keep what GrindPromise says, which is all that *)
(* MinerCore uses of them.                                                 *)
(***************************************************************************)
EXTENDS CpuGrind, GpuGrind

VARIABLE mode

runVars == <<mode, vars, gpuVars>>
cpuOnly == <<taskVars, found, slot, total, mpc, rpc, reported, result, hashed>>
gpuOnly == <<hostVars, deviceVars>>

RunInit == Init /\ GpuInit /\ mode \in {"cpu", "gpu"}

InMode(m, A) == mode = m /\ A /\ UNCHANGED mode
OnCpu(A) == InMode("cpu", A) /\ UNCHANGED gpuOnly
OnGpu(A) == InMode("gpu", A) /\ UNCHANGED cpuOnly

RunNext == OnCpu(Next) \/ OnGpu(GpuNext)
RunSpec == RunInit /\ [][RunNext]_runVars

\* Threads are scheduled by the operating system, rayon keeps its pool busy, and the device
\* runs what was launched.  Nobody is obliged to call Stop, and nothing to fail.
RunFairness ==
  /\ \A t \in Task : WF_runVars(OnCpu(TaskStep(t)))
  /\ WF_runVars(OnCpu(Report)) /\ WF_runVars(OnCpu(JoinTasks)) /\ WF_runVars(OnCpu(Return))
  /\ \A i \in Item : WF_runVars(OnGpu(ItemStep(i)))
  /\ WF_runVars(OnGpu(HostStep))
RunLiveSpec == RunSpec /\ RunFairness

-----------------------------------------------------------------------------
(* Properties. *)

\* Every variable of a run, of either kind, has its type.
RunTypeOK == mode \in {"cpu", "gpu"} /\ TypeOK /\ GpuTypeOK

Outcome(kind, r) == [kind |-> kind, nonce |-> r.nonce, hashes |-> r.hashes]
Answer ==
  CASE mode = "cpu" /\ mpc = "returned" ->
         Outcome(IF result.nonce = None THEN "stopped" ELSE "found", result)
    [] mode = "gpu" /\ gpc \in {"found", "stopped"} -> Outcome(gpc, gresult)
    [] mode = "gpu" /\ gpc \in {"failed", "mismatch"} ->
         [kind |-> "failed", nonce |-> None, hashes |-> 0]
    [] OTHER -> [kind |-> "running", nonce |-> None, hashes |-> 0]

\* Whatever tasks, reporter, work items and host do, the run thread sees a grind that tells
\* growing hash counts and ends with a winning nonce, by its flag, or, on a GPU, by an error.
Promise == INSTANCE GrindPromise WITH
             told <- IF mode = "cpu" THEN reported ELSE greported,
             answer <- Answer
KeepsPromise == Promise!Spec

\* No winner is passed over: every counter between a task's first and its next one, and every
\* counter before the next batch of a GPU, was hashed and lost.  Batches leave no gap, and
\* no item of a batch that found nothing has returned early.
NoneSkipped == TasksSkipNone /\ BatchesSkipNone

\* A run that is stopped, or has found a nonce, returns.
RunReturns == (stop \/ found \/ flag = 1) ~> Answer.kind # "running"

\* A run that is left alone finds a nonce if there is one, or fails: batches leave no gap.  A
\* CPU run needs one before the last batch of the space (a batch that ends at the wrap is
\* never ground: end wraps to a value below the counter, and the task spins).
FindsWinner ==
  (IF mode = "cpu" THEN \E w \in Winning : w < Space - Batch ELSE Winning # {}) =>
     ([](~stop) => <>(Answer.kind \in {"found", "failed"}))
=============================================================================
