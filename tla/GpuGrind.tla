------------------------------ MODULE GpuGrind ------------------------------
(***************************************************************************)
(* run_gpu (miner-core/src/gpu.rs) and its kernel (keccak256.cl).  The     *)
(* host clears a flag on the device, launches one work item per counter of *)
(* the batch, waits for all of them, and reads the flag.  The items run in *)
(* any order and overlap: an item that starts after the flag is up returns *)
(* without hashing, and of the items that find a nonce the one whose       *)
(* cmpxchg raises the flag stores it.  The host hashes that nonce again.   *)
(***************************************************************************)
EXTENDS Integers, NonceSpace

CONSTANTS
  GpuBatch,   \* cfg.batch
  Local       \* work-group size

ASSUME GpuAssumption == GpuBatch \in Nat /\ Local \in Nat \ {0}

\* The batch, at least one work group, rounded up to whole work groups.
Global == LET n == IF GpuBatch < Local THEN Local ELSE GpuBatch
          IN  ((n + Local - 1) \div Local) * Local
ASSUME GlobalAssumption == Global <= Space

VARIABLES
  gpc,        \* the host: where it is, or how the run ended
  gcounter,   \* first counter of the batch
  gtotal,     \* total_hashes
  greported,  \* hashes of the last progress update
  gresult,    \* what run_gpu returns
  flag,       \* found_flag, on the device
  nonceLow,   \* found_nonce_low, on the device
  item,       \* the work items of the batch
  ghashed     \* history: keccak evaluations of the kernel so far

hostVars == <<gpc, gcounter, gtotal, greported, gresult>>
deviceVars == <<flag, nonceLow, item, ghashed>>
gpuVars == <<hostVars, deviceVars, stop>>

Item == 0..(Global - 1)
GpuEnds == {"found", "stopped", "failed", "mismatch"}
Saturated(n) == IF n < Space THEN n ELSE Space - 1   \* of a u64

GpuInit ==
  /\ gpc = "setup" /\ gcounter = 0 /\ gtotal = 0 /\ greported = 0
  /\ gresult = [nonce |-> None, hashes |-> 0]
  /\ flag = 0 /\ nonceLow = None /\ item = [i \in Item |-> "none"]
  /\ stop = FALSE /\ ghashed = 0

-----------------------------------------------------------------------------
(* The kernel. *)

Becomes(i, s) == item' = [item EXCEPT ![i] = s]

\* if (*found_flag != 0) return;
ItemLooks(i) ==
  /\ item[i] = "queued"
  /\ Becomes(i, IF flag = 0 THEN "hash" ELSE "left")
  /\ UNCHANGED <<hostVars, flag, nonceLow, ghashed, stop>>

\* The hash, the comparison, and the cmpxchg of an item that is below the target.
ItemHashes(i) ==
  /\ item[i] = "hash"
  /\ ghashed' = ghashed + 1
  /\ IF WordsBelow(Keccak[Wrap(gcounter + i)], Difficulty)
     THEN /\ Becomes(i, IF flag = 0 THEN "store" ELSE "done")
          /\ flag' = 1
     ELSE Becomes(i, "done") /\ UNCHANGED flag
  /\ UNCHANGED <<hostVars, nonceLow, stop>>

\* found_nonce_low[0] = nonce_lo; the stored digest is read by nobody.
ItemStores(i) ==
  /\ item[i] = "store"
  /\ Becomes(i, "done") /\ nonceLow' = Wrap(gcounter + i)
  /\ UNCHANGED <<hostVars, flag, ghashed, stop>>

ItemStep(i) == ItemLooks(i) \/ ItemHashes(i) \/ ItemStores(i)

-----------------------------------------------------------------------------
(* The host. *)

\* Device, context, queue, program and buffers.
SetUp ==
  /\ gpc = "setup" /\ gpc' = "top"
  /\ UNCHANGED <<gcounter, gtotal, greported, gresult, deviceVars, stop>>

\* The stop flag is looked at between batches.
HostStops ==
  /\ gpc = "top" /\ stop
  /\ gpc' = "stopped" /\ gresult' = [nonce |-> None, hashes |-> gtotal]
  /\ UNCHANGED <<gcounter, gtotal, greported, deviceVars, stop>>

\* The flag is cleared and the kernel enqueued.
Launch ==
  /\ gpc = "top" /\ ~stop
  /\ gpc' = "kernel" /\ flag' = 0 /\ item' = [i \in Item |-> "queued"]
  /\ UNCHANGED <<gcounter, gtotal, greported, gresult, nonceLow, ghashed, stop>>

\* mutant: the flag is read while items are still running
FinishEarly ==
  /\ gpc = "kernel" /\ \E i \in Item : item[i] \in {"done", "left"}
  /\ gpc' = "read" /\ gtotal' = Saturated(gtotal + Global)
  /\ UNCHANGED <<gcounter, greported, gresult, deviceVars, stop>>

\* queue.finish: every item has returned; all count as hashed, those that left too.
Finish ==
  /\ gpc = "kernel" /\ \A i \in Item : item[i] \in {"done", "left"}
  /\ gpc' = "read" /\ gtotal' = Saturated(gtotal + Global)
  /\ UNCHANGED <<gcounter, greported, gresult, deviceVars, stop>>

\* The flag is up: the nonce is read, and hashed again on the CPU.
Verify ==
  /\ gpc = "read" /\ flag # 0
  /\ IF nonceLow \in Winning
     THEN gpc' = "found" /\ gresult' = [nonce |-> nonceLow, hashes |-> gtotal]
     ELSE gpc' = "mismatch" /\ UNCHANGED gresult
  /\ UNCHANGED <<gcounter, gtotal, greported, deviceVars, stop>>

\* mutant: the counter is advanced by the launch and again by the host
AdvanceTwice ==
  /\ gpc = "read" /\ flag = 0
  /\ gpc' = "top" /\ gcounter' = Wrap(gcounter + Global + Global)
  /\ greported' \in {greported, gtotal}
  /\ UNCHANGED <<gtotal, gresult, deviceVars, stop>>

\* Nothing was found: the next batch, after a progress update if 500 ms have passed.
Advance ==
  /\ gpc = "read" /\ flag = 0
  /\ gpc' = "top" /\ gcounter' = Wrap(gcounter + Global)
  /\ greported' \in {greported, gtotal}
  /\ UNCHANGED <<gtotal, gresult, deviceVars, stop>>

\* Every call of OpenCL may fail, and its error ends the run.
OpenClFails ==
  /\ gpc \notin GpuEnds /\ gpc' = "failed"
  /\ UNCHANGED <<gcounter, gtotal, greported, gresult, deviceVars, stop>>

\* ActiveRun::stop_and_wait, from another thread.
GpuStop ==
  /\ ~stop /\ gpc \notin GpuEnds /\ stop' = TRUE
  /\ UNCHANGED <<hostVars, deviceVars>>

HostStep == SetUp \/ HostStops \/ Launch \/ Finish \/ Verify \/ Advance
GpuEnded == gpc \in GpuEnds /\ UNCHANGED gpuVars

GpuNext ==
  \/ \E i \in Item : ItemStep(i)
  \/ HostStep \/ OpenClFails \/ GpuStop \/ GpuEnded
GpuSpec == GpuInit /\ [][GpuNext]_gpuVars

-----------------------------------------------------------------------------
(* Properties. *)

\* Every variable of a GPU run has its type.
GpuTypeOK ==
  /\ gpc \in {"setup", "top", "kernel", "read"} \cup GpuEnds
  /\ gcounter \in Counter /\ gtotal \in Counter /\ greported \in Counter
  /\ gresult \in [nonce : Counter \cup {None}, hashes : Counter]
  /\ flag \in {0, 1} /\ nonceLow \in Counter \cup {None}
  /\ item \in [Item -> {"none", "queued", "hash", "store", "done", "left"}]
  /\ stop \in BOOLEAN /\ ghashed \in Nat

\* The host never finds that the kernel was wrong ("gpu returned false positive"): whichever
\* items race for the flag, what it reads was stored by an item of this batch that is
\* below the target, in the host's order of bytes as in the kernel's order of words.
NoFalsePositive == gpc # "mismatch"

\* The hash count of a GPU run is not the number of hashes it made, since items that return
\* early are counted; it is off by less than one batch, and exact when nothing was found.
\* (A count that reached the end of a u64 stays there.)
CountWithinBatch ==
  /\ gpc = "found" /\ gresult.hashes < Space - 1 =>
       ghashed <= gresult.hashes /\ gresult.hashes < ghashed + Global
  /\ gpc = "stopped" => gresult.hashes = Saturated(ghashed)

\* The counters before the next batch do not win (see NoneSkipped in GrindRun).
BatchesSkipNone == gpc = "top" => Winning \cap {c \in Counter : c < gcounter} = {}
=============================================================================
