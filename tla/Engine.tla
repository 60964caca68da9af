------------------------------- MODULE Engine -------------------------------
(***************************************************************************)
(* The Go orchestrator (internal/orchestrator): Engine.Run, its spawn,     *)
(* poll, retarget and shutdown paths, one handleWorkerEvents goroutine per *)
(* wallet account, and the process-level cleanup of cli/mine.go.           *)
(*                                                                         *)
(* Every point where the code can be overtaken by another goroutine, by a  *)
(* miner core or by the chain is a step of its own: an RPC, a channel      *)
(* receive, a lock, a write to a worker's stdin.  The Rust core appears    *)
(* here as the orchestrator sees it (MinerCore and CpuGrind look inside).  *)
(*                                                                         *)
(* Idealisation: keccak256(challenge || nonce) is a random function, so a  *)
(* solution found for one challenge is worth nothing under another one.    *)
(***************************************************************************)
EXTENDS Integers, Sequences, FiniteSets

CONSTANTS
  NumAccounts,        \* wallet accounts, hence workers; account 1 is Primary()
  CfgMode,            \* cfg.Miner.Mode: "cpu", "gpu" or "auto"
  HasGPU,             \* the core finds an OpenCL device
  VerifyBeforeSubmit, \* cfg.Mining.VerifyBeforeSubmit
  EventCap,           \* capacity of Worker.events (256 in NewWorker)
  StdinCap,           \* commands a stdin pipe holds before Write blocks
  MaxBlocks,          \* bound: chain states visited in a behaviour
  MaxProgress,        \* bound: progress events unread at a time, per worker
  MaxEpoch,           \* bound: the last epoch of a behaviour
  MaxLag,             \* how many chain states an RPC endpoint may be behind
  Difficulties,       \* targets the contract may set
  Hashes,             \* keccak outputs, ordered
  Nonces,             \* nonces the cores try, named by positive numbers
  CollidingNonces,    \* a nonce that was submitted may be found again
  RpcFails,           \* any RPC may fail
  CoreFails,          \* a core may die, or fail to start, at any time
  PackNil             \* what ABI.PackMine may do when it is given no nonce

ASSUME NumAccountsAssumption == NumAccounts \in Nat \ {0}
ASSUME CapAssumption == EventCap \in Nat \ {0} /\ StdinCap \in Nat \ {0}
ASSUME BoundAssumption ==
  MaxBlocks \in Nat \ {0} /\ {MaxEpoch, MaxLag, MaxProgress} \subseteq Nat
ASSUME ModeAssumption == CfgMode \in {"cpu", "gpu", "auto"}
ASSUME DataAssumption == /\ Difficulties \subseteq Nat /\ Hashes \subseteq Nat
                         /\ Nonces \subseteq Nat \ {0}
ASSUME SwitchAssumption ==
  /\ {HasGPU, VerifyBeforeSubmit, CollidingNonces, RpcFails, CoreFails} \subseteq BOOLEAN
  /\ PackNil \subseteq {"panic", "error", "zero"}

Accounts == 1..NumAccounts
Primary == 1

VARIABLES
  chain,       \* the contract's states so far, oldest first
  ctxDone,     \* the context of Run is cancelled
  wiped,       \* wallet.Manager.Wipe has zeroed the private keys
  pc,          \* where the main goroutine is
  cur,         \* the loop index of spawnWorkers and of retargetAll
  mode,        \* resolvedMode of spawnWorkers
  mcmd,        \* the command the main goroutine is about to write
  rdiff,       \* diff of retargetAll, read once per call
  lastEpoch,   \* lastEpoch of Run
  epoch, difficulty, challenge,   \* the Engine's atomic caches
  workers,     \* len(e.workers): accounts 1..workers have a slot
  submitted,   \* keys of the Engine.submitted map
  hpc,         \* where each handleWorkerEvents goroutine is
  hsol,        \* the solution a handler is working on
  hcmd,        \* the command a handler is about to write
  signed,      \* the key a handler signed its transaction with
  events,      \* Worker.events with the stdout pipe that feeds it
  stdin,       \* each worker's stdin pipe
  core,        \* each core process
  job,         \* the run each core is grinding
  sent         \* history: transactions handed to SubmitClient

chainVars == <<chain>>
cacheVars == <<epoch, difficulty, challenge>>
mainVars == <<pc, cur, mode, mcmd, rdiff, lastEpoch, workers>>
procVars == <<ctxDone, wiped>>
handlerVars == <<hpc, hsol, hcmd, signed, submitted, sent>>
coreVars == <<events, stdin, core, job>>
vars == <<chainVars, procVars, mainVars, cacheVars, handlerVars, coreVars>>

-----------------------------------------------------------------------------
(* Data. *)

None == [none |-> TRUE]

\* getChallenge(miner) of the contract: bound to the account and the epoch.
Challenge(a, e) == [acc |-> a, epoch |-> e]
ChallengesOf(A) == [acc : A, epoch : Nat]

\* A solution: the nonce, the challenge it was ground for, and its hash.
SolutionsOf(A) == [nonce : Nonces, ch : ChallengesOf(A), hash : Hashes]

Modes == {"cpu", "gpu"}
StartCmd(ch, d, m) == [cmd |-> "start", ch |-> ch, diff |-> d, mode |-> m]
RetargetCmd(ch, d) == [cmd |-> "retarget", ch |-> ch, diff |-> d]
CommandsOf(A) ==
  [cmd : {"start"}, ch : ChallengesOf(A), diff : Difficulties, mode : Modes]
    \cup [cmd : {"retarget"}, ch : ChallengesOf(A), diff : Difficulties]

JobsOf(A) == [ch : ChallengesOf(A), diff : Difficulties, mode : Modes]

\* "info" stands for "stopped", "error" and unparseable lines: all are only logged.
Note(kind) == [ev |-> kind]
Found(sol) == [ev |-> "found", sol |-> sol]
EventsOf(A) ==
  [ev : {"ready", "progress", "info"}] \cup [ev : {"found"}, sol : SolutionsOf(A)]
Transactions == [acc : Accounts, sol : SolutionsOf(Accounts), arg : Nat,
                 key : {"live", "wiped"}]

\* verifyLocal: the hash under the given challenge is below the target.
VerifyLocal(ch, sol, target) == sol.ch = ch /\ sol.hash < target

-----------------------------------------------------------------------------
(* RPC, seen from a caller whose context is c (TRUE when cancelled). *)

\* The chain states the endpoint that answers may be at.
Views == {chain[k] : k \in {n \in DOMAIN chain : n + MaxLag >= Len(chain)}}
RpcOk(c) == ~c
RpcErr(c) == c \/ RpcFails

\* The modes resolveMode may return; "auto" starts a probe core, which may fail.
ResolvedModes(c) ==
  IF CfgMode # "auto" THEN {CfgMode}
  ELSE (IF HasGPU /\ ~c THEN {"gpu"} ELSE {"cpu"})
         \cup (IF CoreFails THEN {"cpu"} ELSE {})

-----------------------------------------------------------------------------
(* Pipes and channels. *)

EmitBlocking(q, e) == Append(q, e)  \* mutant: no default case, the channel never full
\* readEvents: an event that finds the channel full is dropped.
Emit(q, e) == IF Len(q) < EventCap THEN Append(q, e) ELSE q

\* Worker.Send: blocks while the pipe is full, fails when the core is gone.
CanSend(a) == core[a] # "dead" /\ Len(stdin[a]) < StdinCap
SendFails(a) == core[a] = "dead"
Closed(a) == core[a] = "dead" /\ events[a] = <<>>

Running == pc \notin {"exited", "panicked"}

\* workersMu is held by the main goroutine from Lock to the deferred Unlock.
MutexHeld == pc \in {"resolve", "start", "await", "job", "jobsend",
                     "retarget", "rsend", "stop"}

-----------------------------------------------------------------------------
Init ==
  /\ chain \in {<<[epoch |-> 0, diff |-> d]>> : d \in Difficulties}
  /\ ctxDone = FALSE /\ wiped = FALSE
  /\ pc = "init" /\ cur = 1 /\ mode = "cpu" /\ mcmd = None
  /\ rdiff = chain[1].diff /\ lastEpoch = 0 /\ workers = 0
  /\ epoch = 0 /\ difficulty = chain[1].diff /\ challenge = None
  /\ hpc = [a \in Accounts |-> "none"]
  /\ hsol = [a \in Accounts |-> None]
  /\ hcmd = [a \in Accounts |-> None]
  /\ signed = [a \in Accounts |-> "no"]
  /\ submitted = {} /\ sent = <<>>
  /\ events = [a \in Accounts |-> <<>>]
  /\ stdin = [a \in Accounts |-> <<>>]
  /\ core = [a \in Accounts |-> "none"]
  /\ job = [a \in Accounts |-> None]

-----------------------------------------------------------------------------
(* The chain and the operator. *)

\* The contract moves to its next epoch, its next difficulty, or both.
Block ==
  /\ Len(chain) < MaxBlocks
  /\ LET tip == chain[Len(chain)] IN
     \E s \in [epoch : {tip.epoch, tip.epoch + 1} \cap 0..MaxEpoch, diff : Difficulties] :
       s # tip /\ chain' = Append(chain, s)
  /\ UNCHANGED <<procVars, mainVars, cacheVars, handlerVars, coreVars>>

\* SIGINT or SIGTERM.
Signal ==
  /\ Running /\ ~ctxDone
  /\ ctxDone' = TRUE
  /\ UNCHANGED <<chainVars, wiped, mainVars, cacheVars, handlerVars, coreVars>>

-----------------------------------------------------------------------------
(* The main goroutine. *)

\* Reader.MiningState: difficulty and epoch are cached.
PollMiningState ==
  /\ pc \in {"init", "poll"}
  /\ \/ /\ RpcOk(ctxDone)
        /\ \E v \in Views : epoch' = v.epoch /\ difficulty' = v.diff
        /\ pc' = IF pc = "init" THEN "init2" ELSE "poll2"
     \/ /\ RpcErr(ctxDone)
        /\ pc' = IF pc = "init" THEN "cancel" ELSE "loop"
        /\ UNCHANGED <<epoch, difficulty>>
  /\ UNCHANGED <<chainVars, procVars, cur, mode, mcmd, rdiff, lastEpoch, workers,
                 challenge, handlerVars, coreVars>>

\* Reader.GetChallenge for the primary account; a failure is ignored.
PollChallenge ==
  /\ pc \in {"init2", "poll2"}
  /\ \/ RpcOk(ctxDone) /\ \E v \in Views : challenge' = Challenge(Primary, v.epoch)
     \/ RpcErr(ctxDone) /\ UNCHANGED challenge
  /\ IF pc = "init2"
     THEN pc' = "resolve" /\ UNCHANGED <<cur, rdiff, lastEpoch>>
     ELSE IF epoch # lastEpoch
          THEN pc' = "retarget" /\ cur' = 1 /\ rdiff' = difficulty /\ UNCHANGED lastEpoch
          ELSE pc' = "loop" /\ lastEpoch' = epoch /\ UNCHANGED <<cur, rdiff>>
  /\ UNCHANGED <<chainVars, procVars, mode, mcmd, workers, epoch, difficulty,
                 handlerVars, coreVars>>

ResolveMode ==
  /\ pc = "resolve"
  /\ mode' \in ResolvedModes(ctxDone)
  /\ pc' = "start" /\ cur' = 1
  /\ UNCHANGED <<chainVars, procVars, mcmd, rdiff, lastEpoch, workers, cacheVars,
                 handlerVars, coreVars>>

\* Worker.Start for the next account, its slot, and its handler goroutine.
StartWorker ==
  /\ pc = "start" /\ cur <= NumAccounts
  /\ ~ctxDone
  /\ core' = [core EXCEPT ![cur] = "boot"]
  /\ hpc' = [hpc EXCEPT ![cur] = "recv"]
  /\ workers' = cur /\ pc' = "await"
  /\ UNCHANGED <<chainVars, procVars, cur, mode, mcmd, rdiff, lastEpoch, cacheVars,
                 hsol, hcmd, signed, submitted, sent, events, stdin, job>>

\* spawnWorkers returns an error: Run returns it before stopAllWorkers is deferred.
StartFails ==
  /\ pc = "start" /\ cur <= NumAccounts
  /\ ctxDone \/ CoreFails
  /\ pc' = "cancel"
  /\ UNCHANGED <<chainVars, procVars, cur, mode, mcmd, rdiff, lastEpoch, workers,
                 cacheVars, handlerVars, coreVars>>

SpawnDone ==
  /\ pc = "start" /\ cur > NumAccounts
  /\ pc' = "loop" /\ lastEpoch' = epoch
  /\ UNCHANGED <<chainVars, procVars, cur, mode, mcmd, rdiff, workers, cacheVars,
                 handlerVars, coreVars>>

\* ready := <-w.Events(), in competition with the handler just started.
AwaitReady ==
  /\ pc = "await"
  /\ \/ /\ events[cur] # <<>>
        /\ pc' = IF Head(events[cur]).ev = "ready" THEN "job" ELSE "cancel"
        /\ events' = [events EXCEPT ![cur] = Tail(@)]
     \/ /\ Closed(cur)
        /\ pc' = "cancel" /\ UNCHANGED events
  /\ UNCHANGED <<chainVars, procVars, cur, mode, mcmd, rdiff, lastEpoch, workers,
                 cacheVars, handlerVars, stdin, core, job>>

\* mutant: the primary account's challenge is fetched for every worker
SpawnFetchPrimary ==
  /\ pc = "job"
  /\ RpcOk(ctxDone)
  /\ \E v \in Views : mcmd' = StartCmd(Challenge(Primary, v.epoch), difficulty, mode)
  /\ pc' = "jobsend"
  /\ UNCHANGED <<chainVars, procVars, cur, mode, rdiff, lastEpoch, workers, cacheVars,
                 handlerVars, coreVars>>

\* startJob of spawnWorkers: the challenge is fetched, then the cached difficulty read.
SpawnFetch ==
  /\ pc = "job"
  /\ \/ /\ RpcOk(ctxDone)
        /\ \E v \in Views :
             mcmd' = StartCmd(Challenge(cur, v.epoch), difficulty, mode)
        /\ pc' = "jobsend"
     \/ RpcErr(ctxDone) /\ pc' = "cancel" /\ UNCHANGED mcmd
  /\ UNCHANGED <<chainVars, procVars, cur, mode, rdiff, lastEpoch, workers, cacheVars,
                 handlerVars, coreVars>>

SpawnSend ==
  /\ pc = "jobsend"
  /\ \/ /\ CanSend(cur)
        /\ stdin' = [stdin EXCEPT ![cur] = Append(@, mcmd)]
        /\ pc' = "start" /\ cur' = cur + 1
     \/ SendFails(cur) /\ pc' = "cancel" /\ UNCHANGED <<stdin, cur>>
  /\ mcmd' = None
  /\ UNCHANGED <<chainVars, procVars, mode, rdiff, lastEpoch, workers, cacheVars,
                 handlerVars, events, core, job>>

\* The poll ticker fires.
LoopPoll ==
  /\ pc = "loop"
  /\ pc' = "poll"
  /\ UNCHANGED <<chainVars, procVars, cur, mode, mcmd, rdiff, lastEpoch, workers,
                 cacheVars, handlerVars, coreVars>>

\* The context is done: Run returns, and its deferred stopAllWorkers takes workersMu.
LoopDone ==
  /\ pc = "loop" /\ ctxDone
  /\ pc' = "stop"
  /\ UNCHANGED <<chainVars, procVars, cur, mode, mcmd, rdiff, lastEpoch, workers,
                 cacheVars, handlerVars, coreVars>>

\* retargetAll for one slot, under a context of its own: a failed fetch skips the slot.
RetargetFetch ==
  /\ pc = "retarget" /\ cur <= workers
  /\ \/ /\ RpcOk(FALSE)
        /\ \E v \in Views : mcmd' = RetargetCmd(Challenge(cur, v.epoch), rdiff)
        /\ pc' = "rsend" /\ UNCHANGED cur
     \/ RpcErr(FALSE) /\ cur' = cur + 1 /\ UNCHANGED <<pc, mcmd>>
  /\ UNCHANGED <<chainVars, procVars, mode, rdiff, lastEpoch, workers, cacheVars,
                 handlerVars, coreVars>>

\* mutant: the loop ends after its first slot
RetargetSendOnce ==
  /\ pc = "rsend"
  /\ CanSend(cur) /\ stdin' = [stdin EXCEPT ![cur] = Append(@, mcmd)]
  /\ pc' = "retarget" /\ cur' = workers + 1 /\ mcmd' = None
  /\ UNCHANGED <<chainVars, procVars, mode, rdiff, lastEpoch, workers, cacheVars,
                 handlerVars, events, core, job>>

RetargetSend ==
  /\ pc = "rsend"
  /\ \/ CanSend(cur) /\ stdin' = [stdin EXCEPT ![cur] = Append(@, mcmd)]
     \/ SendFails(cur) /\ UNCHANGED stdin
  /\ pc' = "retarget" /\ cur' = cur + 1 /\ mcmd' = None
  /\ UNCHANGED <<chainVars, procVars, mode, rdiff, lastEpoch, workers, cacheVars,
                 handlerVars, events, core, job>>

RetargetDone ==
  /\ pc = "retarget" /\ cur > workers
  /\ pc' = "loop" /\ lastEpoch' = epoch
  /\ UNCHANGED <<chainVars, procVars, cur, mode, mcmd, rdiff, workers, cacheVars,
                 handlerVars, coreVars>>

\* A core process ends: its pipes go with it, what it had written can still be read.
Dead(a) ==
  /\ core' = [core EXCEPT ![a] = "dead"]
  /\ stdin' = [stdin EXCEPT ![a] = <<>>]
  /\ job' = [job EXCEPT ![a] = None]
  /\ UNCHANGED events

\* stopAllWorkers: every slot's core is killed, the slots are dropped.
StopAllWorkers ==
  /\ pc = "stop"
  /\ core' = [a \in Accounts |-> IF a <= workers THEN "dead" ELSE core[a]]
  /\ stdin' = [a \in Accounts |-> IF a <= workers THEN <<>> ELSE stdin[a]]
  /\ job' = [a \in Accounts |-> IF a <= workers THEN None ELSE job[a]]
  /\ workers' = 0 /\ pc' = "cancel"
  /\ UNCHANGED <<chainVars, procVars, cur, mode, mcmd, rdiff, lastEpoch, cacheVars,
                 handlerVars, events>>

\* mutant: the context is not cancelled before the keys are wiped
CancelForgotten ==
  /\ pc = "cancel" /\ pc' = "wipe"
  /\ UNCHANGED <<chainVars, procVars, cur, mode, mcmd, rdiff, lastEpoch, workers,
                 cacheVars, handlerVars, coreVars>>

\* runMineStart's deferred calls, last one first: cancel, close the clients, Wipe.
Cancel ==
  /\ pc = "cancel"
  /\ ctxDone' = TRUE /\ pc' = "wipe"
  /\ UNCHANGED <<chainVars, wiped, cur, mode, mcmd, rdiff, lastEpoch, workers,
                 cacheVars, handlerVars, coreVars>>

Wipe ==
  /\ pc = "wipe"
  /\ wiped' = TRUE /\ pc' = "exit"
  /\ UNCHANGED <<chainVars, ctxDone, cur, mode, mcmd, rdiff, lastEpoch, workers,
                 cacheVars, handlerVars, coreVars>>

\* The process exits; goroutines still running vanish with it.
Exit ==
  /\ pc = "exit"
  /\ pc' = "exited"
  /\ UNCHANGED <<chainVars, procVars, cur, mode, mcmd, rdiff, lastEpoch, workers,
                 cacheVars, handlerVars, coreVars>>

MainStep ==
  \/ PollMiningState \/ PollChallenge \/ ResolveMode
  \/ StartWorker \/ StartFails \/ SpawnDone \/ AwaitReady \/ SpawnFetch \/ SpawnSend
  \/ LoopPoll \/ LoopDone \/ RetargetFetch \/ RetargetSend \/ RetargetDone
  \/ StopAllWorkers \/ Cancel \/ Wipe \/ Exit

-----------------------------------------------------------------------------
(* One handleWorkerEvents goroutine per account. *)

\* The handler moves to pc p; going back to its loop it forgets what it worked on.
Goto(a, p) == hpc' = [hpc EXCEPT ![a] = p]
Forget(a) ==
  /\ Goto(a, "recv")
  /\ hsol' = [hsol EXCEPT ![a] = None]
  /\ hcmd' = [hcmd EXCEPT ![a] = None]
  /\ signed' = [signed EXCEPT ![a] = "no"]
At(a, p) == Running /\ hpc[a] = p
HandlerFrame == UNCHANGED <<chainVars, procVars, cur, mode, mcmd, rdiff, lastEpoch,
                            workers, cacheVars, core, job>>

\* for ev := range w.Events()
HReceive(a) ==
  /\ At(a, "recv") /\ events[a] # <<>>
  /\ events' = [events EXCEPT ![a] = Tail(@)]
  /\ LET e == Head(events[a]) IN
     /\ Goto(a, CASE e.ev = "found" -> "found"
                  [] e.ev = "progress" -> "stats"
                  [] OTHER -> "recv")
     /\ hsol' = [hsol EXCEPT ![a] = IF e.ev = "found" THEN e.sol ELSE None]
  /\ UNCHANGED <<pc, hcmd, signed, submitted, sent, stdin>> /\ HandlerFrame

HClosed(a) ==
  /\ At(a, "recv") /\ Closed(a)
  /\ Goto(a, "exited")
  /\ UNCHANGED <<pc, hsol, hcmd, signed, submitted, sent, events, stdin>> /\ HandlerFrame

\* updateWorkerStats waits for workersMu.
HStats(a) ==
  /\ At(a, "stats") /\ ~MutexHeld
  /\ Goto(a, "recv")
  /\ UNCHANGED <<pc, hsol, hcmd, signed, submitted, sent, events, stdin>> /\ HandlerFrame

\* onFound's own check: the cached challenge is the primary account's.
LocallyValid(a) ==
  VerifyBeforeSubmit => challenge # None /\ VerifyLocal(challenge, hsol[a], difficulty)
Key(a) == <<a, hsol[a].nonce>>

\* onFound gives up before submitting: the check failed, or the key was submitted.
HReject(a) ==
  /\ At(a, "found")
  /\ ~LocallyValid(a) \/ Key(a) \in submitted
  /\ Forget(a)
  /\ UNCHANGED <<pc, submitted, sent, events, stdin>> /\ HandlerFrame

\* mutant: the key is checked but never recorded
HAcceptUnrecorded(a) ==
  /\ At(a, "found")
  /\ LocallyValid(a) /\ Key(a) \notin submitted
  /\ Goto(a, "pack")
  /\ UNCHANGED <<pc, hsol, hcmd, signed, submitted, sent, events, stdin>> /\ HandlerFrame

HAccept(a) ==
  /\ At(a, "found")
  /\ LocallyValid(a) /\ Key(a) \notin submitted
  /\ submitted' = submitted \cup {Key(a)}
  /\ Goto(a, "pack")
  /\ UNCHANGED <<pc, hsol, hcmd, signed, sent, events, stdin>> /\ HandlerFrame

\* SubmitMine up to the account nonce.  SubmitParams.Nonce is left nil, and a panic of
\* the ABI encoder in a goroutine ends the process.
HPack(a) ==
  /\ At(a, "pack")
  /\ \/ /\ "panic" \in PackNil
        /\ pc' = "panicked" /\ UNCHANGED <<hpc, hsol, hcmd, signed>>
     \/ /\ "error" \in PackNil \/ ("zero" \in PackNil /\ RpcErr(ctxDone))
        /\ Forget(a) /\ UNCHANGED pc
     \/ /\ "zero" \in PackNil /\ RpcOk(ctxDone)
        /\ Goto(a, "sign") /\ UNCHANGED <<pc, hsol, hcmd, signed>>
  /\ UNCHANGED <<submitted, sent, events, stdin>> /\ HandlerFrame

\* types.SignTx: a key being wiped yields an error or a worthless signature.
HSign(a) ==
  /\ At(a, "sign")
  /\ \/ /\ Goto(a, "broadcast")
        /\ signed' = [signed EXCEPT ![a] = IF wiped THEN "wiped" ELSE "live"]
        /\ UNCHANGED <<hsol, hcmd>>
     \/ wiped /\ Forget(a)
  /\ UNCHANGED <<pc, submitted, sent, events, stdin>> /\ HandlerFrame

\* mutant: the handler goes back to its loop without restarting the worker
HBroadcastOnly(a) ==
  /\ At(a, "broadcast")
  /\ IF RpcOk(ctxDone)
     THEN sent' = Append(sent, [acc |-> a, sol |-> hsol[a], arg |-> 0, key |-> signed[a]])
     ELSE UNCHANGED sent
  /\ Forget(a)
  /\ UNCHANGED <<pc, submitted, events, stdin>> /\ HandlerFrame

\* SendTransaction; mine() carries the packed nil nonce (0), whatever was found.
HBroadcast(a) ==
  /\ At(a, "broadcast")
  /\ \/ /\ RpcOk(ctxDone)
        /\ sent' = Append(sent, [acc |-> a, sol |-> hsol[a], arg |-> 0, key |-> signed[a]])
        /\ Goto(a, "restart") /\ UNCHANGED <<hsol, hcmd, signed>>
     \/ RpcErr(ctxDone) /\ Forget(a) /\ UNCHANGED sent
  /\ UNCHANGED <<pc, submitted, events, stdin>> /\ HandlerFrame

\* startJob after a submission: fetch, read the cached difficulty, and only then write.
HRestartFetch(a) ==
  /\ At(a, "restart")
  /\ \/ /\ RpcOk(ctxDone)
        /\ \E v \in Views, m \in ResolvedModes(FALSE) :
             hcmd' = [hcmd EXCEPT ![a] = StartCmd(Challenge(a, v.epoch), difficulty, m)]
        /\ Goto(a, "send") /\ UNCHANGED <<hsol, signed>>
     \/ RpcErr(ctxDone) /\ Forget(a)
  /\ UNCHANGED <<pc, submitted, sent, events, stdin>> /\ HandlerFrame

HSend(a) ==
  /\ At(a, "send")
  /\ \/ CanSend(a) /\ stdin' = [stdin EXCEPT ![a] = Append(@, hcmd[a])]
     \/ SendFails(a) /\ UNCHANGED stdin
  /\ Forget(a)
  /\ UNCHANGED <<pc, submitted, sent, events>> /\ HandlerFrame

HandlerStep(a) ==
  \/ HReceive(a) \/ HClosed(a) \/ HStats(a) \/ HReject(a) \/ HAccept(a) \/ HPack(a)
  \/ HSign(a) \/ HBroadcast(a) \/ HRestartFetch(a) \/ HSend(a)

-----------------------------------------------------------------------------
(* The miner cores, as the orchestrator sees them. *)

CoreFrame == UNCHANGED <<chainVars, procVars, mainVars, cacheVars, handlerVars>>
Write(a, es) == events' = [events EXCEPT ![a] = es]

CoreBoot(a) ==
  /\ core[a] = "boot"
  /\ core' = [core EXCEPT ![a] = "up"]
  /\ Write(a, Emit(events[a], Note("ready")))
  /\ UNCHANGED <<stdin, job>> /\ CoreFrame

\* The core takes a command: the current run is stopped, then the new one starts.
\* A retarget restarts in CPU mode; a GPU run without a device is an error.
CoreTake(a) ==
  /\ core[a] = "up" /\ stdin[a] # <<>>
  /\ stdin' = [stdin EXCEPT ![a] = Tail(@)]
  /\ LET c == Head(stdin[a])
         m == IF c.cmd = "retarget" THEN "cpu" ELSE c.mode
         stopped == IF job[a] = None THEN events[a] ELSE Emit(events[a], Note("info"))
     IN IF m = "gpu" /\ ~HasGPU
        THEN job' = [job EXCEPT ![a] = None] /\ Write(a, Emit(stopped, Note("info")))
        ELSE /\ job' = [job EXCEPT ![a] = [ch |-> c.ch, diff |-> c.diff, mode |-> m]]
             /\ Write(a, stopped)
  /\ UNCHANGED core /\ CoreFrame

CoreProgress(a) ==
  /\ core[a] = "up" /\ job[a] # None
  /\ Cardinality({k \in DOMAIN events[a] : events[a][k].ev = "progress"}) < MaxProgress
  /\ Write(a, Emit(events[a], Note("progress")))
  /\ UNCHANGED <<core, stdin, job>> /\ CoreFrame

\* Nonce n of worker a is not on its way to the contract, nor was it ever.
Fresh(a, n) ==
  /\ <<a, n>> \notin submitted
  /\ hsol[a] # None => hsol[a].nonce # n
  /\ \A k \in DOMAIN events[a] : events[a][k].ev = "found" => events[a][k].sol.nonce # n

\* The run ends with a nonce whose hash is below its target.
CoreFind(a) ==
  /\ core[a] = "up" /\ job[a] # None
  /\ \E n \in Nonces, h \in Hashes :
       /\ h < job[a].diff
       /\ CollidingNonces \/ Fresh(a, n)
       /\ Write(a, Emit(events[a], Found([nonce |-> n, ch |-> job[a].ch, hash |-> h])))
  /\ job' = [job EXCEPT ![a] = None]
  /\ UNCHANGED <<core, stdin>> /\ CoreFrame

\* A run ends with an error event: a GPU run whose device fails.
CoreGpuFail(a) ==
  /\ core[a] = "up" /\ job[a] # None /\ job[a].mode = "gpu" /\ CoreFails
  /\ Write(a, Emit(events[a], Note("info")))
  /\ job' = [job EXCEPT ![a] = None]
  /\ UNCHANGED <<core, stdin>> /\ CoreFrame

KillForgotten(a) == FALSE  \* mutant: exec.Command, not exec.CommandContext

\* The core crashes; or exec.CommandContext kills it once the context is done; or the
\* orchestrator is gone and the core reads end of file.
CoreDie(a) == core[a] \in {"boot", "up"} /\ CoreFails /\ Dead(a) /\ CoreFrame
KillByCtx(a) == core[a] \in {"boot", "up"} /\ ctxDone /\ Running /\ Dead(a) /\ CoreFrame
CoreEof(a) == core[a] \in {"boot", "up"} /\ ~Running /\ Dead(a) /\ CoreFrame

CoreStep(a) ==
  \/ CoreBoot(a) \/ CoreTake(a) \/ CoreProgress(a) \/ CoreFind(a)
  \/ CoreGpuFail(a) \/ CoreDie(a) \/ KillByCtx(a) \/ CoreEof(a)

-----------------------------------------------------------------------------
\* The process and every core it started are gone.
AllGone == ~Running /\ \A a \in Accounts : core[a] \in {"none", "dead"}
Terminated == AllGone /\ UNCHANGED vars

Next ==
  \/ Block \/ Signal \/ MainStep \/ Terminated
  \/ \E a \in Accounts : HandlerStep(a) \/ CoreStep(a)

Spec == Init /\ [][Next]_vars

\* Every goroutine and every core runs.  Go's select picks at random among ready cases,
\* so a done context is not passed over forever: LoopDone needs strong fairness.
Fairness ==
  /\ WF_vars(MainStep) /\ SF_vars(LoopDone)
  /\ \A a \in Accounts :
       /\ WF_vars(HandlerStep(a))
       /\ WF_vars(CoreBoot(a)) /\ WF_vars(CoreTake(a))
       /\ WF_vars(KillByCtx(a)) /\ WF_vars(CoreEof(a))
LiveSpec == Spec /\ Fairness

-----------------------------------------------------------------------------
(* Properties. *)

\* Every variable has its type, and no channel or pipe holds more than it can.
TypeOK ==
  /\ chain \in Seq([epoch : Nat, diff : Difficulties]) /\ chain # <<>>
  /\ ctxDone \in BOOLEAN /\ wiped \in BOOLEAN
  /\ pc \in {"init", "init2", "resolve", "start", "await", "job", "jobsend", "loop",
             "poll", "poll2", "retarget", "rsend", "stop", "cancel", "wipe", "exit",
             "exited", "panicked"}
  /\ cur \in 1..(NumAccounts + 1) /\ workers \in 0..NumAccounts
  /\ mode \in Modes /\ rdiff \in Difficulties
  /\ mcmd \in CommandsOf(Accounts) \cup {None}
  /\ lastEpoch \in Nat /\ epoch \in Nat /\ difficulty \in Difficulties
  /\ challenge \in ChallengesOf({Primary}) \cup {None}
  /\ hpc \in [Accounts -> {"none", "recv", "stats", "found", "pack", "sign",
                           "broadcast", "restart", "send", "exited"}]
  /\ hsol \in [Accounts -> SolutionsOf(Accounts) \cup {None}]
  /\ hcmd \in [Accounts -> CommandsOf(Accounts) \cup {None}]
  /\ signed \in [Accounts -> {"no", "live", "wiped"}]
  /\ submitted \subseteq Accounts \X Nonces
  /\ sent \in Seq(Transactions)
  /\ events \in [Accounts -> Seq(EventsOf(Accounts))]
  /\ \A a \in Accounts : Len(events[a]) <= EventCap
  /\ stdin \in [Accounts -> Seq(CommandsOf(Accounts))]
  /\ \A a \in Accounts : Len(stdin[a]) <= StdinCap
  /\ core \in [Accounts -> {"none", "boot", "up", "dead"}]
  /\ job \in [Accounts -> JobsOf(Accounts) \cup {None}]

\* The challenge is bound to the miner's address: whatever is queued for, ground by,
\* found by or restarted on worker a is for account a (startJob, retargetAll).
OwnChallenge ==
  \A a \in Accounts :
    /\ \A k \in DOMAIN stdin[a] : stdin[a][k].ch.acc = a
    /\ job[a] # None => job[a].ch.acc = a
    /\ \A k \in DOMAIN events[a] : events[a][k].ev = "found" => events[a][k].sol.ch.acc = a
    /\ hsol[a] # None => hsol[a].ch.acc = a
    /\ hcmd[a] # None => hcmd[a].ch.acc = a

\* With verify_before_submit, onFound checks against the one cached challenge, the
\* primary account's: no transaction of another account is ever sent.
OnlyPrimarySubmits ==
  VerifyBeforeSubmit => \A k \in DOMAIN sent : sent[k].acc = Primary

\* Engine.submitted: an account never submits the same nonce twice.
SubmittedOnce ==
  \A k, l \in DOMAIN sent :
    sent[k].acc = sent[l].acc /\ sent[k].sol.nonce = sent[l].sol.nonce => k = l

\* Handlers outlive Run and still hold the keys when Wipe zeroes them, but the context is
\* cancelled first (runMineStart's defers): nothing signed with a wiped key is sent.
SignedWithLiveKey == \A k \in DOMAIN sent : sent[k].key = "live"

\* The last thing worker a was told: a queued command, else the job it runs.
Target(a) == IF stdin[a] # <<>> THEN stdin[a][Len(stdin[a])] ELSE job[a]

\* Once Run is back in its loop, every live worker that has work is at the epoch Run
\* has recorded as handled, or at a later one (spawnWorkers, retargetAll).  A worker that was
\* restarted after a find is left out: its restart may be older than the retarget.
JobsAreCurrent ==
  pc = "loop" =>
    \A a \in Accounts :
      Target(a) # None /\ (\A k \in submitted : k[1] # a) => Target(a).ch.epoch >= lastEpoch

\* A signal, or an error of Run, ends the process and every core it started, wherever
\* the main goroutine and the handlers are waiting (CommandContext, the deferred calls).
ShutdownCompletes == (ctxDone \/ pc = "cancel") ~> AllGone

\* A worker whose solution reached the orchestrator grinds again (onFound, startJob).
HasFound(a) ==
  \/ hpc[a] \in {"found", "pack", "sign", "broadcast", "restart", "send"}
  \/ \E k \in DOMAIN events[a] : events[a][k].ev = "found"
FoundRestartsWorker ==
  \A a \in Accounts : HasFound(a) ~> (job[a] # None \/ ctxDone \/ ~Running)

\* README: "spawns one Rust worker per wallet account, dispatches challenge".
SpawnDispatches == pc = "await" ~> pc # "await"

\* README: "submits mine(nonce)": packing the call does not bring the process down, and
\* what is sent carries the nonce of the found event.
SubmitsFoundNonce ==
  pc # "panicked" /\ \A k \in DOMAIN sent : sent[k].arg = sent[k].sol.nonce

\* README: "each wallet signs its own transactions": a solution that is good for its own
\* account's current challenge and for the current target passes the local check.
ValidSolutionPasses ==
  \A a \in Accounts :
    hpc[a] = "found" /\ challenge # None =>
      (hsol[a].ch.epoch = challenge.epoch /\ hsol[a].hash < difficulty => LocallyValid(a))

=============================================================================
