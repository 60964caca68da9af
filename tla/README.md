# Verification of hash256-miner

TLA+ models of the miner, the TLC runs that check them on small instances, and
TLAPS proofs of their safety for every instance.  The models are translated from
the Go and Rust sources; `PROJECT.json` maps each definition to the lines it
stands for.

    tlc -workers 2 -config MCEngine_wallets.cfg MCEngine     # one run
    tlapm EngineProofs.tla                                   # one module of proofs

## 1. The system

hash256-miner mines a proof-of-work token.  For every wallet account the contract
hands out a *challenge*, bound to the account and to the current *epoch*, and a
*difficulty* (the target).  A nonce is good when `keccak256(challenge || nonce)`
is below the target; it is sent to the contract in a `mine(nonce)` transaction.
A Go process orchestrates, and one Rust process per account grinds.

| component | source | state | operations |
|---|---|---|---|
| orchestrator | `internal/orchestrator/engine.go` | cached epoch, difficulty and challenge (atomics); worker slots (`workersMu`); `submitted` map (`subMu`) | `Run`, `pollState`, `spawnWorkers`, `retargetAll`, `stopAllWorkers`, `handleWorkerEvents`, `onFound`, `startJob`, `watchTx`, statistics |
| worker IPC | `worker.go`, `helpers.go` | child process, its pipes, the `events` channel (256), `stopped` | `Start`, `Send`, `readEvents`, `Events`, `Stop` |
| miner core | `miner-core/src/main.rs`, `protocol.rs` | the active run (flag and thread), progress channel (64), event channel (unbounded) | command loop (start, retarget, stop, probe), run thread, forwarder, emitter |
| CPU grinder | `cpu.rs` | `found`, `stop`, result slot, hash counter | rayon tasks, reporter |
| GPU grinder | `gpu.rs`, `kernels/keccak256.cl` | buffers of one batch, found flag on the device | batch loop |
| hash and target arithmetic | `keccak.rs`, `helpers.go` | none | `is_below_target_be`, `NonceBuilder`, hex conversions |
| RPC client pool | `internal/chain/client.go` | active connection (`mu`), `idx` (atomic) | `withClient`, `connect`, `connectSubmitOnly`, `Close`, the calls |
| reader, ABI | `reader.go`, `abi.go` | none | reads of the contract, packing |
| submitter | `submitter.go` | none of its own: the chain's base fee and account nonces | `SubmitMine`: pack, fees, gas, nonce, sign, send |
| mine command | `internal/cli/mine.go` | signal context, deferred clean-up | `mine start`, `mine status` |
| wallets | `internal/wallet/*` | accounts and private keys in memory; key file, encrypted mnemonic | create, import, load, `Wipe` |
| wallet commands | `cli/wallet.go` | a terminal, the two wallet files | `wallet init`, `list`, `balance` |
| configuration | `config.go` | none after loading | defaults, validation |
| logging | `logx.go` | none that is read | lines |

### How the parts interact

    contract --RPC-- chain.Client pool --- Engine.Run (main goroutine)
                          |                   |  start / retarget, JSON on stdin
                          |                   v
       SubmitMine <-- handleWorkerEvents <--- Worker <-- stdout events --- miner core
                      (one per account)      channel 256                  main | run | forwarder | emitter
                                                                                  |
                                                                          run_cpu / run_gpu

* The main goroutine polls, spawns, retargets and stops.  It holds `workersMu`
  through a whole spawn and a whole retarget, RPCs and pipe writes included.
* A handler goroutine per account reads the worker's channel, verifies, submits,
  and restarts its worker.  It writes to the same stdin as the main goroutine.
* The reader goroutine drops an event that finds the channel full.
* The reader closes the channel when the pipe ends, which ends the handler; `Stop` waits for
  the reader while its caller holds `workersMu`, which the handler needs for its statistics.
* The cores are killed by `exec.CommandContext` when the context is cancelled, by
  `stopAllWorkers`, or end by themselves at end of file.
* The deferred calls of `runMineStart` run last-in-first-out: cancel the context,
  close the clients, wipe the keys.  Handlers are not waited for.
* In the core, the main thread stops and joins the old run before it starts the
  next.  Progress goes through a bounded channel and a forwarder, the terminal event does
  not; the emitter alone writes to stdout.
* Every command is a process of its own.  `wallet init` writes the key file or the mnemonic
  in place; `mine start`, `balance` and `list` of another process may read it at that time.

### What is hard here

* two goroutines that receive from one channel (spawn), or write to one pipe
  (restart and retarget);
* cached state used after it went stale (challenge, difficulty, connection);
* handlers that outlive `Run` and hold keys that are being wiped;
* failures of one step of several: one fetch of a retarget, one check of a find;
* bounded channels between threads that join each other;
* tasks that find a nonce at the same time, counters that wrap at 2^64;
* failover under a deadline that is already used up;
* a price, a gas limit and an account nonce that are read in three RPCs and used in a fourth,
  while blocks are mined and answers get lost;
* a secret that exists in one process's memory, or in a half-written file, when the process dies.

`PROJECT.json` lists each under `hazards` at its line, with the properties that
cover it or the reason why none does.

### What makes each part correct

* **Orchestrator**: work never crosses accounts; a nonce goes out once, as found,
  signed with a live key; a handled rotation leaves nobody on the old epoch; a worker that
  found something grinds again; a signal ends everything.
* **Core**: the stdout stream is a sequence of runs, each `progress* (found |
  stopped | error)`; a core that reads its stdin to the end loses nothing; a stop never waits in a circle.
* **CPU and GPU grinder**: what is returned wins; a run returns if and only if there is a
  cause; no counter below the wrap is skipped; hashes are counted once, on a GPU up to one batch; core, kernel and
  orchestrator agree on what wins.
* **Worker**: what the handler receives is a stream: in order, at most once, ended once; a core
  stands idle only for a reason; `Stop` ends whatever the handler is at.
* **Submitter**: a transaction can wait for some blocks and still pay; its gas covers the estimate;
  two transactions compete for a nonce only if the endpoint asked had not heard of the first, and none
  waits for a nonce nobody has.
* **Commands**: no secret whose address was told is lost unless its owner agreed; keys are wiped
  after their last use; what runs has keys, an account and its clients, whatever the
  configuration says.
* **RPC pool**: reads go to the right chain only; a call fails only when something
  changed under it; calls go on being served.

## 2. The modules

| module | what it is |
|---|---|
| `Engine` | `Engine.Run`, handlers, worker pipes and channels, process clean-up; cores and chain as the orchestrator sees them |
| `MinerCore` | the Rust process: main, run threads, reporters, forwarders, emitter |
| `GrinderProtocol` | what a core promises on stdout; `MinerCore` implements it |
| `Target` | the three comparisons of a hash with the target: by bytes, by words, as integers |
| `NonceSpace` | what all runs have in common: the counter, the winners, the stop flag |
| `CpuGrind` | `run_cpu`, each access to shared memory a step |
| `GpuGrind` | `run_gpu` and its kernel, each work item a process |
| `GrindRun` | composes the two: the grind of one run thread, of either mode |
| `GrindPromise` | what the run thread relies on; `GrindRun` implements it |
| `RpcClient` | `chain.Client` shared by several callers |
| `WorkerPipe` | `Worker` from the inside: pipes, reader, channel, `Send`, `Stop`, and the core at their other end |
| `Submitter` | `SubmitMine` RPC by RPC, and the chain it reads |
| `Pipeline` | composes the two with the handler: one account from the core's line to the block |
| `EventStream` | what `Worker.Events` promises; `Pipeline` implements it |
| `WalletStore` | the wallet files, and `wallet init` of several processes |
| `Commands` | extends it by the other commands, the configuration and the deferred calls |
| `MCEngine`, `MCMinerCore`, `MCGrindRun`, `MCRpcClient`, `MCPipeline`, `MCCommands` | instances for TLC |
| `EngineProofs`, `MinerCoreProofs`, `TargetProofs`, `CpuGrindProofs`, `GrindRunProofs`, `RpcClientProofs`, `PipelineProofs`, `CommandsProofs` | theorems |

Operators marked *mutant* are what a plausible bug would make of the definition
after them.  They are no part of any specification; each is the change under which a
property of some run fails.

### Engine

`pc` is the position of the main goroutine, from the first poll to the process's
exit; `hpc[a]` that of the handler of account a.  A step ends wherever another
goroutine, a core or the chain can overtake the code: an RPC, a receive, a lock, a
pipe write.  `workersMu` is not a variable: it is held exactly while `pc` is
inside `spawnWorkers`, `retargetAll` or `stopAllWorkers` (`MutexHeld`).

* `PollMiningState` and `PollChallenge` are the two reads of `pollState`; the
  second also decides, as `Run` does after the poll, whether to retarget.
* `ResolveMode`, `StartWorker`, `StartFails`, `AwaitReady`, `SpawnFetch`,
  `SpawnSend`, `SpawnDone` are `spawnWorkers`.  `AwaitReady` competes with
  `HReceive` for the ready event, because the handler is started one line earlier.
* `RetargetFetch`, `RetargetSend`, `RetargetDone` are `retargetAll`; the difficulty
  is read once per call, a failed fetch skips the slot, a failed write is ignored.
* `HReceive` ... `HSend` are `handleWorkerEvents` and `onFound`, in the code's
  order: local check, deduplication, pack, sign, send, fetch, restart.
* `Cancel`, `Wipe`, `Exit` are the deferred calls of `runMineStart`.
* `CoreBoot` ... `CoreEof` are the cores as seen through the pipes: a core that
  finds something ends its run; a retarget restarts in CPU mode.

Abstractions.  The contract is the sequence of its [epoch, difficulty] states; an
RPC answers from one of the last `MaxLag + 1`, since endpoints lag.  Keccak is a random
function: a solution is a nonce, the challenge it was ground for, and its hash,
and is worthless under another challenge.  The ABI library is outside the repository,
and what it does with the nil nonce it is given is a choice of panic, error
or zero (`PackNil`); the go-ethereum version in `go.mod` panics, the other two
keep the code behind it explored.  Statistics and `watchTx` change nothing
but log lines (`watchTx`'s effect on the pool is in `RpcClient`).
`StopAllWorkers` is one step, as nobody can observe its middle: it holds the lock
and the slots are dropped at its end.

### MinerCore and GrinderProtocol

Main is `mpc`, the run threads are `phase[k]`, reporters `rep[k]`, forwarders
`fwd[k]`, the emitter `epc`.  `prog[k]` is the bounded channel (`ProgCap`), `evq`
the unbounded one, `out` what was written.  What a run computes is left to
`GrindRun`: here a grind finds, is stopped, or fails, as `GrindPromise` allows.  A hex field that does not
parse gives an error event and no run.  A line that is not UTF-8, or a read that fails, makes main return
at once (`ReadFails`, `main.rs:45`); the process ends some time later (`ProcessEnds`, "dead"), and until then
its other threads run on.  `GrinderProtocol` is the abstract
specification on `out`: ready first, then runs in order, each with its progress and
exactly one terminal event; `Protocol == INSTANCE GrinderProtocol` and the run
checks `Protocol!Spec`.

### Target and NonceSpace

The core decides whether a hash wins byte by byte (`IsBelowTargetBe`), the kernel by four 64-bit
words that it swaps first (`WordsBelow`), the orchestrator as big integers (`Value`).  A
digest has 32 bytes of `Base` values.  Keccak is a function from the counter to a digest, as challenge and prefix do
not change during a run; `Winning` is the set of counters that the core accepts.

### CpuGrind

Task t starts at counter `t * Stride` (2^48 in the code) of `Space` (2^64) and
wraps.  The look at the two flags, each hash, the `swap` of `found`, the write of the
slot and the `fetch_add` are separate steps.  `Pool` may be smaller than `Tasks`:
rayon's pool may have fewer threads than the run asks tasks for, so tasks queue.
The accesses are `Relaxed` in the code, and modelled as interleaved: no property relates two
of them in program order except through the join, which synchronises.

The batch that would end exactly at, or beyond, 2^64 is never ground: `end` wraps to a value
below the counter, the inner loop does not run, and the task spins until a flag
is set.  The model does the same, and `FindsWinner` therefore speaks only of winners before
the last batch.

### GpuGrind

`gpc` is the host: `SetUp`, then for each batch the look at the stop flag (`HostStops`), `Launch`,
`Finish`, and `Verify` or `Advance`.  `item[i]` is a work item: it looks at the flag and may
leave (`ItemLooks`), hashes and, if it wins, raises the flag (`ItemHashes`, the `atomic_cmpxchg`),
and stores its nonce if it was the one that raised it (`ItemStores`).  Nothing orders items of a launch.
A batch is rounded up to whole work groups (`Global`).  `OpenClFails` is the `?` after each OpenCL call.

The count of a run is not the number of hashes: items that leave early are counted.  `CountWithinBatch` says
how far off it can be.  The counter of a GPU run wraps at the end of a batch, and unlike the CPU's it then goes on.

### GrindRun and GrindPromise

`start_run` calls `run_gpu` or `run_cpu`; both have the same stop flag.  `GrindRun` has the variables of both
modules, and the `mode` says which of them moves.  `Promise == INSTANCE GrindPromise WITH told <- ..., answer <- Answer`
is the refinement: `told` is the hash count of the last progress update, `Answer` what the call returns.

### RpcClient

Each caller is inside one call: load the active connection, try, on any error
bump `idx`, scan the endpoints, install, reload, try again, all under one
deadline (`expired`).  `idx` is kept modulo `N`, the only way it is used.  Connections are HTTP,
as in the shipped configuration: dialling contacts nobody, and closing a
connection disturbs no other caller.  `SubmitOnly` is the client of `NewSubmitOnlyClient`.

`disturbed` is a history variable: it says that what a call relies on changed under it, be it the health
of an endpoint or a connection that another caller installs although it was probed before such a
change (`Disturb`).

### WorkerPipe, Submitter, Pipeline

`Engine` has all accounts and every RPC of the engine, and pays for it with a worker whose pipe
and channel are one queue and a submission that is three steps.  `Pipeline` has one account, and
opens both.

* `WriteLine`, `TakeCommand` and `Die` are the core, which may refuse a job it is sent; `Scan`, `Deliver`, `CloseEvents` are `readEvents`: a blank line
  is skipped, an event that finds the channel full is dropped, the channel is closed at the end
  of the pipe.  `StopKill` and `StopWait` are `Stop`, whose caller has `workersMu` from the one to the
  other.  `RetargetLock` and `RetargetSend` are `retargetAll` for this account, any number of times, with a fetch or a
  write that may fail and a write that waits while the stdin pipe (`orders`) is full.
* `ChooseTip`, `PackMine`, `SuggestFees`, `EstimateGas`, `ReadNonce`, `SendTransaction` are `onFound`'s choice
  of a tip and `SubmitMine`, with a failure at each RPC.  A send may reach the endpoint and lose its
  answer.  `MineBlock` is the chain: EIP-1559 moves the base fee by an eighth at most, and a block
  takes transactions in the order of their nonces.
* `ReadNonce` asks whichever endpoint is active, and `withClient` may have changed that since the last
  send.  `Views` is what an endpoint may know of the account: any earlier state of the chain, any subset of the transactions.
  `knew`, a history in draft and transaction, is what it did know.
* `Receive`, `EndOfEvents`, `UpdateWorkerStats`, `Failed`, `FetchChallenge`, `Restart` are the handler around it.  A
  solution that cannot be submitted gives the core no new job; it stays idle until the next retarget.

Abstractions.  The core's own queue of events is left out: a line counts as reported once it is in the
pipe.  The header that prices a transaction is the latest one; an endpoint that lags gives the header of an earlier
read, which is the behaviour with the wait after the read instead of before it.  Events have the number of their line and a kind.  Amounts are naturals of a unit in
which the base fee never falls below 8.  `Submitter` packs `mine()` as if the nonce were
given; `engine_nil_nonce` shows that it is not.

`Stream == INSTANCE EventStream WITH pending <- Pending, ...` is the refinement: what is pending is what
the channel holds, the line in the reader's hand, and what the pipe holds, in this order.

### WalletStore and Commands

A process is a program counter and a record of locals; all processes share the two files.  A file
is absent, torn or whole: `Truncate` and `WriteOut` are the two halves of `os.WriteFile`, which writes
in place, and a process may be `Gone` between any two steps.  A secret stands for a private key or
a mnemonic with the keys derived from it.

Three histories say what is at stake: `known` (the user has the secret, by having typed it
or having been shown it), `told` (an address of it was printed, or mines) and `givenUp` (it was
overwritten with consent, or by an `init` that had looked at the file before it was there: two
`init`s that race do this, and the code does not prevent it).

`Commands` follows each command from the configuration (`LoadConfig`: validation, then defaults, which
replace what is zero and nothing else) to the last deferred call.  `defers` is the stack of deferred calls, and
`Unwind` runs it last-in-first-out.  The engine itself is one label here; what happens
in it is `Engine`.  The configuration is taken to name the files that `wallet init` writes.

## 3. The runs

Sizes are of complete state spaces.

| run | instance | shows | distinct states |
|---|---|---|---|
| `engine_wallets` | 2 accounts, no local check, colliding nonces, one rotation, cores that crash or do not start, signal at any time | `OwnChallenge`, `SubmittedOnce`, `SignedWithLiveKey`, `JobsAreCurrent` | 2.2 M |
| `engine_faults` | 1 account, auto mode with a GPU, failing RPCs and cores, answers one state old, channel and pipe of 1 | `TypeOK`, `ShutdownCompletes` | 328 k |
| `engine_restart` | 1 account, 2 targets, a rotation, solutions, RPCs answer | `FoundRestartsWorker` | 294 k |
| `grind_race` | 4 tasks on 3 threads, or batches of 4 work items in groups of 2; winners at several depths, counters that wrap, a batch that does not divide the space, failing OpenCL calls, a stop at any time | `RunTypeOK`, `ReturnsForCause`, `HashesExact`, `NoneSkipped`, `NoFalsePositive`, `CountWithinBatch`, `SlotWrittenOnce`, `KeepsPromise`, `RunReturns`, `FindsWinner` | 140 k |
| `core_commands` | 2 runs, every kind of command, lines that cannot be read, GPU that reports and fails | `TypeOK`, `NothingLost`, `OneRunAtATime`, `ImplementsProtocol`, `StopCompletes`, `EofExits` | 221 k |
| `rpc_pool` | 2 callers, 3 endpoints of which 1 of the wrong chain, 3 changes of health, shutdown | `TypeOK`, `FailsOver`, `UsesRightChain`, `NilOnlyAfterClose`, `Served` | 503 k |
| `pipeline` | 1 account, pipes and channel of 1, up to 3 lines or 5 blocks, every RPC may fail, lost answers, endpoints that know anything, retargets, stop and death at any time | `TypeOK`, `PricedForFiveBlocks`, `GasCovers`, `NoncesInLine`, `IdleForAReason`, `StopReturns`, `HandlerEnds`, `IsEventStream` | 919 k |
| `cli` | 2 processes, 2 secrets, 6 configurations (one per way to be refused, defaulted or accepted), kills anywhere | `TypeOK`, `KeyRecoverable`, `WipedLast`, `EngineIsEquipped` | 4.2 M |

Four more runs show that the code does not do what the repository's README says
(`findings` in `PROJECT.json`):

| run | the code | the README |
|---|---|---|
| `engine_nil_nonce` | `onFound` leaves `SubmitParams.Nonce` nil: no transaction can carry the nonce that was found | "submits `mine(nonce)`" |
| `engine_spawn_race` | the handler may take the ready event, and `spawnWorkers` waits for it forever, holding `workersMu` | "spawns one Rust worker per wallet account, dispatches challenge + difficulty" |
| `engine_verify_primary` | solutions of the other accounts are checked against the primary account's challenge and thrown away | "each wallet signs its own transactions" |
| `rpc_hang` | failover runs under the deadline that the hanging endpoint used up, so every probe fails and the client stays on it | "RPC failover across multiple endpoints" |

### The bounds, and why they are enough

* Two accounts are the fewest between which work could cross, and the second is
  the one that is not primary.  What one account does under all faults does not depend on the
  others except through `workersMu`; `engine_wallets` has two for that.
* Two or three chain states make one or two rotations: one that is handled, and one that
  overtakes its handling.
* Channels and pipes of one or two fill and block.  One nonce that may be found again is what
  deduplication needs; two targets and two hashes make a hash pass one target and not the other.
* `grind_race` has more CPU tasks than threads and a space in which three tasks can find in
  their first batches and every task can reach its wrap.  On the GPU, two neighbours win in the second batch,
  so that items race for the flag, lose it and leave early, after a batch in which none wins.  Digests and target differ
  in several bytes, of one word or of two, where an order that reads them in another way decides differently.  The
  wrap of the GPU's counter lies behind a winner there; it is covered by the proofs only.
* Two runs in the core are an old and a new one; a progress channel of one makes
  the reporter block.
* In the pool, three endpoints give a scan that has to pass the wrong chain and to wrap, and three changes of
  health let a caller install, in the middle of another one's call, an endpoint that was up when it was probed.
* In `pipeline`, a price is followed over five blocks, the number for which it must last (the table
  in `PipelineProofs` shows why the sixth is too many); two lines make two
  solutions, after a restart or after a retarget, and so two transactions that may compete, the first of them
  with an answer that came or was lost; three lines fill the channel while the handler is in an RPC and make
  the next one be dropped.  Retargets have no bound.  `Bounds` lists which of lines and blocks
  go together, as their product shows nothing more.  What these bounds leave out is
  proved for all of them.
* In `cli`, two processes race for a file, two secrets make an overwrite; `MaxReaders = 1`
  since commands other than `init` change no file, and so do not disturb each other.

Deadlock is checked in every run but `pipeline`, where the worker really ends; where another
system stops, its specification has an explicit stuttering step (`Terminated`, `Crashed`).

### Fairness, and why the code justifies it

* `Engine`: weak fairness of the main goroutine, of each handler, of booting,
  reading and dying cores (the Go and OS schedulers; every RPC has a timeout and so ends).
  Strong fairness of `LoopDone`: Go's `select` picks at random among its ready cases, so a
  cancelled context is not passed over for ever by a ticker.  None for the chain, the signal,
  progress, finds and crashes.
* `MinerCore`: weak fairness of each thread.  A grind answers its flag at its next batch; nothing
  obliges it to find anything, or the orchestrator to write or to close.  A line that cannot be read is noticed;
  reads fail for no reason of their own at any time or never.
* `GrindRun`: weak fairness of each task that has a thread, of the run thread and of
  the reporter; of each work item of a launch, and of the host.  None for the stop flag and for failures of OpenCL.
* `Pipeline`: weak fairness of the reader, the handler and the goroutine that waits in `Stop`: they are
  scheduled, and every RPC ends with its timeout.  None for the core, the chain, retargets and
  the decision to stop.
* `Commands`: none; its properties are safety.
* `RpcClient`: weak fairness of each caller, since a request ends at the latest with its
  deadline.  None for endpoints and shutdown.

### Known limits of the code that the runs' constants avoid

Some properties hold only on instances where something cannot happen.  These are not
weaknesses of the runs: the code does the other thing, and the counterexample is
one change of a constant away.

* `JobsAreCurrent` speaks of accounts that have submitted nothing.  For the others it fails: a restart whose challenge was fetched before a rotation is written
  after the retarget puts the worker back on the old epoch (`engine.go:434`).
* `JobsAreCurrent` needs `RpcFails = FALSE`.  With failures, one failed fetch leaves a worker on
  the old epoch, and `Run` records the rotation as handled (`engine.go:262`, `:108`).  It
  also needs `MaxLag = 0`: an endpoint that lags answers the retarget with the old challenge.
* `FoundRestartsWorker` needs `VerifyBeforeSubmit = FALSE`, RPCs that answer, and nonces
  that do not collide.  `onFound` restarts the worker only after a successful
  submission (`engine.go:400`), so a target that drops within an epoch, which
  `pollState` does not pass on to running jobs, is enough to leave a worker idle.
* `FailsOver` excepts a call that loses its new connection to a stale one: between `connect` and the reload of
  `c.active` (`client.go:168`) another caller may install an endpoint that has gone down since it probed it, and
  the second attempt, the last one, goes there although the call found a good endpoint itself.
* `Served` fails for the submit client (`SubmitOnly = TRUE`, `N = 2`): its reconnect
  always dials endpoint 1 (`client.go:114`).

Others except it in their statement:

* `NoncesInLine` lets two transactions compete when the endpoint that gave the later one its nonce had not heard of
  the earlier one.  The code makes that possible in three ways: private endpoints (`SendTxClient`), whose
  transactions the pool that is asked (`submitter.go:86`) never sees before they are in a block; a failover between send and
  read (`client.go:156-171`) to an endpoint that lags; two `mine start` processes of one wallet that
  read at the same time.  The second solution then replaces the first or is refused.  The first two occur
  in the `pipeline` run; the second process is not modelled.
* `NothingLost` promises nothing to be written when a read of stdin fails (`main.rs:45`): main returns without
  `stop_and_wait` and without `emitter.join`, so what is in the emitter's queue, the terminal event of a run
  among it, is lost, and a run that grinds is cut off.  The orchestrator writes nothing but JSON, so this takes a
  fault of the pipe or another writer.
* `IdleForAReason` counts a solution that was dropped, or could not be submitted, as a reason until the core takes its next
  job, which only the next retarget sends.
* Two `wallet init` that race for one file each look before either writes: the first one's secret
  is overwritten without a question (`wallet.go`, `os.Stat` and `WriteFile`).  `givenUp` contains it.

Of two more no property speaks:

* A retarget always starts a CPU run with the default batch (`main.rs:82`): after its first
  rotation a GPU worker continues on the CPU.  `ModeOf` in `MinerCore` and `CoreTake` in
  `Engine` model it; nothing is checked of it.
* In auto mode every restart of a job spawns a core to look for a GPU, and nothing waits for
  that process (`engine.go:467`).

Smaller disagreements that were met on the way, and that no run is about:

* `buildChain` does not close its client when the ABI does not load (`"forgotten"` in `Commands`).
* `README.md:187` says that a new key is displayed and then encrypted; the code saves
  it first and then prints it, which is the safer order, and the one `KeyRecoverable` is about.
* `README.md:208` describes a stand-by mode that no code implements.
* `configs/miner.toml` names the key file `./data/wallets/main.json`; `wallet init` writes
  `main.keystore`.
* A second interrupt during the shutdown is swallowed (`mine.go:211`), so a shutdown that waits for a
  lock can only be killed.
* `idx` is an `int32` that every failure increments (`client.go:158`): 2^31 failures on, the index of the next
  endpoint is negative.  `RpcClient` keeps it modulo `N`.

## 4. The proofs

What TLC checks on an instance, TLAPS proves for every value of the constants
that satisfies the `ASSUME`s of the modules (numbers of accounts, tasks, endpoints
are positive, capacities are positive, sets of data are what they are named for).  Most theorems
have the form `Spec => []Inv` or `Spec => [][A]_vars`, some under an assumption that is part of their statement, and follow one
argument: `IInv` holds initially, every action preserves it, it implies the property.

Liveness itself is out of the prover's reach, but what it rests on is not.  Seven theorems say of a wait in the
code that it is not in a circle and not for ever, in two halves that are safety.  *Somebody can move*: until the wait is
over, the guard of a step of those that are waited for holds (the guards are written out, since `ENABLED` cannot be
reasoned about).  *It gets less*: a natural number falls with each of these steps, and no other step raises it.
TLC's runs add the third part, that who can move does, which is the fairness above.

**`EngineProofs`** (`TypeCorrect`, `WorkStaysWithItsAccount`, `OnlyThePrimarySubmits`,
`NoncesAreSubmittedOnce`, `NothingIsSentWithAWipedKey`, `WorkersFollowTheChain`, `ShutdownsWaitForCoresOnly`,
`FreshSolutionsPass`, `NoCoreIsForgotten`).  The properties are not inductive:

* `OwnChallenge` speaks of queues and jobs, but the command that enters a queue was
  made a step earlier from `cur`; `MainInv` ties `mcmd` to `cur` while `pc` is at a
  write, and `HandlerInv` ties `hcmd[a]` and `hsol[a]` to a.
* `SubmittedOnce` needs that a key is recorded before its solution is packed, that no two
  stages of one handler hold the same key, and that a transaction's key is recorded (`OnceInv`).
* `SignedWithLiveKey` needs that a transaction that waits to be sent was signed live as long as
  nothing is wiped, and that a wipe comes after the cancellation, under which nothing is
  sent (`KeyInv`, `EnvInv`).
* `OnlyThePrimarySubmits` (with `VerifyBeforeSubmit`) is the general form of
  what `engine_verify_primary` shows on one instance; no run checks it.  It needs that the cached challenge is the
  primary's and that solutions stay with their accounts (`CacheInv`, `PrimaryInv`).

The first five theorems assume nothing of the RPCs, cores, lags and capacities: any may fail at any time.

`WorkersFollowTheChain` (`JobsAreCurrent`) is under the assumption `Steady` that RPCs answer and
do not lag, the one under which the property holds; for any number of accounts, blocks and epochs, and with cores
that die at any time.  `LevelInv` is a bound on the epochs of all jobs at each place of the main goroutine: `lastEpoch`
in its loop, and during a retarget the polled `epoch` for the workers that the loop index has passed.  `PlaceInv` says
who may be without work: accounts without a slot and dead cores.

`ShutdownsWaitForCoresOnly` is the safety half of `ShutdownCompletes`, without `Steady`.  Once the context is done the
main goroutine waits for no handler, wherever these are (on `workersMu`, on an RPC, on a full pipe), and for a core
only while that one is alive (`SlotInv`: it has a process), which `CommandContext` then kills; no core starts any more.
`MainLeft` falls with every step of the main goroutine, a retarget that is under way and goes on under its own context included.
The one exception is the ticker's case of `Run`'s select, which is why `LoopDone` needs strong fairness.

`FreshSolutionsPass` and `NoCoreIsForgotten` are what `FoundRestartsWorker` rests on.  The first says that the
check against repeated submissions turns no solution away, as long as cores find nonces anew (`CollidingNonces
= FALSE`: random prefixes), with all failures and lags.  Its invariant `FreshInv` says of an account's
channel, of the solution in its handler's hands, and of the keys that were submitted that they share no nonce.
The second is for `Healthy` constants (those of `engine_restart`, with any number of accounts, any mode, lag
and capacities) and behaviours in which no channel is full (`Room`; 256 events in the code).  There `Run` does
not end before its context does, and a core without a job has spawnWorkers at it, a command in its pipe, or
its solution in its channel or with its handler (`LifeInv`).  It takes `FreshInv`, or a solution that is
turned away would leave its core idle; `SlotInv`, or a retarget could write to a core that is not there; and
`PlayInv`: no command that is on its way asks for a GPU that does not exist, also after `resolveMode` has run
again for a restart.  "spawnWorkers is at it" is a reason that may last: the handler can take the `ready` line
that spawnWorkers waits for, which is the finding of `engine_spawn_race`.

**`MinerCoreProofs`** (`TypesCorrect`, `RunsFollowEachOther`, `NothingIsLost`, `CoreSpeaksTheProtocol`,
`StopsDoNotWaitInACircle`, `ExitsDoNotWaitInACircle`), for any number of commands, runs and progress updates and any capacity of
the progress channel:

* `RunInv`: runs are numbered as they start, the active one is the last, no other is busy, and each was asked for
  by a command.  `ThreadInv(k)` says where reporter, forwarder and channel of run k are while its thread is in a phase,
  and `ExitInv` what is left when main has broken out of its loop.
* `CoreSpeaksTheProtocol` is the refinement of `GrinderProtocol`.  The emitter's queue lies between the two, so `EventInv`
  says of every event in it that it may follow those before it: then writing the head of the queue is a step of the
  protocol.
* `NothingIsLost` counts (`CountInv`): the updates in the channel, in the forwarder's hands and in the queue or on
  stdout make up the reports of a run, and a run that ended has one terminal event.  This holds on the way out of `main.rs:45` as
  well; that the queue is empty at the exit is for the other way only, and comes from `ExitInv`.  The lemmas on `Num` say how
  appending to and taking from a sequence change a count.
* `StopsDoNotWaitInACircle` is the safety half of `StopCompletes`.  A stop, a new job and the end of the input join
  a run whose threads wait for each other over a bounded channel: the run thread for the reporter and then for the forwarder,
  reporter and run thread for room, the forwarder for messages.  `NeverStuck`: one of them has its guard (`Ready`) in
  every state in which main waits, for any capacity (`SomebodyMoves`; what it needs is in `ThreadInv` and `WaitInv`: the flag is
  up, and the threads that are joined exist).  `Closer`: `Left`, a weighted sum of the thread's phase, the reporter's
  step, the updates still to come, and what the forwarder has to do for each message, falls with each of their steps
  (`StepsCount`).  The updates to come are bounded by `MaxReports`, which only a GPU run can use up after the flag is up.
* `ExitsDoNotWaitInACircle` is the same for the end of main, which waits for the emitter: nobody sends any more, and
  the queue only gets shorter.

**`TargetProofs`** (`WordsAgreeWithBytes`, `ValueAgreesWithBytes`): core, kernel and orchestrator agree on every digest and
every target.  Both follow from one lemma on eight bytes and the word they make, and from the order of a number in a
positional system: at the first place that differs the larger digit wins, whatever follows.

**`CpuGrindProofs`** (`TypeCorrect`, `ReturnsWinners`, `ReturnsOnlyForCause`, `ProgressIsBelowResult`,
`SlotIsWrittenOnce`, `ResultCountsEveryHash`, `TasksPassNoWinner`, `StopCostsABatch`, `TasksGrindApart`).  The invariant follows a find from the task
that makes it to the result: a task between `swap` and slot is the only one there (`FinderInv`);
`found` with an empty slot means that such a task exists (`SlotInv`); so once every task has
returned, `found` means a full slot.  `BatchInv` bounds `localH`, with three lemmas on
the arithmetic of the wrap.  `ResultCountsEveryHash` needs the sum of `localH` over the tasks, which no
invariant can form without a recursive definition; `HashInv` takes the size of a set instead that has one
element for each hash not yet added to `total` (`Pending`).  `ReturnsWinners` and `ProgressIsBelowResult` are parts of
what `KeepsPromise` says, and no run checks them by name.

`StopCostsABatch` is the safety half of `RunReturns` for a CPU run: with the flag up every task is at most `Batch + 4`
steps from its end (`TaskLeft`), each of its steps leaves fewer, and until all have returned one of them has a thread
of the pool to run on, also when there are fewer threads than tasks.  A batch that would start is given up, the one
that has started is not.

`TasksGrindApart` is about the split of the counters between the tasks (`thread_idx * 2^48`): if all first counters
fit into the space, which they do for up to 65536 tasks, a run that has made fewer than `Stride` hashes has made none twice
(`StrideInv`: no task is further from its first counter than all have hashed together).

**`GrindRunProofs`** (`GpuInvariance`, `KernelIsVerified`, `CountIsWithinBatch`, `RunIsCpuGrind`, `RunIsGpuGrind`, `RunTypeCorrect`,
`RunSkipsNone`, `RunKeepsPromise`, `RunKeepsBoth`, `GpuStopCostsABatch`), for any batch, work-group size, space, hash function and target:

* `KernelInv` says what the flag tells of the items.  While it is down, none has left and none that is done
  has a winner, so a batch that ends with the flag down has lost all its counters (`BatchCovers`: they are the ones between
  this batch's first and the next one's, across the wrap as well).  Once it is up, a winner is stored or about
  to be, so the host reads one when all items have returned; that it agrees with the kernel is `WordsAgreeWithBytes`.
* `CountInv` is about the size of the set of items that have hashed (`Hashed`): it is what separates `gtotal` from
  the hashes made, none of it between batches.
* The composition: the mode never changes and the other half of the state stays at its first line (`ModeInv`), so a run is a behaviour
  of `CpuGrind` and of `GpuGrind`, and what is proved of these holds of it.
* `RunKeepsPromise` is the refinement of `GrindPromise`, one step at a time: `CpuPromise` for the tasks, the reporter and
  the run thread, `GpuPromise` for the items and the host.  It needs that the reporter is gone
  when the result is there, and that a run whose tasks have returned with an empty slot was stopped.
* `GpuStopCostsABatch` is `StopCostsABatch` for a GPU: with the flag up the host launches nothing more (`HostLeft`), and
  the items of the batch that runs end (`ItemLeft`), which the host waits for.

**`RpcClientProofs`** (`TypeCorrect`, `ReadsUseTheRightChain`, `NilIsOnlyAfterClose`, `CallsFailOver`, `CallsEnd`), for any number
of endpoints and callers, any faults (hanging endpoints and application errors
included, which `rpc_pool` leaves out), and any shutdown.  The active connection, and every
copy of it that a caller holds, is of the right chain or nil, and nil only after `Close`.
`CallsFailOver` is about pools whose endpoints answer, with an error only when they are down (`Benign`).  `CalmInv(c)`
says what an undisturbed call knows at each label, the endpoints that its scan has passed among it;
`ScanIsComplete` says that N places from any start pass every endpoint.
`CallsEnd` says that a call makes two attempts at most and scans the endpoints at most once for each: every step of it
leaves less of it (`CallLeft`, at most `2 * N + 11`), and what the other callers install, what fails, and a shutdown
in the middle of it never give it more to do.

**`PipelineProofs`** (`TypesCorrect`, `WorkerIsAStream`, `TransactionsCanWait`, `NoncesDoNotCompete`,
`GasIsCovered`, `IdleOnlyForAReason`, `StopWaitsForNobodyElse`), for any capacities, fees, gas limits and numbers of lines
and blocks; nothing relates floor and ceiling, and a multiplier may be below one.

* *Prices.*  A cap of twice the base fee lasts five blocks because `(9/8)^5 < 2`.  The
  property is not inductive: a transaction that pays now may fail after a block.  `Fresh(k, d, b)` says how much
  of the difference `d` between cap and tip is left k blocks on (`8^k * 2b <= 9^k * d`, spelled out for k up to 5);
  `FreshNext` is one block, `FreshPays` the end of the table.  `PriceInv` has it for every transaction
  and for the draft in the handler's hands, whose price is already old when it is sent.
* *Nonces.*  `NonceInv` says that the nonce that was read is not that of a transaction the endpoint knew of, and
  stays so while the handler holds it (only the handler sends), and that all below it are taken or in blocks (`Reached`),
  which stays true as blocks come.  It knows nothing of how the last submission ended, so it covers lost answers and
  the retargets after them.  `PendingNonceFits` shows for every view that the `CHOOSE` of `PendingNonce`
  has something to choose, from the least element of a set of naturals.
* *The stream.*  `WorkerIsAStream` is the refinement of `EventStream`, safety only: each step is a `Put`,
  `Lose`, `Take`, `End` or changes nothing of it (`PutStep`, `ReaderStep`, `HandlerStep`, `OtherStep`).  It needs `StreamInv`:
  the reader ends only on an empty pipe of a dead core and holds nothing then, so that at the end
  of the channel nothing is pending; and no number exceeds `written`, so that a new line is newer than all.
* *Stop.*  `StopWaitsForNobodyElse` is the safety half of `StopReturns`.  The caller of `Stop` has `workersMu` and waits
  for `readEvents`, while the handler may wait for that lock, or for an RPC, with a full channel behind it.  The reader
  needs none of them, since it drops what finds no room: while `Stop` waits it can always go on, and `ReaderLeft` falls with
  each of its steps.

**`CommandsProofs`** (`TypesCorrect`, `KeysRecoverable`, `KeysWipedLast`, `EnginesEquipped`), for any number of
processes, secrets and configurations.  `IInv` is `TypeOK`, `KeyRecoverable` and

* `FilesOK`: a file holds a secret exactly when it is whole;
* `OwnOK(p)`: what the locals of p say at its label.  For an init (`InitOK`): before it tells, its secret is
  known or it is new and will be saved; what it saw, it asked about.  For the others (`CommandOK`): the stack of
  deferred calls is one of seven, and says which keys are live and which connections open (`Stacked`), so
  that unwinding it in any of its states wipes last.

Only model-checked: liveness (`ShutdownCompletes`, `FoundRestartsWorker`, `RunReturns`, `FindsWinner`,
`StopCompletes`, `EofExits`, `Served`, `HandlerEnds`, `StopReturns`), which is out of the prover's
reach, as are `ENABLED` and induction over data; of `ShutdownCompletes`, `RunReturns`, `StopCompletes`,
`EofExits` and `StopReturns` the safety half is proved, as said above, and of `FoundRestartsWorker` what it rests on.  Every other property of the passing runs is proved.

## 5. Not modelled, and the plan

Not modelled: keccak itself, elliptic curves and encryption (libraries); printing,
prompts and logging as such; `spawn_listener` and `drain_with_stop` of `cpu.rs`, which nothing calls;
`watchTx` and the statistics, which change nothing but log lines.

Next, in this order:

1. `Engine` over `EventStream` instead of its own queue, so that what is proved of the worker
   carries over.
