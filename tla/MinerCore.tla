----------------------------- MODULE MinerCore -----------------------------
(***************************************************************************)
(* The Rust core (miner-core/src/main.rs): the command loop, one run       *)
(* thread per job with its reporter and its forwarder, and the emitter     *)
(* that alone writes to stdout.  What a run computes is left to CpuGrind;  *)
(* here a run finds something, is stopped, or fails.                       *)
(*                                                                         *)
(*   reporter --prog, bounded--> forwarder --\                             *)
(*   run thread ---------------------------- evq, unbounded --> emitter    *)
(*   main ---------------------------------/                               *)
(***************************************************************************)
EXTENDS Integers, Sequences, FiniteSets

CONSTANTS
  MaxRuns,       \* bound: commands of a behaviour, hence runs
  MaxReports,    \* bound: progress updates of a run
  ProgCap,       \* capacity of the progress channel (64)
  GpuAvailable,  \* list_devices found a device
  Commands       \* the commands the orchestrator may write

ASSUME BoundsAssumption ==
  {MaxRuns, MaxReports} \subseteq Nat /\ ProgCap \in Nat \ {0}
ASSUME GpuAssumption == GpuAvailable \in BOOLEAN

\* ok: the hex fields of the command parse.  A bad line is text that is no command, a garbled
\* one is not even UTF-8.
CommandType ==
  [cmd : {"start"}, mode : {"cpu", "gpu"}, ok : BOOLEAN]
    \cup [cmd : {"retarget"}, ok : BOOLEAN] \cup [cmd : {"stop", "probe", "bad", "garbled"}]
ASSUME CommandsAssumption == Commands \subseteq CommandType

Runs == 1..MaxRuns
NoCommand == [cmd |-> "none"]
Eof == [cmd |-> "eof"]

VARIABLES
  stdin, written, eof,   \* the pipe, how many commands were written, its end
  mpc, cur, active, nruns,        \* main: where it is, its command, its run
  mode, phase, stop, result,      \* each run's thread
  rep, reports,                   \* each run's reporter, updates sent so far
  prog, fwd,                      \* each run's progress channel and forwarder
  evq, epc, out                   \* the event channel, the emitter, stdout

inVars == <<stdin, written, eof>>
mainVars == <<mpc, cur, active, nruns>>
runVars == <<mode, phase, stop, result>>
progVars == <<rep, reports, prog, fwd>>
outVars == <<evq, epc, out>>
vars == <<inVars, mainVars, runVars, progVars, outVars>>

Event(kind, k) == [ev |-> kind, run |-> k]
Send(e) == evq' = Append(evq, e) /\ UNCHANGED <<epc, out>>
Set(f, k, v) == [f EXCEPT ![k] = v]
Alive == mpc \notin {"exited", "dead"}

Init ==
  /\ stdin = <<>> /\ written = 0 /\ eof = FALSE
  /\ mpc = "boot" /\ cur = NoCommand /\ active = 0 /\ nruns = 0
  /\ mode = [k \in Runs |-> "cpu"] /\ phase = [k \in Runs |-> "none"]
  /\ stop = [k \in Runs |-> FALSE] /\ result = [k \in Runs |-> "none"]
  /\ rep = [k \in Runs |-> "none"] /\ reports = [k \in Runs |-> 0]
  /\ prog = [k \in Runs |-> <<>>] /\ fwd = [k \in Runs |-> "none"]
  /\ evq = <<>> /\ epc = "run" /\ out = <<>>

-----------------------------------------------------------------------------
(* The orchestrator's end of the pipe. *)

WriteCommand ==
  /\ Alive /\ ~eof /\ written < MaxRuns
  /\ \E c \in Commands : stdin' = Append(stdin, c)
  /\ written' = written + 1
  /\ UNCHANGED <<eof, mainVars, runVars, progVars, outVars>>

CloseStdin ==
  /\ ~eof /\ eof' = TRUE
  /\ UNCHANGED <<stdin, written, mainVars, runVars, progVars, outVars>>

-----------------------------------------------------------------------------
(* The main thread. *)

Boot ==
  /\ mpc = "boot"
  /\ mpc' = "read" /\ Send(Event("ready", 0))
  /\ UNCHANGED <<inVars, cur, active, nruns, runVars, progVars>>

\* The next line is a command that concerns no run, or no command.
ReadOther ==
  /\ mpc = "read" /\ stdin # <<>>
  /\ \/ Head(stdin).cmd = "bad" /\ Send(Event("error", 0))
     \/ Head(stdin).cmd = "probe" /\ Send(Event("devices", 0))
  /\ stdin' = Tail(stdin)
  /\ UNCHANGED <<written, eof, mainVars, runVars, progVars>>

\* `line.context("read stdin")?`: a line that is not UTF-8, or a read that fails, ends main at
\* once.  It neither stops its run nor waits for the emitter.
Garbled == stdin # <<>> /\ Head(stdin).cmd = "garbled"
ReadFails ==
  /\ mpc = "read" /\ mpc' = "broken"
  /\ UNCHANGED <<inVars, cur, active, nruns, runVars, progVars, outVars>>

\* The process goes, and with it every thread that is left; until then they run on.
ProcessEnds ==
  /\ mpc = "broken" /\ mpc' = "dead"
  /\ UNCHANGED <<inVars, cur, active, nruns, runVars, progVars, outVars>>

\* start, retarget, stop, or the end of the input: active.take(), and stop_and_wait
\* raises the run's flag.
TakeActive(c) ==
  /\ cur' = c /\ mpc' = "join"
  /\ stop' = IF active = 0 THEN stop ELSE Set(stop, active, TRUE)
  /\ UNCHANGED <<written, eof, active, nruns, mode, phase, result, progVars, outVars>>
ReadCommand ==
  /\ mpc = "read" /\ stdin # <<>>
  /\ Head(stdin).cmd \in {"start", "retarget", "stop"}
  /\ stdin' = Tail(stdin) /\ TakeActive(Head(stdin))
\* mutant: the core leaves its loop without stopping the run
ReadEofForgotten ==
  /\ mpc = "read" /\ stdin = <<>> /\ eof
  /\ cur' = Eof /\ mpc' = "drop"
  /\ UNCHANGED <<inVars, active, nruns, runVars, progVars, outVars>>
ReadEof ==
  /\ mpc = "read" /\ stdin = <<>> /\ eof
  /\ UNCHANGED stdin /\ TakeActive(Eof)

\* mutant: the new run does not wait for the old one to end
JoinedEarly ==
  /\ mpc = "join"
  /\ active' = 0
  /\ mpc' = CASE cur.cmd = "stop" -> "read"
              [] cur.cmd = "eof" -> "drop"
              [] OTHER -> "start"
  /\ UNCHANGED <<inVars, cur, nruns, runVars, progVars, outVars>>

\* h.join() in stop_and_wait; nothing to wait for when there was no active run.
Joined ==
  /\ mpc = "join" /\ (active # 0 => phase[active] = "end")
  /\ active' = 0
  /\ mpc' = CASE cur.cmd = "stop" -> "read"
              [] cur.cmd = "eof" -> "drop"
              [] OTHER -> "start"
  /\ UNCHANGED <<inVars, cur, nruns, runVars, progVars, outVars>>

\* The mode the new run gets: a retarget does not say, main.rs answers Mode::Cpu.
ModeOf(c) == IF c.cmd = "retarget" THEN "cpu" ELSE c.mode

\* start_run: a field that does not parse is an error event, and there is no run.
StartRun ==
  /\ mpc = "start"
  /\ mpc' = "read"
  /\ \/ /\ cur.ok
        /\ LET k == nruns + 1 IN
           /\ nruns' = k /\ active' = k
           /\ mode' = Set(mode, k, ModeOf(cur))
           /\ phase' = Set(phase, k, "grind")
           /\ rep' = Set(rep, k, IF ModeOf(cur) = "cpu" THEN "run" ELSE "none")
           /\ fwd' = Set(fwd, k, "recv")
        /\ UNCHANGED <<evq, epc, out>>
     \/ /\ ~cur.ok
        /\ Send(Event("error", 0))
        /\ UNCHANGED <<nruns, active, mode, phase, rep, fwd>>
  /\ UNCHANGED <<inVars, cur, stop, result, reports, prog>>

\* drop(event_tx), emitter.join().
ExitMain ==
  /\ mpc = "drop" /\ epc = "gone"
  /\ mpc' = "exited"
  /\ UNCHANGED <<inVars, cur, active, nruns, runVars, progVars, outVars>>

-----------------------------------------------------------------------------
(* The thread of run k. *)

RunFrame == Alive /\ UNCHANGED <<inVars, mainVars, mode, stop>>
RoomAlways(k) == TRUE  \* mutant: the channel is unbounded
Room(k) == Len(prog[k]) < ProgCap
Push(k, m) == Room(k) /\ prog' = Set(prog, k, Append(prog[k], m))

\* The grind ends: with a nonce, even when it was being stopped, or because of the flag.
\* run_cpu still has to join its reporter and to send Stopped; run_gpu sends it only when
\* it was stopped.
GrindEnds(k, r) ==
  /\ phase[k] = "grind" /\ (mode[k] = "gpu" => GpuAvailable)
  /\ result' = Set(result, k, r)
  /\ phase' = Set(phase, k, IF mode[k] = "cpu" THEN "joinrep"
                            ELSE IF r = "stopped" THEN "last" ELSE "drop")
  /\ UNCHANGED <<progVars, outVars>> /\ RunFrame
GrindFound(k) == GrindEnds(k, "found")
GrindStopped(k) == stop[k] /\ GrindEnds(k, "stopped")

\* A GPU run reports its own progress, and may fail at any call of OpenCL.
GpuReport(k) ==
  /\ phase[k] = "grind" /\ mode[k] = "gpu" /\ GpuAvailable
  /\ reports[k] < MaxReports
  /\ Push(k, "progress") /\ reports' = Set(reports, k, reports[k] + 1)
  /\ UNCHANGED <<phase, result, rep, fwd, outVars>> /\ RunFrame
GpuError(k) ==
  /\ phase[k] = "grind" /\ mode[k] = "gpu"
  /\ Send(Event("error", k))
  /\ result' = Set(result, k, "error") /\ phase' = Set(phase, k, "drop")
  /\ UNCHANGED progVars /\ RunFrame

JoinReporter(k) ==
  /\ phase[k] = "joinrep" /\ rep[k] = "gone"
  /\ phase' = Set(phase, k, "last")
  /\ UNCHANGED <<result, progVars, outVars>> /\ RunFrame

SendStopped(k) ==
  /\ phase[k] = "last"
  /\ Push(k, "stopped") /\ phase' = Set(phase, k, "drop")
  /\ UNCHANGED <<result, rep, reports, fwd, outVars>> /\ RunFrame

\* mutant: the terminal event does not wait for the forwarder
DropProgOnly(k) ==
  /\ phase[k] = "drop"
  /\ phase' = Set(phase, k, "emit")
  /\ UNCHANGED <<result, progVars, outVars>> /\ RunFrame

\* drop(prog_tx), forwarder_stop, fwd.join().
DropProg(k) ==
  /\ phase[k] = "drop"
  /\ phase' = Set(phase, k, "joinfwd")
  /\ UNCHANGED <<result, progVars, outVars>> /\ RunFrame
JoinForwarder(k) ==
  /\ phase[k] = "joinfwd" /\ fwd[k] = "gone"
  /\ phase' = Set(phase, k, "emit")
  /\ UNCHANGED <<result, progVars, outVars>> /\ RunFrame

\* The terminal event; a run that failed has said so already.
EmitResult(k) ==
  /\ phase[k] = "emit"
  /\ IF result[k] = "error" THEN UNCHANGED outVars ELSE Send(Event(result[k], k))
  /\ phase' = Set(phase, k, "end")
  /\ UNCHANGED <<result, progVars>> /\ RunFrame

RunStep(k) ==
  \/ GrindStopped(k) \/ JoinReporter(k) \/ SendStopped(k) \/ DropProg(k)
  \/ JoinForwarder(k) \/ EmitResult(k)

-----------------------------------------------------------------------------
(* The reporter, the forwarder and the emitter. *)

\* The reporter of a CPU run wakes up: it ends, or sends an update, blocking while the
\* channel is full.
ReporterWakes(k) ==
  /\ rep[k] = "run"
  /\ IF stop[k] \/ phase[k] = "joinrep"
     THEN rep' = Set(rep, k, "gone")
     ELSE reports[k] < MaxReports /\ rep' = Set(rep, k, "send")
  /\ UNCHANGED <<phase, result, reports, prog, fwd, outVars>> /\ RunFrame
ReporterSends(k) ==
  /\ rep[k] = "send"
  /\ Push(k, "progress") /\ reports' = Set(reports, k, reports[k] + 1)
  /\ rep' = Set(rep, k, "run")
  /\ UNCHANGED <<phase, result, fwd, outVars>> /\ RunFrame

\* mutant: the forwarder waits for the run to end before it empties the channel
ForwarderTakesLate(k) ==
  /\ fwd[k] = "recv" /\ prog[k] # <<>> /\ phase[k] = "joinfwd"
  /\ prog' = Set(prog, k, Tail(prog[k]))
  /\ fwd' = Set(fwd, k, IF Head(prog[k]) = "progress" THEN "pass" ELSE "recv")
  /\ UNCHANGED <<phase, result, rep, reports, outVars>> /\ RunFrame

\* recv_timeout: an update is taken; progress is passed on in a second step.
ForwarderTakes(k) ==
  /\ fwd[k] = "recv" /\ prog[k] # <<>>
  /\ prog' = Set(prog, k, Tail(prog[k]))
  /\ fwd' = Set(fwd, k, IF Head(prog[k]) = "progress" THEN "pass" ELSE "recv")
  /\ UNCHANGED <<phase, result, rep, reports, outVars>> /\ RunFrame
ForwarderPasses(k) ==
  /\ fwd[k] = "pass"
  /\ Send(Event("progress", k)) /\ fwd' = Set(fwd, k, "recv")
  /\ UNCHANGED <<phase, result, rep, reports, prog>> /\ RunFrame
\* mutant: the forwarder looks at forwarder_stop before it looks at the channel
ForwarderEndsEarly(k) ==
  /\ fwd[k] = "recv" /\ phase[k] = "joinfwd"
  /\ fwd' = Set(fwd, k, "gone")
  /\ UNCHANGED <<phase, result, rep, reports, prog, outVars>> /\ RunFrame

\* Disconnected, or a timeout with forwarder_stop set: only when nothing is queued.
ForwarderEnds(k) ==
  /\ fwd[k] = "recv" /\ prog[k] = <<>> /\ phase[k] = "joinfwd"
  /\ fwd' = Set(fwd, k, "gone")
  /\ UNCHANGED <<phase, result, rep, reports, prog, outVars>> /\ RunFrame

ReportStep(k) ==
  ReporterWakes(k) \/ ReporterSends(k) \/ ForwarderTakes(k) \/ ForwarderPasses(k)
    \/ ForwarderEnds(k)

EmitterWrites ==
  /\ Alive /\ epc = "run" /\ evq # <<>>
  /\ out' = Append(out, Head(evq)) /\ evq' = Tail(evq)
  /\ UNCHANGED <<epc, inVars, mainVars, runVars, progVars>>

\* recv fails once the channel is empty and every sender is dropped: main's, and those of
\* the run threads and forwarders.
EmitterEnds ==
  /\ epc = "run" /\ evq = <<>>
  /\ mpc \in {"drop", "broken"} /\ \A k \in Runs : phase[k] \in {"none", "end"}
  /\ epc' = "gone"
  /\ UNCHANGED <<evq, out, inVars, mainVars, runVars, progVars>>

-----------------------------------------------------------------------------
MainStep ==
  \/ Boot \/ ReadOther \/ ReadCommand \/ ReadEof \/ Joined \/ StartRun \/ ExitMain
  \/ ProcessEnds
Terminated == ~Alive /\ UNCHANGED vars

Next ==
  \/ WriteCommand \/ CloseStdin \/ MainStep \/ ReadFails \/ Terminated
  \/ EmitterWrites \/ EmitterEnds
  \/ \E k \in Runs : RunStep(k) \/ GrindFound(k) \/ GpuReport(k) \/ GpuError(k) \/ ReportStep(k)

Spec == Init /\ [][Next]_vars

\* Threads run; a grind answers its stop flag at the next batch.  Nothing obliges it to
\* find anything, the orchestrator to write or to close, or a read to fail unless its line is
\* garbled.  A GPU run that was asked for without a device fails at once.
Fairness ==
  /\ WF_vars(MainStep) /\ WF_vars(ReadFails /\ Garbled)
  /\ WF_vars(EmitterWrites) /\ WF_vars(EmitterEnds)
  /\ \A k \in Runs : /\ WF_vars(RunStep(k)) /\ WF_vars(ReportStep(k))
                     /\ WF_vars(GpuError(k) /\ ~GpuAvailable)
LiveSpec == Spec /\ Fairness
-----------------------------------------------------------------------------
(* Properties. *)

EventType ==
  [ev : {"ready", "devices", "error", "progress", "found", "stopped"}, run : 0..MaxRuns]

\* Every variable has its type; the progress channel holds at most its capacity.
TypeOK ==
  /\ stdin \in Seq(Commands) /\ written \in 0..MaxRuns /\ eof \in BOOLEAN
  /\ mpc \in {"boot", "read", "join", "start", "drop", "exited", "broken", "dead"}
  /\ cur \in Commands \cup {NoCommand, Eof}
  /\ nruns \in 0..MaxRuns /\ active \in 0..nruns
  /\ mode \in [Runs -> {"cpu", "gpu"}]
  /\ phase \in [Runs -> {"none", "grind", "joinrep", "last", "drop", "joinfwd", "emit", "end"}]
  /\ stop \in [Runs -> BOOLEAN]
  /\ result \in [Runs -> {"none", "found", "stopped", "error"}]
  /\ rep \in [Runs -> {"none", "run", "send", "gone"}]
  /\ reports \in [Runs -> 0..MaxReports]
  /\ prog \in [Runs -> Seq({"progress", "stopped"})]
  /\ \A k \in Runs : Len(prog[k]) <= ProgCap
  /\ fwd \in [Runs -> {"none", "recv", "pass", "gone"}]
  /\ evq \in Seq(EventType) /\ epc \in {"run", "gone"} /\ out \in Seq(EventType)

\* A start or a retarget replaces the running job: no two runs hold the cores of the
\* machine at the same time (stop_and_wait before start_run).
OneRunAtATime == Cardinality({k \in Runs : phase[k] \notin {"none", "end"}}) <= 1

\* The stream of events is the protocol's, although three threads of every run and the
\* main thread feed it.
Protocol == INSTANCE GrinderProtocol
ImplementsProtocol == Protocol!Spec

Count(q, kind, k) == Cardinality({i \in DOMAIN q : q[i] = Event(kind, k)})
Told(kind, k) == Count(out, kind, k) + Count(evq, kind, k)

\* A run that is over has told how it ended, once, and every update it made; both are written,
\* or wait in the emitter's queue.  A core that leaves its loop at the end of its input exits
\* when every run is over and all was written.  One that could not read a line does not.
NothingLost ==
  /\ \A k \in 1..nruns : phase[k] = "end" =>
       /\ Told("found", k) + Told("stopped", k) + Told("error", k) = 1
       /\ Told("progress", k) = reports[k]
  /\ mpc = "exited" => evq = <<>> /\ \A k \in 1..nruns : phase[k] = "end"

\* A command that stops a run, and the end of the input, are never stuck behind it: the
\* bounded channel, the forwarder and the joins cannot wait on each other in a circle.
StopCompletes == mpc = "join" ~> mpc # "join"

\* The orchestrator closes the pipe, and the core exits (main's last lines), or dies of a line
\* it cannot read.
EofExits == eof ~> mpc \in {"exited", "dead"}
=============================================================================
