----------------------------- MODULE RpcClient -----------------------------
(***************************************************************************)
(* chain.Client (internal/chain/client.go): the pool of RPC endpoints      *)
(* behind every read, and, with submitOnly, behind the submission of       *)
(* transactions.  All goroutines of the miner share one client; each call  *)
(* loads the active connection, tries, and on any error reconnects and     *)
(* tries once more, all under the deadline the call started with.          *)
(*                                                                         *)
(* Connections are HTTP (every endpoint of the shipped configuration):     *)
(* dialling contacts nobody, closing one does not disturb another caller.  *)
(***************************************************************************)
EXTENDS Integers, FiniteSets

CONSTANTS
  N,            \* endpoints, in the order of the configuration
  Callers,      \* goroutines that use the client
  SubmitOnly,   \* NewSubmitOnlyClient: reconnect without probing
  WrongChain,   \* endpoints that serve another chain id
  Faults,       \* how an endpoint may fail: "down" answers with an error, "hang" never
  AppErrors,    \* a healthy endpoint may answer with an error (a revert, not found)
  MaxChanges,   \* bound: changes of health in a behaviour
  MayClose      \* the process may shut down

ASSUME NAssumption == N \in Nat \ {0} /\ MaxChanges \in Nat
ASSUME ChainAssumption == WrongChain \subseteq 1..N /\ WrongChain # 1..N
ASSUME FaultsAssumption == Faults \subseteq {"down", "hang"}
ASSUME SwitchAssumption == {SubmitOnly, AppErrors, MayClose} \subseteq BOOLEAN

Endpoints == 1..N
Right == Endpoints \ WrongChain
Nil == 0                  \* no connection

VARIABLES
  health, changes,        \* the endpoints
  active, idx,            \* the endpoint of c.active; c.idx, of which only idx % N matters
  cancelled, closed,      \* shutdown: the callers' context, Client.Close
  crashed,                \* a method was called on a nil client
  pc, cli, attempt, start, tried, expired,   \* each caller
  disturbed               \* history: what the call relies on changed during the call

sharedVars == <<active, idx>>
envVars == <<health, changes, cancelled, closed>>
callVars == <<pc, cli, attempt, start, tried, expired>>
vars == <<sharedVars, envVars, callVars, crashed, disturbed>>

Init ==
  /\ health = [e \in Endpoints |-> "up"] /\ changes = 0
  /\ active \in (IF SubmitOnly THEN {1} ELSE Right)
  /\ idx = active - 1
  /\ cancelled = FALSE /\ closed = FALSE /\ crashed = FALSE
  /\ pc = [c \in Callers |-> "idle"] /\ cli = [c \in Callers |-> Nil]
  /\ attempt = [c \in Callers |-> 1]
  /\ start = [c \in Callers |-> 0] /\ tried = [c \in Callers |-> 0]
  /\ expired = [c \in Callers |-> FALSE] /\ disturbed = [c \in Callers |-> FALSE]

-----------------------------------------------------------------------------
(* The endpoints and the process. *)

\* An endpoint fails or recovers; one that serves the right chain stays up.
Change ==
  /\ changes < MaxChanges /\ changes' = changes + 1
  /\ \E e \in Endpoints, h \in Faults \cup {"up"} :
       /\ h # health[e]
       /\ health' = [health EXCEPT ![e] = h]
  /\ \E e \in Right : health'[e] = "up"
  /\ disturbed' = [c \in Callers |-> TRUE]
  /\ UNCHANGED <<sharedVars, cancelled, closed, crashed, callVars>>

\* runMineStart's deferred calls: the context first, then Close.
Shutdown ==
  /\ MayClose /\ ~cancelled /\ cancelled' = TRUE
  /\ disturbed' = [c \in Callers |-> TRUE]
  /\ UNCHANGED <<sharedVars, health, changes, closed, crashed, callVars>>
Close ==
  /\ cancelled /\ ~closed /\ closed' = TRUE
  /\ active' = Nil
  /\ UNCHANGED <<idx, health, changes, cancelled, crashed, callVars, disturbed>>

-----------------------------------------------------------------------------
(* One call of caller c. *)

Step(c, p) == pc' = [pc EXCEPT ![c] = p]
Frame == UNCHANGED <<envVars, crashed>>
\* The context of the call is over: its deadline passed, or the process is stopping.
Over(c) == expired[c] \/ cancelled

\* Endpoint e is asked something: the outcomes, and whether the deadline was used up.
Asked(c, e) ==
  IF Over(c) THEN {[ok |-> FALSE, late |-> expired[c]]}
  ELSE CASE health[e] = "up" -> {[ok |-> TRUE, late |-> FALSE]}
         [] health[e] = "down" -> {[ok |-> FALSE, late |-> FALSE]}
         [] health[e] = "hang" -> {[ok |-> FALSE, late |-> TRUE]}

\* A public method makes a context with a timeout, withClient loads the connection.
Call(c) ==
  /\ pc[c] = "idle"
  /\ cli' = [cli EXCEPT ![c] = active]
  /\ Step(c, IF active = Nil THEN "reconnect" ELSE "try")
  /\ attempt' = [attempt EXCEPT ![c] = 1]
  /\ expired' = [expired EXCEPT ![c] = FALSE]
  /\ disturbed' = [disturbed EXCEPT ![c] = FALSE]
  /\ UNCHANGED <<sharedVars, start, tried>> /\ Frame

\* fn(cli): an error of the first attempt leads to failover, whatever the error.
Try(c) ==
  /\ pc[c] = "try" /\ cli[c] # Nil
  /\ \E r \in Asked(c, cli[c])
            \cup (IF AppErrors THEN {[ok |-> FALSE, late |-> expired[c]]} ELSE {}) :
       /\ expired' = [expired EXCEPT ![c] = r.late]
       /\ Step(c, IF r.ok THEN "ok" ELSE IF attempt[c] = 1 THEN "bump" ELSE "failed")
  /\ UNCHANGED <<sharedVars, cli, attempt, start, tried, disturbed>> /\ Frame

TryNil(c) ==
  /\ pc[c] = "try" /\ cli[c] = Nil
  /\ crashed' = TRUE /\ Step(c, "failed")
  /\ UNCHANGED <<sharedVars, envVars, cli, attempt, start, tried, expired, disturbed>>

\* mutant: the failed connection is dropped at once
BumpDropping(c) ==
  /\ pc[c] = "bump"
  /\ active' = Nil /\ idx' = (idx + 1) % N
  /\ attempt' = [attempt EXCEPT ![c] = 2]
  /\ Step(c, "reconnect")
  /\ UNCHANGED <<cli, start, tried, expired, disturbed>> /\ Frame

\* atomic.AddInt32(&c.idx, 1)
Bump(c) ==
  /\ pc[c] = "bump"
  /\ idx' = (idx + 1) % N
  /\ attempt' = [attempt EXCEPT ![c] = 2]
  /\ Step(c, "reconnect")
  /\ UNCHANGED <<active, cli, start, tried, expired, disturbed>> /\ Frame

\* connect starts at c.idx, connectSubmitOnly at the first endpoint.
Reconnect(c) ==
  /\ pc[c] = "reconnect"
  /\ start' = [start EXCEPT ![c] = IF SubmitOnly THEN 0 ELSE idx]
  /\ tried' = [tried EXCEPT ![c] = 0]
  /\ Step(c, "probe")
  /\ UNCHANGED <<sharedVars, cli, attempt, expired, disturbed>> /\ Frame

\* mutant: the scan stops at the last endpoint of the list
CandidateNoWrap(c) == IF start[c] + tried[c] < N THEN start[c] + tried[c] + 1 ELSE N
Candidate(c) == ((start[c] + tried[c]) % N) + 1

RightChainUnchecked(e) == TRUE   \* mutant: the chain id is fetched and not compared
RightChain(e) == e \in Right

\* One round of the loop: dial, then ask for the chain id under the call's deadline.
\* connectSubmitOnly only dials.
Probe(c) ==
  /\ pc[c] = "probe" /\ tried[c] < N
  /\ IF SubmitOnly
     THEN Step(c, "install") /\ UNCHANGED <<tried, expired>>
     ELSE \E r \in Asked(c, Candidate(c)) :
            /\ expired' = [expired EXCEPT ![c] = r.late]
            /\ IF r.ok /\ RightChain(Candidate(c))
               THEN Step(c, "install") /\ UNCHANGED tried
               ELSE tried' = [tried EXCEPT ![c] = @ + 1] /\ UNCHANGED pc
  /\ UNCHANGED <<sharedVars, cli, attempt, start, disturbed>> /\ Frame

NoneUsable(c) ==
  /\ pc[c] = "probe" /\ tried[c] = N
  /\ Step(c, "failed")
  /\ UNCHANGED <<sharedVars, cli, attempt, start, tried, expired, disturbed>> /\ Frame

\* A connection that was probed before the last change disturbs every call when it comes.
Disturb(c) == disturbed' = IF disturbed[c] THEN [d \in Callers |-> TRUE] ELSE disturbed

\* mutant: the new connection is used once and not stored
InstallLost(c) ==
  /\ pc[c] = "install"
  /\ idx' = Candidate(c) - 1
  /\ Step(c, "reload")
  /\ UNCHANGED <<active, cli, attempt, start, tried, expired, disturbed>> /\ Frame

\* mutant: the index is stored before it is wrapped
InstallUnwrapped(c) ==
  /\ pc[c] = "install"
  /\ active' = Candidate(c) /\ idx' = start[c] + tried[c]
  /\ Step(c, "reload")
  /\ Disturb(c)
  /\ UNCHANGED <<cli, attempt, start, tried, expired>> /\ Frame

\* The new connection replaces whatever is active by now.
Install(c) ==
  /\ pc[c] = "install"
  /\ active' = Candidate(c) /\ idx' = Candidate(c) - 1
  /\ Step(c, "reload")
  /\ Disturb(c)
  /\ UNCHANGED <<cli, attempt, start, tried, expired>> /\ Frame

\* cli = c.active, under the lock again.
Reload(c) ==
  /\ pc[c] = "reload"
  /\ cli' = [cli EXCEPT ![c] = active]
  /\ Step(c, "try")
  /\ UNCHANGED <<sharedVars, attempt, start, tried, expired, disturbed>> /\ Frame

\* The caller gets its answer or its error and may call again.
Return(c) ==
  /\ pc[c] \in {"ok", "failed"}
  /\ Step(c, "idle")
  /\ cli' = [cli EXCEPT ![c] = Nil] /\ tried' = [tried EXCEPT ![c] = 0]
  /\ start' = [start EXCEPT ![c] = 0] /\ attempt' = [attempt EXCEPT ![c] = 1]
  /\ expired' = [expired EXCEPT ![c] = FALSE]
  /\ disturbed' = [disturbed EXCEPT ![c] = FALSE]
  /\ UNCHANGED sharedVars /\ Frame

CallStep(c) ==
  \/ Call(c) \/ Try(c) \/ TryNil(c) \/ Bump(c) \/ Reconnect(c) \/ Probe(c)
  \/ NoneUsable(c) \/ Install(c) \/ Reload(c) \/ Return(c)

\* A nil dereference ends the process.
Crashed == crashed /\ UNCHANGED vars
Next ==
  \/ ~crashed /\ (Change \/ Shutdown \/ Close \/ \E c \in Callers : CallStep(c))
  \/ Crashed

Spec == Init /\ [][Next]_vars

\* Callers poll: each goes on calling, and every request ends, if only by its deadline.
LiveSpec == Spec /\ \A c \in Callers : WF_vars(~crashed /\ CallStep(c))

-----------------------------------------------------------------------------
(* Properties. *)

\* Every variable has its type.
TypeOK ==
  /\ health \in [Endpoints -> {"up", "down", "hang"}] /\ changes \in 0..MaxChanges
  /\ active \in Endpoints \cup {Nil} /\ idx \in 0..(N - 1)
  /\ {cancelled, closed, crashed} \subseteq BOOLEAN
  /\ pc \in [Callers -> {"idle", "try", "bump", "reconnect", "probe", "install",
                         "reload", "ok", "failed"}]
  /\ cli \in [Callers -> Endpoints \cup {Nil}] /\ attempt \in [Callers -> {1, 2}]
  /\ start \in [Callers -> 0..(N - 1)] /\ tried \in [Callers -> 0..N]
  /\ expired \in [Callers -> BOOLEAN] /\ disturbed \in [Callers -> BOOLEAN]

\* Reads only ever go to endpoints of the configured chain, whoever reconnected last
\* (connect's chain id check).
UsesRightChain ==
  ~SubmitOnly => \A c \in Callers : pc[c] = "try" /\ cli[c] # Nil => cli[c] \in Right

\* With no endpoint hanging, a call during which nothing changed succeeds, unless the process
\* is stopping: the endpoints are scanned from any start, and a connection that another caller
\* puts in the place of the call's own is as good, if it was probed since the last change.
FailsOver ==
  \A c \in Callers : pc[c] = "failed" => disturbed[c] \/ cancelled

\* A method is called on a nil client only in a shutdown, after Close.
NilOnlyAfterClose == crashed => closed

\* README: "RPC failover across multiple endpoints": calls are served again and again as
\* long as one endpoint of the pool is up and the process is not stopped.
Served == <>cancelled \/ []<>(\E c \in Callers : pc[c] = "ok")
=============================================================================
