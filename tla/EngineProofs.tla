---------------------------- MODULE EngineProofs ----------------------------
(***************************************************************************)
(* Safety of Engine for any number of accounts, any capacity of channels   *)
(* and pipes, any lag of the RPC endpoints, any data, and all failures.    *)
(*                                                                         *)
(* The invariant is a typing that knows the owner: what lies in worker a's *)
(* pipe, runs on its core, waits in its channel or is held by its handler  *)
(* has the type of account a.  Three more parts follow a solution from the *)
(* check of onFound to the network: its key is recorded before it is       *)
(* packed, the keys are wiped only under a cancelled context, and with     *)
(* verify_before_submit it passed the check against the primary account's  *)
(* challenge.                                                              *)
(***************************************************************************)
EXTENDS Engine, SequenceTheorems, TLAPS

\* The contract's states, and the order of the shutdown: wiped implies cancelled.
EnvInv ==
  /\ chain \in Seq([epoch : Nat, diff : Difficulties]) /\ chain # <<>>
  /\ ctxDone \in BOOLEAN /\ wiped \in BOOLEAN
  /\ wiped => ctxDone

\* The main goroutine: its loop index names a worker while it works for one, and the
\* command it is about to write is for that worker.
MainInv ==
  /\ pc \in {"init", "init2", "resolve", "start", "await", "job", "jobsend", "loop",
             "poll", "poll2", "retarget", "rsend", "stop", "cancel", "wipe", "exit",
             "exited", "panicked"}
  /\ cur \in 1..(NumAccounts + 1) /\ workers \in 0..NumAccounts
  /\ mode \in Modes /\ rdiff \in Difficulties /\ lastEpoch \in Nat
  /\ mcmd \in CommandsOf(Accounts) \cup {None}
  /\ pc \in {"await", "job", "jobsend", "rsend"} => cur \in Accounts
  /\ pc \in {"jobsend", "rsend"} => mcmd \in CommandsOf({cur})
  /\ pc \in {"wipe", "exit", "exited"} => ctxDone

CacheInv ==
  /\ epoch \in Nat /\ difficulty \in Difficulties
  /\ challenge \in ChallengesOf({Primary}) \cup {None}

\* What the handlers hold, each for its own account.
SolutionsTyped(f) ==
  /\ f \in [Accounts -> SolutionsOf(Accounts) \cup {None}]
  /\ \A a \in Accounts : f[a] \in SolutionsOf({a}) \cup {None}
CommandsTyped(f) ==
  /\ f \in [Accounts -> CommandsOf(Accounts) \cup {None}]
  /\ \A a \in Accounts : f[a] \in CommandsOf({a}) \cup {None}
HandlerInv ==
  /\ hpc \in [Accounts -> {"none", "recv", "stats", "found", "pack", "sign",
                           "broadcast", "restart", "send", "exited"}]
  /\ SolutionsTyped(hsol) /\ CommandsTyped(hcmd)
  /\ signed \in [Accounts -> {"no", "live", "wiped"}]
  /\ submitted \subseteq Accounts \X Nonces
  /\ sent \in Seq(Transactions)
  /\ \A a \in Accounts :
       /\ hpc[a] \in {"found", "pack", "sign", "broadcast"} => hsol[a] \in SolutionsOf({a})
       /\ hpc[a] = "send" => hcmd[a] \in CommandsOf({a})
       /\ hpc[a] = "broadcast" => signed[a] \in {"live", "wiped"}

\* The channels, the pipes and the cores, each for its own account.
EventsTyped(f) ==
  /\ f \in [Accounts -> Seq(EventsOf(Accounts))]
  /\ \A a \in Accounts : f[a] \in Seq(EventsOf({a})) /\ Len(f[a]) <= EventCap
StdinTyped(f) ==
  /\ f \in [Accounts -> Seq(CommandsOf(Accounts))]
  /\ \A a \in Accounts : f[a] \in Seq(CommandsOf({a})) /\ Len(f[a]) <= StdinCap
JobsTyped(f) ==
  /\ f \in [Accounts -> JobsOf(Accounts) \cup {None}]
  /\ \A a \in Accounts : f[a] \in JobsOf({a}) \cup {None}
CoreInv ==
  /\ EventsTyped(events) /\ StdinTyped(stdin) /\ JobsTyped(job)
  /\ core \in [Accounts -> {"none", "boot", "up", "dead"}]

Submitting(a) == hpc[a] \in {"pack", "sign", "broadcast"}

\* A transaction waiting to be sent was signed with a live key, unless the keys are wiped.
KeyInv ==
  /\ \A a \in Accounts : hpc[a] = "broadcast" /\ ~wiped => signed[a] = "live"
  /\ SignedWithLiveKey

\* A key is recorded before its solution is packed, and a recorded key never comes back.
OnceInv ==
  /\ \A a \in Accounts : Submitting(a) =>
       /\ Key(a) \in submitted
       /\ \A k \in DOMAIN sent : <<sent[k].acc, sent[k].sol.nonce>> # Key(a)
  /\ \A k \in DOMAIN sent : <<sent[k].acc, sent[k].sol.nonce>> \in submitted
  /\ SubmittedOnce

\* With verify_before_submit only the primary account gets past the check.
PrimaryInv ==
  /\ VerifyBeforeSubmit => \A a \in Accounts : Submitting(a) => a = Primary
  /\ OnlyPrimarySubmits

IInv == /\ EnvInv /\ MainInv /\ CacheInv /\ HandlerInv /\ CoreInv
        /\ KeyInv /\ OnceInv /\ PrimaryInv

-----------------------------------------------------------------------------
(* Types of one account are types of all of them. *)

\* An account's commands, jobs, solutions and events have the common types.
LEMMA OwnIsCommon ==
  ASSUME NEW a \in Accounts
  PROVE  /\ CommandsOf({a}) \subseteq CommandsOf(Accounts)
         /\ JobsOf({a}) \subseteq JobsOf(Accounts)
         /\ SolutionsOf({a}) \subseteq SolutionsOf(Accounts)
         /\ EventsOf({a}) \subseteq EventsOf(Accounts)
  <1>1. ChallengesOf({a}) \subseteq ChallengesOf(Accounts)
    BY DEF ChallengesOf
  <1>2. CommandsOf({a}) \subseteq CommandsOf(Accounts)
    BY <1>1 DEF CommandsOf
  <1>3. JobsOf({a}) \subseteq JobsOf(Accounts)
    BY <1>1 DEF JobsOf
  <1>4. SolutionsOf({a}) \subseteq SolutionsOf(Accounts)
    BY <1>1 DEF SolutionsOf
  <1>5. EventsOf({a}) \subseteq EventsOf(Accounts)
    BY <1>4 DEF EventsOf
  <1> QED BY <1>2, <1>3, <1>4, <1>5

\* A sequence over a set is a sequence over a larger one.
LEMMA SeqMonotone ==
  ASSUME NEW S, NEW T, S \subseteq T, NEW q \in Seq(S)
  PROVE  q \in Seq(T)
  <1>1. Len(q) \in Nat /\ q \in [1..Len(q) -> S]
    OBVIOUS
  <1>2. q \in [1..Len(q) -> T]
    BY <1>1
  <1> QED BY <1>1, <1>2

\* The elements of a sequence, and the sequence of one element.
LEMMA SeqElement ==
  ASSUME NEW S, NEW q \in Seq(S), NEW k \in DOMAIN q
  PROVE  q[k] \in S
  OBVIOUS

LEMMA SeqLast ==
  ASSUME NEW S, NEW q \in Seq(S), q # <<>>
  PROVE  q[Len(q)] \in S
  OBVIOUS

LEMMA SeqSingle ==
  ASSUME NEW S, NEW e \in S
  PROVE  <<e>> \in Seq(S) /\ <<e>> # <<>>
  OBVIOUS

\* Replacing one account's entry by one of its own type preserves the typing.
LEMMA EventsUpdate ==
  ASSUME NEW f, EventsTyped(f), NEW a \in Accounts,
         NEW q \in Seq(EventsOf({a})), Len(q) <= EventCap
  PROVE  EventsTyped([f EXCEPT ![a] = q])
  <1>1. q \in Seq(EventsOf(Accounts))
    BY OwnIsCommon, SeqMonotone
  <1> QED BY <1>1 DEF EventsTyped

LEMMA StdinUpdate ==
  ASSUME NEW f, StdinTyped(f), NEW a \in Accounts,
         NEW q \in Seq(CommandsOf({a})), Len(q) <= StdinCap
  PROVE  StdinTyped([f EXCEPT ![a] = q])
  <1>1. q \in Seq(CommandsOf(Accounts))
    BY OwnIsCommon, SeqMonotone
  <1> QED BY <1>1 DEF StdinTyped

LEMMA JobsUpdate ==
  ASSUME NEW f, JobsTyped(f), NEW a \in Accounts, NEW j \in JobsOf({a}) \cup {None}
  PROVE  JobsTyped([f EXCEPT ![a] = j])
  BY OwnIsCommon DEF JobsTyped

LEMMA SolutionsUpdate ==
  ASSUME NEW f, SolutionsTyped(f), NEW a \in Accounts, NEW s \in SolutionsOf({a}) \cup {None}
  PROVE  SolutionsTyped([f EXCEPT ![a] = s])
  BY OwnIsCommon DEF SolutionsTyped

LEMMA CommandsUpdate ==
  ASSUME NEW f, CommandsTyped(f), NEW a \in Accounts, NEW c \in CommandsOf({a}) \cup {None}
  PROVE  CommandsTyped([f EXCEPT ![a] = c])
  BY OwnIsCommon DEF CommandsTyped

-----------------------------------------------------------------------------
(* Channels, pipes, commands and views. *)

\* An empty pipe.
LEMMA EmptyType == \A S : <<>> \in Seq(S) /\ Len(<<>>) <= StdinCap
  BY CapAssumption

\* A channel that is given an event keeps its type and its capacity.
LEMMA EmitType ==
  ASSUME NEW S, NEW q \in Seq(S), Len(q) <= EventCap, NEW e \in S
  PROVE  Emit(q, e) \in Seq(S) /\ Len(Emit(q, e)) <= EventCap
  BY CapAssumption DEF Emit

\* Taking the head of a non-empty sequence.
LEMMA TailType ==
  ASSUME NEW S, NEW q \in Seq(S), q # <<>>
  PROVE  /\ Head(q) \in S /\ Tail(q) \in Seq(S)
         /\ Len(Tail(q)) = Len(q) - 1 /\ Len(q) \in Nat
  OBVIOUS

\* Every view of the chain is one of its states.
LEMMA ViewType ==
  ASSUME EnvInv, NEW v \in Views
  PROVE  v.epoch \in Nat /\ v.diff \in Difficulties
  <1>1. PICK k \in DOMAIN chain : v = chain[k]
    BY DEF Views
  <1>2. chain[k] \in [epoch : Nat, diff : Difficulties]
    BY <1>1, SeqElement DEF EnvInv
  <1> QED BY <1>1, <1>2

\* The commands the orchestrator builds for account a are of a's type.
LEMMA CommandType ==
  ASSUME NEW a \in Accounts, NEW e \in Nat, NEW d \in Difficulties, NEW m \in Modes
  PROVE  /\ StartCmd(Challenge(a, e), d, m) \in CommandsOf({a})
         /\ RetargetCmd(Challenge(a, e), d) \in CommandsOf({a})
  BY DEF StartCmd, RetargetCmd, CommandsOf, Challenge, ChallengesOf

\* resolveMode yields a mode.
LEMMA ModeType == \A c : ResolvedModes(c) \subseteq Modes
  BY ModeAssumption DEF ResolvedModes, Modes

\* A note is an event of any account.
LEMMA NoteType ==
  ASSUME NEW a \in Accounts, NEW kind \in {"ready", "progress", "info"}
  PROVE  Note(kind) \in EventsOf({a})
  BY DEF Note, EventsOf

\* Worker.Send puts a command of account a in a's pipe.
LEMMA SendType ==
  ASSUME CoreInv, NEW a \in Accounts, NEW c \in CommandsOf({a}),
         CanSend(a), stdin' = [stdin EXCEPT ![a] = Append(@, c)],
         UNCHANGED <<events, core, job>>
  PROVE  CoreInv'
  <1>1. stdin[a] \in Seq(CommandsOf({a})) /\ Len(stdin[a]) < StdinCap
    BY DEF CoreInv, StdinTyped, CanSend
  <1>2. Append(stdin[a], c) \in Seq(CommandsOf({a})) /\ Len(Append(stdin[a], c)) <= StdinCap
    BY <1>1, CapAssumption
  <1> QED BY <1>2, StdinUpdate DEF CoreInv, EventsTyped, JobsTyped

\* A dead core leaves an empty pipe and no job.
LEMMA DeadType ==
  ASSUME CoreInv, NEW a \in Accounts, Dead(a)
  PROVE  CoreInv'
  <1>1. StdinTyped([stdin EXCEPT ![a] = <<>>])
    BY StdinUpdate, EmptyType DEF CoreInv
  <1>2. JobsTyped([job EXCEPT ![a] = None])
    BY JobsUpdate DEF CoreInv
  <1> QED BY <1>1, <1>2 DEF Dead, CoreInv, EventsTyped

-----------------------------------------------------------------------------
(* Parts of the invariant that a step leaves alone. *)

LEMMA SameEnv == EnvInv /\ UNCHANGED <<chainVars, procVars>> => EnvInv'
  BY DEF EnvInv, chainVars, procVars

LEMMA SameMain == MainInv /\ UNCHANGED <<mainVars, ctxDone>> => MainInv'
  BY DEF MainInv, mainVars

LEMMA SameCache == CacheInv /\ UNCHANGED cacheVars => CacheInv'
  BY DEF CacheInv, cacheVars

LEMMA SameHandler == HandlerInv /\ UNCHANGED handlerVars => HandlerInv'
  BY DEF HandlerInv, SolutionsTyped, CommandsTyped, handlerVars

LEMMA SameCore == CoreInv /\ UNCHANGED coreVars => CoreInv'
  BY DEF CoreInv, EventsTyped, StdinTyped, JobsTyped, coreVars

\* A step that is not a handler's does not disturb what follows a solution, unless it wipes.
LEMMA SameSubmit ==
  KeyInv /\ OnceInv /\ PrimaryInv /\ UNCHANGED <<handlerVars, wiped>>
    => KeyInv' /\ OnceInv' /\ PrimaryInv'
  BY DEF KeyInv, OnceInv, PrimaryInv, Submitting, Key, SignedWithLiveKey, SubmittedOnce,
         OnlyPrimarySubmits, handlerVars

-----------------------------------------------------------------------------
(* Initially. *)

\* The invariant holds before Run has done anything.
LEMMA InitInv == Init => IInv
  <1> SUFFICES ASSUME Init PROVE IInv
    OBVIOUS
  <1> USE DEF Init
  <1>0. PICK d \in Difficulties : chain = <<[epoch |-> 0, diff |-> d]>>
    OBVIOUS
  <1>1. EnvInv
    <2>1. [epoch |-> 0, diff |-> d] \in [epoch : Nat, diff : Difficulties]
      OBVIOUS
    <2> QED BY <1>0, <2>1, SeqSingle DEF EnvInv
  <1>2. MainInv
    <2>1. chain[1].diff \in Difficulties
      BY <1>0
    <2> QED BY <2>1, NumAccountsAssumption DEF MainInv, Modes
  <1>3. CacheInv
    BY DEF CacheInv
  <1>4. HandlerInv
    BY DEF HandlerInv, SolutionsTyped, CommandsTyped
  <1>5. CoreInv
    BY CapAssumption DEF CoreInv, EventsTyped, StdinTyped, JobsTyped
  <1>6. KeyInv /\ OnceInv /\ PrimaryInv
    BY DEF KeyInv, OnceInv, PrimaryInv, Submitting, SignedWithLiveKey, SubmittedOnce,
           OnlyPrimarySubmits
  <1> QED BY <1>1, <1>2, <1>3, <1>4, <1>5, <1>6 DEF IInv

-----------------------------------------------------------------------------
(* Every step. *)

\* Every step of the main goroutine, the handlers, the cores and the chain preserves it.
LEMMA NextInv == IInv /\ [Next]_vars => IInv'
  <1> SUFFICES ASSUME IInv, [Next]_vars PROVE IInv'
    OBVIOUS
  <1> USE DEF IInv
  <1>1. CASE Block
    <2> USE <1>1 DEF Block
    <2>1. EnvInv'
      <3>1. chain[Len(chain)] \in [epoch : Nat, diff : Difficulties]
        BY SeqLast DEF EnvInv
      <3>2. PICK s \in [epoch : {chain[Len(chain)].epoch, chain[Len(chain)].epoch + 1} \cap 0..MaxEpoch,
                        diff : Difficulties] : chain' = Append(chain, s)
        OBVIOUS
      <3>3. s \in [epoch : Nat, diff : Difficulties]
        BY <3>1, <3>2
      <3> QED BY <3>2, <3>3 DEF EnvInv, procVars
    <2>2. MainInv' /\ CacheInv' /\ HandlerInv' /\ CoreInv' /\ KeyInv' /\ OnceInv' /\ PrimaryInv'
      BY SameMain, SameCache, SameHandler, SameCore, SameSubmit DEF mainVars, procVars, cacheVars, handlerVars, coreVars
    <2> QED BY <2>1, <2>2
  <1>2. CASE Signal
    <2> USE <1>2 DEF Signal, Running
    <2>1. EnvInv'
      BY DEF EnvInv, chainVars
    <2>2. MainInv'
      BY DEF MainInv, mainVars
    <2>3. CacheInv' /\ HandlerInv' /\ CoreInv' /\ KeyInv' /\ OnceInv' /\ PrimaryInv'
      BY SameCache, SameHandler, SameCore, SameSubmit DEF procVars, cacheVars, handlerVars, coreVars
    <2> QED BY <2>1, <2>2, <2>3
  <1>3. CASE PollMiningState
    <2> USE <1>3 DEF PollMiningState, RpcOk, RpcErr
    <2>1. MainInv'
      BY DEF MainInv
    <2>2. CacheInv'
      BY ViewType DEF CacheInv
    <2>3. EnvInv' /\ HandlerInv' /\ CoreInv' /\ KeyInv' /\ OnceInv' /\ PrimaryInv'
      BY SameEnv, SameHandler, SameCore, SameSubmit DEF procVars, handlerVars, coreVars
    <2> QED BY <2>1, <2>2, <2>3
  <1>4. CASE PollChallenge
    <2> USE <1>4 DEF PollChallenge, RpcOk, RpcErr
    <2>1. MainInv'
      BY NumAccountsAssumption DEF MainInv, CacheInv, Accounts
    <2>2. CacheInv'
      BY ViewType DEF CacheInv, Challenge, ChallengesOf
    <2>3. EnvInv' /\ HandlerInv' /\ CoreInv' /\ KeyInv' /\ OnceInv' /\ PrimaryInv'
      BY SameEnv, SameHandler, SameCore, SameSubmit DEF procVars, handlerVars, coreVars
    <2> QED BY <2>1, <2>2, <2>3
  <1>5. CASE ResolveMode
    <2> USE <1>5 DEF ResolveMode
    <2>1. MainInv'
      BY ModeType, NumAccountsAssumption DEF MainInv
    <2>2. EnvInv' /\ CacheInv' /\ HandlerInv' /\ CoreInv' /\ KeyInv' /\ OnceInv' /\ PrimaryInv'
      BY SameEnv, SameCache, SameHandler, SameCore, SameSubmit DEF procVars, cacheVars, handlerVars, coreVars
    <2> QED BY <2>1, <2>2
  <1>6. CASE StartWorker
    <2> USE <1>6 DEF StartWorker
    <2>1. MainInv'
      BY NumAccountsAssumption DEF MainInv, Accounts, procVars
    <2>2. HandlerInv'
      BY DEF HandlerInv
    <2>3. CoreInv'
      BY DEF CoreInv
    <2>4. KeyInv' /\ OnceInv' /\ PrimaryInv'
      BY DEF KeyInv, OnceInv, PrimaryInv, Submitting, Key, SignedWithLiveKey, SubmittedOnce,
             OnlyPrimarySubmits, HandlerInv, procVars
    <2>5. EnvInv' /\ CacheInv'
      BY SameEnv, SameCache DEF procVars, cacheVars
    <2> QED BY <2>1, <2>2, <2>3, <2>4, <2>5
  <1>7. CASE StartFails
    <2> USE <1>7 DEF StartFails
    <2>1. MainInv'
      BY DEF MainInv, procVars
    <2>2. EnvInv' /\ CacheInv' /\ HandlerInv' /\ CoreInv' /\ KeyInv' /\ OnceInv' /\ PrimaryInv'
      BY SameEnv, SameCache, SameHandler, SameCore, SameSubmit DEF procVars, cacheVars, handlerVars, coreVars
    <2> QED BY <2>1, <2>2
  <1>8. CASE SpawnDone
    <2> USE <1>8 DEF SpawnDone
    <2>1. MainInv'
      BY DEF MainInv, CacheInv, procVars
    <2>2. EnvInv' /\ CacheInv' /\ HandlerInv' /\ CoreInv' /\ KeyInv' /\ OnceInv' /\ PrimaryInv'
      BY SameEnv, SameCache, SameHandler, SameCore, SameSubmit DEF procVars, cacheVars, handlerVars, coreVars
    <2> QED BY <2>1, <2>2
  <1>9. CASE AwaitReady
    <2> USE <1>9 DEF AwaitReady
    <2>1. MainInv'
      BY DEF MainInv, procVars
    <2>2. CoreInv'
      <3>1. cur \in Accounts
        BY DEF MainInv
      <3>2. CASE events[cur] # <<>> /\ events' = [events EXCEPT ![cur] = Tail(@)]
        <4>1. events[cur] \in Seq(EventsOf({cur})) /\ Len(events[cur]) <= EventCap
          BY <3>1 DEF CoreInv, EventsTyped
        <4>2. Tail(events[cur]) \in Seq(EventsOf({cur})) /\ Len(Tail(events[cur])) <= EventCap
          BY <4>1, <3>2, TailType, CapAssumption
        <4> QED BY <3>1, <3>2, <4>2, EventsUpdate DEF CoreInv
      <3>3. CASE UNCHANGED events
        BY <3>3, SameCore DEF coreVars
      <3> QED BY <3>2, <3>3
    <2>3. EnvInv' /\ CacheInv' /\ HandlerInv' /\ KeyInv' /\ OnceInv' /\ PrimaryInv'
      BY SameEnv, SameCache, SameHandler, SameSubmit DEF procVars, cacheVars, handlerVars
    <2> QED BY <2>1, <2>2, <2>3
  <1>10. CASE SpawnFetch
    <2> USE <1>10 DEF SpawnFetch
    <2>1. MainInv'
      <3>1. CASE UNCHANGED mcmd /\ pc' = "cancel"
        BY <3>1 DEF MainInv, procVars
      <3>2. CASE pc' = "jobsend" /\ \E v \in Views : mcmd' = StartCmd(Challenge(cur, v.epoch), difficulty, mode)
        <4>1. cur \in Accounts /\ mode \in Modes /\ difficulty \in Difficulties
          BY DEF MainInv, CacheInv
        <4>2. mcmd' \in CommandsOf({cur})
          BY <3>2, <4>1, ViewType, CommandType
        <4>3. mcmd' \in CommandsOf(Accounts)
          BY <4>1, <4>2, OwnIsCommon
        <4> QED BY <3>2, <4>1, <4>2, <4>3 DEF MainInv, procVars
      <3> QED BY <3>1, <3>2
    <2>2. EnvInv' /\ CacheInv' /\ HandlerInv' /\ CoreInv' /\ KeyInv' /\ OnceInv' /\ PrimaryInv'
      BY SameEnv, SameCache, SameHandler, SameCore, SameSubmit DEF procVars, cacheVars, handlerVars, coreVars
    <2> QED BY <2>1, <2>2
  <1>11. CASE SpawnSend
    <2> USE <1>11 DEF SpawnSend
    <2>1. MainInv'
      BY NumAccountsAssumption DEF MainInv, Accounts, procVars
    <2>2. CoreInv'
      <3>1. cur \in Accounts /\ mcmd \in CommandsOf({cur})
        BY DEF MainInv
      <3>2. CASE CanSend(cur) /\ stdin' = [stdin EXCEPT ![cur] = Append(@, mcmd)]
        BY <3>1, <3>2, SendType
      <3>3. CASE UNCHANGED stdin
        BY <3>3, SameCore DEF coreVars
      <3> QED BY <3>2, <3>3
    <2>3. EnvInv' /\ CacheInv' /\ HandlerInv' /\ KeyInv' /\ OnceInv' /\ PrimaryInv'
      BY SameEnv, SameCache, SameHandler, SameSubmit DEF procVars, cacheVars, handlerVars
    <2> QED BY <2>1, <2>2, <2>3
  <1>12. CASE LoopPoll
    <2> USE <1>12 DEF LoopPoll
    <2>1. MainInv'
      BY DEF MainInv, procVars
    <2>2. EnvInv' /\ CacheInv' /\ HandlerInv' /\ CoreInv' /\ KeyInv' /\ OnceInv' /\ PrimaryInv'
      BY SameEnv, SameCache, SameHandler, SameCore, SameSubmit DEF procVars, cacheVars, handlerVars, coreVars
    <2> QED BY <2>1, <2>2
  <1>13. CASE LoopDone
    <2> USE <1>13 DEF LoopDone
    <2>1. MainInv'
      BY DEF MainInv, procVars
    <2>2. EnvInv' /\ CacheInv' /\ HandlerInv' /\ CoreInv' /\ KeyInv' /\ OnceInv' /\ PrimaryInv'
      BY SameEnv, SameCache, SameHandler, SameCore, SameSubmit DEF procVars, cacheVars, handlerVars, coreVars
    <2> QED BY <2>1, <2>2
  <1>14. CASE RetargetFetch
    <2> USE <1>14 DEF RetargetFetch
    <2>1. MainInv'
      <3>1. cur \in Accounts
        BY NumAccountsAssumption DEF MainInv, Accounts
      <3>2. CASE cur' = cur + 1 /\ UNCHANGED <<pc, mcmd>>
        BY <3>2, NumAccountsAssumption DEF MainInv, Accounts, procVars
      <3>3. CASE UNCHANGED cur /\ pc' = "rsend" /\ \E v \in Views : mcmd' = RetargetCmd(Challenge(cur, v.epoch), rdiff)
        <4>1. rdiff \in Difficulties
          BY DEF MainInv
        <4>2. mcmd' \in CommandsOf({cur})
          BY <3>1, <3>3, <4>1, ViewType, CommandType DEF MainInv
        <4>3. mcmd' \in CommandsOf(Accounts)
          BY <3>1, <4>2, OwnIsCommon
        <4> QED BY <3>1, <3>3, <4>2, <4>3 DEF MainInv, procVars
      <3> QED BY <3>2, <3>3
    <2>2. EnvInv' /\ CacheInv' /\ HandlerInv' /\ CoreInv' /\ KeyInv' /\ OnceInv' /\ PrimaryInv'
      BY SameEnv, SameCache, SameHandler, SameCore, SameSubmit DEF procVars, cacheVars, handlerVars, coreVars
    <2> QED BY <2>1, <2>2
  <1>15. CASE RetargetSend
    <2> USE <1>15 DEF RetargetSend
    <2>1. MainInv'
      BY NumAccountsAssumption DEF MainInv, Accounts, procVars
    <2>2. CoreInv'
      <3>1. cur \in Accounts /\ mcmd \in CommandsOf({cur})
        BY DEF MainInv
      <3>2. CASE CanSend(cur) /\ stdin' = [stdin EXCEPT ![cur] = Append(@, mcmd)]
        BY <3>1, <3>2, SendType
      <3>3. CASE UNCHANGED stdin
        BY <3>3, SameCore DEF coreVars
      <3> QED BY <3>2, <3>3
    <2>3. EnvInv' /\ CacheInv' /\ HandlerInv' /\ KeyInv' /\ OnceInv' /\ PrimaryInv'
      BY SameEnv, SameCache, SameHandler, SameSubmit DEF procVars, cacheVars, handlerVars
    <2> QED BY <2>1, <2>2, <2>3
  <1>16. CASE RetargetDone
    <2> USE <1>16 DEF RetargetDone
    <2>1. MainInv'
      BY DEF MainInv, CacheInv, procVars
    <2>2. EnvInv' /\ CacheInv' /\ HandlerInv' /\ CoreInv' /\ KeyInv' /\ OnceInv' /\ PrimaryInv'
      BY SameEnv, SameCache, SameHandler, SameCore, SameSubmit DEF procVars, cacheVars, handlerVars, coreVars
    <2> QED BY <2>1, <2>2
  <1>17. CASE StopAllWorkers
    <2> USE <1>17 DEF StopAllWorkers
    <2>1. MainInv'
      BY NumAccountsAssumption DEF MainInv, procVars
    <2>2. CoreInv'
      <3>1. JobsTyped(job')
        BY DEF CoreInv, JobsTyped
      <3>2. StdinTyped(stdin')
        <4>1. \A b \in Accounts : stdin'[b] = stdin[b] \/ stdin'[b] = <<>>
          OBVIOUS
        <4>2. \A b \in Accounts : /\ stdin'[b] \in Seq(CommandsOf({b})) /\ Len(stdin'[b]) <= StdinCap
                                  /\ stdin'[b] \in Seq(CommandsOf(Accounts))
          BY <4>1, EmptyType DEF CoreInv, StdinTyped
        <4> QED BY <4>2 DEF StdinTyped
      <3>3. core' \in [Accounts -> {"none", "boot", "up", "dead"}]
        BY DEF CoreInv
      <3> QED BY <3>1, <3>2, <3>3 DEF CoreInv
    <2>3. EnvInv' /\ CacheInv' /\ HandlerInv' /\ KeyInv' /\ OnceInv' /\ PrimaryInv'
      BY SameEnv, SameCache, SameHandler, SameSubmit DEF procVars, cacheVars, handlerVars
    <2> QED BY <2>1, <2>2, <2>3
  <1>18. CASE Cancel
    <2> USE <1>18 DEF Cancel
    <2>1. EnvInv'
      BY DEF EnvInv, chainVars
    <2>2. MainInv'
      BY DEF MainInv
    <2>3. CacheInv' /\ HandlerInv' /\ CoreInv' /\ KeyInv' /\ OnceInv' /\ PrimaryInv'
      BY SameCache, SameHandler, SameCore, SameSubmit DEF procVars, cacheVars, handlerVars, coreVars
    <2> QED BY <2>1, <2>2, <2>3
  <1>19. CASE Wipe
    <2> USE <1>19 DEF Wipe
    <2>1. EnvInv'
      BY DEF EnvInv, MainInv, chainVars
    <2>2. MainInv'
      BY DEF MainInv
    <2>3. KeyInv' /\ OnceInv' /\ PrimaryInv'
      BY DEF KeyInv, OnceInv, PrimaryInv, Submitting, Key, SignedWithLiveKey, SubmittedOnce,
             OnlyPrimarySubmits, handlerVars
    <2>4. CacheInv' /\ HandlerInv' /\ CoreInv'
      BY SameCache, SameHandler, SameCore DEF cacheVars, handlerVars, coreVars
    <2> QED BY <2>1, <2>2, <2>3, <2>4
  <1>20. CASE Exit
    <2> USE <1>20 DEF Exit
    <2>1. MainInv'
      BY DEF MainInv, procVars
    <2>2. EnvInv' /\ CacheInv' /\ HandlerInv' /\ CoreInv' /\ KeyInv' /\ OnceInv' /\ PrimaryInv'
      BY SameEnv, SameCache, SameHandler, SameCore, SameSubmit DEF procVars, cacheVars, handlerVars, coreVars
    <2> QED BY <2>1, <2>2
  <1>21. ASSUME NEW a \in Accounts, HReceive(a) PROVE IInv'
    <2> USE <1>21 DEF HReceive, At, HandlerFrame, Goto
    <2>1. HandlerInv'
      <3>1. Head(events[a]) \in EventsOf({a})
        BY TailType DEF CoreInv, EventsTyped
      <3>2. Head(events[a]).ev = "found" => Head(events[a]).sol \in SolutionsOf({a})
        BY <3>1 DEF EventsOf
      <3>3. SolutionsTyped(hsol')
        BY <3>2, SolutionsUpdate DEF HandlerInv
      <3> QED BY <3>2, <3>3 DEF HandlerInv, CommandsTyped, SolutionsTyped
    <2>2. CoreInv'
      <3>1. events[a] \in Seq(EventsOf({a})) /\ Len(events[a]) <= EventCap
        BY DEF CoreInv, EventsTyped
      <3>2. Tail(events[a]) \in Seq(EventsOf({a})) /\ Len(Tail(events[a])) <= EventCap
        BY <3>1, TailType, CapAssumption
      <3> QED BY <3>2, EventsUpdate DEF CoreInv, StdinTyped, JobsTyped
    <2>3. KeyInv' /\ OnceInv' /\ PrimaryInv'
      BY DEF KeyInv, OnceInv, PrimaryInv, Submitting, Key, SignedWithLiveKey, SubmittedOnce,
             OnlyPrimarySubmits, HandlerInv, SolutionsTyped, procVars
    <2>4. EnvInv' /\ MainInv' /\ CacheInv'
      BY SameEnv, SameMain, SameCache DEF mainVars, procVars, cacheVars
    <2> QED BY <2>1, <2>2, <2>3, <2>4
  <1>22. ASSUME NEW a \in Accounts, HClosed(a) PROVE IInv'
    <2> USE <1>22 DEF HClosed, At, HandlerFrame, Goto
    <2>1. HandlerInv'
      BY DEF HandlerInv
    <2>2. KeyInv' /\ OnceInv' /\ PrimaryInv'
      BY DEF KeyInv, OnceInv, PrimaryInv, Submitting, Key, SignedWithLiveKey, SubmittedOnce,
             OnlyPrimarySubmits, HandlerInv, SolutionsTyped, procVars
    <2>3. EnvInv' /\ MainInv' /\ CacheInv' /\ CoreInv'
      BY SameEnv, SameMain, SameCache, SameCore DEF mainVars, procVars, cacheVars, coreVars
    <2> QED BY <2>1, <2>2, <2>3
  <1>23. ASSUME NEW a \in Accounts, HStats(a) PROVE IInv'
    <2> USE <1>23 DEF HStats, At, HandlerFrame, Goto
    <2>1. HandlerInv'
      BY DEF HandlerInv
    <2>2. KeyInv' /\ OnceInv' /\ PrimaryInv'
      BY DEF KeyInv, OnceInv, PrimaryInv, Submitting, Key, SignedWithLiveKey, SubmittedOnce,
             OnlyPrimarySubmits, HandlerInv, SolutionsTyped, procVars
    <2>3. EnvInv' /\ MainInv' /\ CacheInv' /\ CoreInv'
      BY SameEnv, SameMain, SameCache, SameCore DEF mainVars, procVars, cacheVars, coreVars
    <2> QED BY <2>1, <2>2, <2>3
  <1>24. ASSUME NEW a \in Accounts, HReject(a) PROVE IInv'
    <2> USE <1>24 DEF HReject, At, HandlerFrame, Goto, Forget
    <2>1. HandlerInv'
      BY SolutionsUpdate, CommandsUpdate DEF HandlerInv, SolutionsTyped, CommandsTyped
    <2>2. KeyInv' /\ OnceInv' /\ PrimaryInv'
      BY DEF KeyInv, OnceInv, PrimaryInv, Submitting, Key, SignedWithLiveKey, SubmittedOnce,
             OnlyPrimarySubmits, HandlerInv, SolutionsTyped, procVars
    <2>3. EnvInv' /\ MainInv' /\ CacheInv' /\ CoreInv'
      BY SameEnv, SameMain, SameCache, SameCore DEF mainVars, procVars, cacheVars, coreVars
    <2> QED BY <2>1, <2>2, <2>3
  <1>25. ASSUME NEW a \in Accounts, HAccept(a) PROVE IInv'
    <2> USE <1>25 DEF HAccept, At, HandlerFrame, Goto
    <2>1. HandlerInv'
      <3>1. Key(a) \in Accounts \X Nonces
        BY DEF HandlerInv, Key, SolutionsOf
      <3> QED BY <3>1 DEF HandlerInv, SolutionsTyped, CommandsTyped
    <2>2. KeyInv' /\ OnceInv' /\ PrimaryInv'
      <3>1. KeyInv'
        BY DEF KeyInv, SignedWithLiveKey, HandlerInv, procVars
      <3>2. OnceInv'
        BY DEF OnceInv, Submitting, Key, SubmittedOnce, HandlerInv
      <3>3. VerifyBeforeSubmit => a = Primary
        <4>1. hsol[a].ch.acc = a
          BY DEF HandlerInv, SolutionsOf, ChallengesOf
        <4>2. VerifyBeforeSubmit => hsol[a].ch = challenge /\ challenge \in ChallengesOf({Primary})
          BY DEF LocallyValid, VerifyLocal, CacheInv
        <4> QED BY <4>1, <4>2 DEF ChallengesOf
      <3>4. PrimaryInv'
        BY <3>3 DEF PrimaryInv, Submitting, OnlyPrimarySubmits, HandlerInv
      <3> QED BY <3>1, <3>2, <3>4
    <2>3. EnvInv' /\ MainInv' /\ CacheInv' /\ CoreInv'
      BY SameEnv, SameMain, SameCache, SameCore DEF mainVars, procVars, cacheVars, coreVars
    <2> QED BY <2>1, <2>2, <2>3
  <1>26. ASSUME NEW a \in Accounts, HPack(a) PROVE IInv'
    <2> USE <1>26 DEF HPack, At, HandlerFrame, Goto, Forget
    <2>1. MainInv'
      BY DEF MainInv, procVars
    <2>2. HandlerInv'
      <3>1. CASE Forget(a)
        BY <3>1, SolutionsUpdate, CommandsUpdate DEF HandlerInv, SolutionsTyped, CommandsTyped
      <3>2. CASE Goto(a, "sign") /\ UNCHANGED <<hsol, hcmd, signed>>
        BY <3>2 DEF HandlerInv, SolutionsTyped, CommandsTyped
      <3>3. CASE UNCHANGED <<hpc, hsol, hcmd, signed>>
        BY <3>3 DEF HandlerInv, SolutionsTyped, CommandsTyped
      <3> QED BY <3>1, <3>2, <3>3
    <2>3. KeyInv' /\ OnceInv' /\ PrimaryInv'
      BY DEF KeyInv, OnceInv, PrimaryInv, Submitting, Key, SignedWithLiveKey, SubmittedOnce,
             OnlyPrimarySubmits, HandlerInv, SolutionsTyped, procVars
    <2>4. EnvInv' /\ CacheInv' /\ CoreInv'
      BY SameEnv, SameCache, SameCore DEF procVars, cacheVars, coreVars
    <2> QED BY <2>1, <2>2, <2>3, <2>4
  <1>27. ASSUME NEW a \in Accounts, HSign(a) PROVE IInv'
    <2> USE <1>27 DEF HSign, At, HandlerFrame, Goto, Forget
    <2>1. HandlerInv'
      <3>1. CASE Forget(a)
        BY <3>1, SolutionsUpdate, CommandsUpdate DEF HandlerInv, SolutionsTyped, CommandsTyped
      <3>2. CASE /\ Goto(a, "broadcast") /\ UNCHANGED <<hsol, hcmd>>
                 /\ signed' = [signed EXCEPT ![a] = IF wiped THEN "wiped" ELSE "live"]
        BY <3>2 DEF HandlerInv, SolutionsTyped, CommandsTyped
      <3> QED BY <3>1, <3>2
    <2>2. KeyInv' /\ OnceInv' /\ PrimaryInv'
      <3>1. KeyInv'
        BY DEF KeyInv, SignedWithLiveKey, HandlerInv, procVars
      <3>2. OnceInv'
        BY DEF OnceInv, Submitting, Key, SubmittedOnce, HandlerInv, SolutionsTyped
      <3>3. PrimaryInv'
        BY DEF PrimaryInv, Submitting, OnlyPrimarySubmits, HandlerInv
      <3> QED BY <3>1, <3>2, <3>3
    <2>3. EnvInv' /\ MainInv' /\ CacheInv' /\ CoreInv'
      BY SameEnv, SameMain, SameCache, SameCore DEF mainVars, procVars, cacheVars, coreVars
    <2> QED BY <2>1, <2>2, <2>3
  <1>28. ASSUME NEW a \in Accounts, HBroadcast(a) PROVE IInv'
    <2> USE <1>28 DEF HBroadcast, At, HandlerFrame, Goto, RpcOk
    <2>1. HandlerInv'
      <3>1. CASE UNCHANGED sent /\ Forget(a)
        BY <3>1, SolutionsUpdate, CommandsUpdate
           DEF Forget, HandlerInv, SolutionsTyped, CommandsTyped
      <3>2. CASE /\ sent' = Append(sent, [acc |-> a, sol |-> hsol[a], arg |-> 0, key |-> signed[a]])
                 /\ Goto(a, "restart") /\ UNCHANGED <<hsol, hcmd, signed>>
        <4>1. hsol[a] \in SolutionsOf(Accounts) /\ signed[a] \in {"live", "wiped"}
          BY OwnIsCommon DEF HandlerInv
        <4>2. [acc |-> a, sol |-> hsol[a], arg |-> 0, key |-> signed[a]] \in Transactions
          BY <4>1 DEF Transactions
        <4>3. sent' \in Seq(Transactions)
          BY <3>2, <4>2 DEF HandlerInv
        <4> QED BY <3>2, <4>3 DEF HandlerInv, SolutionsTyped, CommandsTyped
      <3> QED BY <3>1, <3>2
    <2>2. KeyInv' /\ OnceInv' /\ PrimaryInv'
      <3>1. CASE UNCHANGED sent /\ Forget(a)
        BY <3>1 DEF Forget, KeyInv, OnceInv, PrimaryInv, Submitting, Key, SignedWithLiveKey,
                    SubmittedOnce, OnlyPrimarySubmits, HandlerInv, SolutionsTyped, procVars
      <3>2. CASE /\ ~ctxDone
                 /\ sent' = Append(sent, [acc |-> a, sol |-> hsol[a], arg |-> 0, key |-> signed[a]])
                 /\ Goto(a, "restart") /\ UNCHANGED <<hsol, hcmd, signed>>
        <4> DEFINE tx == [acc |-> a, sol |-> hsol[a], arg |-> 0, key |-> signed[a]]
        <4>1. \A k \in DOMAIN sent' : \/ k \in DOMAIN sent /\ sent'[k] = sent[k]
                                      \/ k = Len(sent) + 1 /\ sent'[k] = tx
          BY <3>2 DEF HandlerInv
        <4>2. /\ Submitting(a) /\ signed[a] = "live"
              /\ tx.acc = a /\ <<tx.acc, tx.sol.nonce>> = Key(a) /\ tx.key = "live"
          BY <3>2 DEF Submitting, KeyInv, EnvInv, Key
        <4> HIDE DEF tx
        <4>3. KeyInv'
          <5>1. SignedWithLiveKey'
            BY <4>1, <4>2 DEF KeyInv, SignedWithLiveKey
          <5> QED BY <3>2, <5>1 DEF KeyInv, HandlerInv, procVars
        <4>4. OnceInv'
          <5>1. \A b \in Accounts : Submitting(b)' => Submitting(b) /\ b # a
            BY <3>2 DEF Submitting, HandlerInv
          <5>2. \A b \in Accounts : b # a => Key(b) # Key(a)
            BY DEF Key
          <5>3. \A b \in Accounts : Submitting(b)' =>
                  /\ Key(b) \in submitted
                  /\ \A k \in DOMAIN sent' : <<sent'[k].acc, sent'[k].sol.nonce>> # Key(b)
            BY <4>1, <4>2, <5>1, <5>2 DEF OnceInv
          <5>4. \A k \in DOMAIN sent' : <<sent'[k].acc, sent'[k].sol.nonce>> \in submitted
            BY <4>1, <4>2 DEF OnceInv
          <5>5. \A k \in DOMAIN sent : <<sent[k].acc, sent[k].sol.nonce>> # <<tx.acc, tx.sol.nonce>>
            BY <4>2 DEF OnceInv
          <5>6. SubmittedOnce'
            <6> SUFFICES ASSUME NEW k \in DOMAIN sent', NEW l \in DOMAIN sent',
                                sent'[k].acc = sent'[l].acc, sent'[k].sol.nonce = sent'[l].sol.nonce
                         PROVE  k = l
              BY DEF SubmittedOnce
            <6>1. CASE k \in DOMAIN sent /\ sent'[k] = sent[k] /\ l \in DOMAIN sent /\ sent'[l] = sent[l]
              BY <6>1 DEF OnceInv, SubmittedOnce
            <6> QED BY <4>1, <5>5, <6>1
          <5>7. submitted' = submitted /\ \A b \in Accounts : Key(b)' = Key(b)
            BY <3>2 DEF Key
          <5> QED BY <5>3, <5>4, <5>6, <5>7 DEF OnceInv
        <4>5. PrimaryInv'
          <5>1. OnlyPrimarySubmits'
            BY <4>1, <4>2 DEF PrimaryInv, OnlyPrimarySubmits
          <5> QED BY <3>2, <5>1 DEF PrimaryInv, Submitting, HandlerInv
        <4> QED BY <4>3, <4>4, <4>5
      <3> QED BY <3>1, <3>2
    <2>3. EnvInv' /\ MainInv' /\ CacheInv' /\ CoreInv'
      BY SameEnv, SameMain, SameCache, SameCore DEF mainVars, procVars, cacheVars, coreVars
    <2> QED BY <2>1, <2>2, <2>3
  <1>29. ASSUME NEW a \in Accounts, HRestartFetch(a) PROVE IInv'
    <2> USE <1>29 DEF HRestartFetch, At, HandlerFrame, Goto
    <2>1. HandlerInv'
      <3>1. CASE Forget(a)
        BY <3>1, SolutionsUpdate, CommandsUpdate
           DEF Forget, HandlerInv, SolutionsTyped, CommandsTyped
      <3>2. CASE /\ \E v \in Views, m \in ResolvedModes(FALSE) :
                       hcmd' = [hcmd EXCEPT ![a] = StartCmd(Challenge(a, v.epoch), difficulty, m)]
                 /\ Goto(a, "send") /\ UNCHANGED <<hsol, signed>>
        <4>1. PICK c \in CommandsOf({a}) : hcmd' = [hcmd EXCEPT ![a] = c]
          BY <3>2, ViewType, ModeType, CommandType DEF CacheInv
        <4>2. CommandsTyped(hcmd')
          BY <4>1, CommandsUpdate DEF HandlerInv
        <4> QED BY <3>2, <4>1, <4>2 DEF HandlerInv, SolutionsTyped, CommandsTyped
      <3> QED BY <3>1, <3>2
    <2>2. KeyInv' /\ OnceInv' /\ PrimaryInv'
      <3>1. \A b \in Accounts : hpc'[b] = hpc[b] \/ hpc'[b] \in {"recv", "send"}
        BY DEF Forget, HandlerInv
      <3>2. \A b \in Accounts : Submitting(b)' => b # a /\ hsol'[b] = hsol[b] /\ signed'[b] = signed[b]
        BY DEF Forget, Submitting, HandlerInv, SolutionsTyped
      <3> QED
        BY <3>1, <3>2 DEF KeyInv, OnceInv, PrimaryInv, Submitting, Key, SignedWithLiveKey,
                          SubmittedOnce, OnlyPrimarySubmits, procVars
    <2>3. EnvInv' /\ MainInv' /\ CacheInv' /\ CoreInv'
      BY SameEnv, SameMain, SameCache, SameCore DEF mainVars, procVars, cacheVars, coreVars
    <2> QED BY <2>1, <2>2, <2>3
  <1>30. ASSUME NEW a \in Accounts, HSend(a) PROVE IInv'
    <2> USE <1>30 DEF HSend, At, HandlerFrame, Goto, Forget
    <2>1. HandlerInv'
      BY SolutionsUpdate, CommandsUpdate DEF HandlerInv, SolutionsTyped, CommandsTyped
    <2>2. CoreInv'
      <3>1. CASE CanSend(a) /\ stdin' = [stdin EXCEPT ![a] = Append(@, hcmd[a])]
        BY <3>1, SendType DEF HandlerInv
      <3>2. CASE UNCHANGED stdin
        BY <3>2, SameCore DEF coreVars
      <3> QED BY <3>1, <3>2
    <2>3. KeyInv' /\ OnceInv' /\ PrimaryInv'
      BY DEF KeyInv, OnceInv, PrimaryInv, Submitting, Key, SignedWithLiveKey, SubmittedOnce,
             OnlyPrimarySubmits, HandlerInv, SolutionsTyped, procVars
    <2>4. EnvInv' /\ MainInv' /\ CacheInv'
      BY SameEnv, SameMain, SameCache DEF mainVars, procVars, cacheVars
    <2> QED BY <2>1, <2>2, <2>3, <2>4
  <1>31. ASSUME NEW a \in Accounts, CoreBoot(a) PROVE IInv'
    <2> USE <1>31 DEF CoreBoot, CoreFrame, Write
    <2>1. CoreInv'
      <3>1. events[a] \in Seq(EventsOf({a})) /\ Len(events[a]) <= EventCap
        BY DEF CoreInv, EventsTyped
      <3>2. Emit(events[a], Note("ready")) \in Seq(EventsOf({a})) /\ Len(Emit(events[a], Note("ready"))) <= EventCap
        BY <3>1, NoteType, EmitType
      <3> QED BY <3>2, EventsUpdate DEF CoreInv, StdinTyped, JobsTyped
    <2>2. EnvInv' /\ MainInv' /\ CacheInv' /\ HandlerInv' /\ KeyInv' /\ OnceInv' /\ PrimaryInv'
      BY SameEnv, SameMain, SameCache, SameHandler, SameSubmit DEF mainVars, procVars, cacheVars, handlerVars
    <2> QED BY <2>1, <2>2
  <1>32. ASSUME NEW a \in Accounts, CoreTake(a) PROVE IInv'
    <2> USE <1>32 DEF CoreTake, CoreFrame, Write
    <2>1. CoreInv'
      <3> DEFINE c == Head(stdin[a])
                 m == IF c.cmd = "retarget" THEN "cpu" ELSE c.mode
                 stopped == IF job[a] = None THEN events[a] ELSE Emit(events[a], Note("info"))
                 failed == Emit(stopped, Note("info"))
                 next == [ch |-> c.ch, diff |-> c.diff, mode |-> m]
      <3>1. stdin[a] \in Seq(CommandsOf({a})) /\ Len(stdin[a]) <= StdinCap
        BY DEF CoreInv, StdinTyped
      <3>2. /\ c \in CommandsOf({a}) /\ Tail(stdin[a]) \in Seq(CommandsOf({a}))
            /\ Len(Tail(stdin[a])) <= StdinCap
        BY <3>1, TailType, CapAssumption
      <3>3. next \in JobsOf({a})
        BY <3>2 DEF CommandsOf, JobsOf, Modes
      <3>4. events[a] \in Seq(EventsOf({a})) /\ Len(events[a]) <= EventCap
        BY DEF CoreInv, EventsTyped
      <3>5. stopped \in Seq(EventsOf({a})) /\ Len(stopped) <= EventCap
        BY <3>4, NoteType, EmitType
      <3>6. failed \in Seq(EventsOf({a})) /\ Len(failed) <= EventCap
        BY <3>5, NoteType, EmitType
      <3>7. StdinTyped(stdin')
        BY <3>2, StdinUpdate DEF CoreInv
      <3>8. \/ events' = [events EXCEPT ![a] = failed] /\ job' = [job EXCEPT ![a] = None]
            \/ events' = [events EXCEPT ![a] = stopped] /\ job' = [job EXCEPT ![a] = next]
        OBVIOUS
      <3>9. EventsTyped(events')
        BY <3>5, <3>6, <3>8, EventsUpdate DEF CoreInv
      <3>10. JobsTyped(job')
        BY <3>3, <3>8, JobsUpdate DEF CoreInv
      <3> QED BY <3>7, <3>9, <3>10 DEF CoreInv
    <2>2. EnvInv' /\ MainInv' /\ CacheInv' /\ HandlerInv' /\ KeyInv' /\ OnceInv' /\ PrimaryInv'
      BY SameEnv, SameMain, SameCache, SameHandler, SameSubmit DEF mainVars, procVars, cacheVars, handlerVars
    <2> QED BY <2>1, <2>2
  <1>33. ASSUME NEW a \in Accounts, CoreProgress(a) PROVE IInv'
    <2> USE <1>33 DEF CoreProgress, CoreFrame, Write
    <2>1. CoreInv'
      <3>1. events[a] \in Seq(EventsOf({a})) /\ Len(events[a]) <= EventCap
        BY DEF CoreInv, EventsTyped
      <3>2. Emit(events[a], Note("progress")) \in Seq(EventsOf({a})) /\ Len(Emit(events[a], Note("progress"))) <= EventCap
        BY <3>1, NoteType, EmitType
      <3> QED BY <3>2, EventsUpdate DEF CoreInv, StdinTyped, JobsTyped
    <2>2. EnvInv' /\ MainInv' /\ CacheInv' /\ HandlerInv' /\ KeyInv' /\ OnceInv' /\ PrimaryInv'
      BY SameEnv, SameMain, SameCache, SameHandler, SameSubmit DEF mainVars, procVars, cacheVars, handlerVars
    <2> QED BY <2>1, <2>2
  <1>34. ASSUME NEW a \in Accounts, CoreFind(a) PROVE IInv'
    <2> USE <1>34 DEF CoreFind, CoreFrame, Write
    <2>1. CoreInv'
      <3>1. events[a] \in Seq(EventsOf({a})) /\ Len(events[a]) <= EventCap
        BY DEF CoreInv, EventsTyped
      <3>2. PICK n \in Nonces, h \in Hashes :
              events' = [events EXCEPT ![a] = Emit(@, Found([nonce |-> n, ch |-> job[a].ch, hash |-> h]))]
        OBVIOUS
      <3>3. job[a].ch \in ChallengesOf({a})
        BY DEF CoreInv, JobsTyped, JobsOf
      <3>4. Found([nonce |-> n, ch |-> job[a].ch, hash |-> h]) \in EventsOf({a})
        BY <3>3 DEF Found, EventsOf, SolutionsOf
      <3>5. EventsTyped(events')
        BY <3>1, <3>2, <3>4, EmitType, EventsUpdate DEF CoreInv
      <3>6. JobsTyped(job')
        BY JobsUpdate DEF CoreInv
      <3> QED BY <3>5, <3>6 DEF CoreInv, StdinTyped
    <2>2. EnvInv' /\ MainInv' /\ CacheInv' /\ HandlerInv' /\ KeyInv' /\ OnceInv' /\ PrimaryInv'
      BY SameEnv, SameMain, SameCache, SameHandler, SameSubmit DEF mainVars, procVars, cacheVars, handlerVars
    <2> QED BY <2>1, <2>2
  <1>35. ASSUME NEW a \in Accounts, CoreGpuFail(a) PROVE IInv'
    <2> USE <1>35 DEF CoreGpuFail, CoreFrame, Write
    <2>1. CoreInv'
      <3>1. events[a] \in Seq(EventsOf({a})) /\ Len(events[a]) <= EventCap
        BY DEF CoreInv, EventsTyped
      <3>2. Emit(events[a], Note("info")) \in Seq(EventsOf({a})) /\ Len(Emit(events[a], Note("info"))) <= EventCap
        BY <3>1, NoteType, EmitType
      <3>3. JobsTyped(job')
        BY JobsUpdate DEF CoreInv
      <3> QED BY <3>2, <3>3, EventsUpdate DEF CoreInv, StdinTyped
    <2>2. EnvInv' /\ MainInv' /\ CacheInv' /\ HandlerInv' /\ KeyInv' /\ OnceInv' /\ PrimaryInv'
      BY SameEnv, SameMain, SameCache, SameHandler, SameSubmit DEF mainVars, procVars, cacheVars, handlerVars
    <2> QED BY <2>1, <2>2
  <1>36. ASSUME NEW a \in Accounts, CoreDie(a) PROVE IInv'
    <2> USE <1>36 DEF CoreDie, CoreFrame
    <2>1. CoreInv'
      BY DeadType
    <2>2. EnvInv' /\ MainInv' /\ CacheInv' /\ HandlerInv' /\ KeyInv' /\ OnceInv' /\ PrimaryInv'
      BY SameEnv, SameMain, SameCache, SameHandler, SameSubmit DEF mainVars, procVars, cacheVars, handlerVars
    <2> QED BY <2>1, <2>2
  <1>37. ASSUME NEW a \in Accounts, KillByCtx(a) PROVE IInv'
    <2> USE <1>37 DEF KillByCtx, CoreFrame
    <2>1. CoreInv'
      BY DeadType
    <2>2. EnvInv' /\ MainInv' /\ CacheInv' /\ HandlerInv' /\ KeyInv' /\ OnceInv' /\ PrimaryInv'
      BY SameEnv, SameMain, SameCache, SameHandler, SameSubmit DEF mainVars, procVars, cacheVars, handlerVars
    <2> QED BY <2>1, <2>2
  <1>38. ASSUME NEW a \in Accounts, CoreEof(a) PROVE IInv'
    <2> USE <1>38 DEF CoreEof, CoreFrame
    <2>1. CoreInv'
      BY DeadType
    <2>2. EnvInv' /\ MainInv' /\ CacheInv' /\ HandlerInv' /\ KeyInv' /\ OnceInv' /\ PrimaryInv'
      BY SameEnv, SameMain, SameCache, SameHandler, SameSubmit DEF mainVars, procVars, cacheVars, handlerVars
    <2> QED BY <2>1, <2>2
  <1>39. CASE UNCHANGED vars
    BY <1>39, SameEnv, SameMain, SameCache, SameHandler, SameCore, SameSubmit DEF vars, procVars
  <1> QED
    BY <1>1, <1>2, <1>3, <1>4, <1>5, <1>6, <1>7, <1>8, <1>9, <1>10, <1>11, <1>12,
       <1>13, <1>14, <1>15, <1>16, <1>17, <1>18, <1>19, <1>20, <1>21, <1>22, <1>23,
       <1>24, <1>25, <1>26, <1>27, <1>28, <1>29, <1>30, <1>31, <1>32, <1>33, <1>34,
       <1>35, <1>36, <1>37, <1>38, <1>39
    DEF Next, MainStep, HandlerStep, CoreStep, Terminated

\* The invariant holds of every behaviour.
THEOREM Invariance == Spec => []IInv
  <1>1. Init => IInv
    BY InitInv
  <1>2. IInv /\ [Next]_vars => IInv'
    BY NextInv
  <1> QED BY <1>1, <1>2, PTL DEF Spec

-----------------------------------------------------------------------------
(* What follows from it. *)

\* Every variable of the orchestrator has its type, and no channel or pipe holds more than
\* its capacity.
THEOREM TypeCorrect == Spec => []TypeOK
  <1>1. IInv => TypeOK
    BY DEF IInv, EnvInv, MainInv, CacheInv, HandlerInv, CoreInv, SolutionsTyped, CommandsTyped,
           EventsTyped, StdinTyped, JobsTyped, TypeOK
  <1> QED BY <1>1, Invariance, PTL

\* Whatever is queued for, ground by, found by or restarted on a worker is for its account.
THEOREM WorkStaysWithItsAccount == Spec => []OwnChallenge
  <1>1. IInv => OwnChallenge
    <2> SUFFICES ASSUME IInv, NEW a \in Accounts
                 PROVE  /\ \A k \in DOMAIN stdin[a] : stdin[a][k].ch.acc = a
                        /\ job[a] # None => job[a].ch.acc = a
                        /\ \A k \in DOMAIN events[a] :
                             events[a][k].ev = "found" => events[a][k].sol.ch.acc = a
                        /\ hsol[a] # None => hsol[a].ch.acc = a
                        /\ hcmd[a] # None => hcmd[a].ch.acc = a
      BY DEF OwnChallenge
    <2>1. \A c \in CommandsOf({a}) : c.ch.acc = a
      BY DEF CommandsOf, ChallengesOf
    <2>2. \A s \in SolutionsOf({a}) : s.ch.acc = a
      BY DEF SolutionsOf, ChallengesOf
    <2>3. \A j \in JobsOf({a}) : j.ch.acc = a
      BY DEF JobsOf, ChallengesOf
    <2>4. \A e \in EventsOf({a}) : e.ev = "found" => e.sol.ch.acc = a
      BY <2>2 DEF EventsOf
    <2>5. \A k \in DOMAIN stdin[a] : stdin[a][k] \in CommandsOf({a})
      BY SeqElement DEF IInv, CoreInv, StdinTyped
    <2>6. \A k \in DOMAIN events[a] : events[a][k] \in EventsOf({a})
      BY SeqElement DEF IInv, CoreInv, EventsTyped
    <2> QED
      BY <2>1, <2>2, <2>3, <2>4, <2>5, <2>6
         DEF IInv, CoreInv, JobsTyped, HandlerInv, SolutionsTyped, CommandsTyped
  <1> QED BY <1>1, Invariance, PTL

\* With verify_before_submit, no account but the primary one ever sends a transaction.
THEOREM OnlyThePrimarySubmits == Spec => []OnlyPrimarySubmits
  <1>1. IInv => OnlyPrimarySubmits
    BY DEF IInv, PrimaryInv
  <1> QED BY <1>1, Invariance, PTL

\* No account submits the same nonce twice, however often it is found.
THEOREM NoncesAreSubmittedOnce == Spec => []SubmittedOnce
  <1>1. IInv => SubmittedOnce
    BY DEF IInv, OnceInv
  <1> QED BY <1>1, Invariance, PTL

\* No transaction that was signed with a wiped key is sent.
THEOREM NothingIsSentWithAWipedKey == Spec => []SignedWithLiveKey
  <1>1. IInv => SignedWithLiveKey
    BY DEF IInv, KeyInv
  <1> QED BY <1>1, Invariance, PTL

-----------------------------------------------------------------------------
(***************************************************************************)
(* The epochs of the jobs, for any number of accounts, of blocks and of    *)
(* epochs, and with cores that may die at any time: what keeps a worker    *)
(* behind its orchestrator is a lagging or failing RPC or a restart after  *)
(* a find, and nothing else.                                               *)
(*                                                                         *)
(* Between two passes of the main loop the bound on the jobs moves from    *)
(* the epoch that was handled to the epoch that was polled, one worker     *)
(* after the other, as the loop index passes them.                         *)
(***************************************************************************)

\* The RPC endpoints answer, and with the state of the last block.
Steady == MaxLag = 0 /\ ~RpcFails

\* The epoch of the last block.
Tip == chain[Len(chain)].epoch

\* No solution of a was accepted: its handler has restarted nothing.
Untouched(a) == \A k \in submitted : k[1] # a

\* What worker a was last told is of epoch e or later.
AtLeast(a, e) ==
  Untouched(a) =>
    /\ stdin[a] # <<>> => stdin[a][Len(stdin[a])].ch.epoch >= e
    /\ stdin[a] = <<>> /\ job[a] # None => job[a].ch.epoch >= e

\* Workers without a process have no work; accounts without a slot have no process; a
\* handler that is past the check has recorded a key.
PlaceInv ==
  /\ \A a \in Accounts : core[a] \in {"none", "dead"} => stdin[a] = <<>> /\ job[a] = None
  /\ \A a \in Accounts : a > workers => core[a] \in {"none", "dead"}
  /\ \A a \in Accounts : a <= workers => core[a] # "none"
  /\ \A a \in Accounts : core[a] = "none" => hpc[a] = "none"
  /\ \A a \in Accounts :
       hpc[a] \in {"pack", "sign", "broadcast", "restart", "send"} => ~Untouched(a)
  /\ pc \in {"init", "init2", "resolve"} => workers = 0
  /\ pc = "start" => workers = cur - 1
  /\ pc \in {"await", "job", "jobsend"} => workers = cur
  /\ pc = "rsend" => cur <= workers

\* The bound on the jobs at each place of the main goroutine.
LevelInv ==
  /\ epoch <= Tip
  /\ pc \in {"start", "await", "job", "jobsend"} => \A a \in Accounts : AtLeast(a, epoch)
  /\ pc \in {"loop", "poll", "poll2"} => \A a \in Accounts : AtLeast(a, lastEpoch)
  /\ pc \in {"retarget", "rsend"} => \A a \in Accounts : a < cur => AtLeast(a, epoch)
  /\ pc \in {"jobsend", "rsend"} => mcmd.ch.epoch >= epoch

EpochInv == PlaceInv /\ LevelInv

-----------------------------------------------------------------------------
\* With steady endpoints there is one answer, and it is the last block's.
LEMMA OneView ==
  ASSUME Steady, EnvInv
  PROVE  Views = {chain[Len(chain)]} /\ Tip \in Nat
  <1>1. Len(chain) \in Nat /\ Len(chain) > 0 /\ DOMAIN chain = 1..Len(chain)
    BY DEF EnvInv
  <1>2. \A n \in DOMAIN chain : n + MaxLag >= Len(chain) <=> n = Len(chain)
    BY <1>1 DEF Steady
  <1>3. {n \in DOMAIN chain : n + MaxLag >= Len(chain)} = {Len(chain)}
    BY <1>1, <1>2
  <1>4. chain[Len(chain)] \in [epoch : Nat, diff : Difficulties]
    BY SeqLast DEF EnvInv
  <1> QED BY <1>3, <1>4 DEF Views, Tip

\* The last command of a pipe is one of the account's.
LEMMA LastCommand ==
  ASSUME CoreInv, NEW a \in Accounts
  PROVE  /\ stdin[a] # <<>> => stdin[a][Len(stdin[a])] \in CommandsOf({a})
         /\ \A c \in CommandsOf({a}) : c.ch.epoch \in Nat
         /\ job[a] # None => job[a].ch.epoch \in Nat
  <1>1. stdin[a] \in Seq(CommandsOf({a})) /\ job[a] \in JobsOf({a}) \cup {None}
    BY DEF CoreInv, StdinTyped, JobsTyped
  <1>2. stdin[a] # <<>> => stdin[a][Len(stdin[a])] \in CommandsOf({a})
    BY <1>1, SeqLast
  <1>3. \A c \in CommandsOf({a}) : c.ch.epoch \in Nat
    BY DEF CommandsOf, ChallengesOf
  <1>4. \A j \in JobsOf({a}) : j.ch.epoch \in Nat
    BY DEF JobsOf, ChallengesOf
  <1> QED BY <1>1, <1>2, <1>3, <1>4

\* Work that is left alone stays at its epoch; an accepted solution only takes an account out.
LEMMA SameLevel ==
  ASSUME NEW a \in Accounts, NEW e,
         stdin'[a] = stdin[a], job'[a] = job[a], submitted \subseteq submitted', AtLeast(a, e)
  PROVE  AtLeast(a, e)'
  BY DEF AtLeast, Untouched

\* Taking the head of a sequence leaves its last element, unless they are the same.
LEMMA TailLast ==
  ASSUME NEW S, NEW q \in Seq(S), q # <<>>, Len(q) # 1
  PROVE  Tail(q) # <<>> /\ Tail(q)[Len(Tail(q))] = q[Len(q)]
  <1> DEFINE n == Len(q)
             m == Len(Tail(q))
  <1>1. n \in Nat \ {0} /\ (Tail(q) = <<>> => m = 0)
    BY EmptySeq
  <1>2. m = n - 1 /\ \A i \in 1..(n - 1) : Tail(q)[i] = q[i + 1]
    BY HeadTailProperties
  <1>3. n # 1
    OBVIOUS
  <1> HIDE DEF n, m
  <1>4. m # 0 /\ m \in 1..(n - 1) /\ m + 1 = n
    BY <1>1, <1>2, <1>3
  <1>5. Tail(q)[m] = q[n]
    BY <1>2, <1>4
  <1> QED BY <1>1, <1>4, <1>5 DEF m, n

\* So does the work of a worker that takes its next command, finds, fails or dies.
LEMMA TakeLevel ==
  ASSUME CoreInv, NEW a \in Accounts, NEW e, CoreTake(a), AtLeast(a, e)
  PROVE  AtLeast(a, e)'
  <1> SUFFICES ASSUME Untouched(a)'
               PROVE  /\ stdin'[a] # <<>> => stdin'[a][Len(stdin'[a])].ch.epoch >= e
                      /\ stdin'[a] = <<>> /\ job'[a] # None => job'[a].ch.epoch >= e
    BY DEF AtLeast
  <1> DEFINE q == stdin[a]
  <1>1. /\ q \in Seq(CommandsOf({a})) /\ q # <<>> /\ stdin'[a] = Tail(q)
        /\ submitted' = submitted
        /\ job'[a] = None \/ job'[a].ch = Head(q).ch
    BY DEF CoreTake, CoreFrame, handlerVars, CoreInv, StdinTyped, JobsTyped
  <1>2. q[Len(q)].ch.epoch >= e
    BY <1>1 DEF AtLeast, Untouched
  <1> HIDE DEF q
  <1>3. CASE Len(q) = 1
    <2>1. Tail(q) = <<>> /\ Head(q) = q[Len(q)]
      BY <1>1, <1>3
    <2> QED BY <1>1, <1>2, <2>1
  <1>4. CASE Len(q) # 1
    <2>1. Tail(q) # <<>> /\ Tail(q)[Len(Tail(q))] = q[Len(q)]
      BY <1>1, <1>4, TailLast
    <2>2. stdin'[a] # <<>> /\ stdin'[a][Len(stdin'[a])] = q[Len(q)]
      BY <1>1, <2>1
    <2>3. stdin'[a][Len(stdin'[a])].ch.epoch >= e
      BY <1>2, <2>2
    <2> QED BY <2>2, <2>3
  <1> QED BY <1>3, <1>4

\* A worker that loses its job is no further behind.
LEMMA StopLevel ==
  ASSUME NEW a \in Accounts, NEW e, AtLeast(a, e), submitted' = submitted,
         \/ stdin'[a] = stdin[a] /\ job'[a] = None
         \/ stdin'[a] = <<>> /\ job'[a] = None
  PROVE  AtLeast(a, e)'
  BY DEF AtLeast, Untouched

\* A command that was just written is the last thing the worker was told.
LEMMA SendLevel ==
  ASSUME CoreInv, NEW a \in Accounts, NEW e, NEW c \in CommandsOf({a}), c.ch.epoch >= e,
         stdin' = [stdin EXCEPT ![a] = Append(@, c)]
  PROVE  AtLeast(a, e)'
  <1>1. stdin[a] \in Seq(CommandsOf({a})) /\ stdin'[a] = Append(stdin[a], c)
    BY DEF CoreInv, StdinTyped
  <1>2. stdin'[a] # <<>> /\ stdin'[a][Len(stdin'[a])] = c
    BY <1>1
  <1> QED BY <1>2 DEF AtLeast

\* A step away from the main goroutine keeps the bounds if it lowers no worker's epoch.
LEMMA SameMainLevel ==
  ASSUME LevelInv, UNCHANGED <<cur, lastEpoch, mcmd, epoch, chain>>,
         pc' = pc \/ pc' = "panicked",
         \A a \in Accounts, e \in Nat : AtLeast(a, e) => AtLeast(a, e)',
         epoch \in Nat, lastEpoch \in Nat
  PROVE  LevelInv'
  <1>1. UNCHANGED Tip
    BY DEF Tip
  <1>2. \A a \in Accounts : /\ AtLeast(a, epoch) => AtLeast(a, epoch)'
                            /\ AtLeast(a, lastEpoch) => AtLeast(a, lastEpoch)'
    OBVIOUS
  <1> QED BY <1>1, <1>2 DEF LevelInv

-----------------------------------------------------------------------------
\* Before the first poll nothing runs.
LEMMA InitEpoch == Init => EpochInv
  <1> SUFFICES ASSUME Init PROVE EpochInv
    OBVIOUS
  <1>1. Tip = 0 /\ epoch = 0
    <2>1. PICK d \in Difficulties : chain = <<[epoch |-> 0, diff |-> d]>>
      BY DEF Init
    <2> QED BY <2>1 DEF Init, Tip
  <1> QED BY <1>1 DEF Init, EpochInv, PlaceInv, LevelInv

\* A step of the chain, of a handler or of a core that lowers no worker's epoch.
LEMMA AsideKept ==
  ASSUME IInv, EpochInv, UNCHANGED <<cur, lastEpoch, mcmd, epoch, chain, workers>>,
         pc' = pc \/ pc' = "panicked",
         submitted \subseteq submitted',
         NEW a \in Accounts,
         \A e \in Nat : AtLeast(a, e) => AtLeast(a, e)',
         hpc'[a] \in {"pack", "sign", "broadcast", "restart", "send"} => ~Untouched(a)',
         core'[a] \in {"none", "dead"} => stdin'[a] = <<>> /\ job'[a] = None,
         core[a] \in {"none", "dead"} => core'[a] \in {"none", "dead"},
         core'[a] # "none",
         \A b \in Accounts \ {a} : UNCHANGED <<hpc[b], core[b], stdin[b], job[b]>>
  PROVE  EpochInv'
  <1>1. \A b \in Accounts, e \in Nat : AtLeast(b, e) => AtLeast(b, e)'
    <2> SUFFICES ASSUME NEW b \in Accounts, NEW e \in Nat, AtLeast(b, e), b # a
                 PROVE  AtLeast(b, e)'
      OBVIOUS
    <2>1. stdin'[b] = stdin[b] /\ job'[b] = job[b]
      OBVIOUS
    <2> QED BY <2>1, SameLevel
  <1>2. LevelInv'
    BY <1>1, SameMainLevel DEF EpochInv, IInv, MainInv, CacheInv
  <1>3. \A b \in Accounts : Untouched(b)' => Untouched(b)
    BY DEF Untouched
  <1>4. PlaceInv'
    BY <1>3 DEF EpochInv, PlaceInv
  <1> QED BY <1>2, <1>4 DEF EpochInv

\* The steps of a handler.
LEMMA HandlerKept ==
  ASSUME IInv, EpochInv, NEW a \in Accounts, HandlerStep(a)
  PROVE  EpochInv'
  <1> USE DEF HandlerFrame, chainVars, procVars, cacheVars, Forget, Goto, At
  <1>1. HandlerInv
    BY DEF IInv
  <1>2. /\ hpc \in [Accounts -> {"none", "recv", "stats", "found", "pack", "sign",
                                 "broadcast", "restart", "send", "exited"}]
        /\ hpc[a] \in {"pack", "sign", "broadcast", "restart", "send"} => ~Untouched(a)
        /\ core[a] \in {"none", "dead"} => stdin[a] = <<>> /\ job[a] = None
        /\ stdin \in [Accounts -> Seq(CommandsOf(Accounts))]
        /\ hpc[a] = "none" \/ core[a] # "none"
    BY DEF HandlerInv, IInv, CoreInv, StdinTyped, EpochInv, PlaceInv
  <1>3. UNCHANGED <<cur, lastEpoch, mcmd, epoch, chain, workers, core, job>> /\ core[a] # "none"
    BY <1>2 DEF HandlerStep, HReceive, HClosed, HStats, HReject, HAccept, HPack, HSign, HBroadcast,
           HRestartFetch, HSend
  <1>4. (pc' = pc \/ pc' = "panicked") /\ submitted \subseteq submitted'
    BY DEF HandlerStep, HReceive, HClosed, HStats, HReject, HAccept, HPack, HSign, HBroadcast,
           HRestartFetch, HSend
  <1>5. \A b \in Accounts \ {a} : UNCHANGED <<hpc[b], core[b], stdin[b], job[b]>>
    BY <1>2 DEF HandlerStep, HReceive, HClosed, HStats, HReject, HAccept, HPack, HSign,
                HBroadcast, HRestartFetch, HSend
  <1>6. CASE HAccept(a)
    <2>1. ~Untouched(a)'
      BY <1>6 DEF HAccept, Key, Untouched
    <2>2. \A e \in Nat : AtLeast(a, e)'
      BY <2>1 DEF AtLeast
    <2>3. stdin' = stdin
      BY <1>6 DEF HAccept
    <2> QED BY <1>2, <1>3, <1>4, <1>5, <2>1, <2>2, <2>3, AsideKept
  <1>7. CASE HSend(a)
    <2>1. ~Untouched(a)'
      BY <1>2, <1>7 DEF HSend, Untouched
    <2>2. \A e \in Nat : AtLeast(a, e)'
      BY <2>1 DEF AtLeast
    <2>3. core[a] \in {"none", "dead"} => stdin'[a] = <<>> /\ job'[a] = None
      BY <1>2, <1>3, <1>7 DEF HSend, CanSend, SendFails
    <2> QED BY <1>2, <1>3, <1>4, <1>5, <2>1, <2>2, <2>3, AsideKept
  <1>8. CASE HandlerStep(a) /\ ~HAccept(a) /\ ~HSend(a)
    <2>1. stdin' = stdin /\ submitted' = submitted
      BY <1>8 DEF HandlerStep, HReceive, HClosed, HStats, HReject, HPack, HSign, HBroadcast,
                  HRestartFetch
    <2>2. hpc'[a] \in {"pack", "sign", "broadcast", "restart", "send"} =>
            hpc[a] \in {"pack", "sign", "broadcast", "restart", "send"}
      BY <1>2, <1>8 DEF HandlerStep, HReceive, HClosed, HStats, HReject, HPack, HSign, HBroadcast,
                        HRestartFetch
    <2>3. ~Untouched(a) => ~Untouched(a)'
      BY <2>1 DEF Untouched
    <2>4. \A e \in Nat : AtLeast(a, e) => AtLeast(a, e)'
      BY <1>3, <2>1 DEF AtLeast, Untouched
    <2> QED BY <1>2, <1>3, <1>4, <1>5, <2>1, <2>2, <2>3, <2>4, AsideKept
  <1> QED BY <1>6, <1>7, <1>8

\* The steps of a core.
LEMMA CoreKept ==
  ASSUME IInv, EpochInv, NEW a \in Accounts, CoreStep(a)
  PROVE  EpochInv'
  <1> USE DEF CoreFrame, chainVars, procVars, mainVars, cacheVars, handlerVars
  <1>1. CoreInv
    BY DEF IInv
  <1>2. /\ core \in [Accounts -> {"none", "boot", "up", "dead"}]
        /\ stdin \in [Accounts -> Seq(CommandsOf(Accounts))]
        /\ job \in [Accounts -> JobsOf(Accounts) \cup {None}]
    BY DEF IInv, CoreInv, StdinTyped, JobsTyped
  <1>3. /\ UNCHANGED <<cur, lastEpoch, mcmd, epoch, chain, workers, pc, submitted, hpc>>
        /\ core[a] \in {"boot", "up"} /\ core'[a] # "none"
    BY <1>2 DEF CoreStep, CoreBoot, CoreTake, CoreProgress, CoreFind, CoreGpuFail, CoreDie,
           KillByCtx, CoreEof, Dead
  <1>4. \A b \in Accounts \ {a} : UNCHANGED <<hpc[b], core[b], stdin[b], job[b]>>
    BY <1>2, <1>3 DEF CoreStep, CoreBoot, CoreTake, CoreProgress, CoreFind, CoreGpuFail, CoreDie,
                KillByCtx, CoreEof, Dead
  <1>5. core'[a] \in {"none", "dead"} => stdin'[a] = <<>> /\ job'[a] = None
    BY <1>2, <1>3 DEF CoreStep, CoreBoot, CoreTake, CoreProgress, CoreFind, CoreGpuFail, CoreDie,
                      KillByCtx, CoreEof, Dead
  <1>6. \A e \in Nat : AtLeast(a, e) => AtLeast(a, e)'
    <2>1. CASE CoreTake(a)
      BY <1>1, <2>1, TakeLevel
    <2>2. CASE CoreBoot(a) \/ CoreProgress(a)
      <3>1. stdin' = stdin /\ job' = job
        BY <2>2 DEF CoreBoot, CoreProgress
      <3> QED BY <1>3, <3>1, SameLevel
    <2>3. CASE CoreFind(a) \/ CoreGpuFail(a)
      <3>1. stdin'[a] = stdin[a] /\ job'[a] = None
        BY <1>2, <2>3 DEF CoreFind, CoreGpuFail
      <3> QED BY <1>3, <3>1, StopLevel
    <2>4. CASE CoreDie(a) \/ KillByCtx(a) \/ CoreEof(a)
      <3>1. stdin'[a] = <<>> /\ job'[a] = None
        BY <1>2, <2>4 DEF CoreDie, KillByCtx, CoreEof, Dead
      <3> QED BY <1>3, <3>1, StopLevel
    <2> QED BY <2>1, <2>2, <2>3, <2>4 DEF CoreStep
  <1>7. hpc'[a] \in {"pack", "sign", "broadcast", "restart", "send"} => ~Untouched(a)'
    BY <1>3 DEF EpochInv, PlaceInv, Untouched
  <1> QED BY <1>3, <1>4, <1>5, <1>6, <1>7, AsideKept

-----------------------------------------------------------------------------
(* The main goroutine. *)

\* A step that changes no pipe, no job and no core keeps every bound on every worker.
LEMMA SameWork ==
  ASSUME UNCHANGED <<stdin, job, submitted>>, NEW a \in Accounts, NEW e, AtLeast(a, e)
  PROVE  AtLeast(a, e)'
  BY SameLevel

\* A command written to worker w brings it to the command's epoch and leaves the others.
LEMMA SendKept ==
  ASSUME CoreInv, NEW w \in Accounts, NEW e \in Nat,
         NEW c \in CommandsOf({w}), c.ch.epoch >= e,
         UNCHANGED <<job, submitted>>,
         stdin' = [stdin EXCEPT ![w] = Append(@, c)]
  PROVE  AtLeast(w, e)' /\ \A b \in Accounts \ {w} : AtLeast(b, e) => AtLeast(b, e)'
  <1>1. AtLeast(w, e)'
    BY SendLevel
  <1>2. \A b \in Accounts \ {w} : AtLeast(b, e) => AtLeast(b, e)'
    BY DEF AtLeast, Untouched, CoreInv, StdinTyped
  <1> QED BY <1>1, <1>2

\* A worker without work is at any epoch.
LEMMA IdleLevel ==
  ASSUME NEW a \in Accounts, NEW e, stdin[a] = <<>>, job[a] = None
  PROVE  AtLeast(a, e)
  BY DEF AtLeast

\* The steps of the main goroutine.
LEMMA MainKept ==
  ASSUME Steady, IInv, EpochInv, MainStep
  PROVE  EpochInv'
  <1> USE DEF chainVars, procVars, cacheVars, handlerVars, coreVars
  <1>1. EnvInv /\ MainInv /\ CacheInv /\ HandlerInv /\ CoreInv /\ PlaceInv /\ LevelInv
    BY DEF IInv, EpochInv
  <1>2. Views = {chain[Len(chain)]} /\ Tip \in Nat
    BY <1>1, OneView
  <1>3. epoch \in Nat /\ lastEpoch \in Nat /\ cur \in Nat /\ workers \in Nat /\ NumAccounts \in Nat
    BY <1>1, NumAccountsAssumption DEF CacheInv, MainInv
  <1>4. chain' = chain /\ Tip' = Tip
    BY DEF MainStep, PollMiningState, PollChallenge, ResolveMode, StartWorker, StartFails,
           SpawnDone, AwaitReady, SpawnFetch, SpawnSend, LoopPoll, LoopDone, RetargetFetch,
           RetargetSend, RetargetDone, StopAllWorkers, Cancel, Wipe, Exit, Tip
  <1>5. CASE PollMiningState
    <2> USE <1>5 DEF PollMiningState
    <2>1. PlaceInv'
      BY <1>1 DEF PlaceInv, Untouched
    <2>2. epoch' <= Tip'
      BY <1>1, <1>2, <1>4 DEF LevelInv, Tip
    <2>3. \A a \in Accounts : AtLeast(a, lastEpoch) => AtLeast(a, lastEpoch)'
      BY SameWork DEF AtLeast, Untouched
    <2> QED BY <1>1, <2>1, <2>2, <2>3 DEF LevelInv, EpochInv
  <1>6. CASE PollChallenge
    <2> USE <1>6 DEF PollChallenge
    <2>1. PlaceInv'
      BY <1>1 DEF PlaceInv, Untouched
    <2>2. \A a \in Accounts : AtLeast(a, lastEpoch) => AtLeast(a, lastEpoch)'
      <3>1. pc = "init2" \/ pc' = "loop" => lastEpoch' = lastEpoch
        OBVIOUS
      <3>2. lastEpoch' = lastEpoch
        OBVIOUS
      <3> QED BY <3>2 DEF AtLeast, Untouched
    <2>3. CASE pc' = "retarget"
      <3>1. cur' = 1 /\ \A a \in Accounts : ~(a < 1)
        BY <2>3 DEF Accounts
      <3> QED BY <1>1, <1>4, <2>1, <2>3, <3>1 DEF LevelInv, EpochInv
    <2>4. CASE pc' # "retarget"
      BY <1>1, <1>4, <2>1, <2>2, <2>4 DEF LevelInv, EpochInv
    <2> QED BY <2>3, <2>4
  <1>7. CASE ResolveMode
    <2> USE <1>7 DEF ResolveMode
    <2>1. workers = 0 /\ \A a \in Accounts : a > workers
      BY <1>1, NumAccountsAssumption DEF PlaceInv, Accounts
    <2>2. PlaceInv'
      BY <1>1, <2>1 DEF PlaceInv, Untouched
    <2>3. \A a \in Accounts : AtLeast(a, epoch)'
      BY <1>1, <2>1 DEF PlaceInv, AtLeast
    <2> QED BY <1>1, <1>4, <2>2, <2>3 DEF LevelInv, EpochInv
  <1>8. CASE StartWorker
    <2> USE <1>8 DEF StartWorker
    <2>1. cur \in Accounts /\ workers = cur - 1 /\ workers' = cur
      BY <1>1, <1>3 DEF PlaceInv, MainInv, Accounts
    <2>2. /\ core'[cur] = "boot" /\ hpc'[cur] = "recv"
          /\ \A a \in Accounts \ {cur} : core'[a] = core[a] /\ hpc'[a] = hpc[a]
      BY <1>1, <2>1 DEF CoreInv, HandlerInv
    <2>3. \A a \in Accounts : /\ a > workers' => a > workers /\ a # cur
                              /\ a <= workers' => a <= workers \/ a = cur
      BY <1>3, <2>1 DEF Accounts
    <2>4. PlaceInv'
      <3>1. \A a \in Accounts :
              core'[a] \in {"none", "dead"} => stdin'[a] = <<>> /\ job'[a] = None
        BY <1>1, <2>2 DEF PlaceInv
      <3>2. \A a \in Accounts : /\ a > workers' => core'[a] \in {"none", "dead"}
                                /\ a <= workers' => core'[a] # "none"
        BY <1>1, <2>2, <2>3 DEF PlaceInv
      <3>3. \A a \in Accounts :
              /\ hpc'[a] \in {"pack", "sign", "broadcast", "restart", "send"} => ~Untouched(a)'
              /\ core'[a] = "none" => hpc'[a] = "none"
        BY <1>1, <2>2 DEF PlaceInv, Untouched
      <3> QED BY <2>1, <3>1, <3>2, <3>3 DEF PlaceInv
    <2>5. \A a \in Accounts : AtLeast(a, epoch) => AtLeast(a, epoch)'
      BY DEF AtLeast, Untouched
    <2> QED BY <1>1, <1>4, <2>4, <2>5 DEF LevelInv, EpochInv
  <1>9. CASE SpawnDone
    <2> USE <1>9 DEF SpawnDone
    <2>1. PlaceInv'
      BY <1>1 DEF PlaceInv, Untouched
    <2>2. \A a \in Accounts : AtLeast(a, epoch) => AtLeast(a, lastEpoch)'
      BY DEF AtLeast, Untouched
    <2> QED BY <1>1, <1>4, <2>1, <2>2 DEF LevelInv, EpochInv
  <1>10. CASE AwaitReady
    <2> USE <1>10 DEF AwaitReady
    <2>1. PlaceInv'
      BY <1>1 DEF PlaceInv, Untouched
    <2>2. \A a \in Accounts : AtLeast(a, epoch) => AtLeast(a, epoch)'
      BY DEF AtLeast, Untouched
    <2> QED BY <1>1, <1>4, <2>1, <2>2 DEF LevelInv, EpochInv
  <1>11. CASE SpawnFetch
    <2> USE <1>11 DEF SpawnFetch
    <2>1. PlaceInv'
      BY <1>1 DEF PlaceInv, Untouched
    <2>2. \A a \in Accounts : AtLeast(a, epoch) => AtLeast(a, epoch)'
      BY DEF AtLeast, Untouched
    <2>3. pc' = "jobsend" => mcmd'.ch.epoch >= epoch'
      BY <1>1, <1>2, <1>3 DEF LevelInv, StartCmd, Challenge, Tip
    <2> QED BY <1>1, <1>4, <2>1, <2>2, <2>3 DEF LevelInv, EpochInv
  <1>12. CASE SpawnSend
    <2> USE <1>12 DEF SpawnSend
    <2>1. cur \in Accounts /\ workers = cur /\ mcmd \in CommandsOf({cur}) /\ mcmd.ch.epoch >= epoch
          /\ core[cur] # "none"
      BY <1>1, <1>3 DEF MainInv, PlaceInv, LevelInv
    <2>2. CASE CanSend(cur)
      <3>1. /\ stdin' = [stdin EXCEPT ![cur] = Append(@, mcmd)]
            /\ pc' = "start" /\ cur' = cur + 1 /\ core[cur] \notin {"none", "dead"}
        BY <2>1, <2>2 DEF SendFails, CanSend
      <3>2. \A b \in Accounts \ {cur} : stdin'[b] = stdin[b]
        BY <1>1, <3>1 DEF CoreInv, StdinTyped
      <3>3. PlaceInv'
        BY <1>1, <1>3, <2>1, <3>1, <3>2 DEF PlaceInv, Untouched
      <3>4. \A a \in Accounts : AtLeast(a, epoch) => AtLeast(a, epoch)'
        BY <1>1, <1>3, <2>1, <3>1, SendKept
      <3> QED BY <1>1, <1>4, <3>1, <3>3, <3>4 DEF LevelInv, EpochInv
    <2>3. CASE ~CanSend(cur)
      <3>1. pc' = "cancel" /\ stdin' = stdin
        BY <2>3
      <3>2. PlaceInv'
        BY <1>1, <3>1 DEF PlaceInv, Untouched
      <3> QED BY <1>1, <1>4, <3>1, <3>2 DEF LevelInv, EpochInv
    <2> QED BY <2>2, <2>3
  <1>13. CASE LoopPoll
    <2> USE <1>13 DEF LoopPoll
    <2>1. PlaceInv'
      BY <1>1 DEF PlaceInv, Untouched
    <2>2. \A a \in Accounts : AtLeast(a, lastEpoch) => AtLeast(a, lastEpoch)'
      BY DEF AtLeast, Untouched
    <2> QED BY <1>1, <1>4, <2>1, <2>2 DEF LevelInv, EpochInv
  <1>14. CASE RetargetFetch
    <2> USE <1>14 DEF RetargetFetch
    <2>1. pc' = "rsend" /\ cur' = cur
      BY DEF Steady, RpcErr
    <2>2. PlaceInv'
      BY <1>1, <2>1 DEF PlaceInv, Untouched
    <2>3. \A a \in Accounts : AtLeast(a, epoch) => AtLeast(a, epoch)'
      BY DEF AtLeast, Untouched
    <2>4. mcmd'.ch.epoch >= epoch'
      BY <1>1, <1>2, <1>3, <2>1 DEF LevelInv, RetargetCmd, Challenge, Tip, Steady, RpcErr
    <2> QED BY <1>1, <1>4, <2>1, <2>2, <2>3, <2>4 DEF LevelInv, EpochInv
  <1>15. CASE RetargetSend
    <2> USE <1>15 DEF RetargetSend
    <2>1. cur \in Accounts /\ cur <= workers /\ mcmd \in CommandsOf({cur})
          /\ mcmd.ch.epoch >= epoch /\ core[cur] # "none"
      BY <1>1, <1>3 DEF MainInv, PlaceInv, LevelInv
    <2>2. pc' = "retarget" /\ cur' = cur + 1
      OBVIOUS
    <2> PICK w \in Accounts : w = cur
      BY <2>1
    <2>3. PlaceInv' /\ \A a \in Accounts : a < w \/ a = w => AtLeast(a, epoch)'
      <3>1. CASE CanSend(cur) /\ stdin' = [stdin EXCEPT ![cur] = Append(@, mcmd)]
        <4>1. core[cur] \notin {"none", "dead"}
          BY <2>1, <3>1 DEF CanSend
        <4>2. \A b \in Accounts \ {cur} : stdin'[b] = stdin[b]
          BY <1>1, <3>1 DEF CoreInv, StdinTyped
        <4>3. PlaceInv'
          BY <1>1, <2>2, <4>1, <4>2 DEF PlaceInv, Untouched
        <4>4. AtLeast(w, epoch)'
          BY <1>1, <1>3, <2>1, <3>1, SendKept
        <4>5. \A b \in Accounts \ {w} : AtLeast(b, epoch) => AtLeast(b, epoch)'
          BY <1>1, <1>3, <2>1, <3>1, SendKept
        <4> QED BY <1>1, <4>3, <4>4, <4>5 DEF LevelInv
      <3>2. CASE SendFails(cur) /\ UNCHANGED stdin
        <4>1. PlaceInv'
          BY <1>1, <2>2, <3>2 DEF PlaceInv, Untouched
        <4>2. AtLeast(w, epoch)
          BY <1>1, <2>1, <3>2 DEF SendFails, PlaceInv, AtLeast
        <4>3. \A a \in Accounts : AtLeast(a, epoch) => AtLeast(a, epoch)'
          BY <3>2 DEF AtLeast, Untouched
        <4> QED BY <1>1, <4>1, <4>2, <4>3 DEF LevelInv
      <3> QED BY <3>1, <3>2
    <2>4. \A a \in Accounts : a < cur' => a < w \/ a = w
      BY <1>3, <2>2 DEF Accounts
    <2> QED BY <1>1, <1>4, <2>2, <2>3, <2>4 DEF LevelInv, EpochInv
  <1>16. CASE RetargetDone
    <2> USE <1>16 DEF RetargetDone
    <2>1. PlaceInv'
      BY <1>1 DEF PlaceInv, Untouched
    <2>2. \A a \in Accounts : AtLeast(a, epoch)
      <3> SUFFICES ASSUME NEW a \in Accounts PROVE AtLeast(a, epoch)
        OBVIOUS
      <3>1. CASE a < cur
        BY <1>1, <3>1 DEF LevelInv
      <3>2. CASE ~(a < cur)
        <4>1. a > workers
          BY <1>3, <3>2 DEF Accounts
        <4> QED BY <1>1, <4>1 DEF PlaceInv, AtLeast
      <3> QED BY <3>1, <3>2
    <2>3. \A a \in Accounts : AtLeast(a, epoch) => AtLeast(a, lastEpoch)'
      BY DEF AtLeast, Untouched
    <2> QED BY <1>1, <1>4, <2>1, <2>2, <2>3 DEF LevelInv, EpochInv
  <1>17. CASE StopAllWorkers
    <2> USE <1>17 DEF StopAllWorkers
    <2>1. \A a \in Accounts : core'[a] \in {"none", "dead"} /\ stdin'[a] = <<>> /\ job'[a] = None
      BY <1>1, <1>3 DEF PlaceInv, Accounts
    <2>2. \A a \in Accounts : core'[a] = "none" => core[a] = "none"
      OBVIOUS
    <2>3. \A a \in Accounts : ~(a <= workers')
      BY DEF Accounts
    <2>4. PlaceInv'
      BY <1>1, <2>1, <2>2, <2>3 DEF PlaceInv, Untouched
    <2> QED BY <1>1, <1>4, <2>4 DEF LevelInv, EpochInv
  <1>18. CASE StartFails \/ LoopDone \/ Cancel \/ Wipe \/ Exit
    <2>1. /\ pc' \in {"cancel", "stop", "wipe", "exit", "exited"}
          /\ UNCHANGED <<core, stdin, job, hpc, submitted, workers, epoch>>
      BY <1>18 DEF StartFails, LoopDone, Cancel, Wipe, Exit
    <2>2. PlaceInv'
      BY <1>1, <2>1 DEF PlaceInv, Untouched
    <2> QED BY <1>1, <1>4, <2>1, <2>2 DEF LevelInv, EpochInv
  <1> QED
    BY <1>5, <1>6, <1>7, <1>8, <1>9, <1>10, <1>11, <1>12, <1>13, <1>14, <1>15, <1>16, <1>17, <1>18
       DEF MainStep

\* Every step keeps the bounds.
LEMMA NextEpoch ==
  ASSUME Steady, IInv, EpochInv, [Next]_vars
  PROVE  EpochInv'
  <1>1. CASE Block
    <2> USE <1>1 DEF Block
    <2>1. Tip' >= Tip /\ Tip \in Nat /\ Tip' \in Nat
      <3>1. Len(chain) \in Nat /\ Tip \in Nat
        BY OneView DEF IInv, EnvInv
      <3>2. PICK s \in [epoch : {Tip, Tip + 1} \cap 0..MaxEpoch, diff : Difficulties] :
              chain' = Append(chain, s)
        BY DEF Tip
      <3>3. Tip' = s.epoch
        BY <3>1, <3>2 DEF Tip, IInv, EnvInv
      <3> QED BY <3>1, <3>2, <3>3
    <2>2. UNCHANGED <<procVars, mainVars, cacheVars, handlerVars, coreVars>>
      OBVIOUS
    <2>3. PlaceInv'
      BY <2>2 DEF EpochInv, PlaceInv, Untouched, mainVars, handlerVars, coreVars
    <2>4. \A a \in Accounts : /\ AtLeast(a, epoch) => AtLeast(a, epoch)'
                              /\ AtLeast(a, lastEpoch) => AtLeast(a, lastEpoch)'
      BY <2>2 DEF AtLeast, Untouched, mainVars, cacheVars, handlerVars, coreVars
    <2>5. epoch' <= Tip'
      BY <2>1, <2>2 DEF EpochInv, LevelInv, cacheVars, IInv, CacheInv
    <2>6. UNCHANGED <<pc, cur, mcmd, epoch, lastEpoch>> /\ LevelInv
      BY <2>2 DEF mainVars, cacheVars, EpochInv
    <2>7. LevelInv'
      BY <2>4, <2>5, <2>6 DEF LevelInv
    <2> QED BY <2>3, <2>7 DEF EpochInv
  <1>2. CASE Signal \/ Terminated \/ UNCHANGED vars
    <2>1. UNCHANGED <<chainVars, mainVars, cacheVars, handlerVars, coreVars>>
      BY <1>2 DEF Signal, Terminated, vars
    <2>2. PlaceInv'
      BY <2>1 DEF EpochInv, PlaceInv, Untouched, mainVars, handlerVars, coreVars
    <2>3. \A a \in Accounts : /\ AtLeast(a, epoch) => AtLeast(a, epoch)'
                              /\ AtLeast(a, lastEpoch) => AtLeast(a, lastEpoch)'
      BY <2>1 DEF AtLeast, Untouched, mainVars, cacheVars, handlerVars, coreVars
    <2> QED BY <2>1, <2>2, <2>3 DEF EpochInv, LevelInv, Tip, chainVars, mainVars, cacheVars
  <1> QED BY <1>1, <1>2, HandlerKept, CoreKept, MainKept DEF Next

\* With endpoints that answer and do not lag, no worker is left behind the epoch that Run has
\* handled, whatever blocks come between the fetches and whichever cores die, except by a
\* restart after a find.
THEOREM WorkersFollowTheChain ==
  ASSUME Steady
  PROVE  Spec => []JobsAreCurrent
  <1>1. Init => IInv /\ EpochInv
    BY InitInv, InitEpoch
  <1>2. IInv /\ EpochInv /\ [Next]_vars => (IInv /\ EpochInv)'
    BY NextInv, NextEpoch
  <1>3. EpochInv => JobsAreCurrent
    BY DEF EpochInv, LevelInv, AtLeast, Untouched, JobsAreCurrent, Target
  <1> QED BY <1>1, <1>2, <1>3, PTL DEF Spec
-----------------------------------------------------------------------------
(* A shutdown waits for nobody but cores, which it kills. *)

\* A worker that has a slot has a process, and the main goroutine waits only for such a worker.
SlotInv ==
  /\ \A a \in Accounts : a <= workers => core[a] # "none"
  /\ pc = "start" => cur = workers + 1
  /\ pc \in {"await", "job", "jobsend"} => cur = workers
  /\ pc \in {"init", "init2", "resolve"} => workers = 0
  /\ pc = "rsend" => cur <= workers
  /\ pc = "retarget" => cur <= workers + 1

\* The main goroutine waits for a core: for its first line, or for room in its stdin.
WaitsForCore ==
  \/ pc = "await" /\ events[cur] = <<>> /\ core[cur] # "dead"
  \/ pc \in {"jobsend", "rsend"} /\ core[cur] # "dead" /\ Len(stdin[cur]) >= StdinCap

\* The main goroutine can take a step, if the context is done: the guards of MainStep.
MainReady ==
  \/ pc \in {"init", "init2", "resolve", "start", "job", "loop", "poll", "poll2", "retarget", "stop",
             "cancel", "wipe", "exit"}
  \/ pc = "await" /\ (events[cur] # <<>> \/ Closed(cur))
  \/ pc \in {"jobsend", "rsend"} /\ (CanSend(cur) \/ SendFails(cur))

\* How far the main goroutine is from the end of the process, if the context is done.
MainLeft ==
  CASE pc = "poll2" -> 7 + 2 * NumAccounts
    [] pc = "retarget" -> 6 + 2 * (workers + 1 - cur)
    [] pc = "rsend" -> 5 + 2 * (workers + 1 - cur)
    [] pc = "await" -> 9
    [] pc \in {"job", "init2"} -> 8
    [] pc \in {"jobsend", "resolve"} -> 7
    [] pc \in {"start", "poll"} -> 6
    [] pc = "loop" -> 5
    [] pc \in {"stop", "init"} -> 4
    [] pc = "cancel" -> 3
    [] pc = "wipe" -> 2
    [] pc = "exit" -> 1
    [] OTHER -> 0

\* Once the context is done the main goroutine waits for nobody but a core that is alive, and that the
\* context kills (exec.CommandContext): for no handler, wherever these are waiting.
ShutdownNeverStuck ==
  ctxDone /\ Running => MainReady \/ (WaitsForCore /\ core[cur] \in {"boot", "up"})

\* Once the context is done every step of the main goroutine brings the end of the process closer, and
\* no other step puts it off; the one exception is the ticker's case of Run's select.  No core starts.
ShutdownCloser ==
  ctxDone /\ Running =>
    /\ \/ UNCHANGED <<pc, cur, workers>>
       \/ pc = "loop" /\ pc' = "poll"
       \/ MainLeft' < MainLeft
    /\ \A a \in Accounts : core[a] \in {"none", "dead"} => core'[a] = core[a]

\* Slots and processes stay together.
LEMMA SlotsKept == IInv /\ SlotInv /\ [Next]_vars => SlotInv'
  <1> SUFFICES ASSUME IInv, SlotInv, [Next]_vars PROVE SlotInv'
    OBVIOUS
  <1>0. /\ cur \in 1..(NumAccounts + 1) /\ workers \in 0..NumAccounts
        /\ core \in [Accounts -> {"none", "boot", "up", "dead"}]
        /\ NumAccounts \in Nat \ {0}
    BY NumAccountsAssumption DEF IInv, MainInv, CoreInv
  <1> USE DEF mainVars, coreVars
  <1>1. CASE Block \/ Signal \/ Terminated \/ UNCHANGED vars
    BY <1>1 DEF Block, Signal, Terminated, vars, SlotInv
  <1>2. CASE PollMiningState \/ ResolveMode \/ StartFails \/ SpawnDone \/ AwaitReady \/ SpawnFetch \/ SpawnSend
             \/ LoopPoll \/ LoopDone \/ RetargetDone \/ Cancel \/ Wipe \/ Exit
    BY <1>2 DEF PollMiningState, ResolveMode, StartFails, SpawnDone, AwaitReady, SpawnFetch, SpawnSend, LoopPoll,
                LoopDone, RetargetDone, Cancel, Wipe, Exit, SlotInv
  <1>3. CASE PollChallenge
    BY <1>0, <1>3 DEF PollChallenge, SlotInv
  <1>4. CASE RetargetFetch \/ RetargetSend
    <2>1. /\ UNCHANGED <<core, workers>> /\ pc' \in {"retarget", "rsend"} /\ cur <= workers
          /\ cur' = cur \/ (cur' = cur + 1 /\ pc' = "retarget")
      BY <1>4 DEF RetargetFetch, RetargetSend, SlotInv
    <2>2. cur' <= workers + 1 /\ (pc' = "rsend" => cur' <= workers)
      BY <1>0, <2>1
    <2> QED BY <2>1, <2>2 DEF SlotInv
  <1>5. CASE StartWorker
    <2>1. /\ cur \in Accounts /\ core' = [core EXCEPT ![cur] = "boot"] /\ workers' = cur /\ cur' = cur
          /\ pc' = "await"
      BY <1>0, <1>5 DEF StartWorker, Accounts
    <2>2. \A a \in Accounts : a <= cur => a = cur \/ a <= workers
      BY <1>0, <1>5 DEF StartWorker, SlotInv, Accounts
    <2> QED BY <1>0, <2>1, <2>2 DEF SlotInv
  <1>6. CASE StopAllWorkers
    BY <1>0, <1>6 DEF StopAllWorkers, SlotInv, Accounts
  <1>7. ASSUME NEW a \in Accounts, HandlerStep(a) PROVE SlotInv'
    BY <1>7 DEF HandlerStep, HReceive, HClosed, HStats, HReject, HAccept, HPack, HSign, HBroadcast,
                HRestartFetch, HSend, HandlerFrame, SlotInv
  <1>8. ASSUME NEW a \in Accounts, CoreStep(a) PROVE SlotInv'
    BY <1>0, <1>8 DEF CoreStep, CoreBoot, CoreTake, CoreProgress, CoreFind, CoreGpuFail, CoreDie, KillByCtx,
                      CoreEof, Dead, CoreFrame, SlotInv
  <1> QED BY <1>1, <1>2, <1>3, <1>4, <1>5, <1>6, <1>7, <1>8 DEF Next, MainStep

\* The numbers of MainLeft, for the places of the main goroutine before and after a step.
LEMMA MainLeftIs ==
  /\ pc = "poll2" => MainLeft = 7 + 2 * NumAccounts
  /\ pc = "retarget" => MainLeft = 6 + 2 * (workers + 1 - cur)
  /\ pc = "rsend" => MainLeft = 5 + 2 * (workers + 1 - cur)
  /\ pc = "await" => MainLeft = 9
  /\ pc \in {"job", "init2"} => MainLeft = 8
  /\ pc \in {"jobsend", "resolve"} => MainLeft = 7
  /\ pc \in {"start", "poll"} => MainLeft = 6
  /\ pc = "loop" => MainLeft = 5
  /\ pc \in {"stop", "init"} => MainLeft = 4
  /\ pc = "cancel" => MainLeft = 3
  /\ pc = "wipe" => MainLeft = 2
  /\ pc = "exit" => MainLeft = 1
  /\ pc \in {"exited", "panicked"} => MainLeft = 0
  BY DEF MainLeft

\* Where the steps of the main goroutine lead when the context is done.
LEMMA DoneSteps ==
  ASSUME IInv, SlotInv, ctxDone, MainStep
  PROVE  \/ pc = "loop" /\ pc' = "poll"
         \/ pc \in {"init", "start", "await", "job", "jobsend", "stop"} /\ pc' = "cancel"
         \/ pc = "init2" /\ pc' = "resolve"
         \/ pc = "resolve" /\ pc' = "start"
         \/ pc = "await" /\ pc' = "job"
         \/ pc = "jobsend" /\ pc' = "start"
         \/ pc \in {"poll", "poll2", "start"} /\ pc' = "loop"
         \/ pc = "poll2" /\ pc' = "retarget" /\ cur' = 1 /\ workers' = workers
         \/ pc = "loop" /\ pc' = "stop"
         \/ pc = "retarget" /\ pc' = "rsend" /\ cur' = cur /\ workers' = workers
         \/ pc \in {"retarget", "rsend"} /\ pc' = "retarget" /\ cur' = cur + 1 /\ workers' = workers
         \/ pc = "retarget" /\ pc' = "loop" /\ cur > workers
         \/ pc = "cancel" /\ pc' = "wipe"
         \/ pc = "wipe" /\ pc' = "exit"
         \/ pc = "exit" /\ pc' = "exited"
  <1>1. CASE PollMiningState \/ PollChallenge \/ ResolveMode
    BY <1>1 DEF PollMiningState, PollChallenge, ResolveMode, RpcOk
  <1>2. CASE StartWorker \/ StartFails \/ SpawnDone \/ AwaitReady \/ SpawnFetch \/ SpawnSend
    BY <1>2 DEF StartWorker, StartFails, SpawnDone, AwaitReady, SpawnFetch, SpawnSend, RpcOk
  <1>3. CASE LoopPoll \/ LoopDone \/ StopAllWorkers \/ Cancel \/ Wipe \/ Exit
    BY <1>3 DEF LoopPoll, LoopDone, StopAllWorkers, Cancel, Wipe, Exit
  <1>4. CASE RetargetFetch \/ RetargetSend \/ RetargetDone
    BY <1>4 DEF RetargetFetch, RetargetSend, RetargetDone
  <1> QED BY <1>1, <1>2, <1>3, <1>4 DEF MainStep

\* Each step of the main goroutine counts.
LEMMA DoneCloser ==
  ASSUME IInv, SlotInv, ctxDone, MainStep
  PROVE  (pc = "loop" /\ pc' = "poll") \/ MainLeft' < MainLeft
  <1>1. /\ cur \in Int /\ workers \in 0..NumAccounts /\ NumAccounts \in Nat \ {0}
        /\ pc = "rsend" => cur <= workers
        /\ pc = "retarget" => cur <= workers + 1
    BY NumAccountsAssumption DEF IInv, MainInv, SlotInv
  <1>2. /\ pc' = "retarget" => MainLeft' = 6 + 2 * (workers' + 1 - cur')
        /\ pc' = "rsend" => MainLeft' = 5 + 2 * (workers' + 1 - cur')
        /\ pc' = "job" => MainLeft' = 8
        /\ pc' = "resolve" => MainLeft' = 7
        /\ pc' = "start" => MainLeft' = 6
        /\ pc' = "loop" => MainLeft' = 5
        /\ pc' = "stop" => MainLeft' = 4
        /\ pc' = "cancel" => MainLeft' = 3
        /\ pc' = "wipe" => MainLeft' = 2
        /\ pc' = "exit" => MainLeft' = 1
        /\ pc' = "exited" => MainLeft' = 0
    BY DEF MainLeft
  <1>3. CASE pc \in {"retarget", "rsend"}
    <2>1. \/ pc = "retarget" /\ pc' = "rsend" /\ cur' = cur /\ workers' = workers
          \/ pc' = "retarget" /\ cur' = cur + 1 /\ workers' = workers
          \/ pc = "retarget" /\ pc' = "loop" /\ cur > workers
      BY <1>3, DoneSteps
    <2>2. MainLeft \in {6 + 2 * (workers + 1 - cur), 5 + 2 * (workers + 1 - cur)}
      BY <1>3, MainLeftIs
    <2>3. CASE pc = "retarget" /\ pc' = "rsend" /\ cur' = cur /\ workers' = workers
      BY <1>1, <1>2, <2>3, MainLeftIs
    <2>4. CASE pc' = "retarget" /\ cur' = cur + 1 /\ workers' = workers
      <3>1. MainLeft' = 6 + 2 * (workers + 1 - (cur + 1))
        BY <1>2, <2>4
      <3> QED BY <1>1, <2>2, <3>1
    <2>5. CASE pc = "retarget" /\ pc' = "loop" /\ cur > workers
      <3>1. MainLeft' = 5 /\ MainLeft = 6 + 2 * (workers + 1 - cur)
        BY <1>2, <2>5, MainLeftIs
      <3>2. cur = workers + 1
        BY <1>1, <2>5
      <3> QED BY <1>1, <3>1, <3>2
    <2> QED BY <2>1, <2>3, <2>4, <2>5
  <1>4. CASE pc = "poll2"
    <2>1. pc' = "loop" \/ (pc' = "retarget" /\ cur' = 1 /\ workers' = workers)
      BY <1>4, DoneSteps
    <2>2. MainLeft = 7 + 2 * NumAccounts
      BY <1>4, MainLeftIs
    <2>3. CASE pc' = "loop"
      BY <1>1, <1>2, <2>2, <2>3
    <2>4. CASE pc' = "retarget" /\ cur' = 1 /\ workers' = workers
      <3>1. MainLeft' = 6 + 2 * (workers + 1 - 1)
        BY <1>2, <2>4
      <3> QED BY <1>1, <2>2, <3>1
    <2> QED BY <2>1, <2>3, <2>4
  <1>5. CASE pc \notin {"retarget", "rsend", "poll2"}
    <2>1. \/ pc = "loop" /\ pc' = "poll"
          \/ pc \in {"init", "start", "await", "job", "jobsend", "stop"} /\ pc' = "cancel"
          \/ pc = "init2" /\ pc' = "resolve"
          \/ pc = "resolve" /\ pc' = "start"
          \/ pc = "await" /\ pc' = "job"
          \/ pc = "jobsend" /\ pc' = "start"
          \/ pc \in {"poll", "start"} /\ pc' = "loop"
          \/ pc = "loop" /\ pc' = "stop"
          \/ pc = "cancel" /\ pc' = "wipe"
          \/ pc = "wipe" /\ pc' = "exit"
          \/ pc = "exit" /\ pc' = "exited"
      BY <1>5, DoneSteps
    <2> QED BY <1>2, <2>1, MainLeftIs
  <1> QED BY <1>3, <1>4, <1>5

\* In every place the main goroutine can go on, or waits for a core that is alive.
LEMMA DoneMoves == IInv /\ SlotInv => ShutdownNeverStuck
  <1> SUFFICES ASSUME IInv, SlotInv, ctxDone, Running, ~MainReady
               PROVE  WaitsForCore /\ core[cur] \in {"boot", "up"}
    BY DEF ShutdownNeverStuck
  <1>1. pc \in {"await", "jobsend", "rsend"}
    BY DEF IInv, MainInv, MainReady, Running
  <1>2. cur \in Accounts /\ cur <= workers
    BY <1>1, NumAccountsAssumption DEF IInv, MainInv, SlotInv
  <1>3. core[cur] \in {"boot", "up", "dead"}
    BY <1>2 DEF IInv, CoreInv, SlotInv
  <1>4. Len(stdin[cur]) \in Nat /\ StdinCap \in Nat
    BY <1>2, LenProperties, CapAssumption DEF IInv, CoreInv, StdinTyped
  <1>5. ~(Len(stdin[cur]) < StdinCap) => Len(stdin[cur]) >= StdinCap
    BY <1>4
  <1> QED BY <1>1, <1>3, <1>5 DEF MainReady, WaitsForCore, CanSend, SendFails, Closed

\* A signal ends the process wherever the main goroutine and the handlers are waiting: the main
\* goroutine waits for no handler, only for cores that are killed, and every step of it leaves less.
THEOREM ShutdownsWaitForCoresOnly == Spec => []ShutdownNeverStuck /\ [][ShutdownCloser]_vars
  <1>1. Init => SlotInv
    BY NumAccountsAssumption DEF Init, SlotInv, Accounts
  <1>2. IInv /\ SlotInv /\ [Next]_vars => [ShutdownCloser]_vars
    <2> SUFFICES ASSUME IInv, SlotInv, Next, ctxDone
                 PROVE  /\ \/ UNCHANGED <<pc, cur, workers>>
                           \/ pc = "loop" /\ pc' = "poll"
                           \/ MainLeft' < MainLeft
                        /\ Running => \A a \in Accounts : core[a] \in {"none", "dead"} => core'[a] = core[a]
      BY DEF ShutdownCloser
    <2>1. CASE MainStep
      <3>1. \A a \in Accounts : core[a] \in {"none", "dead"} => core'[a] = core[a]
        <4>1. CASE StopAllWorkers
          BY <4>1 DEF StopAllWorkers, SlotInv
        <4>2. CASE ~StopAllWorkers
          BY <2>1, <4>2 DEF MainStep, PollMiningState, PollChallenge, ResolveMode, StartWorker, StartFails,
               SpawnDone, AwaitReady, SpawnFetch, SpawnSend, LoopPoll, LoopDone, RetargetFetch, RetargetSend,
               RetargetDone, Cancel, Wipe, Exit, coreVars
        <4> QED BY <4>1, <4>2
      <3> QED BY <2>1, <3>1, DoneCloser
    <2>2. ASSUME NEW a \in Accounts, HandlerStep(a)
          PROVE  /\ UNCHANGED <<pc, cur, workers>> \/ (MainLeft' < MainLeft /\ pc' = "panicked")
                 /\ core' = core
      <3>1. CASE HPack(a)
        <4>1. UNCHANGED <<pc, cur, workers, core>> \/ (pc' = "panicked" /\ core' = core)
          BY <3>1 DEF HPack, HandlerFrame
        <4>2. CASE pc' = "panicked"
          <5>1. MainLeft' = 0
            BY <4>2 DEF MainLeft
          <5>2. MainLeft > 0
            <6>1. Running /\ cur \in Int /\ workers \in 0..NumAccounts /\ NumAccounts \in Nat
              BY <3>1, NumAccountsAssumption DEF HPack, At, IInv, MainInv
            <6>2. CASE pc \in {"retarget", "rsend"}
              <7>1. cur <= workers + 1
                BY <6>1, <6>2 DEF SlotInv
              <7>2. MainLeft \in {6 + 2 * (workers + 1 - cur), 5 + 2 * (workers + 1 - cur)}
                BY <6>2, MainLeftIs
              <7> QED BY <6>1, <7>1, <7>2
            <6>3. CASE pc \notin {"retarget", "rsend"}
              <7>1. MainLeft \in (1..9) \cup {7 + 2 * NumAccounts}
                BY <6>1, <6>3, MainLeftIs DEF IInv, MainInv, Running
              <7> QED BY <6>1, <7>1
            <6> QED BY <6>2, <6>3
          <5> QED BY <4>1, <4>2, <5>1, <5>2
        <4> QED BY <4>1, <4>2
      <3>2. CASE ~HPack(a)
        BY <2>2, <3>2 DEF HandlerStep, HReceive, HClosed, HStats, HReject, HAccept, HSign, HBroadcast,
             HRestartFetch, HSend, HandlerFrame
      <3> QED BY <3>1, <3>2
    <2>3. ASSUME NEW a \in Accounts, CoreStep(a)
          PROVE  /\ UNCHANGED <<pc, cur, workers>>
                 /\ \A b \in Accounts : core[b] \in {"none", "dead"} => core'[b] = core[b]
      BY <2>3 DEF IInv, CoreInv, CoreStep, CoreBoot, CoreTake, CoreProgress, CoreFind, CoreGpuFail, CoreDie,
           KillByCtx, CoreEof, Dead, CoreFrame, mainVars
    <2>4. CASE Block \/ Signal \/ Terminated
      BY <2>4 DEF Block, Signal, Terminated, mainVars, coreVars, vars
    <2> QED BY <2>1, <2>2, <2>3, <2>4 DEF Next
  <1> QED BY <1>1, <1>2, SlotsKept, DoneMoves, InitInv, Invariance, PTL DEF Spec

-----------------------------------------------------------------------------
(***************************************************************************)
(* The work of the cores when nothing fails.                               *)
(*                                                                         *)
(* Three facts that need each other.  Nonces that are found anew are never *)
(* taken for duplicates.  Run ends only under a cancelled context.  And a  *)
(* core without a job is idle for a reason: spawnWorkers is at it, its     *)
(* command is on the way, or its solution is, however polls, retargets,    *)
(* restarts, and the two receivers of the ready event interleave.  The     *)
(* first reason can last: the handler may take the ready line that         *)
(* spawnWorkers waits for (SpawnDispatches).                               *)
(***************************************************************************)

\* The found events of a channel, and their nonces.
Founds(q) == {k \in DOMAIN q : q[k].ev = "found"}
FoundNonces(q) == {q[k].sol.nonce : k \in Founds(q)}
FoundOnce(q) == \A k, l \in Founds(q) : q[k].sol.nonce = q[l].sol.nonce => k = l

\* What the finds of a channel are worth: no other one of the account, in the channel, in the
\* handler's hands or submitted, has the nonce.
FreshIn(a, q) ==
  /\ \A n \in FoundNonces(q) :
       <<a, n>> \notin submitted /\ (hsol[a] # None => hsol[a].nonce # n)
  /\ FoundOnce(q)
OwnFresh(a) == FreshIn(a, events[a]) /\ (hpc[a] = "found" => Key(a) \notin submitted)
FreshInv == \A a \in Accounts : OwnFresh(a)

\* A solution that reaches onFound is no duplicate.
FreshPasses == \A a \in Accounts : hpc[a] = "found" => Key(a) \notin submitted

\* Dropping the head of a channel: the nonce it takes away is not met again.
LEMMA FoundTail ==
  ASSUME NEW S, NEW q \in Seq(S), q # <<>>
  PROVE  /\ FoundNonces(Tail(q)) \subseteq FoundNonces(q)
         /\ FoundOnce(q) => FoundOnce(Tail(q))
         /\ Head(q).ev = "found" =>
              /\ Head(q).sol.nonce \in FoundNonces(q)
              /\ FoundOnce(q) => Head(q).sol.nonce \notin FoundNonces(Tail(q))
         /\ Founds(q) # {} => Head(q).ev = "found" \/ Founds(Tail(q)) # {}
  <1>1. /\ Len(q) \in Nat \ {0} /\ DOMAIN q = 1..Len(q) /\ DOMAIN Tail(q) = 1..(Len(q) - 1)
        /\ Head(q) = q[1] /\ \A k \in DOMAIN Tail(q) : Tail(q)[k] = q[k + 1]
    OBVIOUS
  <1>2. \A k \in Founds(Tail(q)) : k \in Nat /\ k >= 1 /\ k + 1 \in Founds(q) /\ Tail(q)[k] = q[k + 1]
    BY <1>1 DEF Founds
  <1>3. \A k \in Founds(q) : k = 1 \/ k - 1 \in Founds(Tail(q))
    BY <1>1 DEF Founds
  <1>4. Head(q).ev = "found" => 1 \in Founds(q)
    BY <1>1 DEF Founds
  <1>5. FoundNonces(Tail(q)) \subseteq FoundNonces(q)
    BY <1>2, Zenon DEF FoundNonces
  <1>6. FoundOnce(q) => FoundOnce(Tail(q))
    <2> SUFFICES ASSUME FoundOnce(q), NEW k \in Founds(Tail(q)), NEW l \in Founds(Tail(q)),
                        Tail(q)[k].sol.nonce = Tail(q)[l].sol.nonce
                 PROVE  k = l
      BY DEF FoundOnce
    <2>1. /\ k + 1 \in Founds(q) /\ l + 1 \in Founds(q)
          /\ q[k + 1].sol.nonce = q[l + 1].sol.nonce
      BY <1>2, Zenon
    <2>2. k + 1 = l + 1
      BY <2>1, Zenon DEF FoundOnce
    <2> QED BY <1>2, <2>2
  <1>7. ASSUME Head(q).ev = "found"
        PROVE  /\ Head(q).sol.nonce \in FoundNonces(q)
               /\ FoundOnce(q) => Head(q).sol.nonce \notin FoundNonces(Tail(q))
    <2>1. Head(q).sol.nonce \in FoundNonces(q)
      BY <1>1, <1>4, <1>7, Zenon DEF FoundNonces
    <2>2. ASSUME FoundOnce(q), NEW k \in Founds(Tail(q)), Head(q).sol.nonce = Tail(q)[k].sol.nonce
          PROVE  FALSE
      <3>1. k + 1 = 1
        BY <1>1, <1>2, <1>4, <1>7, <2>2, Zenon DEF FoundOnce
      <3> QED BY <1>2, <3>1
    <2> QED BY <2>1, <2>2 DEF FoundNonces
  <1>8. Founds(q) # {} => Head(q).ev = "found" \/ Founds(Tail(q)) # {}
    <2> SUFFICES ASSUME NEW k \in Founds(q), Founds(Tail(q)) = {} PROVE Head(q).ev = "found"
      OBVIOUS
    <2>1. k = 1
      BY <1>3
    <2> QED BY <1>1, <2>1 DEF Founds
  <1> QED BY <1>5, <1>6, <1>7, <1>8, Zenon

\* Giving a channel an event: only a found that is not dropped brings a nonce.
LEMMA FoundEmit ==
  ASSUME NEW S, NEW q \in Seq(S), NEW e \in S
  PROVE  /\ FoundNonces(Emit(q, e)) \subseteq
              FoundNonces(q) \cup (IF e.ev = "found" THEN {e.sol.nonce} ELSE {})
         /\ FoundOnce(q) /\ (e.ev = "found" => e.sol.nonce \notin FoundNonces(q))
              => FoundOnce(Emit(q, e))
         /\ Founds(q) # {} => Founds(Emit(q, e)) # {}
         /\ e.ev = "found" /\ Len(q) < EventCap => Founds(Emit(q, e)) # {}
  <1> DEFINE r == Append(q, e)
  <1>1. CASE Emit(q, e) = q /\ ~(Len(q) < EventCap)
    BY <1>1
  <1>2. CASE Emit(q, e) = r
    <2>1. /\ Len(q) \in Nat /\ DOMAIN q = 1..Len(q) /\ DOMAIN r = 1..(Len(q) + 1)
          /\ \A k \in DOMAIN q : r[k] = q[k]
          /\ r[Len(q) + 1] = e
      OBVIOUS
    <2> HIDE DEF r
    <2>2. \A k \in Founds(r) : (k \in Founds(q) /\ r[k] = q[k])
                                 \/ (k = Len(q) + 1 /\ r[k] = e /\ e.ev = "found")
      BY <2>1 DEF Founds
    <2>3. \A k \in Founds(q) : k \in Founds(r)
      BY <2>1 DEF Founds
    <2>4. FoundNonces(r) \subseteq FoundNonces(q) \cup (IF e.ev = "found" THEN {e.sol.nonce} ELSE {})
      BY <2>2, Zenon DEF FoundNonces
    <2>5. ASSUME FoundOnce(q), e.ev = "found" => e.sol.nonce \notin FoundNonces(q)
          PROVE  FoundOnce(r)
      <3> SUFFICES ASSUME NEW k \in Founds(r), NEW l \in Founds(r), r[k].sol.nonce = r[l].sol.nonce
                   PROVE  k = l
        BY DEF FoundOnce
      <3>1. \A i \in Founds(q) : e.ev = "found" => q[i].sol.nonce # e.sol.nonce
        BY <2>5, Zenon DEF FoundNonces
      <3> QED BY <2>2, <2>5, <3>1, Zenon DEF FoundOnce
    <2>6. e.ev = "found" => Len(q) + 1 \in Founds(r)
      BY <2>1 DEF Founds
    <2> QED BY <1>2, <2>3, <2>4, <2>5, <2>6, Zenon
  <1> QED BY <1>1, <1>2 DEF Emit

\* An event that is no find, or finds a fresh nonce, leaves a channel fresh, dropped or not.
LEMMA FreshEmit ==
  ASSUME NEW a \in Accounts, NEW S, NEW q \in Seq(S), NEW e \in S, FreshIn(a, q),
         e.ev = "found" =>
           /\ e.sol.nonce \notin FoundNonces(q) /\ <<a, e.sol.nonce>> \notin submitted
           /\ hsol[a] # None => hsol[a].nonce # e.sol.nonce
  PROVE  FreshIn(a, Emit(q, e))
  <1>1. /\ FoundNonces(Emit(q, e)) \subseteq FoundNonces(q) \cup (IF e.ev = "found" THEN {e.sol.nonce} ELSE {})
        /\ FoundOnce(Emit(q, e))
    BY FoundEmit DEF FreshIn
  <1> QED BY <1>1 DEF FreshIn

\* An account stays fresh when its channel does, and its handler forgets its solution or keeps it.
LEMMA FreshSame ==
  ASSUME NEW a \in Accounts, OwnFresh(a), NEW q, FreshIn(a, q), events'[a] = q,
         hsol'[a] \in {hsol[a], None},
         hpc'[a] = "found" => hpc[a] = "found" /\ hsol'[a] = hsol[a],
         \A n : <<a, n>> \in submitted' => <<a, n>> \in submitted
  PROVE  OwnFresh(a)'
  <1>1. hpc'[a] = "found" => <<a, hsol'[a].nonce>> \notin submitted'
    BY DEF OwnFresh, Key
  <1>2. /\ \A n \in FoundNonces(q) : <<a, n>> \notin submitted' /\ (hsol'[a] # None => hsol'[a].nonce # n)
        /\ FoundOnce(q)
    BY DEF FreshIn
  <1>3. FoundNonces(events[a])' = FoundNonces(q) /\ FoundOnce(events[a])' = FoundOnce(q)
    BY DEF FoundNonces, FoundOnce, Founds
  <1> QED BY <1>1, <1>2, <1>3 DEF OwnFresh, FreshIn, Key

\* The first event of a channel goes, and what its receiver keeps of it is still fresh.
LEMMA FreshTake ==
  ASSUME NEW a \in Accounts, NEW S, events[a] \in Seq(S), events[a] # <<>>, OwnFresh(a),
         UNCHANGED submitted, events'[a] = Tail(events[a]),
         \/ hsol'[a] = hsol[a] /\ hpc'[a] = hpc[a]
         \/ hsol'[a] = None /\ hpc'[a] # "found"
         \/ Head(events[a]).ev = "found" /\ hsol'[a] = Head(events[a]).sol
  PROVE  OwnFresh(a)'
  <1> DEFINE q == events[a]
  <1>1. /\ FoundNonces(Tail(q)) \subseteq FoundNonces(q) /\ FoundOnce(Tail(q))
        /\ Head(q).ev = "found" =>
             Head(q).sol.nonce \in FoundNonces(q) /\ Head(q).sol.nonce \notin FoundNonces(Tail(q))
    BY FoundTail DEF OwnFresh, FreshIn
  <1>2. FoundNonces(events[a])' = FoundNonces(Tail(q)) /\ FoundOnce(events[a])' = FoundOnce(Tail(q))
    BY DEF FoundNonces, FoundOnce, Founds
  <1>3. \A n \in FoundNonces(Tail(q)) : <<a, n>> \notin submitted' /\ (hsol'[a] # None => hsol'[a].nonce # n)
    BY <1>1 DEF OwnFresh, FreshIn
  <1>4. hpc'[a] = "found" => <<a, hsol'[a].nonce>> \notin submitted'
    BY <1>1 DEF OwnFresh, FreshIn, Key
  <1> QED BY <1>1, <1>2, <1>3, <1>4 DEF OwnFresh, FreshIn, Key

\* A step that writes at most an event of its own account, and drops no key, keeps all fresh.
LEMMA FreshOthers ==
  ASSUME FreshInv, NEW a \in Accounts, OwnFresh(a)',
         \A b \in Accounts \ {a} : UNCHANGED <<events[b], hsol[b], hpc[b]>>,
         \A k \in submitted' : k \in submitted \/ k[1] = a
  PROVE  FreshInv'
  <1> SUFFICES ASSUME NEW b \in Accounts \ {a} PROVE OwnFresh(b)'
    BY DEF FreshInv
  <1>1. \A n : <<b, n>> \in submitted' => <<b, n>> \in submitted
    BY Zenon
  <1>2. /\ events'[b] = events[b] /\ hsol'[b] = hsol[b] /\ hpc'[b] = hpc[b]
        /\ OwnFresh(b) /\ FreshIn(b, events[b])
    BY DEF FreshInv, OwnFresh
  <1> QED BY <1>1, <1>2, FreshSame

\* The steps of a handler.
LEMMA HandlerFresh ==
  ASSUME IInv, FreshInv, NEW a \in Accounts, HandlerStep(a)
  PROVE  FreshInv'
  <1> USE DEF HandlerFrame, Forget, Goto, At
  <1>1. /\ OwnFresh(a) /\ FreshIn(a, events[a]) /\ events[a] \in Seq(EventsOf({a}))
        /\ events \in [Accounts -> Seq(EventsOf(Accounts))]
        /\ hsol \in [Accounts -> SolutionsOf(Accounts) \cup {None}]
        /\ hpc \in [Accounts -> {"none", "recv", "stats", "found", "pack", "sign",
                                 "broadcast", "restart", "send", "exited"}]
    BY DEF FreshInv, OwnFresh, IInv, CoreInv, EventsTyped, HandlerInv, SolutionsTyped
  <1>2. /\ \A b \in Accounts \ {a} : UNCHANGED <<events[b], hsol[b], hpc[b]>>
        /\ \A k \in submitted' : k \in submitted \/ k[1] = a
    <2>1. /\ \A b \in Accounts \ {a} : UNCHANGED <<hsol[b], hpc[b]>>
          /\ events' = events \/ events' = [events EXCEPT ![a] = Tail(@)]
      BY <1>1 DEF HandlerStep, HReceive, HClosed, HStats, HReject, HAccept, HPack, HSign, HBroadcast,
                  HRestartFetch, HSend
    <2>2. submitted' = submitted \/ submitted' = submitted \cup {<<a, hsol[a].nonce>>}
      BY Zenon DEF HandlerStep, HReceive, HClosed, HStats, HReject, HAccept, HPack, HSign, HBroadcast,
                   HRestartFetch, HSend, Key
    <2> QED BY <1>1, <2>1, <2>2
  <1>3. CASE HReceive(a)
    <2>1. /\ events[a] # <<>> /\ events'[a] = Tail(events[a]) /\ submitted' = submitted
          /\ \/ Head(events[a]).ev = "found" /\ hsol'[a] = Head(events[a]).sol
             \/ hsol'[a] = None /\ hpc'[a] # "found"
      BY <1>1, <1>3 DEF HReceive
    <2> QED BY <1>1, <1>2, <2>1, FreshTake, FreshOthers
  <1>4. CASE HAccept(a)
    <2>1. /\ events' = events /\ hsol' = hsol /\ hpc'[a] = "pack" /\ hsol[a] \in SolutionsOf({a})
          /\ submitted' = submitted \cup {<<a, hsol[a].nonce>>}
      BY <1>1, <1>4 DEF HAccept, Key, IInv, HandlerInv
    <2>2. hsol[a] # None
      BY <2>1 DEF SolutionsOf, None
    <2>3. \A n \in FoundNonces(events[a]) : <<a, n>> \notin submitted' /\ hsol[a].nonce # n
      BY <1>1, <2>1, <2>2 DEF FreshIn
    <2>4. OwnFresh(a)'
      BY <1>1, <2>1, <2>3 DEF OwnFresh, FreshIn, FoundNonces, FoundOnce, Founds
    <2> QED BY <1>2, <2>4, FreshOthers
  <1>5. CASE HandlerStep(a) /\ ~HReceive(a) /\ ~HAccept(a)
    <2>1. /\ events' = events /\ submitted' = submitted /\ hsol'[a] \in {hsol[a], None}
          /\ hpc'[a] # "found"
      BY <1>1, <1>5 DEF HandlerStep, HClosed, HStats, HReject, HPack, HSign, HBroadcast, HRestartFetch, HSend
    <2>2. OwnFresh(a)'
      BY <1>1, <2>1, FreshSame
    <2> QED BY <1>2, <2>2, FreshOthers
  <1> QED BY <1>3, <1>4, <1>5

\* The steps of a core: what it finds is fresh.
LEMMA CoreFresh ==
  ASSUME ~CollidingNonces, IInv, FreshInv, NEW a \in Accounts, CoreStep(a)
  PROVE  FreshInv'
  <1> DEFINE q == events[a]
             N == {Note("ready"), Note("progress"), Note("info")}
  <1>1. /\ OwnFresh(a) /\ FreshIn(a, q) /\ q \in Seq(EventsOf({a}))
        /\ events \in [Accounts -> Seq(EventsOf(Accounts))]
        /\ Len(q) <= EventCap /\ job[a] \in JobsOf({a}) \cup {None}
    BY DEF FreshInv, OwnFresh, IInv, CoreInv, EventsTyped, JobsTyped
  <1>2. /\ UNCHANGED <<submitted, hsol, hpc>>
        /\ events' = events \/ \E r : events' = [events EXCEPT ![a] = r]
    <2>1. CASE CoreBoot(a) \/ CoreProgress(a) \/ CoreGpuFail(a)
      BY <2>1 DEF CoreBoot, CoreProgress, CoreGpuFail, Write, CoreFrame, handlerVars
    <2>2. CASE CoreTake(a)
      BY <2>2, Zenon DEF CoreTake, Write, CoreFrame, handlerVars
    <2>3. CASE CoreFind(a)
      BY <2>3, Zenon DEF CoreFind, Write, CoreFrame, handlerVars
    <2>4. CASE CoreDie(a) \/ KillByCtx(a) \/ CoreEof(a)
      BY <2>4 DEF CoreDie, KillByCtx, CoreEof, Dead, CoreFrame, handlerVars
    <2> QED BY <2>1, <2>2, <2>3, <2>4 DEF CoreStep
  <1>22. \A b \in Accounts \ {a} : UNCHANGED <<events[b], hsol[b], hpc[b]>>
    BY <1>1, <1>2
  <1>3. \A e \in N : e \in EventsOf({a}) /\ e.ev # "found"
    BY NoteType DEF Note
  <1>4. \A e \in N : FreshIn(a, Emit(q, e)) /\ Emit(q, e) \in Seq(EventsOf({a}))
    BY <1>1, <1>3, FreshEmit, EmitType
  <1>5. \A d, e \in N : FreshIn(a, Emit(Emit(q, d), e))
    BY <1>3, <1>4, FreshEmit
  <1>6. CASE ~CoreFind(a)
    <2>1. \/ events'[a] = q
          \/ \E e \in N : events'[a] = Emit(q, e)
          \/ \E d, e \in N : events'[a] = Emit(Emit(q, d), e)
      BY <1>1, <1>6 DEF CoreStep, CoreBoot, CoreTake, CoreProgress, CoreGpuFail, CoreDie, KillByCtx, CoreEof,
           Dead, Write
    <2>2. PICK r : events'[a] = r /\ FreshIn(a, r)
      BY <1>1, <1>4, <1>5, <2>1
    <2>3. OwnFresh(a)'
      BY <1>1, <1>2, <2>2, FreshSame
    <2> QED BY <1>2, <1>22, <2>3, FreshOthers
  <1>7. CASE CoreFind(a)
    <2>1. PICK n \in Nonces, h \in Hashes :
            Fresh(a, n) /\ events'[a] = Emit(q, Found([nonce |-> n, ch |-> job[a].ch, hash |-> h]))
      BY <1>1, <1>7 DEF CoreFind, Write
    <2> DEFINE e == Found([nonce |-> n, ch |-> job[a].ch, hash |-> h])
    <2>2. e \in EventsOf({a}) /\ e.sol.nonce = n
      BY <1>1, <1>7 DEF CoreFind, Found, EventsOf, SolutionsOf, JobsOf
    <2>3. n \notin FoundNonces(q) /\ <<a, n>> \notin submitted /\ (hsol[a] # None => hsol[a].nonce # n)
      BY <2>1 DEF Fresh, FoundNonces, Founds
    <2> HIDE DEF e
    <2>4. FreshIn(a, Emit(q, e))
      BY <1>1, <2>2, <2>3, FreshEmit
    <2>5. OwnFresh(a)'
      BY <1>1, <1>2, <2>1, <2>4, FreshSame DEF e
    <2> QED BY <1>2, <1>22, <2>5, FreshOthers
  <1> QED BY <1>6, <1>7

\* No step makes a duplicate of a solution.
LEMMA FreshKept ==
  ASSUME ~CollidingNonces, IInv, FreshInv, [Next]_vars
  PROVE  FreshInv'
  <1>1. \A a \in Accounts : OwnFresh(a) /\ FreshIn(a, events[a])
    BY DEF FreshInv, OwnFresh
  <1>2. CASE AwaitReady /\ events' # events
    <2>1. PICK a \in Accounts : a = cur
      BY <1>2 DEF AwaitReady, IInv, MainInv
    <2>2. events[a] \in Seq(EventsOf({a})) /\ events \in [Accounts -> Seq(EventsOf(Accounts))]
      BY DEF IInv, CoreInv, EventsTyped
    <2>3. /\ UNCHANGED <<hsol, hpc, submitted>> /\ events[a] # <<>>
          /\ events' = [events EXCEPT ![a] = Tail(@)]
      BY <1>2, <2>1 DEF AwaitReady, handlerVars
    <2>4. events'[a] = Tail(events[a]) /\ \A b \in Accounts \ {a} : events'[b] = events[b]
      BY <2>2, <2>3
    <2>5. OwnFresh(a)'
      BY <1>1, <2>2, <2>3, <2>4, FreshTake
    <2> QED BY <2>3, <2>4, <2>5, FreshOthers
  <1>3. CASE StartWorker
    <2>1. /\ events' = events /\ hsol' = hsol /\ submitted' = submitted
          /\ \A a \in Accounts : hpc'[a] = hpc[a] \/ hpc'[a] = "recv"
      BY <1>3 DEF StartWorker, IInv, HandlerInv
    <2> QED BY <1>1, <2>1, FreshSame DEF FreshInv
  <1>4. CASE UNCHANGED <<events, hsol, hpc, submitted>>
    BY <1>1, <1>4, FreshSame DEF FreshInv
  <1>5. CASE Block \/ Signal \/ Terminated \/ UNCHANGED vars
    <2>1. UNCHANGED <<events, hsol, hpc, submitted>>
      BY <1>5 DEF Block, Signal, Terminated, vars, handlerVars, coreVars
    <2> QED BY <1>4, <2>1
  <1>6. CASE MainStep
    <2>1. CASE StartWorker
      BY <1>3, <2>1
    <2>2. CASE AwaitReady
      <3>1. CASE events' = events
        BY <1>4, <2>2, <3>1 DEF AwaitReady, handlerVars
      <3> QED BY <1>2, <2>2, <3>1
    <2>3. CASE MainStep /\ ~StartWorker /\ ~AwaitReady
      <3>1. UNCHANGED <<events, hsol, hpc, submitted>>
        BY <2>3 DEF MainStep, PollMiningState, PollChallenge, ResolveMode, StartFails, SpawnDone, SpawnFetch,
             SpawnSend, LoopPoll, LoopDone, RetargetFetch, RetargetSend, RetargetDone, StopAllWorkers, Cancel,
             Wipe, Exit, handlerVars, coreVars
      <3> QED BY <1>4, <3>1
    <2> QED BY <1>6, <2>1, <2>2, <2>3
  <1>7. ASSUME NEW a \in Accounts, HandlerStep(a) \/ CoreStep(a)
        PROVE  FreshInv'
    BY <1>7, HandlerFresh, CoreFresh
  <1> QED BY <1>5, <1>6, <1>7 DEF Next

\* Nothing is found before Run starts.
LEMMA InitFresh == Init => FreshInv
  <1> SUFFICES ASSUME Init, NEW a \in Accounts PROVE OwnFresh(a)
    BY DEF FreshInv
  <1>1. events[a] = <<>> /\ hpc[a] = "none"
    BY DEF Init
  <1> QED BY <1>1 DEF OwnFresh, FreshIn, FoundNonces, FoundOnce, Founds

\* With nonces that are found anew, which random prefixes make them, Engine.submitted turns no
\* solution away (onFound): whatever fails, whoever restarts, and with any endpoint lagging.
THEOREM FreshSolutionsPass ==
  ASSUME ~CollidingNonces
  PROVE  Spec => []FreshPasses
  <1>1. Init => FreshInv
    BY InitFresh
  <1>2. IInv /\ FreshInv /\ [Next]_vars => FreshInv'
    BY FreshKept
  <1>3. FreshInv => FreshPasses
    BY DEF FreshInv, OwnFresh, FreshPasses
  <1> QED BY <1>1, <1>2, <1>3, Invariance, PTL DEF Spec

-----------------------------------------------------------------------------
\* RPCs answer, cores run, found nonces are new and not checked against the primary's challenge,
\* the nil nonce is packed as a zero, and a GPU that is asked for is there.
Healthy ==
  /\ ~RpcFails /\ ~CoreFails /\ ~CollidingNonces /\ ~VerifyBeforeSubmit
  /\ PackNil = {"zero"} /\ (CfgMode = "gpu" => HasGPU)

\* Worker.events has room for the next event: none is dropped.
Room == \A a \in Accounts : Len(events[a]) < EventCap

\* Run has returned, or is about to.
Ending == pc \in {"stop", "cancel", "wipe", "exit", "exited", "panicked"}

\* spawnWorkers waits for the core of a, or is about to give it its first job.
Spawning(a) == cur = a /\ pc \in {"await", "job", "jobsend"}

\* Run goes on until its context is cancelled.
RunGoesOn == ~ctxDone => ~Ending

\* A core that lives and has no job gets one from spawnWorkers, which is at its worker, or from a
\* command in its pipe, or from the handler, which has its solution or will receive it.
IdleForAReason ==
  ~ctxDone =>
    \A a \in Accounts :
      core[a] \in {"boot", "up"} /\ job[a] = None =>
        Spawning(a) \/ stdin[a] # <<>> \/ HasFound(a)

\* A command that the core can carry out: no GPU is asked for in vain.
Playable(c) == c.cmd = "start" /\ c.mode = "gpu" => HasGPU
PlayInv ==
  /\ mode = "gpu" => HasGPU
  /\ mcmd \in CommandsOf(Accounts) => Playable(mcmd)
  /\ \A a \in Accounts : hcmd[a] \in CommandsOf({a}) => Playable(hcmd[a])
  /\ \A a \in Accounts : \A k \in DOMAIN stdin[a] : Playable(stdin[a][k])

\* What holds of a worker before its process starts, while spawnWorkers waits for it, and later.
NotYet(a) == hpc[a] = "none" /\ events[a] = <<>> /\ stdin[a] = <<>> /\ job[a] = None
Awaited(a) ==
  /\ hpc[a] = "recv" /\ stdin[a] = <<>> /\ job[a] = None
  /\ \A k \in DOMAIN events[a] : events[a][k].ev = "ready"
Alive(a) ==
  /\ core[a] # "dead"
  /\ core[a] = "none" => NotYet(a)
  /\ core[a] # "none" /\ job[a] = None => Spawning(a) \/ stdin[a] # <<>> \/ HasFound(a)
  /\ pc = "await" /\ cur = a => Awaited(a)
LifeInv ==
  ~ctxDone =>
    /\ ~Ending
    /\ \A a \in Accounts : Alive(a)
    /\ \A a \in Accounts : a > workers => core[a] = "none"

WorkInv == SlotInv /\ FreshInv /\ PlayInv /\ LifeInv

\* Commands stay playable as they are queued and taken.
LEMMA PlayQueue ==
  ASSUME NEW S, NEW q \in Seq(S), \A k \in DOMAIN q : Playable(q[k])
  PROVE  /\ \A c : Playable(c) => \A k \in DOMAIN Append(q, c) : Playable(Append(q, c)[k])
         /\ q # <<>> => Playable(Head(q)) /\ \A k \in DOMAIN Tail(q) : Playable(Tail(q)[k])
  <1>1. ASSUME NEW c, Playable(c), NEW k \in DOMAIN Append(q, c) PROVE Playable(Append(q, c)[k])
    <2>1. Append(q, c)[k] = c \/ (k \in DOMAIN q /\ Append(q, c)[k] = q[k])
      OBVIOUS
    <2> QED BY <1>1, <2>1
  <1>2. ASSUME q # <<>> PROVE Playable(Head(q)) /\ \A k \in DOMAIN Tail(q) : Playable(Tail(q)[k])
    <2>1. 1 \in DOMAIN q /\ Head(q) = q[1]
      BY <1>2
    <2>2. \A k \in DOMAIN Tail(q) : k + 1 \in DOMAIN q /\ Tail(q)[k] = q[k + 1]
      BY <1>2
    <2> QED BY <2>1, <2>2
  <1> QED BY <1>1, <1>2

\* Sending a playable command to a worker.
LEMMA PlaySend ==
  ASSUME CoreInv, PlayInv, NEW a \in Accounts, NEW c, Playable(c),
         stdin' = [stdin EXCEPT ![a] = Append(@, c)]
  PROVE  \A b \in Accounts : \A k \in DOMAIN stdin'[b] : Playable(stdin'[b][k])
  <1>1. /\ stdin[a] \in Seq(CommandsOf({a})) /\ stdin'[a] = Append(stdin[a], c)
        /\ \A b \in Accounts \ {a} : stdin'[b] = stdin[b]
    BY DEF CoreInv, StdinTyped
  <1>2. \A k \in DOMAIN stdin'[a] : Playable(stdin'[a][k])
    BY <1>1, PlayQueue DEF PlayInv
  <1> QED BY <1>1, <1>2 DEF PlayInv

\* resolveMode answers "gpu" only if there is a device, or if it was told so.
LEMMA PlayKept ==
  ASSUME CfgMode = "gpu" => HasGPU, IInv, PlayInv, [Next]_vars
  PROVE  PlayInv'
  <1>1. \A c : "gpu" \in ResolvedModes(c) => HasGPU
    BY SwitchAssumption, Zenon DEF ResolvedModes
  <1>2. \A ch, d : Playable(RetargetCmd(ch, d)) /\ Playable(StartCmd(ch, d, "cpu"))
    BY DEF Playable, RetargetCmd, StartCmd
  <1>3. \A ch, d : HasGPU => Playable(StartCmd(ch, d, "gpu"))
    BY DEF Playable
  <1>4. mode \in Modes /\ \A c : ResolvedModes(c) \subseteq Modes
    BY ModeType DEF IInv, MainInv
  <1>5. CASE SpawnSend \/ RetargetSend
    <2>1. PICK a \in Accounts : a = cur
      BY <1>5 DEF SpawnSend, RetargetSend, IInv, MainInv
    <2>2. Playable(mcmd)
      BY <1>5, <2>1, OwnIsCommon DEF SpawnSend, RetargetSend, IInv, MainInv, PlayInv
    <2>3. /\ stdin' = stdin \/ stdin' = [stdin EXCEPT ![a] = Append(@, mcmd)]
          /\ mcmd' = None /\ UNCHANGED <<mode, hcmd>>
      BY <1>5, <2>1 DEF SpawnSend, RetargetSend, handlerVars
    <2>4. \A b \in Accounts : \A k \in DOMAIN stdin'[b] : Playable(stdin'[b][k])
      BY <2>2, <2>3, PlaySend DEF PlayInv, IInv
    <2>5. None \notin CommandsOf(Accounts)
      BY DEF None, CommandsOf
    <2> QED BY <2>3, <2>4, <2>5, Zenon DEF PlayInv
  <1>6. CASE ResolveMode
    <2>1. mode' \in ResolvedModes(ctxDone) /\ UNCHANGED <<mcmd, hcmd, stdin>>
      BY <1>6 DEF ResolveMode, handlerVars, coreVars
    <2> QED BY <1>1, <2>1 DEF PlayInv
  <1>7. CASE SpawnFetch \/ RetargetFetch
    <2>1. /\ mcmd' = mcmd \/ Playable(mcmd')
          /\ UNCHANGED <<mode, hcmd, stdin>>
      BY <1>2, <1>3, <1>4, <1>7 DEF SpawnFetch, RetargetFetch, handlerVars, coreVars, PlayInv, Modes
    <2> QED BY <2>1 DEF PlayInv
  <1>8. CASE StopAllWorkers
    <2>1. UNCHANGED <<mode, mcmd, hcmd>> /\ \A a \in Accounts : stdin'[a] \in {stdin[a], <<>>}
      BY <1>8 DEF StopAllWorkers, handlerVars
    <2> QED BY <2>1 DEF PlayInv
  <1>9. CASE UNCHANGED <<mode, mcmd, hcmd, stdin>>
    BY <1>9 DEF PlayInv
  <1>10. CASE \/ Block \/ Signal \/ Terminated \/ UNCHANGED vars
              \/ PollMiningState \/ PollChallenge \/ StartWorker \/ StartFails \/ SpawnDone \/ AwaitReady
              \/ LoopPoll \/ LoopDone \/ RetargetDone \/ Cancel \/ Wipe \/ Exit
    <2>1. UNCHANGED <<mode, mcmd, hcmd, stdin>>
      BY <1>10 DEF Block, Signal, Terminated, vars, mainVars, handlerVars, coreVars, PollMiningState,
           PollChallenge, StartWorker, StartFails, SpawnDone, AwaitReady, LoopPoll, LoopDone, RetargetDone,
           Cancel, Wipe, Exit
    <2> QED BY <1>9, <2>1
  <1>11. ASSUME NEW a \in Accounts, HandlerStep(a) PROVE PlayInv'
    <2> USE DEF HandlerFrame, Forget, Goto
    <2>0. /\ hcmd \in [Accounts -> CommandsOf(Accounts) \cup {None}] /\ None \notin CommandsOf({a})
          /\ hcmd[a] \in CommandsOf({a}) => Playable(hcmd[a])
      BY DEF IInv, HandlerInv, CommandsTyped, CommandsOf, None, PlayInv
    <2>1. CASE HSend(a)
      <3>1. /\ stdin' = stdin \/ stdin' = [stdin EXCEPT ![a] = Append(@, hcmd[a])]
            /\ hcmd' = [hcmd EXCEPT ![a] = None] /\ UNCHANGED <<mode, mcmd>>
        BY <2>1 DEF HSend
      <3>2. Playable(hcmd[a])
        BY <2>0, <2>1 DEF HSend, At, IInv, HandlerInv
      <3>3. \A b \in Accounts : \A k \in DOMAIN stdin'[b] : Playable(stdin'[b][k])
        BY <3>1, <3>2, PlaySend DEF PlayInv, IInv
      <3>4. hcmd'[a] = None /\ \A b \in Accounts \ {a} : hcmd'[b] = hcmd[b]
        BY <2>0, <3>1
      <3> QED BY <2>0, <3>1, <3>3, <3>4, Zenon DEF PlayInv
    <2>2. CASE HRestartFetch(a) /\ hpc'[a] = "send"
      <3>1. PICK v \in Views, m \in ResolvedModes(FALSE) :
              hcmd' = [hcmd EXCEPT ![a] = StartCmd(Challenge(a, v.epoch), difficulty, m)]
        BY <2>2 DEF HRestartFetch, IInv, HandlerInv
      <3>2. UNCHANGED <<mode, mcmd, stdin>>
        BY <2>2 DEF HRestartFetch
      <3>3. Playable(hcmd'[a]) /\ \A b \in Accounts \ {a} : hcmd'[b] = hcmd[b]
        BY <1>1, <1>2, <1>3, <1>4, <2>0, <3>1 DEF Modes
      <3> QED BY <3>2, <3>3 DEF PlayInv
    <2>3. CASE ~HSend(a) /\ ~(HRestartFetch(a) /\ hpc'[a] = "send")
      <3>1. hpc \in [Accounts -> {"none", "recv", "stats", "found", "pack", "sign",
                                  "broadcast", "restart", "send", "exited"}]
        BY DEF IInv, HandlerInv
      <3>2. hcmd' = hcmd \/ hcmd' = [hcmd EXCEPT ![a] = None]
        BY <1>11, <2>3, <3>1 DEF HandlerStep, HReceive, HClosed, HStats, HReject, HAccept, HPack, HSign,
             HBroadcast, HRestartFetch
      <3>3. UNCHANGED <<mode, mcmd, stdin>>
        BY <1>11, <2>3 DEF HandlerStep, HReceive, HClosed, HStats, HReject, HAccept, HPack, HSign,
             HBroadcast, HRestartFetch
      <3>4. \A b \in Accounts : hcmd'[b] = hcmd[b] \/ (b = a /\ hcmd'[b] = None)
        BY <2>0, <3>2
      <3> QED BY <2>0, <3>3, <3>4, Zenon DEF PlayInv
    <2> QED BY <2>1, <2>2, <2>3
  <1>12. ASSUME NEW a \in Accounts, CoreStep(a) PROVE PlayInv'
    <2>1. UNCHANGED <<mode, mcmd, hcmd>>
      BY <1>12 DEF CoreStep, CoreBoot, CoreTake, CoreProgress, CoreFind, CoreGpuFail, CoreDie, KillByCtx,
           CoreEof, CoreFrame, mainVars, handlerVars
    <2>2. \/ stdin' = stdin
          \/ stdin' = [stdin EXCEPT ![a] = <<>>]
          \/ stdin[a] # <<>> /\ stdin' = [stdin EXCEPT ![a] = Tail(@)]
      BY <1>12, Zenon DEF CoreStep, CoreBoot, CoreTake, CoreProgress, CoreFind, CoreGpuFail, CoreDie,
           KillByCtx, CoreEof, Dead
    <2>3. /\ stdin \in [Accounts -> Seq(CommandsOf(Accounts))]
          /\ stdin[a] \in Seq(CommandsOf({a}))
          /\ \A k \in DOMAIN stdin[a] : Playable(stdin[a][k])
      BY DEF IInv, CoreInv, StdinTyped, PlayInv
    <2>4. stdin[a] # <<>> => \A k \in DOMAIN Tail(stdin[a]) : Playable(Tail(stdin[a])[k])
      BY <2>3, PlayQueue
    <2>5. /\ stdin'[a] = stdin[a] \/ stdin'[a] = <<>> \/ (stdin[a] # <<>> /\ stdin'[a] = Tail(stdin[a]))
          /\ \A b \in Accounts \ {a} : stdin'[b] = stdin[b]
      BY <2>2, <2>3
    <2>6. \A k \in DOMAIN stdin'[a] : Playable(stdin'[a][k])
      BY <2>3, <2>4, <2>5
    <2> QED BY <2>1, <2>5, <2>6, Zenon DEF PlayInv
  <1> QED BY <1>5, <1>6, <1>7, <1>8, <1>10, <1>11, <1>12 DEF Next, MainStep

\* A pipe that was given a command is not empty.
LEMMA Given ==
  ASSUME NEW S, NEW q \in Seq(S), NEW c
  PROVE  Append(q, c) # <<>>
  <1>1. Len(Append(q, c)) = Len(q) + 1 /\ Len(q) \in Nat
    OBVIOUS
  <1> QED BY <1>1

\* A worker that a step does not touch, unless spawnWorkers comes to it or leaves it.
LEMMA AliveSame ==
  ASSUME NEW a \in Accounts, Alive(a), UNCHANGED <<core[a], hpc[a], events[a], stdin[a], job[a]>>,
         Spawning(a) => Spawning(a)',
         pc' = "await" /\ cur' = a => pc = "await" /\ cur = a
  PROVE  Alive(a)'
  BY DEF Alive, NotYet, Awaited, HasFound

\* A channel whose events are all ready lines still is, with its head taken or with one more.
LEMMA ReadyOnly ==
  ASSUME NEW S, NEW q \in Seq(S), \A k \in DOMAIN q : q[k].ev = "ready"
  PROVE  /\ q # <<>> => Head(q).ev = "ready" /\ \A k \in DOMAIN Tail(q) : Tail(q)[k].ev = "ready"
         /\ \A k \in DOMAIN Emit(q, Note("ready")) : Emit(q, Note("ready"))[k].ev = "ready"
  <1>1. ASSUME q # <<>>
        PROVE  Head(q).ev = "ready" /\ \A k \in DOMAIN Tail(q) : Tail(q)[k].ev = "ready"
    <2>1. 1 \in DOMAIN q /\ Head(q) = q[1]
      BY <1>1
    <2>2. \A k \in DOMAIN Tail(q) : k + 1 \in DOMAIN q /\ Tail(q)[k] = q[k + 1]
      BY <1>1
    <2> QED BY <2>1, <2>2
  <1>2. ASSUME NEW k \in DOMAIN Append(q, Note("ready")) PROVE Append(q, Note("ready"))[k].ev = "ready"
    <2>1. Append(q, Note("ready"))[k] = Note("ready") \/ (k \in DOMAIN q /\ Append(q, Note("ready"))[k] = q[k])
      OBVIOUS
    <2> QED BY <2>1 DEF Note
  <1> QED BY <1>1, <1>2 DEF Emit

\* The steps of a handler: it never lets go of a solution before its core has a command.
LEMMA HandlerLife ==
  ASSUME Healthy, ~ctxDone, IInv, WorkInv, NEW a \in Accounts, HandlerStep(a)
  PROVE  Alive(a)' /\ ~Ending' /\ \A b \in Accounts \ {a} : Alive(b)'
  <1> USE DEF HandlerFrame, Forget, Goto, At
  <1>1. /\ Alive(a) /\ OwnFresh(a) /\ ~Ending /\ ~wiped
        /\ \A b \in Accounts : Alive(b)
        /\ hpc \in [Accounts -> {"none", "recv", "stats", "found", "pack", "sign",
                                 "broadcast", "restart", "send", "exited"}]
        /\ events \in [Accounts -> Seq(EventsOf(Accounts))] /\ events[a] \in Seq(EventsOf({a}))
        /\ stdin \in [Accounts -> Seq(CommandsOf(Accounts))] /\ stdin[a] \in Seq(CommandsOf({a}))
    BY DEF WorkInv, LifeInv, FreshInv, IInv, EnvInv, HandlerInv, CoreInv, EventsTyped, StdinTyped
  <1>2. ~RpcErr(ctxDone) /\ PackNil = {"zero"} /\ ~VerifyBeforeSubmit
    BY DEF Healthy, RpcErr
  <1>3. /\ UNCHANGED <<pc, cur, core, job>>
        /\ hpc[a] # "none" /\ core[a] # "dead" /\ core[a] # "none"
    <2>1. UNCHANGED <<pc, cur, core, job>> /\ hpc[a] # "none"
      BY <1>1, <1>2 DEF HandlerStep, HReceive, HClosed, HStats, HReject, HAccept, HPack, HSign, HBroadcast,
           HRestartFetch, HSend
    <2> QED BY <1>1, <2>1 DEF Alive, NotYet
  <1>4. \A b \in Accounts \ {a} : UNCHANGED <<core[b], hpc[b], events[b], stdin[b], job[b]>>
    BY <1>1, <1>3 DEF HandlerStep, HReceive, HClosed, HStats, HReject, HAccept, HPack, HSign, HBroadcast,
       HRestartFetch, HSend
  <1>5. ~Ending' /\ \A b \in Accounts \ {a} : Alive(b)'
    BY <1>1, <1>3, <1>4, AliveSame DEF Ending, Spawning
  <1>6. ASSUME \/ HasFound(a)' \/ stdin'[a] # <<>>
               \/ stdin'[a] = stdin[a] /\ (HasFound(a) => HasFound(a)'),
               pc = "await" /\ cur = a => Awaited(a)'
        PROVE  Alive(a)'
    BY <1>1, <1>3, <1>6 DEF Alive, Spawning
  <1>12. pc = "await" /\ cur = a => Awaited(a)
    BY <1>1 DEF Alive
  <1>7. CASE HReceive(a)
    <2>1. /\ events[a] # <<>> /\ events'[a] = Tail(events[a]) /\ stdin'[a] = stdin[a] /\ hpc[a] = "recv"
          /\ Head(events[a]).ev = "found" => hpc'[a] = "found"
          /\ Head(events[a]).ev = "ready" => hpc'[a] = "recv"
      BY <1>1, <1>7 DEF HReceive
    <2>2. Founds(events[a]) # {} => Head(events[a]).ev = "found" \/ Founds(Tail(events[a])) # {}
      BY <1>1, <2>1, FoundTail
    <2>3. HasFound(a) => HasFound(a)'
      BY <2>1, <2>2 DEF HasFound, Founds
    <2>4. ASSUME pc = "await", cur = a PROVE Awaited(a)'
      <3>1. /\ Head(events[a]).ev = "ready" /\ \A k \in DOMAIN Tail(events[a]) : Tail(events[a])[k].ev = "ready"
            /\ stdin[a] = <<>> /\ job[a] = None
        BY <1>1, <1>12, <2>1, <2>4, ReadyOnly DEF Awaited
      <3> QED BY <1>3, <2>1, <3>1 DEF Awaited
    <2> QED BY <1>5, <1>6, <2>1, <2>3, <2>4
  <1>8. ~HClosed(a) /\ ~HReject(a)
    BY <1>1, <1>2, <1>3 DEF HClosed, Closed, HReject, LocallyValid, OwnFresh
  <1>9. CASE HStats(a)
    <2>1. UNCHANGED <<events, stdin>> /\ hpc[a] = "stats" /\ hpc'[a] = "recv"
      BY <1>1, <1>9 DEF HStats
    <2>2. HasFound(a) => HasFound(a)'
      BY <2>1 DEF HasFound
    <2>3. ~(pc = "await" /\ cur = a)
      BY <1>12, <2>1 DEF Awaited
    <2> QED BY <1>5, <1>6, <2>1, <2>2, <2>3
  <1>10. CASE HAccept(a) \/ HPack(a) \/ HSign(a) \/ HBroadcast(a) \/ HRestartFetch(a)
    <2>1. /\ hpc[a] # "recv"
          /\ hpc'[a] \in {"pack", "sign", "broadcast", "restart", "send"}
      BY <1>1, <1>2, <1>10 DEF HAccept, HPack, HSign, HBroadcast, HRestartFetch
    <2>2. HasFound(a)'
      BY <2>1 DEF HasFound
    <2>3. ~(pc = "await" /\ cur = a)
      BY <1>12, <2>1 DEF Awaited
    <2> QED BY <1>5, <1>6, <2>2, <2>3
  <1>11. CASE HSend(a)
    <2>1. stdin' = [stdin EXCEPT ![a] = Append(@, hcmd[a])] /\ hpc[a] = "send"
      BY <1>3, <1>11 DEF HSend, SendFails
    <2>2. stdin'[a] # <<>>
      BY <1>1, <2>1, Given
    <2>3. ~(pc = "await" /\ cur = a)
      BY <1>12, <2>1 DEF Awaited
    <2> QED BY <1>5, <1>6, <2>2, <2>3
  <1> QED BY <1>5, <1>7, <1>8, <1>9, <1>10, <1>11 DEF HandlerStep

\* The steps of a core: it gives up its run for another one, or for a solution.
LEMMA CoreLife ==
  ASSUME Healthy, Room, ~ctxDone, IInv, WorkInv, NEW a \in Accounts, CoreStep(a)
  PROVE  Alive(a)' /\ ~Ending' /\ (\A b \in Accounts \ {a} : Alive(b)') /\ core[a] # "none"
  <1>1. /\ Alive(a) /\ ~Ending /\ \A b \in Accounts : Alive(b)
        /\ events \in [Accounts -> Seq(EventsOf(Accounts))] /\ events[a] \in Seq(EventsOf({a}))
        /\ stdin \in [Accounts -> Seq(CommandsOf(Accounts))] /\ stdin[a] \in Seq(CommandsOf({a}))
        /\ core \in [Accounts -> {"none", "boot", "up", "dead"}]
        /\ job \in [Accounts -> JobsOf(Accounts) \cup {None}] /\ job[a] \in JobsOf({a}) \cup {None}
    BY DEF WorkInv, LifeInv, IInv, CoreInv, EventsTyped, StdinTyped, JobsTyped
  <1>2. ~CoreDie(a) /\ ~KillByCtx(a) /\ ~CoreEof(a) /\ ~CoreGpuFail(a)
    BY <1>1 DEF Healthy, CoreDie, KillByCtx, CoreEof, CoreGpuFail, Ending, Running
  <1>3. UNCHANGED <<pc, cur, hpc>> /\ core[a] \in {"boot", "up"}
    BY <1>2 DEF CoreStep, CoreBoot, CoreTake, CoreProgress, CoreFind, CoreFrame, mainVars, handlerVars
  <1>4. /\ \A b \in Accounts \ {a} : UNCHANGED <<core[b], stdin[b], job[b]>>
        /\ core'[a] = "up"
    BY <1>1, <1>2 DEF CoreStep, CoreBoot, CoreTake, CoreProgress, CoreFind
  <1>5. \A b \in Accounts \ {a} : events'[b] = events[b]
    <2>1. \E r : events' = [events EXCEPT ![a] = r]
      BY <1>2, Zenon DEF CoreStep, CoreBoot, CoreTake, CoreProgress, CoreFind, Write
    <2> QED BY <1>1, <2>1
  <1>6. ~Ending' /\ \A b \in Accounts \ {a} : Alive(b)'
    BY <1>1, <1>3, <1>4, <1>5, AliveSame DEF Ending, Spawning
  <1>7. ASSUME \/ job'[a] # None \/ HasFound(a)'
               \/ stdin'[a] = stdin[a] /\ job'[a] = job[a] /\ (HasFound(a) => HasFound(a)'),
               pc = "await" /\ cur = a => Awaited(a)'
        PROVE  Alive(a)'
    BY <1>1, <1>3, <1>4, <1>7 DEF Alive, Spawning
  <1>12. pc = "await" /\ cur = a => Awaited(a)
    BY <1>1 DEF Alive
  <1>8. CASE CoreBoot(a)
    <2>1. events'[a] = Emit(events[a], Note("ready")) /\ UNCHANGED <<stdin, job>>
      BY <1>1, <1>8 DEF CoreBoot, Write
    <2>2. Note("ready") \in EventsOf({a})
      BY NoteType
    <2>3. Founds(events[a]) # {} => Founds(Emit(events[a], Note("ready"))) # {}
      BY <1>1, <2>2, FoundEmit
    <2>4. HasFound(a) => HasFound(a)'
      BY <1>3, <2>1, <2>3 DEF HasFound, Founds
    <2>5. ASSUME pc = "await", cur = a PROVE Awaited(a)'
      <3>1. /\ \A k \in DOMAIN Emit(events[a], Note("ready")) : Emit(events[a], Note("ready"))[k].ev = "ready"
            /\ stdin[a] = <<>> /\ job[a] = None /\ hpc[a] = "recv"
        BY <1>1, <1>12, <2>5, ReadyOnly DEF Awaited
      <3> QED BY <1>3, <2>1, <3>1 DEF Awaited
    <2>6. UNCHANGED <<stdin[a], job[a]>>
      BY <2>1
    <2> QED BY <1>3, <1>6, <1>7, <2>4, <2>5, <2>6
  <1>9. CASE CoreTake(a)
    <2>1. Playable(Head(stdin[a])) /\ stdin[a] # <<>>
      BY <1>1, <1>9, PlayQueue DEF CoreTake, WorkInv, PlayInv
    <2>2. ~(Head(stdin[a]).cmd # "retarget" /\ Head(stdin[a]).mode = "gpu" /\ ~HasGPU)
      BY <1>1, <2>1 DEF Playable, CommandsOf
    <2>3. PICK j : job' = [job EXCEPT ![a] = j] /\ j # None
      BY <1>9, <2>2 DEF CoreTake, None
    <2>4. job'[a] # None
      BY <1>1, <2>3
    <2>5. ~(pc = "await" /\ cur = a)
      BY <1>12, <2>1 DEF Awaited
    <2> QED BY <1>3, <1>6, <1>7, <2>4, <2>5
  <1>10. CASE CoreProgress(a)
    <2>1. job[a] # None /\ UNCHANGED job
      BY <1>10 DEF CoreProgress
    <2>2. ~(pc = "await" /\ cur = a)
      BY <1>12, <2>1 DEF Awaited
    <2> QED BY <1>3, <1>6, <1>7, <2>1, <2>2
  <1>11. CASE CoreFind(a)
    <2>1. PICK n \in Nonces, h \in Hashes :
            events'[a] = Emit(events[a], Found([nonce |-> n, ch |-> job[a].ch, hash |-> h]))
      BY <1>1, <1>11 DEF CoreFind, Write
    <2> DEFINE e == Found([nonce |-> n, ch |-> job[a].ch, hash |-> h])
    <2>2. e \in EventsOf({a}) /\ e.ev = "found" /\ job[a] # None
      BY <1>1, <1>11 DEF CoreFind, Found, EventsOf, SolutionsOf, JobsOf
    <2> HIDE DEF e
    <2>3. Founds(Emit(events[a], e)) # {}
      BY <1>1, <2>2, FoundEmit DEF Room
    <2>4. HasFound(a)'
      BY <2>1, <2>3 DEF HasFound, Founds, e
    <2>5. ~(pc = "await" /\ cur = a)
      BY <1>12, <2>2 DEF Awaited
    <2> QED BY <1>3, <1>6, <1>7, <2>4, <2>5
  <1> QED BY <1>2, <1>3, <1>6, <1>8, <1>9, <1>10, <1>11 DEF CoreStep

\* The steps of the main goroutine: it does not leave a worker without its first job.
LEMMA MainLife ==
  ASSUME Healthy, ~ctxDone, ~ctxDone', IInv, WorkInv, MainStep
  PROVE  LifeInv'
  <1>1. /\ ~Ending /\ \A b \in Accounts : Alive(b)
        /\ \A b \in Accounts : b > workers => core[b] = "none"
    BY DEF WorkInv, LifeInv
  <1>2. /\ pc \in {"start", "await", "job", "jobsend", "rsend"} /\ cur <= NumAccounts => cur \in Accounts
        /\ pc \in {"await", "job", "jobsend", "rsend"} => cur \in Accounts
        /\ cur \in Int /\ workers \in Int
    BY DEF IInv, MainInv, Accounts
  <1>3. ~RpcErr(ctxDone) /\ ~CoreFails
    BY DEF Healthy, RpcErr
  <1>4. /\ events \in [Accounts -> Seq(EventsOf(Accounts))]
        /\ stdin \in [Accounts -> Seq(CommandsOf(Accounts))]
        /\ core \in [Accounts -> {"none", "boot", "up", "dead"}]
        /\ hpc \in [Accounts -> {"none", "recv", "stats", "found", "pack", "sign",
                                 "broadcast", "restart", "send", "exited"}]
    BY DEF IInv, CoreInv, EventsTyped, StdinTyped, HandlerInv
  <1>5. CASE \/ PollMiningState \/ PollChallenge \/ ResolveMode \/ SpawnDone \/ LoopPoll \/ RetargetFetch
             \/ RetargetDone
    <2>1. /\ UNCHANGED <<core, hpc, events, stdin, job, workers>>
          /\ pc \notin {"await", "job", "jobsend"} /\ pc' \notin {"await", "job", "jobsend"} /\ ~Ending'
      BY <1>3, <1>5 DEF PollMiningState, PollChallenge, ResolveMode, SpawnDone, LoopPoll, RetargetFetch,
           RetargetDone, coreVars, handlerVars, Ending
    <2> QED BY <1>1, <2>1, AliveSame DEF LifeInv, Spawning
  <1>6. CASE SpawnFetch
    <2>1. /\ UNCHANGED <<core, hpc, events, stdin, job, workers, cur>>
          /\ pc' = "jobsend" /\ pc = "job"
      BY <1>3, <1>6 DEF SpawnFetch, coreVars, handlerVars
    <2> QED BY <1>1, <2>1, AliveSame DEF LifeInv, Spawning, Ending
  <1>7. CASE StartWorker
    <2>1. PICK a \in Accounts : a = cur
      BY <1>2, <1>7 DEF StartWorker
    <2>2. a > workers /\ workers' = a /\ pc = "start" /\ pc' = "await" /\ cur' = a
      BY <1>2, <1>7, <2>1 DEF StartWorker, WorkInv, SlotInv
    <2>3. /\ core' = [core EXCEPT ![a] = "boot"] /\ hpc' = [hpc EXCEPT ![a] = "recv"]
          /\ UNCHANGED <<events, stdin, job>>
      BY <1>7, <2>1 DEF StartWorker
    <2>4. core'[a] = "boot" /\ hpc'[a] = "recv" /\ \A b \in Accounts \ {a} : UNCHANGED <<core[b], hpc[b]>>
      BY <1>4, <2>3
    <2>5. NotYet(a)
      BY <1>1, <2>2 DEF Alive
    <2>6. Awaited(a)'
      BY <2>3, <2>4, <2>5 DEF Awaited, NotYet
    <2>7. Alive(a)'
      BY <2>2, <2>4, <2>6 DEF Alive, Spawning
    <2>8. \A b \in Accounts \ {a} : Alive(b)'
      BY <1>1, <2>1, <2>2, <2>3, <2>4, AliveSame DEF Spawning
    <2>9. \A b \in Accounts : b > workers' => core'[b] = "none"
      BY <1>1, <1>2, <2>2, <2>4 DEF Accounts
    <2> QED BY <2>2, <2>7, <2>8, <2>9 DEF LifeInv, Ending
  <1>8. CASE AwaitReady
    <2>1. PICK a \in Accounts : a = cur
      BY <1>2, <1>8 DEF AwaitReady
    <2>2. pc = "await" /\ core[a] # "dead" /\ Awaited(a) /\ Alive(a)
      BY <1>1, <1>8, <2>1 DEF Alive, AwaitReady
    <2>3. /\ events[a] # <<>> /\ events' = [events EXCEPT ![a] = Tail(@)]
          /\ pc' = IF Head(events[a]).ev = "ready" THEN "job" ELSE "cancel"
          /\ UNCHANGED <<cur, workers, core, hpc, stdin, job>>
      BY <1>8, <2>1, <2>2 DEF AwaitReady, Closed, handlerVars
    <2>4. pc' = "job"
      BY <1>4, <2>2, <2>3, ReadyOnly DEF Awaited
    <2>5. Alive(a)'
      BY <2>1, <2>2, <2>3, <2>4 DEF Alive, Spawning, NotYet, Awaited
    <2>6. \A b \in Accounts \ {a} : events'[b] = events[b]
      BY <1>4, <2>3
    <2>7. \A b \in Accounts \ {a} : Alive(b)'
      BY <1>1, <2>1, <2>3, <2>4, <2>6, AliveSame DEF Spawning
    <2> QED BY <1>1, <2>3, <2>4, <2>5, <2>7 DEF LifeInv, Ending
  <1>9. CASE SpawnSend \/ RetargetSend
    <2>1. PICK a \in Accounts : a = cur
      BY <1>2, <1>9 DEF SpawnSend, RetargetSend
    <2>2. a <= workers /\ core[a] # "none" /\ core[a] # "dead"
      BY <1>1, <1>2, <1>9, <2>1 DEF SpawnSend, RetargetSend, WorkInv, SlotInv, Alive
    <2>3. /\ stdin' = [stdin EXCEPT ![a] = Append(@, mcmd)]
          /\ pc \in {"jobsend", "rsend"} /\ pc' \in {"start", "retarget"}
          /\ UNCHANGED <<workers, core, hpc, events, job>>
      BY <1>9, <2>1, <2>2 DEF SpawnSend, RetargetSend, SendFails, handlerVars
    <2>4. stdin'[a] # <<>> /\ \A b \in Accounts \ {a} : stdin'[b] = stdin[b]
      BY <1>4, <2>3, Given
    <2>5. Alive(a)'
      BY <2>2, <2>3, <2>4 DEF Alive
    <2>6. \A b \in Accounts \ {a} : Alive(b)'
      BY <1>1, <2>1, <2>3, <2>4, AliveSame DEF Spawning
    <2> QED BY <1>1, <2>3, <2>5, <2>6 DEF LifeInv, Ending
  <1>10. ~StartFails /\ ~LoopDone /\ ~StopAllWorkers /\ ~Cancel /\ ~Wipe /\ ~Exit
    BY <1>1, <1>3 DEF StartFails, LoopDone, StopAllWorkers, Cancel, Wipe, Exit, Ending
  <1> QED BY <1>5, <1>6, <1>7, <1>8, <1>9, <1>10 DEF MainStep

\* No step leaves a core without work, or ends Run, while the context is alive.
LEMMA LifeKept ==
  ASSUME Healthy, Room, IInv, WorkInv, [Next]_vars
  PROVE  LifeInv'
  <1> SUFFICES ASSUME ~ctxDone' PROVE LifeInv'
    BY DEF LifeInv
  <1>1. CASE Block \/ Terminated \/ UNCHANGED vars
    BY <1>1 DEF Block, Terminated, vars, procVars, mainVars, handlerVars, coreVars, WorkInv, LifeInv, Ending,
       Alive, NotYet, Awaited, Spawning, HasFound
  <1>2. CASE Signal
    BY <1>2 DEF Signal
  <1>3. CASE MainStep
    <2>1. ctxDone' = ctxDone \/ ctxDone'
      BY <1>3, Zenon DEF MainStep, PollMiningState, PollChallenge, ResolveMode, StartWorker, StartFails,
         SpawnDone, AwaitReady, SpawnFetch, SpawnSend, LoopPoll, LoopDone, RetargetFetch, RetargetSend,
         RetargetDone, StopAllWorkers, Cancel, Wipe, Exit, procVars
    <2> QED BY <1>3, <2>1, MainLife
  <1>4. ASSUME NEW a \in Accounts, HandlerStep(a) PROVE LifeInv'
    <2>1. ctxDone' = ctxDone /\ core' = core /\ workers' = workers
      BY <1>4, Zenon DEF HandlerStep, HReceive, HClosed, HStats, HReject, HAccept, HPack, HSign, HBroadcast,
         HRestartFetch, HSend, HandlerFrame, procVars
    <2> QED BY <1>4, <2>1, HandlerLife DEF WorkInv, LifeInv
  <1>5. ASSUME NEW a \in Accounts, CoreStep(a) PROVE LifeInv'
    <2>1. ctxDone' = ctxDone /\ workers' = workers
      BY <1>5 DEF CoreStep, CoreBoot, CoreTake, CoreProgress, CoreFind, CoreGpuFail, CoreDie, KillByCtx,
         CoreEof, CoreFrame, procVars, mainVars
    <2>2. \A b \in Accounts \ {a} : core'[b] = core[b]
      BY <1>5 DEF CoreStep, CoreBoot, CoreTake, CoreProgress, CoreFind, CoreGpuFail, CoreDie, KillByCtx,
         CoreEof, Dead, IInv, CoreInv
    <2> QED BY <1>5, <2>1, <2>2, CoreLife DEF WorkInv, LifeInv
  <1> QED BY <1>1, <1>2, <1>3, <1>4, <1>5 DEF Next

\* When RPCs answer, cores run and no channel overflows, Run goes on until its context is cancelled, and
\* no core is forgotten: one without a job has spawnWorkers at it, or its command or its solution on the way,
\* however polls, retargets, finds and restarts interleave (spawnWorkers, retargetAll, onFound, startJob).
THEOREM NoCoreIsForgotten ==
  ASSUME Healthy
  PROVE  Spec /\ []Room => [](RunGoesOn /\ IdleForAReason)
  <1>1. Init => WorkInv
    <2> SUFFICES ASSUME Init PROVE WorkInv
      OBVIOUS
    <2>1. SlotInv
      BY DEF Init, SlotInv, Accounts
    <2>2. FreshInv
      BY InitFresh
    <2>3. PlayInv
      <3>1. /\ mode = "cpu" /\ mcmd = None
            /\ \A a \in Accounts : hcmd[a] = None /\ stdin[a] = <<>>
        BY DEF Init
      <3>2. None \notin CommandsOf(Accounts) /\ \A a \in Accounts : None \notin CommandsOf({a})
        BY DEF CommandsOf, None
      <3> QED BY <3>1, <3>2 DEF PlayInv
    <2>4. LifeInv
      BY DEF Init, LifeInv, Ending, Alive, NotYet
    <2> QED BY <2>1, <2>2, <2>3, <2>4 DEF WorkInv
  <1>2. IInv /\ WorkInv /\ Room /\ [Next]_vars => WorkInv'
    <2> SUFFICES ASSUME IInv, WorkInv, Room, [Next]_vars PROVE WorkInv'
      OBVIOUS
    <2>1. SlotInv' /\ FreshInv' /\ PlayInv'
      BY SlotsKept, FreshKept, PlayKept DEF WorkInv, Healthy
    <2>2. LifeInv'
      BY LifeKept
    <2> QED BY <2>1, <2>2 DEF WorkInv
  <1>3. WorkInv => RunGoesOn /\ IdleForAReason
    BY DEF WorkInv, LifeInv, Alive, RunGoesOn, IdleForAReason
  <1> QED BY <1>1, <1>2, <1>3, Invariance, PTL DEF Spec
=============================================================================
