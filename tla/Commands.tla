------------------------------ MODULE Commands ------------------------------
(***************************************************************************)
(* The commands of the program (internal/cli) over the wallet files:       *)
(* `wallet init`, `wallet list`, `wallet balance`, `mine start` up to and  *)
(* after Engine.Run, and `mine status` (`chain state`), from reading the   *)
(* configuration to the last deferred call.                                *)
(***************************************************************************)
EXTENDS WalletStore, FiniteSets

CONSTANTS
  RawConfigs,  \* what the configuration file may say
  MaxReaders   \* bound: commands other than init that run at a time

\* Any other word of the file is "other".
Configs ==
  [miner : {"", "auto", "cpu", "gpu", "other"}, mode : {"", "single", "multi", "other"},
   accounts : Int, endpoints : Nat, submit : Nat, poll : Int]

ASSUME RawConfigsAssumption == RawConfigs \subseteq Configs

vars == <<storeVars, pc, loc>>

Init ==
  /\ file = [k \in Kinds |-> Absent]
  /\ known = {} /\ told = {} /\ givenUp = {}
  /\ pc = [p \in Procs |-> "idle"]
  /\ loc = [p \in Procs |-> NewLocals("init", None)]

-----------------------------------------------------------------------------
(* Start of a process. *)

RunWalletInit(p) ==
  /\ pc[p] = "idle"
  /\ \E k \in Kinds, n \in BOOLEAN :
       loc' = [loc EXCEPT ![p] = [NewLocals("init", None) EXCEPT !.kind = k, !.new = n]]
  /\ Goto(p, "stat")
  /\ UNCHANGED storeVars

RunCommand(p) ==
  /\ pc[p] = "idle"
  /\ Cardinality({q \in Procs : loc[q].cmd # "init"}) < MaxReaders
  /\ \E c \in {"list", "balance", "start", "status"}, raw \in RawConfigs :
       loc' = [loc EXCEPT ![p] = NewLocals(c, raw)]
  /\ Goto(p, "config")
  /\ UNCHANGED storeVars

-----------------------------------------------------------------------------
(* Configuration. *)

\* mutant: the wallet mode is not validated
AcceptedAnyMode(c) == c.miner \in {"", "auto", "cpu", "gpu"} /\ c.endpoints # 0

Accepted(c) ==
  /\ c.miner \in {"", "auto", "cpu", "gpu"}
  /\ c.endpoints # 0
  /\ c.mode \in {"", "single", "multi"}

\* applyDefaults replaces what is zero or empty, and only that.
Default(x, zero, default) == IF x = zero THEN default ELSE x
WithDefaults(c) ==
  [miner |-> Default(c.miner, "", "auto"), mode |-> Default(c.mode, "", "single"),
   accounts |-> Default(c.accounts, 0, 5), endpoints |-> c.endpoints, submit |-> c.submit,
   poll |-> Default(c.poll, 0, 9000)]

\* A step that fails goes to the deferred calls, as one that was the last does.
Leave(p) == Goto(p, "return") /\ UNCHANGED loc

LoadConfig(p) ==
  LET c == loc[p].cfg IN
  /\ pc[p] = "config"
  /\ \/ Leave(p)
     \/ /\ Accepted(c)
        /\ loc' = [loc EXCEPT ![p].cfg = WithDefaults(c)]
        /\ Goto(p, CASE loc[p].cmd = "list" -> "peek"
                     [] loc[p].cmd = "status" -> "connect"
                     [] OTHER -> "unlock")
  /\ UNCHANGED storeVars

-----------------------------------------------------------------------------
(* Wallets. *)

\* A file that is torn does not parse, and its MAC would not match.
Parses(c) == c.state = "whole"

\* The address field of a key file, without decrypting it.
PeekKeystoreAddress(c) == IF Parses(c) THEN {c.secret} ELSE {}

List(p) ==
  /\ pc[p] = "peek"
  /\ told' = told \cup
       (IF loc[p].cfg.mode = "single" THEN PeekKeystoreAddress(file["single"]) ELSE {})
  /\ Leave(p)
  /\ UNCHANGED <<file, known, givenUp>>

\* PassphraseSource.Resolve: environment, file or terminal.
ResolvePassphrase(p) ==
  /\ pc[p] = "unlock"
  /\ \/ Leave(p)
     \/ Goto(p, "load") /\ UNCHANGED loc
  /\ UNCHANGED storeVars

\* mutant: LoadMulti without its check of the count
CountUnchecked(c) == IF c.mode = "single" THEN 1 ELSE c.accounts

\* LoadSingle gives one account, LoadMulti as many as it is told to derive.
CountOf(c) == IF c.mode = "single" THEN 1 ELSE IF c.accounts <= 0 THEN 0 ELSE c.accounts

LoadWallet(p) ==
  LET c == loc[p].cfg IN
  /\ pc[p] = "load"
  /\ IF c.mode \in Kinds
     \* the passphrase may be wrong
     THEN \/ Leave(p)
          \/ /\ CountOf(c) # 0 /\ Parses(file[c.mode])
             /\ loc' = [loc EXCEPT ![p].key = "live", ![p].secret = file[c.mode].secret,
                                   ![p].count = CountOf(c), ![p].defers = <<"wipe">> \o @]
             /\ Goto(p, "connect")
     ELSE Goto(p, IF loc[p].cmd = "start" THEN "return" ELSE "connect") /\ UNCHANGED loc
  /\ UNCHANGED storeVars

-----------------------------------------------------------------------------
(* Connections, and what the commands do with them. *)

Connect(p) ==
  /\ pc[p] = "connect"
  /\ \/ Leave(p)
     \/ loc' = [loc EXCEPT ![p].open = @ \cup {"client"}] /\ Goto(p, "abi")
  /\ UNCHANGED storeVars

\* buildChain forgets its client when the ABI does not load: nobody closes it.
LoadABI(p) ==
  /\ pc[p] = "abi"
  /\ \/ Goto(p, "return") /\ loc' = [loc EXCEPT ![p].open = {"forgotten"}]
     \/ /\ loc' = [loc EXCEPT ![p].defers = <<"close">> \o @]
        /\ Goto(p, CASE loc[p].cmd = "start" -> "submit"
                     [] loc[p].cmd = "balance" -> "query"
                     [] OTHER -> "snapshot")
  /\ UNCHANGED storeVars

BuildSubmitClient(p) ==
  /\ pc[p] = "submit"
  /\ \/ loc[p].cfg.submit = 0 /\ Goto(p, "core") /\ UNCHANGED loc
     \/ loc[p].cfg.submit # 0 /\ Leave(p)
     \/ /\ loc[p].cfg.submit # 0
        /\ loc' = [loc EXCEPT ![p].open = @ \cup {"submit"}, ![p].defers = <<"closeSubmit">> \o @]
        /\ Goto(p, "core")
  /\ UNCHANGED storeVars

\* From here on a signal cancels the context instead of killing the process.
ResolveCoreBinary(p) ==
  /\ pc[p] = "core"
  /\ \/ Leave(p)
     \/ loc' = [loc EXCEPT ![p].defers = <<"cancel">> \o @] /\ Goto(p, "run")
  /\ UNCHANGED storeVars

\* Engine.Run: the first poll or the spawn may fail; a ticker with a period that is not
\* positive panics, and a panic runs the deferred calls too.
StartEngine(p) ==
  /\ pc[p] = "run"
  /\ \/ Leave(p) /\ UNCHANGED told
     \/ /\ loc[p].cfg.poll > 0
        /\ told' = told \cup {loc[p].secret} /\ Goto(p, "engine") /\ UNCHANGED loc
  /\ UNCHANGED <<file, known, givenUp>>

StopEngine(p) == pc[p] = "engine" /\ Leave(p) /\ UNCHANGED storeVars

\* Addresses are printed with their balance, or with the error of reading it.
Balance(p) ==
  /\ pc[p] = "query"
  /\ told' = told \cup {loc[p].secret}
  /\ Leave(p)
  /\ UNCHANGED <<file, known, givenUp>>

Status(p) == pc[p] = "snapshot" /\ Leave(p) /\ UNCHANGED storeVars

-----------------------------------------------------------------------------
(* The end of a process. *)

\* mutant: the deferred calls in the order in which they were deferred
UnwindFifo(p) ==
  LET d == loc[p].defers IN
  /\ pc[p] = "return" /\ d # <<>>
  /\ loc' = [loc EXCEPT
       ![p].defers = SubSeq(d, 1, Len(d) - 1),
       ![p].key = IF d[Len(d)] = "wipe" THEN "wiped" ELSE @,
       ![p].open = CASE d[Len(d)] = "close" -> @ \ {"client"}
                     [] d[Len(d)] = "closeSubmit" -> @ \ {"submit"} [] OTHER -> @]
  /\ UNCHANGED <<storeVars, pc>>

\* Deferred calls run last in, first out: Wipe, Client.Close, or the cancellation.
Unwind(p) ==
  LET d == loc[p].defers IN
  /\ pc[p] = "return" /\ d # <<>>
  /\ loc' = [loc EXCEPT
       ![p].defers = Tail(d),
       ![p].key = IF Head(d) = "wipe" THEN "wiped" ELSE @,
       ![p].open = CASE Head(d) = "close" -> @ \ {"client"}
                     [] Head(d) = "closeSubmit" -> @ \ {"submit"} [] OTHER -> @]
  /\ UNCHANGED <<storeVars, pc>>

Exit(p) == pc[p] = "return" /\ loc[p].defers = <<>> /\ Goto(p, "exited") /\ UNCHANGED <<storeVars, loc>>

\* The process is gone: it returned, was killed by a signal it does not handle, or crashed.
Gone(p) == pc[p] # "idle" /\ Quit(p) /\ UNCHANGED storeVars

CommandStep(p) ==
  \/ LoadConfig(p) \/ List(p) \/ ResolvePassphrase(p) \/ LoadWallet(p) \/ Connect(p)
  \/ LoadABI(p) \/ BuildSubmitClient(p) \/ ResolveCoreBinary(p) \/ StartEngine(p)
  \/ StopEngine(p) \/ Balance(p) \/ Status(p) \/ Unwind(p) \/ Exit(p)

Next ==
  \E p \in Procs :
    RunWalletInit(p) \/ RunCommand(p) \/ InitStep(p) \/ CommandStep(p) \/ Gone(p)

Spec == Init /\ [][Next]_vars

-----------------------------------------------------------------------------
(* Properties. *)

Labels ==
  {"idle", "stat", "overwrite", "secret", "show", "count", "pass", "write", "writing", "tell",
   "config", "peek", "unlock", "load", "connect", "abi", "submit", "core", "run", "engine",
   "query", "snapshot", "return", "exited"}
Locals ==
  [cmd : {"init", "list", "balance", "start", "status"},
   cfg : {None} \cup Configs,
   kind : Kinds, new : BOOLEAN, secret : Secrets \cup {None}, looked : Secrets \cup {None},
   agreed : BOOLEAN, key : {"none", "live", "wiped"},
   count : Int, open : SUBSET {"client", "submit", "forgotten"},
   defers : Seq({"wipe", "close", "closeSubmit", "cancel"})]

TypeOK ==
  /\ file \in [Kinds -> Contents]
  /\ known \in SUBSET Secrets /\ told \in SUBSET Secrets
  /\ givenUp \in SUBSET Secrets
  /\ pc \in [Procs -> Labels]
  /\ loc \in [Procs -> Locals]

OnDisk(s) == \E k \in Kinds : file[k].state = "whole" /\ file[k].secret = s

\* No key is lost behind the user's back: whatever the order of the commands, and wherever a
\* process is killed, a secret whose address the user was told (by init, list or balance, or
\* because it mines) is in the user's hands or whole on disk, unless the user agreed to
\* overwrite it or another init had looked for the file before it was there.  In particular
\* every init saves (or shows) before it tells.
KeyRecoverable == \A s \in told : s \in known \cup givenUp \/ OnDisk(s)

\* Keys are wiped after the last use anything could make of them, and never left behind: a
\* process whose keys are wiped has no connection to sign for, and one that has ended by
\* returning (not killed) has neither live keys nor a connection that a deferred call closes.
WipedLast ==
  \A p \in Procs :
    /\ loc[p].key = "wiped" => loc[p].open \cap {"client", "submit"} = {}
    /\ pc[p] = "exited" => loc[p].key # "live" /\ loc[p].open \cap {"client", "submit"} = {}

\* Whatever the configuration file says, an engine or a balance query that runs has unlocked
\* keys, at least one account and a client, and a private endpoint if one is configured.
EngineIsEquipped ==
  \A p \in Procs :
    pc[p] \in {"engine", "query"} =>
      /\ loc[p].key = "live" /\ loc[p].count >= 1 /\ loc[p].secret \in Secrets
      /\ "client" \in loc[p].open
      /\ pc[p] = "engine" /\ loc[p].cfg.submit > 0 => "submit" \in loc[p].open

=============================================================================
