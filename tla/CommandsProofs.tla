--------------------------- MODULE CommandsProofs ---------------------------
(***************************************************************************)
(* The commands over the wallet files, for any number of processes,        *)
(* secrets and configuration files: no key is lost behind the user's back, *)
(* keys are wiped last, and what runs is equipped.                         *)
(***************************************************************************)
EXTENDS Commands, SequenceTheorems, TLAPS

Safe(s) == s \in known \cup givenUp \/ OnDisk(s)

Calls == {"wipe", "close", "closeSubmit", "cancel"}

\* The file of a kind holds a secret exactly when it is whole.
FilesOK == \A k \in Kinds : file[k].state = "whole" <=> file[k].secret # None

\* What an init knows of its secret, and that it asked about what it saw.
InitOK(l, at) ==
  at \in InitLabels =>
    /\ l.cmd = "init" /\ l.key = "none" /\ l.open = {} /\ l.defers = <<>>
    /\ at \in {"show", "count", "write", "writing", "tell"} => l.secret # None
    /\ at \notin {"stat", "overwrite"} /\ l.looked # None => l.agreed
    /\ /\ at \in {"count", "pass", "write", "writing", "tell"} /\ l.secret # None
       /\ ~l.new \/ l.kind = "multi"
       => l.secret \in known

\* The stacks of deferred calls that occur.
W == <<"wipe">> \o <<>>
C == <<"close">> \o <<>>
CW == <<"close">> \o W
SCW == <<"closeSubmit">> \o CW
XCW == <<"cancel">> \o CW
XSCW == <<"cancel">> \o SCW

\* Which deferred calls wait for which resources, between two stages of a command.
Stacked(l) ==
  \/ l.defers = <<>> /\ l.key # "live" /\ l.open \cap {"client", "submit"} = {}
  \/ l.defers = W /\ l.key = "live" /\ l.open \cap {"client", "submit"} = {}
  \/ l.defers = C /\ l.key = "none" /\ l.open = {"client"}
  \/ l.defers \in {CW, XCW} /\ l.key = "live" /\ l.open = {"client"}
  \/ l.defers \in {SCW, XSCW} /\ l.key = "live" /\ l.open = {"client", "submit"}

Bare(l) == l.defers = <<>> /\ l.key = "none" /\ l.open = {}
Unlocked(l) == l.key = "live" /\ l.count >= 1 /\ l.secret # None
Private(l) == l.cfg.submit # 0 => l.open = {"client", "submit"}

\* What a command has at each stage.
StageOK(l, at) ==
  /\ at \in {"config", "peek", "unlock", "load"} => Bare(l)
  /\ at = "load" => l.cfg.mode \in Kinds
  /\ at = "unlock" => l.cfg.mode \in Kinds
  /\ at \in {"unlock", "load", "query"} => l.cmd \in {"start", "balance"}
  /\ at = "query" => l.cmd = "balance"
  /\ at \in {"connect", "abi"} => l.cmd \in {"start", "balance", "status"}
  /\ at \in {"submit", "core", "run", "engine"} => l.cmd = "start"
  /\ at \in {"connect", "abi"} /\ l.cmd = "status" => l.defers = <<>> /\ l.key = "none"
  /\ at \in {"connect", "abi"} /\ l.cmd # "status" => l.defers = W /\ Unlocked(l)
  /\ at = "connect" => l.open = {}
  /\ at = "abi" => l.open = {"client"}
  /\ at \in {"submit", "query"} => l.defers = CW /\ Unlocked(l)
  /\ at = "snapshot" => l.defers = C
  /\ at = "core" => l.defers \in {CW, SCW}
  /\ at \in {"run", "engine"} => l.defers \in {XCW, XSCW}
  /\ at \in {"core", "run", "engine"} => Unlocked(l) /\ Private(l)
  /\ at = "exited" => l.defers = <<>>
  /\ at # "abi" => Stacked(l)

CommandOK(l, at) ==
  at \notin InitLabels \cup {"idle"} =>
    /\ l.cmd # "init" /\ l.cfg \in Configs
    /\ l.secret # None => Safe(l.secret)
    /\ StageOK(l, at)

OwnOK(p) ==
  /\ pc[p] = "idle" => loc[p] = NewLocals("init", None)
  /\ InitOK(loc[p], pc[p])
  /\ CommandOK(loc[p], pc[p])

IInv ==
  /\ TypeOK
  /\ FilesOK
  /\ KeyRecoverable
  /\ \A p \in Procs : OwnOK(p)

-----------------------------------------------------------------------------
(* The initial state, and what the invariant says. *)

\* The invariant holds before any process has started.
LEMMA InitIInv == Init => IInv
  BY NoneAssumption, SMTT(30)
  DEF Init, IInv, TypeOK, FilesOK, KeyRecoverable, OwnOK, InitOK, CommandOK, NewLocals, Locals,
      Labels, InitLabels, Kinds, Contents, Absent, OnDisk

LEMMA HeadTail ==
  ASSUME NEW S, NEW a \in S, NEW s \in Seq(S)
  PROVE  /\ <<a>> \o s \in Seq(S) /\ <<a>> \o s # <<>>
         /\ Head(<<a>> \o s) = a /\ Tail(<<a>> \o s) = s
<1> DEFINE c == <<a>>
           t == c \o s
<1>1. c \in Seq(S) /\ Len(c) = 1 /\ c[1] = a
  OBVIOUS
<1> HIDE DEF c
<1>2. /\ t \in Seq(S) /\ Len(t) = Len(c) + Len(s)
      /\ \A i \in 1 .. Len(c) + Len(s) : t[i] = IF i <= Len(c) THEN c[i] ELSE s[i - Len(c)]
  BY <1>1, ConcatProperties, Zenon
<1> HIDE DEF t
<1>3. /\ t \in Seq(S) /\ Len(t) = 1 + Len(s)
      /\ \A i \in 1 .. 1 + Len(s) : t[i] = IF i <= 1 THEN c[i] ELSE s[i - 1]
  BY <1>1, <1>2
<1>4. Head(t) = a /\ t # <<>>
  BY <1>1, <1>3
<1>5. /\ Tail(t) \in Seq(S) /\ Len(Tail(t)) = Len(s)
      /\ \A i \in 1 .. Len(s) : Tail(t)[i] = s[i]
  BY <1>3, <1>4
<1>6. Tail(t) = s
  BY <1>5, SeqEqual
<1> QED
  BY <1>3, <1>4, <1>6 DEF t, c

\* The stacks are sequences, none is empty, and what each leaves when its first call is done.
LEMMA Stacks ==
  /\ \A s \in {W, C, CW, SCW, XCW, XSCW} : s \in Seq(Calls) /\ s # <<>>
  /\ Head(W) = "wipe" /\ Tail(W) = <<>>
  /\ Head(C) = "close" /\ Tail(C) = <<>>
  /\ Head(CW) = "close" /\ Tail(CW) = W
  /\ Head(SCW) = "closeSubmit" /\ Tail(SCW) = CW
  /\ Head(XCW) = "cancel" /\ Tail(XCW) = CW
  /\ Head(XSCW) = "cancel" /\ Tail(XSCW) = SCW
<1>1. /\ \A a \in Calls, s \in Seq(Calls) :
           /\ <<a>> \o s \in Seq(Calls) /\ <<a>> \o s # <<>>
           /\ Head(<<a>> \o s) = a /\ Tail(<<a>> \o s) = s
      /\ "wipe" \in Calls /\ "close" \in Calls /\ "closeSubmit" \in Calls /\ "cancel" \in Calls
  BY HeadTail, Zenon DEF Calls
<1>2. <<>> \in Seq(Calls)
  OBVIOUS
<1>3. W \in Seq(Calls) /\ W # <<>> /\ Head(W) = "wipe" /\ Tail(W) = <<>>
  <2>1. <<>> \in Seq(Calls)
    BY <1>2
  <2> QED
    BY <1>1, <2>1, Zenon DEF W
<1>4. C \in Seq(Calls) /\ C # <<>> /\ Head(C) = "close" /\ Tail(C) = <<>>
  <2>1. <<>> \in Seq(Calls)
    BY <1>2
  <2> QED
    BY <1>1, <2>1, Zenon DEF C
<1>5. CW \in Seq(Calls) /\ CW # <<>> /\ Head(CW) = "close" /\ Tail(CW) = W
  <2>1. W \in Seq(Calls)
    BY <1>3
  <2> QED
    BY <1>1, <2>1, Zenon DEF CW
<1>6. SCW \in Seq(Calls) /\ SCW # <<>> /\ Head(SCW) = "closeSubmit" /\ Tail(SCW) = CW
  <2>1. CW \in Seq(Calls)
    BY <1>5
  <2> QED
    BY <1>1, <2>1, Zenon DEF SCW
<1>7. XCW \in Seq(Calls) /\ XCW # <<>> /\ Head(XCW) = "cancel" /\ Tail(XCW) = CW
  <2>1. CW \in Seq(Calls)
    BY <1>5
  <2> QED
    BY <1>1, <2>1, Zenon DEF XCW
<1>8. XSCW \in Seq(Calls) /\ XSCW # <<>> /\ Head(XSCW) = "cancel" /\ Tail(XSCW) = SCW
  <2>1. SCW \in Seq(Calls)
    BY <1>6
  <2> QED
    BY <1>1, <2>1, Zenon DEF XSCW
<1> QED
  BY <1>3, <1>4, <1>5, <1>6, <1>7, <1>8

\* It says what the properties say.
LEMMA IInvSays == IInv => TypeOK /\ KeyRecoverable /\ WipedLast /\ EngineIsEquipped
<1> SUFFICES ASSUME IInv PROVE TypeOK /\ KeyRecoverable /\ WipedLast /\ EngineIsEquipped
  OBVIOUS
<1>1. TypeOK /\ KeyRecoverable
  BY DEF IInv
<1>2. ASSUME NEW p \in Procs
      PROVE  /\ loc[p].key = "wiped" => loc[p].open \cap {"client", "submit"} = {}
             /\ pc[p] = "exited" =>
                  loc[p].key # "live" /\ loc[p].open \cap {"client", "submit"} = {}
             /\ pc[p] \in {"engine", "query"} =>
                  /\ loc[p].key = "live" /\ loc[p].count >= 1 /\ loc[p].secret \in Secrets
                  /\ "client" \in loc[p].open
                  /\ pc[p] = "engine" /\ loc[p].cfg.submit > 0 => "submit" \in loc[p].open
  <2>1. loc[p] \in Locals /\ OwnOK(p)
    BY DEF IInv, TypeOK
  <2>2. CASE pc[p] = "idle"
    BY <2>1, <2>2 DEF OwnOK, NewLocals
  <2>3. CASE pc[p] \in InitLabels
    BY <2>1, <2>3 DEF OwnOK, InitOK, InitLabels
  <2>4. CASE pc[p] \notin InitLabels \cup {"idle"}
    <3>1. StageOK(loc[p], pc[p]) /\ loc[p].cfg \in Configs
      BY <2>1, <2>4 DEF OwnOK, CommandOK
    <3>2. loc[p].key = "wiped" => loc[p].open \cap {"client", "submit"} = {}
      BY <3>1 DEF StageOK, Stacked, Unlocked
    <3>3. pc[p] = "exited" =>
            loc[p].key # "live" /\ loc[p].open \cap {"client", "submit"} = {}
      BY <3>1, Stacks DEF StageOK, Stacked
    <3>4. pc[p] \in {"engine", "query"} =>
            /\ loc[p].key = "live" /\ loc[p].count >= 1 /\ loc[p].secret \in Secrets
            /\ "client" \in loc[p].open
      <4>1. /\ pc[p] \in {"engine", "query"} => Unlocked(loc[p]) /\ loc[p].defers \in {CW, XCW, XSCW}
            /\ pc[p] \in {"engine", "query"} => Stacked(loc[p])
        BY <3>1, Zenon DEF StageOK
      <4>2. loc[p].secret # None => loc[p].secret \in Secrets
        BY <2>1 DEF Locals
      <4> QED
        BY <4>1, <4>2, Stacks DEF Stacked, Unlocked
    <3>5. pc[p] = "engine" /\ loc[p].cfg.submit > 0 => "submit" \in loc[p].open
      <4>1. loc[p].cfg.submit \in Nat
        BY <3>1 DEF Configs
      <4> QED
        BY <3>1, <4>1 DEF StageOK, Private
    <3> QED
      BY <3>2, <3>3, <3>4, <3>5
  <2> QED
    BY <2>2, <2>3, <2>4
<1> QED
  BY <1>1, <1>2 DEF WipedLast, EngineIsEquipped

-----------------------------------------------------------------------------
(* Every step. *)

\* A process that does not move keeps its part when nothing safe becomes unsafe.
LEMMA OthersKeep ==
  ASSUME IInv, NEW q \in Procs, pc'[q] = pc[q], loc'[q] = loc[q],
         known \subseteq known', \A s \in Secrets : Safe(s) => Safe(s)'
  PROVE  OwnOK(q)'
<1>1. loc[q] \in Locals /\ OwnOK(q)
  BY DEF IInv, TypeOK
<1>2. InitOK(loc[q], pc[q])'
  <2>1. InitOK(loc[q], pc[q])
    BY <1>1 DEF OwnOK
  <2> QED
    BY <2>1 DEF InitOK
<1>3. CommandOK(loc[q], pc[q])'
  <2>1. loc[q].secret \in Secrets \cup {None}
    BY <1>1 DEF Locals
  <2>2. CommandOK(loc[q], pc[q])
    BY <1>1 DEF OwnOK
  <2> QED
    BY <2>1, <2>2 DEF CommandOK
<1> QED
  BY <1>1, <1>2, <1>3 DEF OwnOK

\* A step in which process p gets to `at` with locals l.
LEMMA StepOf ==
  ASSUME IInv, NEW p \in Procs, NEW at \in Labels, NEW l \in Locals,
         pc' = [pc EXCEPT ![p] = at], loc' = [loc EXCEPT ![p] = l],
         file' \in [Kinds -> Contents], FilesOK',
         known \subseteq known', known' \subseteq Secrets, told' \subseteq Secrets,
         givenUp' \subseteq Secrets,
         \A s \in Secrets : Safe(s) => Safe(s)', \A s \in told' : s \in told \/ Safe(s)',
         at = "idle" => l = NewLocals("init", None), InitOK(l, at)', CommandOK(l, at)'
  PROVE  IInv'
<1>1. TypeOK'
  BY DEF IInv, TypeOK
<1>2. KeyRecoverable'
  BY DEF IInv, TypeOK, KeyRecoverable, Safe
<1>3. ASSUME NEW q \in Procs PROVE OwnOK(q)'
  <2>1. CASE q = p
    <3>1. pc'[p] = at /\ loc'[p] = l
      BY DEF IInv, TypeOK
    <3> QED
      BY <2>1, <3>1 DEF OwnOK, InitOK, CommandOK
  <2>2. CASE q # p
    <3>1. pc'[q] = pc[q] /\ loc'[q] = loc[q]
      BY <2>2 DEF IInv, TypeOK
    <3> QED
      BY <3>1, OthersKeep
  <2> QED
    BY <2>1, <2>2
<1> QED
  BY <1>1, <1>2, <1>3 DEF IInv

\* A step that touches neither the files nor the secrets.
LEMMA QuietStep ==
  ASSUME IInv, NEW p \in Procs, NEW at \in Labels, NEW l \in Locals,
         pc' = [pc EXCEPT ![p] = at], loc' = [loc EXCEPT ![p] = l], UNCHANGED storeVars,
         at = "idle" => l = NewLocals("init", None), InitOK(l, at), CommandOK(l, at)
  PROVE  IInv'
<1>1. \A s : Safe(s)' <=> Safe(s)
  BY DEF Safe, OnDisk, storeVars
<1>2. InitOK(l, at)' /\ CommandOK(l, at)'
  BY <1>1 DEF InitOK, CommandOK, storeVars
<1>3. FilesOK'
  BY DEF IInv, FilesOK, storeVars
<1> QED
  BY <1>1, <1>2, <1>3, StepOf DEF IInv, TypeOK, storeVars

LEMMA FreshLocals ==
  /\ NewLocals("init", None) \in Locals
  /\ "idle" \in Labels
  /\ InitOK(NewLocals("init", None), "idle") /\ InitOK(NewLocals("init", None), "idle")'
  /\ CommandOK(NewLocals("init", None), "idle") /\ CommandOK(NewLocals("init", None), "idle")'
  BY DEF NewLocals, Locals, Labels, InitOK, CommandOK, InitLabels, Kinds

LEMMA QuitQuietly ==
  ASSUME IInv, NEW p \in Procs, Quit(p), UNCHANGED storeVars
  PROVE  IInv'
  BY FreshLocals, QuietStep, Zenon DEF Quit, Goto

LEMMA StatKeeps == ASSUME IInv, NEW p \in Procs, Stat(p) PROVE IInv'
<1> DEFINE o == loc[p]
           at == IF file[o.kind].state = "absent" THEN "secret" ELSE "overwrite"
           l == [o EXCEPT !.looked = file[o.kind].secret]
<1>1. o \in Locals /\ InitOK(o, "stat") /\ file[o.kind] \in Contents
      /\ (file[o.kind].state = "whole" <=> file[o.kind].secret # None)
  BY DEF IInv, TypeOK, FilesOK, OwnOK, Stat, Locals
<1>2. l \in Locals /\ at \in Labels
  BY <1>1 DEF Locals, Labels, Contents
<1>3. InitOK(l, at)
  BY <1>1 DEF InitOK, InitLabels, Locals
<1>4. CommandOK(l, at)
  BY DEF CommandOK, InitLabels
<1>5. pc' = [pc EXCEPT ![p] = at] /\ loc' = [loc EXCEPT ![p] = l] /\ UNCHANGED storeVars
      /\ at # "idle"
  BY DEF Stat, Goto
<1> QED
  BY <1>2, <1>3, <1>4, <1>5, QuietStep

LEMMA OverwriteKeeps == ASSUME IInv, NEW p \in Procs, Overwrite(p) PROVE IInv'
<1>1. CASE Quit(p)
  BY <1>1, QuitQuietly DEF Overwrite
<1>2. CASE Goto(p, "secret") /\ loc' = [loc EXCEPT ![p].agreed = TRUE]
  <2> DEFINE l == [loc[p] EXCEPT !.agreed = TRUE]
  <2>1. loc[p] \in Locals /\ InitOK(loc[p], "overwrite")
    BY DEF IInv, TypeOK, OwnOK, Overwrite
  <2>2. l \in Locals /\ "secret" \in Labels
    BY <2>1 DEF Locals, Labels
  <2>3. InitOK(l, "secret")
    BY <2>1 DEF InitOK, InitLabels, Locals
  <2>4. CommandOK(l, "secret")
    BY DEF CommandOK, InitLabels
  <2>5. /\ pc' = [pc EXCEPT ![p] = "secret"] /\ loc' = [loc EXCEPT ![p] = l]
        /\ UNCHANGED storeVars
    BY <1>2 DEF Overwrite, Goto
  <2> QED
    BY <2>2, <2>3, <2>4, <2>5, QuietStep
<1> QED
  BY <1>1, <1>2 DEF Overwrite

\* An init that takes a secret s and goes on.
LEMMA TakeKeeps ==
  ASSUME IInv, NEW p \in Procs, NEW s \in Secrets \cup {None}, NEW at \in {"show", "pass", "count"},
         pc[p] = "secret", TakeSecret(p, s), Goto(p, at),
         UNCHANGED <<file, told, givenUp>>, known' \in {known, known \cup ({s} \ {None})},
         at # "pass" => s # None,
         at # "show" /\ s # None /\ (~loc[p].new \/ loc[p].kind = "multi") => s \in known'
  PROVE  IInv'
<1>0. PICK l : l = [loc[p] EXCEPT !.secret = s]
  OBVIOUS
<1>1. loc[p] \in Locals /\ InitOK(loc[p], "secret")
  BY DEF IInv, TypeOK, OwnOK
<1>2. l \in Locals /\ at \in Labels
  BY <1>0, <1>1 DEF Locals, Labels
<1>3. InitOK(l, at)'
  <2>1. /\ l.cmd = "init" /\ l.key = "none" /\ l.open = {} /\ l.defers = <<>>
        /\ l.secret = s /\ l.new = loc[p].new /\ l.kind = loc[p].kind
        /\ l.looked # None => l.agreed
    BY <1>0, <1>1 DEF InitOK, InitLabels, Locals
  <2> QED
    BY <2>1 DEF InitOK
<1>4. CommandOK(l, at)'
  BY DEF CommandOK, InitLabels
<1>5. pc' = [pc EXCEPT ![p] = at] /\ loc' = [loc EXCEPT ![p] = l] /\ at # "idle"
  BY <1>0 DEF TakeSecret, Goto
<1>6. known \subseteq known' /\ known' \subseteq Secrets /\ FilesOK'
  BY DEF IInv, TypeOK, FilesOK
<1>7. \A t : Safe(t) => Safe(t)'
  BY <1>6 DEF Safe, OnDisk
<1> QED
  BY <1>2, <1>3, <1>4, <1>5, <1>6, <1>7, StepOf DEF IInv, TypeOK

LEMMA SecretKeeps ==
  ASSUME IInv, NEW p \in Procs,
         ImportKey(p) \/ GenerateKey(p) \/ ImportMnemonic(p) \/ GenerateMnemonic(p)
  PROVE  IInv'
<1>1. CASE ImportKey(p)
  <2>1. CASE Quit(p) /\ UNCHANGED known
    BY <1>1, <2>1, QuitQuietly DEF ImportKey, storeVars
  <2>2. CASE /\ \E s \in Secrets \cup {None} :
                  TakeSecret(p, s) /\ known' = known \cup ({s} \ {None})
             /\ Goto(p, "pass")
    BY <1>1, <2>2, TakeKeeps DEF ImportKey
  <2> QED
    BY <1>1, <2>1, <2>2 DEF ImportKey
<1>2. CASE GenerateKey(p)
  <2>1. PICK s \in Secrets : TakeSecret(p, s)
    BY <1>2 DEF GenerateKey
  <2>2. loc[p].kind = "single" /\ loc[p].new /\ pc[p] = "secret" /\ Goto(p, "pass")
        /\ UNCHANGED storeVars
    BY <1>2 DEF GenerateKey
  <2> QED
    BY <2>1, <2>2, TakeKeeps DEF storeVars
<1>3. CASE ImportMnemonic(p)
  <2>1. CASE Quit(p) /\ UNCHANGED known
    BY <1>3, <2>1, QuitQuietly DEF ImportMnemonic, storeVars
  <2>2. CASE \E s \in Secrets :
               TakeSecret(p, s) /\ known' = known \cup {s} /\ Goto(p, "count")
    BY <1>3, <2>2, NoneAssumption, TakeKeeps DEF ImportMnemonic
  <2> QED
    BY <1>3, <2>1, <2>2 DEF ImportMnemonic
<1>4. CASE GenerateMnemonic(p)
  <2>1. PICK s \in Secrets : TakeSecret(p, s)
    BY <1>4 DEF GenerateMnemonic
  <2>2. pc[p] = "secret" /\ Goto(p, "show") /\ UNCHANGED storeVars /\ s # None
    BY <1>4, NoneAssumption DEF GenerateMnemonic
  <2> QED
    BY <2>1, <2>2, TakeKeeps DEF storeVars
<1> QED
  BY <1>1, <1>2, <1>3, <1>4

\* A process that ends, whatever its last step does to the files and the secrets.
LEMMA QuitStep ==
  ASSUME IInv, NEW p \in Procs, Quit(p), file' \in [Kinds -> Contents], FilesOK',
         known \subseteq known', known' \subseteq Secrets, told' \subseteq Secrets,
         givenUp' \subseteq Secrets,
         \A s \in Secrets : Safe(s) => Safe(s)', \A s \in told' : s \in told \/ Safe(s)'
  PROVE  IInv'
<1>1. PICK l : l = NewLocals("init", None)
  OBVIOUS
<1>2. InitOK(l, "idle")' /\ CommandOK(l, "idle")'
  BY DEF InitOK, CommandOK, InitLabels
<1>3. l \in Locals /\ "idle" \in Labels
  BY <1>1, FreshLocals
<1>4. pc' = [pc EXCEPT ![p] = "idle"] /\ loc' = [loc EXCEPT ![p] = l]
  BY <1>1 DEF Quit, Goto
<1> QED
  BY <1>1, <1>2, <1>3, <1>4, StepOf

\* An init that goes on with the locals it has.
LEMMA OnwardKeeps ==
  ASSUME IInv, NEW p \in Procs, NEW at \in InitLabels, Goto(p, at), UNCHANGED loc,
         file' \in [Kinds -> Contents], FilesOK', known \subseteq known', known' \subseteq Secrets,
         UNCHANGED told, givenUp' \subseteq Secrets, \A s \in Secrets : Safe(s) => Safe(s)',
         InitOK(loc[p], at)'
  PROVE  IInv'
<1>1. PICK l : l = loc[p]
  OBVIOUS
<1>2. l \in Locals /\ at \in Labels /\ at # "idle"
  BY <1>1 DEF IInv, TypeOK, InitLabels, Labels
<1>3. pc' = [pc EXCEPT ![p] = at] /\ loc' = [loc EXCEPT ![p] = l]
  BY <1>1 DEF Goto, IInv, TypeOK
<1>4. InitOK(l, at)' /\ CommandOK(l, at)'
  BY <1>1 DEF CommandOK
<1>5. \A s \in told' : s \in told
  OBVIOUS
<1> QED
  BY <1>2, <1>3, <1>4, <1>5, StepOf DEF IInv, TypeOK

LEMMA AnswersKeep ==
  ASSUME IInv, NEW p \in Procs, ShowMnemonic(p) \/ AskCount(p) \/ PromptPasswordConfirm(p)
  PROVE  IInv'
<1>1. loc[p] \in Locals /\ InitOK(loc[p], pc[p]) /\ file \in [Kinds -> Contents] /\ FilesOK
  BY DEF IInv, TypeOK, OwnOK
<1>2. CASE ShowMnemonic(p)
  <2>1. /\ pc[p] = "show" /\ known' = known \cup {loc[p].secret}
        /\ UNCHANGED <<file, told, givenUp>>
    BY <1>2 DEF ShowMnemonic
  <2>2. loc[p].secret \in Secrets
    BY <1>1, <2>1 DEF InitOK, InitLabels, Locals
  <2>3. known \subseteq known' /\ known' \subseteq Secrets /\ FilesOK'
        /\ told' \subseteq Secrets /\ givenUp' \subseteq Secrets
    BY <1>1, <2>1, <2>2 DEF IInv, TypeOK, FilesOK
  <2>4. \A s : Safe(s) => Safe(s)'
    BY <2>1 DEF Safe, OnDisk
  <2>5. CASE Quit(p)
    BY <1>1, <2>1, <2>3, <2>4, <2>5, QuitStep
  <2>6. CASE Goto(p, "count") /\ UNCHANGED loc
    <3>1. InitOK(loc[p], "count")'
      BY <1>1, <2>1, <2>6 DEF InitOK, InitLabels
    <3>2. "count" \in InitLabels
      BY DEF InitLabels
    <3> QED
      BY <1>1, <2>1, <2>3, <2>4, <2>6, <3>1, <3>2, OnwardKeeps
  <2> QED
    BY <1>2, <2>5, <2>6 DEF ShowMnemonic
<1>3. CASE AskCount(p) \/ PromptPasswordConfirm(p)
  <2>1. CASE Quit(p)
    BY <1>3, <2>1, QuitQuietly DEF AskCount, PromptPasswordConfirm
  <2>2. CASE ~Quit(p)
    <3>1. PICK at \in {"pass", "write"} :
            /\ Goto(p, at) /\ UNCHANGED loc /\ UNCHANGED storeVars
            /\ pc[p] \in {"count", "pass"} /\ at = "write" => loc[p].secret # None
      BY <1>3, <2>2 DEF AskCount, PromptPasswordConfirm
    <3>2. pc[p] \in {"count", "pass"}
      BY <1>3 DEF AskCount, PromptPasswordConfirm
    <3>3. at \in InitLabels /\ InitOK(loc[p], at)'
      BY <1>1, <3>1, <3>2 DEF InitOK, InitLabels, storeVars
    <3>4. FilesOK' /\ \A s : Safe(s) => Safe(s)'
      BY <1>1, <3>1 DEF FilesOK, Safe, OnDisk, storeVars
    <3> QED
      BY <1>1, <3>1, <3>3, <3>4, OnwardKeeps DEF IInv, TypeOK, storeVars
  <2> QED
    BY <2>1, <2>2
<1> QED
  BY <1>2, <1>3

\* Overwriting the file loses nothing behind the user's back: what the user was not asked
\* about had not been there.
LEMMA ForgetIsSafe ==
  ASSUME IInv, NEW p \in Procs, pc[p] \in {"write", "writing"}, Forget(p),
         NEW c \in Contents, c.state = "whole" <=> c.secret # None,
         file' = [file EXCEPT ![loc[p].kind] = c], known' = known
  PROVE  /\ file' \in [Kinds -> Contents] /\ FilesOK' /\ givenUp' \subseteq Secrets
         /\ \A s \in Secrets : Safe(s) => Safe(s)'
<1> DEFINE k == loc[p].kind
<1>1. loc[p] \in Locals /\ InitOK(loc[p], pc[p]) /\ k \in Kinds
      /\ file \in [Kinds -> Contents] /\ FilesOK /\ givenUp \subseteq Secrets
  BY DEF IInv, TypeOK, OwnOK, Locals
<1>2. loc[p].looked # None => loc[p].agreed
  BY <1>1 DEF InitOK, InitLabels
<1>3. file' \in [Kinds -> Contents] /\ FilesOK'
  BY <1>1 DEF FilesOK
<1>4. givenUp \subseteq givenUp' /\ givenUp' \subseteq Secrets
  <2>1. file[k].secret \in Secrets \cup {None}
    BY <1>1 DEF Contents
  <2> QED
    BY <1>1, <2>1 DEF Forget
<1>5. ASSUME NEW s \in Secrets, Safe(s) PROVE Safe(s)'
  <2>1. CASE s \in known \cup givenUp
    BY <1>4, <2>1 DEF Safe
  <2>2. CASE file[k].secret = s
    BY <1>2, <2>2, NoneAssumption DEF Forget, Safe
  <2>3. CASE \E j \in Kinds \ {k} : file[j].state = "whole" /\ file[j].secret = s
    BY <1>1, <2>3 DEF Safe, OnDisk
  <2> QED
    BY <1>5, <2>1, <2>2, <2>3 DEF Safe, OnDisk
<1> QED
  BY <1>3, <1>4, <1>5

LEMMA WritesKeep ==
  ASSUME IInv, NEW p \in Procs, Truncate(p) \/ WriteOut(p)
  PROVE  IInv'
<1> DEFINE k == loc[p].kind
<1>1. loc[p] \in Locals /\ InitOK(loc[p], pc[p]) /\ pc[p] \in {"write", "writing"}
  BY DEF IInv, TypeOK, OwnOK, Truncate, WriteOut
<1>2. loc[p].secret \in Secrets
  BY <1>1 DEF InitOK, InitLabels, Locals
<1>3. CASE Truncate(p)
  <2>1. CASE Quit(p) /\ UNCHANGED <<file, givenUp>>
    BY <1>3, <2>1, QuitQuietly DEF Truncate, storeVars
  <2>2. CASE file' = [file EXCEPT ![k] = Torn] /\ Forget(p) /\ Goto(p, "writing") /\ UNCHANGED loc
    <3>1. known' = known /\ told' = told /\ pc[p] = "write"
      BY <1>3 DEF Truncate
    <3>2. Torn \in Contents /\ (Torn.state = "whole" <=> Torn.secret # None)
      BY DEF Torn, Contents
    <3>3. /\ file' \in [Kinds -> Contents] /\ FilesOK' /\ givenUp' \subseteq Secrets
          /\ \A s \in Secrets : Safe(s) => Safe(s)'
      BY <1>1, <2>2, <3>1, <3>2, ForgetIsSafe
    <3>4. InitOK(loc[p], "writing")' /\ "writing" \in InitLabels
      BY <1>1, <2>2, <3>1 DEF InitOK, InitLabels
    <3> QED
      BY <2>2, <3>1, <3>3, <3>4, OnwardKeeps DEF IInv, TypeOK
  <2> QED
    BY <1>3, <2>1, <2>2 DEF Truncate
<1>4. CASE WriteOut(p)
  <2>1. Forget(p) /\ known' = known /\ told' = told /\ pc[p] = "writing"
    BY <1>4 DEF WriteOut
  <2>2. PICK c \in {Torn, Whole(loc[p].secret)} : file' = [file EXCEPT ![k] = c]
    BY <1>4 DEF WriteOut
  <2>3. c \in Contents /\ (c.state = "whole" <=> c.secret # None)
    BY <1>2, NoneAssumption DEF Torn, Whole, Contents
  <2>4. /\ file' \in [Kinds -> Contents] /\ FilesOK' /\ givenUp' \subseteq Secrets
        /\ \A s \in Secrets : Safe(s) => Safe(s)'
    BY <1>1, <2>1, <2>2, <2>3, ForgetIsSafe
  <2>5. CASE Quit(p)
    BY <2>1, <2>4, <2>5, QuitStep DEF IInv, TypeOK
  <2>6. CASE Goto(p, "tell") /\ UNCHANGED loc
    <3>1. InitOK(loc[p], "tell")' /\ "tell" \in InitLabels
      BY <1>1, <2>1, <2>6 DEF InitOK, InitLabels
    <3> QED
      BY <2>1, <2>4, <2>6, <3>1, OnwardKeeps DEF IInv, TypeOK
  <2> QED
    BY <1>4, <2>5, <2>6 DEF WriteOut
<1> QED
  BY <1>3, <1>4

LEMMA TellsKeep ==
  ASSUME IInv, NEW p \in Procs, TellKeystore(p) \/ TellMnemonic(p)
  PROVE  IInv'
<1>1. /\ loc[p] \in Locals /\ InitOK(loc[p], pc[p]) /\ pc[p] = "tell"
      /\ file \in [Kinds -> Contents] /\ FilesOK
      /\ known \subseteq Secrets /\ told \subseteq Secrets /\ givenUp \subseteq Secrets
  BY DEF IInv, TypeOK, OwnOK, TellKeystore, TellMnemonic
<1>2. loc[p].secret \in Secrets
  BY <1>1 DEF InitOK, InitLabels, Locals
<1>3. /\ Quit(p) /\ UNCHANGED <<file, givenUp>> /\ known \subseteq known'
      /\ known' \subseteq known \cup {loc[p].secret} /\ told' \subseteq told \cup {loc[p].secret}
      /\ ~loc[p].new \/ loc[p].kind = "multi" \/ loc[p].secret \in known'
  BY DEF TellKeystore, TellMnemonic
<1>4. loc[p].secret \in known'
  BY <1>1, <1>2, <1>3, NoneAssumption DEF InitOK, InitLabels
<1>5. FilesOK' /\ \A s : Safe(s) => Safe(s)'
  BY <1>1, <1>3 DEF FilesOK, Safe, OnDisk
<1>6. \A s \in told' : s \in told \/ Safe(s)'
  BY <1>3, <1>4 DEF Safe
<1> QED
  BY <1>1, <1>2, <1>3, <1>5, <1>6, QuitStep

\* A step of a command: it reads the files, and may tell what is safe.
LEMMA CommandMove ==
  ASSUME IInv, NEW p \in Procs, NEW at \in Labels \ (InitLabels \cup {"idle"}),
         NEW l \in Locals, Goto(p, at), loc' = [loc EXCEPT ![p] = l],
         UNCHANGED <<file, known, givenUp>>,
         told' \subseteq Secrets, \A s \in told' : s \in told \/ Safe(s),
         l.cmd # "init", l.cfg \in Configs, l.secret # None => Safe(l.secret), StageOK(l, at)
  PROVE  IInv'
<1>1. \A s : Safe(s)' <=> Safe(s)
  BY DEF Safe, OnDisk
<1>2. InitOK(l, at)' /\ CommandOK(l, at)'
  BY <1>1 DEF InitOK, CommandOK
<1>3. FilesOK'
  BY DEF IInv, FilesOK
<1> QED
  BY <1>1, <1>2, <1>3, StepOf DEF IInv, TypeOK, Goto

\* What holds of a command that is about to make a step.
LEMMA AtCommand ==
  ASSUME IInv, NEW p \in Procs, pc[p] \notin InitLabels \cup {"idle"}
  PROVE  /\ loc[p] \in Locals /\ StageOK(loc[p], pc[p])
         /\ loc[p].cmd # "init" /\ loc[p].cfg \in Configs
         /\ loc[p].secret # None => Safe(loc[p].secret)
  BY DEF IInv, TypeOK, OwnOK, CommandOK

\* A command that fails or is done, with what it has: the deferred calls are next.
LEMMA LeaveKeeps ==
  ASSUME IInv, NEW p \in Procs, pc[p] \notin InitLabels \cup {"idle", "abi"}, Leave(p),
         UNCHANGED <<file, known, givenUp>>,
         told' \subseteq Secrets, \A s \in told' : s \in told \/ Safe(s)
  PROVE  IInv'
<1>1. PICK l, at : l = loc[p] /\ at = "return"
  OBVIOUS
<1>2. /\ l \in Locals /\ l.cmd # "init" /\ l.cfg \in Configs /\ Stacked(l)
      /\ l.secret # None => Safe(l.secret)
  BY <1>1, AtCommand DEF StageOK
<1>3. StageOK(l, at)
  BY <1>1, <1>2 DEF StageOK
<1>4. at \in Labels \ (InitLabels \cup {"idle"})
  BY <1>1 DEF Labels, InitLabels
<1>5. Goto(p, at) /\ loc' = [loc EXCEPT ![p] = l]
  BY <1>1 DEF Leave, IInv, TypeOK
<1> QED
  BY <1>2, <1>3, <1>4, <1>5, CommandMove

LEMMA LeaveQuietly ==
  ASSUME IInv, NEW p \in Procs, pc[p] \notin InitLabels \cup {"idle", "abi"}, Leave(p),
         UNCHANGED storeVars
  PROVE  IInv'
  BY LeaveKeeps DEF storeVars, IInv, TypeOK

LEMMA StartsKeep ==
  ASSUME IInv, NEW p \in Procs, RunWalletInit(p) \/ RunCommand(p)
  PROVE  IInv'
<1>1. CASE RunWalletInit(p)
  <2>1. PICK kind \in Kinds, n \in BOOLEAN :
          loc' = [loc EXCEPT ![p] = [NewLocals("init", None) EXCEPT !.kind = kind, !.new = n]]
    BY <1>1 DEF RunWalletInit
  <2>2. PICK l : l = [NewLocals("init", None) EXCEPT !.kind = kind, !.new = n]
    OBVIOUS
  <2>3. l \in Locals /\ "stat" \in Labels
    BY <2>2, FreshLocals DEF Locals, Labels
  <2>4. InitOK(l, "stat") /\ CommandOK(l, "stat")
    BY <2>2 DEF InitOK, CommandOK, NewLocals, InitLabels
  <2>5. pc' = [pc EXCEPT ![p] = "stat"] /\ UNCHANGED storeVars
    BY <1>1 DEF RunWalletInit, Goto
  <2> QED
    BY <2>1, <2>2, <2>3, <2>4, <2>5, QuietStep
<1>2. CASE RunCommand(p)
  <2>1. PICK c \in {"list", "balance", "start", "status"}, raw \in RawConfigs :
          loc' = [loc EXCEPT ![p] = NewLocals(c, raw)]
    BY <1>2 DEF RunCommand
  <2>2. PICK l : l = NewLocals(c, raw)
    OBVIOUS
  <2>3. l \in Locals /\ l.cmd = c /\ l.cfg \in Configs /\ l.secret = None /\ Bare(l)
    BY <2>2, RawConfigsAssumption DEF NewLocals, Locals, Kinds, Bare
  <2>4. StageOK(l, "config")
    BY <2>3 DEF StageOK, Bare, Stacked
  <2>5. Goto(p, "config") /\ UNCHANGED storeVars
    BY <1>2 DEF RunCommand
  <2>6. "config" \in Labels \ (InitLabels \cup {"idle"})
    BY DEF Labels, InitLabels
  <2> QED
    BY <2>1, <2>2, <2>3, <2>4, <2>5, <2>6, CommandMove DEF storeVars, IInv, TypeOK
<1> QED
  BY <1>1, <1>2

\* A configuration that is accepted has a wallet mode once its defaults are filled in.
LEMMA AcceptedConfig ==
  ASSUME NEW c \in Configs, Accepted(c)
  PROVE  WithDefaults(c) \in Configs /\ WithDefaults(c).mode \in Kinds
<1> DEFINE miner == Default(c.miner, "", "auto")
           mode == Default(c.mode, "", "single")
           accounts == Default(c.accounts, 0, 5)
           poll == Default(c.poll, 0, 9000)
           d == [miner |-> miner, mode |-> mode, accounts |-> accounts,
                 endpoints |-> c.endpoints, submit |-> c.submit, poll |-> poll]
<1>1. c.miner \in {"", "auto", "cpu", "gpu"} /\ c.mode \in {"", "single", "multi"}
  BY DEF Accepted
<1>2. c.accounts \in Int /\ c.poll \in Int /\ c.endpoints \in Nat /\ c.submit \in Nat
  BY DEF Configs
<1>3. miner \in {"auto", "cpu", "gpu"}
  BY <1>1 DEF Default
<1>4. mode \in Kinds
  BY <1>1 DEF Default, Kinds
<1>5. accounts \in Int /\ poll \in Int
  BY <1>2 DEF Default
<1>6. WithDefaults(c) = d
  BY DEF WithDefaults
<1> HIDE DEF miner, mode, accounts, poll
<1>7. d \in Configs /\ d.mode = mode
  BY <1>2, <1>3, <1>4, <1>5 DEF Configs, Kinds
<1> HIDE DEF d
<1> QED
  BY <1>4, <1>6, <1>7

LEMMA LoadConfigKeeps == ASSUME IInv, NEW p \in Procs, LoadConfig(p) PROVE IInv'
<1> DEFINE o == loc[p]
<1>1. /\ o \in Locals /\ Bare(o) /\ o.cmd # "init" /\ o.cfg \in Configs
      /\ o.secret # None => Safe(o.secret)
  BY AtCommand DEF LoadConfig, StageOK, InitLabels
<1>2. CASE Leave(p)
  BY <1>2, LeaveQuietly DEF LoadConfig, InitLabels
<1>3. CASE ~Leave(p)
  <2>1. PICK l : l = [o EXCEPT !.cfg = WithDefaults(o.cfg)]
    OBVIOUS
  <2>2. PICK at \in {"peek", "connect", "unlock"} :
          /\ Accepted(o.cfg) /\ Goto(p, at) /\ loc' = [loc EXCEPT ![p] = l]
          /\ at = "peek" <=> o.cmd = "list"
          /\ at = "connect" <=> o.cmd = "status"
    BY <1>3, <2>1 DEF LoadConfig
  <2>3. WithDefaults(o.cfg) \in Configs /\ WithDefaults(o.cfg).mode \in Kinds
    BY <1>1, <2>2, AcceptedConfig
  <2>4. /\ l \in Locals /\ Bare(l) /\ l.cmd = o.cmd /\ l.secret = o.secret
        /\ l.cfg \in Configs /\ l.cfg.mode \in Kinds
    BY <1>1, <2>1, <2>3 DEF Locals, Bare
  <2>5. StageOK(l, at)
    <3>1. l.cmd \in {"list", "balance", "start", "status"}
      BY <1>1, <2>4 DEF Locals
    <3> QED
      BY <2>2, <2>4, <3>1 DEF StageOK, Bare, Stacked
  <2>6. at \in Labels \ (InitLabels \cup {"idle"})
    BY DEF Labels, InitLabels
  <2>7. UNCHANGED storeVars
    BY DEF LoadConfig
  <2> QED
    BY <1>1, <2>2, <2>4, <2>5, <2>6, <2>7, CommandMove DEF storeVars, IInv, TypeOK
<1> QED
  BY <1>2, <1>3

LEMMA ListKeeps == ASSUME IInv, NEW p \in Procs, List(p) PROVE IInv'
<1>1. \A k \in Kinds : \A s \in PeekKeystoreAddress(file[k]) : s \in Secrets /\ Safe(s)
  BY DEF PeekKeystoreAddress, Parses, Safe, OnDisk, IInv, TypeOK, FilesOK, Contents
<1>2. told' \subseteq told \cup PeekKeystoreAddress(file["single"])
  BY DEF List
<1>3. told' \subseteq Secrets /\ \A s \in told' : s \in told \/ Safe(s)
  BY <1>1, <1>2 DEF IInv, TypeOK, Kinds
<1> QED
  BY <1>3, LeaveKeeps DEF List, InitLabels

\* A quiet step of a command that goes on with locals l.
LEMMA Onward ==
  ASSUME IInv, NEW p \in Procs, NEW at \in Labels \ (InitLabels \cup {"idle"}),
         NEW l \in Locals, Goto(p, at), loc' = [loc EXCEPT ![p] = l], UNCHANGED storeVars,
         l.cmd # "init", l.cfg \in Configs, l.secret # None => Safe(l.secret), StageOK(l, at)
  PROVE  IInv'
  BY CommandMove DEF storeVars, IInv, TypeOK

LEMMA UnlockKeeps ==
  ASSUME IInv, NEW p \in Procs, ResolvePassphrase(p) \/ LoadWallet(p)
  PROVE  IInv'
<1>1. /\ loc[p] \in Locals /\ StageOK(loc[p], pc[p]) /\ pc[p] \in {"unlock", "load"}
      /\ loc[p].cmd # "init" /\ loc[p].cfg \in Configs /\ UNCHANGED storeVars
      /\ loc[p].secret # None => Safe(loc[p].secret)
  BY AtCommand DEF ResolvePassphrase, LoadWallet, InitLabels
<1>2. CASE Leave(p)
  BY <1>1, <1>2, LeaveQuietly DEF InitLabels
<1>3. CASE ResolvePassphrase(p) /\ ~Leave(p)
  <2>1. PICK l, at : l = loc[p] /\ at = "load"
    OBVIOUS
  <2>2. at \in Labels \ (InitLabels \cup {"idle"})
    BY <2>1 DEF Labels, InitLabels
  <2>3. StageOK(l, at)
    BY <1>1, <1>3, <2>1 DEF StageOK, ResolvePassphrase
  <2>4. Goto(p, at) /\ loc' = [loc EXCEPT ![p] = l]
    BY <1>3, <2>1 DEF ResolvePassphrase, IInv, TypeOK
  <2> QED
    BY <1>1, <2>1, <2>2, <2>3, <2>4, Onward
<1>4. CASE LoadWallet(p) /\ ~Leave(p)
  <2>1. pc[p] = "load" /\ Bare(loc[p]) /\ loc[p].cfg.mode \in Kinds
        /\ loc[p].cmd \in {"start", "balance"}
    BY <1>1, <1>4, Zenon DEF LoadWallet, Parses, StageOK
  <2>11. PICK at, f, n : at = "connect" /\ f = file[loc[p].cfg.mode] /\ n = CountOf(loc[p].cfg)
    OBVIOUS
  <2>12. PICK l : l = [loc[p] EXCEPT !.key = "live", !.secret = f.secret, !.count = n,
                                     !.defers = <<"wipe">> \o @]
    OBVIOUS
  <2>2. /\ at = "connect" /\ f = file[loc[p].cfg.mode] /\ n = CountOf(loc[p].cfg)
        /\ l = [loc[p] EXCEPT !.key = "live", !.secret = f.secret, !.count = n,
                              !.defers = <<"wipe">> \o @]
    BY <2>11, <2>12, Zenon
  <2>3. /\ n # 0 /\ f.state = "whole" /\ Goto(p, at) /\ loc' = [loc EXCEPT ![p] = l]
    BY <1>4, <2>1, <2>2, Zenon DEF LoadWallet, Parses
  <2>4. f \in Contents /\ f.secret \in Secrets /\ Safe(f.secret)
    BY <2>1, <2>2, <2>3 DEF IInv, TypeOK, FilesOK, Contents, Safe, OnDisk
  <2>5. n \in Int /\ n >= 1
    <3>1. loc[p].cfg.accounts \in Int
      BY <1>1 DEF Configs
    <3> QED
      BY <2>2, <2>3, <3>1 DEF CountOf
  <2>6. <<"wipe">> \o loc[p].defers = W /\ W \in Seq(Calls)
    BY <2>1, Stacks DEF Bare, W
  <2>7. l = [loc[p] EXCEPT !.key = "live", !.secret = f.secret, !.count = n, !.defers = W]
    BY <2>2, <2>6
  <2>8. /\ l \in Locals /\ l.cmd = loc[p].cmd /\ l.cfg = loc[p].cfg /\ l.secret = f.secret
        /\ l.key = "live" /\ l.count = n /\ l.defers = W /\ l.open = {}
    BY <1>1, <2>1, <2>4, <2>5, <2>6, <2>7 DEF Locals, Bare, Calls
  <2>9. StageOK(l, at)
    <3>1. l.secret # None /\ l.count \in Int /\ l.count >= 1
      BY <2>4, <2>5, <2>8, NoneAssumption DEF Safe
    <3>2. Stacked(l) /\ Unlocked(l)
      BY <2>4, <2>8, <3>1 DEF Stacked, Unlocked
    <3> QED
      BY <2>1, <2>2, <2>8, <3>2, Zenon DEF StageOK
  <2>10. at \in Labels \ (InitLabels \cup {"idle"})
    BY <2>2 DEF Labels, InitLabels
  <2> QED
    BY <1>1, <2>3, <2>4, <2>8, <2>9, <2>10, Onward
<1> QED
  BY <1>2, <1>3, <1>4

LEMMA ChainKeeps ==
  ASSUME IInv, NEW p \in Procs, Connect(p) \/ LoadABI(p)
  PROVE  IInv'
<1>1. /\ loc[p] \in Locals /\ StageOK(loc[p], pc[p]) /\ pc[p] \in {"connect", "abi"}
      /\ loc[p].cmd # "init" /\ loc[p].cfg \in Configs /\ UNCHANGED storeVars
      /\ loc[p].secret # None => Safe(loc[p].secret)
  BY AtCommand DEF Connect, LoadABI, InitLabels
<1>2. CASE Connect(p)
  <2>1. CASE Leave(p)
    BY <1>1, <1>2, <2>1, LeaveQuietly DEF InitLabels, Connect
  <2>2. CASE ~Leave(p)
    <3>1. PICK l, at : l = [loc[p] EXCEPT !.open = @ \cup {"client"}] /\ at = "abi"
      OBVIOUS
    <3>2. pc[p] = "connect" /\ Goto(p, at) /\ loc' = [loc EXCEPT ![p] = l]
      BY <1>2, <2>2, <3>1 DEF Connect
    <3>3. loc[p].open = {}
      BY <1>1, <3>2 DEF StageOK
    <3>4. /\ l \in Locals /\ l.cmd = loc[p].cmd /\ l.cfg = loc[p].cfg /\ l.open = {"client"}
          /\ l.secret = loc[p].secret /\ l.key = loc[p].key /\ l.count = loc[p].count
          /\ l.defers = loc[p].defers
      BY <1>1, <3>1, <3>3 DEF Locals
    <3>5. StageOK(l, at)
      BY <1>1, <3>1, <3>2, <3>4 DEF StageOK, Unlocked
    <3>6. at \in Labels \ (InitLabels \cup {"idle"})
      BY <3>1 DEF Labels, InitLabels
    <3> QED
      BY <1>1, <3>2, <3>4, <3>5, <3>6, Onward
  <2> QED
    BY <2>1, <2>2
<1>3. CASE LoadABI(p)
  <2>0. pc[p] = "abi" /\ loc[p].open = {"client"}
    BY <1>1, <1>3 DEF StageOK, LoadABI
  <2>1. CASE Goto(p, "return") /\ loc' = [loc EXCEPT ![p].open = {"forgotten"}]
    <3>1. PICK l, at : l = [loc[p] EXCEPT !.open = {"forgotten"}] /\ at = "return"
      OBVIOUS
    <3>2. Goto(p, at) /\ loc' = [loc EXCEPT ![p] = l]
      BY <2>1, <3>1
    <3>3. /\ l \in Locals /\ l.cmd = loc[p].cmd /\ l.cfg = loc[p].cfg /\ l.open = {"forgotten"}
          /\ l.secret = loc[p].secret /\ l.key = loc[p].key /\ l.defers = loc[p].defers
      BY <1>1, <3>1 DEF Locals
    <3>4. StageOK(l, at)
      <4>1. CASE l.cmd = "status"
        BY <1>1, <2>0, <3>1, <3>3, <4>1 DEF StageOK, Stacked
      <4>2. CASE l.cmd # "status"
        BY <1>1, <2>0, <3>1, <3>3, <4>2 DEF StageOK, Stacked, Unlocked
      <4> QED
        BY <4>1, <4>2
    <3>5. at \in Labels \ (InitLabels \cup {"idle"})
      BY <3>1 DEF Labels, InitLabels
    <3> QED
      BY <1>1, <3>2, <3>3, <3>4, <3>5, Onward
  <2>2. CASE loc' = [loc EXCEPT ![p].defers = <<"close">> \o @]
             /\ Goto(p, CASE loc[p].cmd = "start" -> "submit"
                          [] loc[p].cmd = "balance" -> "query"
                          [] OTHER -> "snapshot")
    <3>1. PICK at \in {"submit", "query", "snapshot"} :
            /\ Goto(p, at) /\ (at = "submit" => loc[p].cmd = "start")
            /\ (at = "query" => loc[p].cmd = "balance")
            /\ (at = "snapshot" <=> loc[p].cmd \notin {"start", "balance"})
      BY <2>2
    <3>2. PICK d, l : d = <<"close">> \o loc[p].defers /\ l = [loc[p] EXCEPT !.defers = d]
      OBVIOUS
    <3>3. loc' = [loc EXCEPT ![p] = l]
      BY <2>2, <3>2
    <3>4. CASE at = "snapshot"
      <4>1. loc[p].cmd = "status" /\ loc[p].key = "none" /\ d = C
        BY <1>1, <2>0, <3>1, <3>2, <3>4 DEF StageOK, C
      <4>2. /\ l \in Locals /\ l.cmd = "status" /\ l.cfg = loc[p].cfg /\ l.open = {"client"}
            /\ l.secret = loc[p].secret /\ l.key = "none" /\ l.defers = C
        BY <1>1, <2>0, <3>2, <4>1, Stacks DEF Locals, Calls
      <4>3. StageOK(l, at)
        BY <3>4, <4>2 DEF StageOK, Stacked
      <4>4. at \in Labels \ (InitLabels \cup {"idle"})
        BY <3>4 DEF Labels, InitLabels
      <4> QED
        BY <1>1, <3>1, <3>3, <4>2, <4>3, <4>4, Onward
    <3>5. CASE at # "snapshot"
      <4>1. Unlocked(loc[p]) /\ d = CW
        BY <1>1, <2>0, <3>1, <3>2, <3>5 DEF StageOK, CW
      <4>2. /\ l \in Locals /\ l.cmd = loc[p].cmd /\ l.cfg = loc[p].cfg /\ l.open = {"client"}
            /\ l.secret = loc[p].secret /\ l.key = loc[p].key /\ l.count = loc[p].count
            /\ l.defers = CW
        BY <1>1, <2>0, <3>2, <4>1, Stacks DEF Locals, Calls
      <4>3. StageOK(l, at)
        BY <3>1, <3>5, <4>1, <4>2 DEF StageOK, Stacked, Unlocked
      <4>4. at \in Labels \ (InitLabels \cup {"idle"})
        BY <3>5 DEF Labels, InitLabels
      <4> QED
        BY <1>1, <3>1, <3>3, <4>2, <4>3, <4>4, Onward
    <3> QED
      BY <3>4, <3>5
  <2> QED
    BY <1>3, <2>1, <2>2 DEF LoadABI
<1> QED
  BY <1>1, <1>2, <1>3 DEF Connect, LoadABI

LEMMA EquipKeeps ==
  ASSUME IInv, NEW p \in Procs, BuildSubmitClient(p) \/ ResolveCoreBinary(p)
  PROVE  IInv'
<1>1. /\ loc[p] \in Locals /\ StageOK(loc[p], pc[p]) /\ pc[p] \in {"submit", "core"}
      /\ loc[p].cmd = "start" /\ loc[p].cfg \in Configs /\ UNCHANGED storeVars
      /\ Unlocked(loc[p]) /\ Stacked(loc[p])
      /\ loc[p].secret # None => Safe(loc[p].secret)
  BY AtCommand DEF BuildSubmitClient, ResolveCoreBinary, InitLabels, StageOK
<1>2. CASE Leave(p)
  BY <1>1, <1>2, LeaveQuietly DEF InitLabels
<1>3. CASE BuildSubmitClient(p) /\ ~Leave(p)
  <2>1. pc[p] = "submit" /\ loc[p].defers = CW /\ loc[p].open = {"client"}
    BY <1>1, <1>3, Stacks DEF BuildSubmitClient, StageOK, Stacked, Unlocked
  <2>2. PICK at : at = "core"
    OBVIOUS
  <2>3. at \in Labels \ (InitLabels \cup {"idle"})
    BY <2>2 DEF Labels, InitLabels
  <2>4. CASE loc[p].cfg.submit = 0
    <3>1. PICK l : l = loc[p]
      OBVIOUS
    <3>2. Goto(p, at) /\ loc' = [loc EXCEPT ![p] = l]
      BY <1>3, <2>2, <2>4, <3>1 DEF BuildSubmitClient, IInv, TypeOK
    <3>3. StageOK(l, at)
      BY <1>1, <2>1, <2>2, <2>4, <3>1 DEF StageOK, Private
    <3> QED
      BY <1>1, <2>3, <3>1, <3>2, <3>3, Onward
  <2>5. CASE loc[p].cfg.submit # 0
    <3>1. PICK d, l : /\ d = <<"closeSubmit">> \o loc[p].defers
                      /\ l = [loc[p] EXCEPT !.open = @ \cup {"submit"}, !.defers = d]
      OBVIOUS
    <3>2. Goto(p, at) /\ loc' = [loc EXCEPT ![p] = l]
      BY <1>3, <2>2, <2>5, <3>1 DEF BuildSubmitClient
    <3>3. d = SCW
      BY <2>1, <3>1 DEF SCW
    <3>4. /\ l \in Locals /\ l.cmd = "start" /\ l.cfg = loc[p].cfg
          /\ l.open = {"client", "submit"} /\ l.secret = loc[p].secret /\ l.key = loc[p].key
          /\ l.count = loc[p].count /\ l.defers = SCW
      BY <1>1, <2>1, <3>1, <3>3, Stacks DEF Locals, Calls
    <3>5. StageOK(l, at)
      BY <1>1, <2>2, <3>4 DEF StageOK, Stacked, Unlocked, Private
    <3> QED
      BY <1>1, <2>3, <3>2, <3>4, <3>5, Onward
  <2> QED
    BY <2>4, <2>5
<1>4. CASE ResolveCoreBinary(p) /\ ~Leave(p)
  <2>1. pc[p] = "core" /\ loc[p].defers \in {CW, SCW} /\ Private(loc[p])
    BY <1>1, <1>4 DEF ResolveCoreBinary, StageOK
  <2>2. PICK at, d, l : /\ at = "run" /\ d = <<"cancel">> \o loc[p].defers
                        /\ l = [loc[p] EXCEPT !.defers = d]
    OBVIOUS
  <2>3. Goto(p, at) /\ loc' = [loc EXCEPT ![p] = l]
    BY <1>4, <2>2 DEF ResolveCoreBinary
  <2>4. /\ loc[p].defers = CW => d = XCW /\ loc[p].open = {"client"}
        /\ loc[p].defers = SCW => d = XSCW /\ loc[p].open = {"client", "submit"}
    <3>1. CW # SCW /\ CW # W /\ CW # C /\ SCW # W /\ SCW # C /\ CW # XCW /\ CW # XSCW
          /\ SCW # XCW /\ SCW # XSCW
      <4>1. W # CW /\ W # C
        BY Stacks
      <4> QED
        BY <4>1, Stacks
    <3>2. loc[p].defers = CW => d = XCW
      BY <2>2 DEF XCW
    <3>3. loc[p].defers = SCW => d = XSCW
      BY <2>2 DEF XSCW
    <3> QED
      BY <1>1, <3>1, <3>2, <3>3, Stacks DEF Stacked
  <2>5. d \in {XCW, XSCW} /\ d \in Seq(Calls)
    BY <2>1, <2>4, Stacks
  <2>6. /\ l \in Locals /\ l.cmd = "start" /\ l.cfg = loc[p].cfg
        /\ l.open = loc[p].open /\ l.secret = loc[p].secret /\ l.key = loc[p].key
        /\ l.count = loc[p].count /\ l.defers = d
    BY <1>1, <2>2, <2>5 DEF Locals, Calls
  <2>7. Stacked(l)
    BY <1>1, <2>1, <2>4, <2>6 DEF Stacked, Unlocked
  <2>8. StageOK(l, at)
    BY <1>1, <2>1, <2>2, <2>5, <2>6, <2>7 DEF StageOK, Unlocked, Private
  <2>9. at \in Labels \ (InitLabels \cup {"idle"})
    BY <2>2 DEF Labels, InitLabels
  <2> QED
    BY <1>1, <2>3, <2>6, <2>8, <2>9, Onward
<1> QED
  BY <1>1, <1>2, <1>3, <1>4 DEF BuildSubmitClient, ResolveCoreBinary

LEMMA WorkKeeps ==
  ASSUME IInv, NEW p \in Procs, StartEngine(p) \/ StopEngine(p) \/ Balance(p) \/ Status(p)
  PROVE  IInv'
<1>1. CASE StopEngine(p) \/ Status(p)
  BY <1>1, LeaveQuietly DEF StopEngine, Status, InitLabels
<1>2. CASE StartEngine(p) \/ Balance(p)
  <2>1. /\ loc[p] \in Locals /\ StageOK(loc[p], pc[p]) /\ pc[p] \in {"run", "query"}
        /\ loc[p].cmd # "init" /\ loc[p].cfg \in Configs
        /\ loc[p].secret # None => Safe(loc[p].secret)
    BY <1>2, AtCommand DEF StartEngine, Balance, InitLabels
  <2>2. Unlocked(loc[p]) /\ loc[p].secret \in Secrets
    BY <2>1 DEF StageOK, Unlocked, Locals
  <2>3. UNCHANGED <<file, known, givenUp>> /\ told' \subseteq told \cup {loc[p].secret}
    BY <1>2 DEF StartEngine, Balance
  <2>4. told' \subseteq Secrets /\ \A s \in told' : s \in told \/ Safe(s)
    BY <2>1, <2>2, <2>3 DEF IInv, TypeOK, Unlocked
  <2>5. CASE Leave(p)
    BY <2>1, <2>3, <2>4, <2>5, LeaveKeeps DEF InitLabels
  <2>6. CASE ~Leave(p)
    <3>1. PICK l, at : l = loc[p] /\ at = "engine"
      OBVIOUS
    <3>2. Goto(p, at) /\ loc' = [loc EXCEPT ![p] = l] /\ pc[p] = "run"
      BY <1>2, <2>6, <3>1 DEF StartEngine, Balance, IInv, TypeOK
    <3>3. StageOK(l, at)
      BY <2>1, <3>1, <3>2 DEF StageOK
    <3>4. at \in Labels \ (InitLabels \cup {"idle"})
      BY <3>1 DEF Labels, InitLabels
    <3> QED
      BY <2>1, <2>3, <2>4, <3>1, <3>2, <3>3, <3>4, CommandMove
  <2> QED
    BY <2>5, <2>6
<1> QED
  BY <1>1, <1>2

LEMMA UnwindKeeps == ASSUME IInv, NEW p \in Procs, Unwind(p) PROVE IInv'
<1>1. /\ loc[p] \in Locals /\ Stacked(loc[p]) /\ pc[p] = "return" /\ loc[p].defers # <<>>
      /\ loc[p].cmd # "init" /\ loc[p].cfg \in Configs /\ UNCHANGED <<storeVars, pc>>
      /\ loc[p].secret # None => Safe(loc[p].secret)
  BY AtCommand DEF Unwind, InitLabels, StageOK
<1>2. PICK at, h, t, key, open, l :
        /\ at = "return" /\ h = Head(loc[p].defers) /\ t = Tail(loc[p].defers)
        /\ key = (IF h = "wipe" THEN "wiped" ELSE loc[p].key)
        /\ open = (CASE h = "close" -> loc[p].open \ {"client"}
                     [] h = "closeSubmit" -> loc[p].open \ {"submit"}
                     [] OTHER -> loc[p].open)
        /\ l = [loc[p] EXCEPT !.defers = t, !.key = key, !.open = open]
  OBVIOUS
<1>3. Goto(p, at) /\ loc' = [loc EXCEPT ![p] = l]
  <2>1. pc' = [pc EXCEPT ![p] = at]
    BY <1>1, <1>2 DEF IInv, TypeOK
  <2>2. loc' = [loc EXCEPT ![p] = l]
    BY <1>2 DEF Unwind
  <2> QED
    BY <2>1, <2>2 DEF Goto
<1>4. t \in Seq(Calls) /\ key \in {"none", "live", "wiped"}
      /\ open \in SUBSET {"client", "submit", "forgotten"}
  <2>1. loc[p].defers \in Seq(Calls) /\ loc[p].defers # <<>>
    BY <1>1 DEF Locals, Calls
  <2>2. t \in Seq(Calls)
    BY <1>2, <2>1, HeadTailProperties, Zenon
  <2>3. loc[p].key \in {"none", "live", "wiped"} /\ loc[p].open \in SUBSET {"client", "submit", "forgotten"}
    BY <1>1 DEF Locals
  <2> QED
    BY <1>2, <2>2, <2>3
<1>5. /\ l \in Locals /\ l.cmd = loc[p].cmd /\ l.cfg = loc[p].cfg /\ l.secret = loc[p].secret
      /\ l.defers = t /\ l.key = key /\ l.open = open
  BY <1>1, <1>2, <1>4, Zenon DEF Locals, Calls
<1>6. Stacked(l)
  <2>1. CASE loc[p].defers = W
    BY <1>1, <1>2, <1>5, <2>1, Stacks DEF Stacked
  <2>2. CASE loc[p].defers = C
    BY <1>1, <1>2, <1>5, <2>2, Stacks DEF Stacked
  <2>3. CASE loc[p].defers \in {CW, XCW}
    <3>1. loc[p].key = "live" /\ loc[p].open = {"client"}
      BY <1>1, <2>3, Stacks DEF Stacked
    <3>2. CASE loc[p].defers = CW
      <4>1. h = "close" /\ t = W
        BY <1>2, <3>2, Stacks
      <4> QED
        BY <1>2, <1>5, <3>1, <4>1 DEF Stacked
    <3>3. CASE loc[p].defers = XCW
      <4>1. h = "cancel" /\ t = CW
        BY <1>2, <3>3, Stacks
      <4> QED
        BY <1>2, <1>5, <3>1, <4>1 DEF Stacked
    <3> QED
      BY <2>3, <3>2, <3>3
  <2>4. CASE loc[p].defers \in {SCW, XSCW}
    <3>1. loc[p].key = "live" /\ loc[p].open = {"client", "submit"}
      BY <1>1, <2>4, Stacks DEF Stacked
    <3>2. CASE loc[p].defers = SCW
      <4>1. h = "closeSubmit" /\ t = CW
        BY <1>2, <3>2, Stacks
      <4> QED
        BY <1>2, <1>5, <3>1, <4>1 DEF Stacked
    <3>3. CASE loc[p].defers = XSCW
      <4>1. h = "cancel" /\ t = SCW
        BY <1>2, <3>3, Stacks
      <4> QED
        BY <1>2, <1>5, <3>1, <4>1 DEF Stacked
    <3> QED
      BY <2>4, <3>2, <3>3
  <2>5. \/ loc[p].defers = W \/ loc[p].defers = C
        \/ loc[p].defers \in {CW, XCW} \/ loc[p].defers \in {SCW, XSCW}
    <3>1. Stacked(loc[p]) /\ loc[p].defers # <<>>
      BY <1>1
    <3> QED
      BY <3>1 DEF Stacked
  <2> QED
    BY <2>1, <2>2, <2>3, <2>4, <2>5
<1>7. StageOK(l, at) /\ at \in Labels \ (InitLabels \cup {"idle"})
  BY <1>2, <1>6 DEF StageOK, Labels, InitLabels
<1> QED
  BY <1>1, <1>3, <1>5, <1>7, Onward

LEMMA EndsKeep ==
  ASSUME IInv, NEW p \in Procs, Exit(p) \/ Gone(p)
  PROVE  IInv'
<1>1. CASE Gone(p)
  BY <1>1, QuitQuietly DEF Gone
<1>2. CASE Exit(p)
  <2>1. PICK l, at : l = loc[p] /\ at = "exited"
    OBVIOUS
  <2>2. /\ l \in Locals /\ Stacked(l) /\ l.defers = <<>> /\ l.cmd # "init" /\ l.cfg \in Configs
        /\ UNCHANGED storeVars
        /\ l.secret # None => Safe(l.secret)
    BY <1>2, <2>1, AtCommand DEF Exit, InitLabels, StageOK
  <2>3. Goto(p, at) /\ loc' = [loc EXCEPT ![p] = l]
    BY <1>2, <2>1 DEF Exit, IInv, TypeOK
  <2>4. StageOK(l, at) /\ at \in Labels \ (InitLabels \cup {"idle"})
    BY <2>1, <2>2 DEF StageOK, Labels, InitLabels
  <2> QED
    BY <2>2, <2>3, <2>4, Onward
<1> QED
  BY <1>1, <1>2

-----------------------------------------------------------------------------
\* Every step of every process preserves it.
LEMMA StepIInv == IInv /\ [Next]_vars => IInv'
<1> SUFFICES ASSUME IInv, [Next]_vars PROVE IInv'
  OBVIOUS
<1>1. CASE UNCHANGED vars
  BY <1>1 DEF vars, storeVars, IInv, TypeOK, FilesOK, KeyRecoverable, OnDisk, OwnOK, InitOK,
     CommandOK, Safe
<1>2. ASSUME NEW p \in Procs,
             RunWalletInit(p) \/ RunCommand(p) \/ InitStep(p) \/ CommandStep(p) \/ Gone(p)
      PROVE  IInv'
  <2>1. CASE RunWalletInit(p) \/ RunCommand(p) \/ Gone(p)
    BY <2>1, StartsKeep, EndsKeep
  <2>2. CASE InitStep(p)
    BY <2>2, StatKeeps, OverwriteKeeps, SecretKeeps, AnswersKeep, WritesKeep, TellsKeep
    DEF InitStep
  <2>3. CASE CommandStep(p)
    BY <2>3, LoadConfigKeeps, ListKeeps, UnlockKeeps, ChainKeeps, EquipKeeps, WorkKeeps,
       UnwindKeeps, EndsKeep DEF CommandStep
  <2> QED
    BY <1>2, <2>1, <2>2, <2>3
<1> QED
  BY <1>1, <1>2 DEF Next

\* It holds of every behaviour.
LEMMA AlwaysIInv == Spec => []IInv
  BY InitIInv, StepIInv, PTL DEF Spec

\* Type correctness: also that the deferred calls and the connections of a command are never
\* anything but what its stages put there (cli/mine.go, cli/wallet.go).
THEOREM TypesCorrect == Spec => []TypeOK
  BY AlwaysIInv, IInvSays, PTL

\* No key is lost behind the user's back, for any number of processes and secrets, whatever
\* commands they run and wherever they are killed (cli/wallet.go, wallet/*.go).
THEOREM KeysRecoverable == Spec => []KeyRecoverable
  BY AlwaysIInv, IInvSays, PTL

\* Keys are wiped last, and a process that returns leaves none (mine.go:79, wallet.go:260).
THEOREM KeysWipedLast == Spec => []WipedLast
  BY AlwaysIInv, IInvSays, PTL

\* What runs is equipped, for every configuration file (config.go:79, mine.go:54).
THEOREM EnginesEquipped == Spec => []EngineIsEquipped
  BY AlwaysIInv, IInvSays, PTL

=============================================================================
