-------------------------- MODULE MinerCoreProofs --------------------------
(***************************************************************************)
(* The core process, for any number of commands and runs and any capacity  *)
(* of the progress channel: its stdout is GrinderProtocol's, runs follow   *)
(* each other, and nothing is lost.                                        *)
(***************************************************************************)
EXTENDS MinerCore, FiniteSetTheorems, SequenceTheorems, TLAPS

(* Counting in sequences. *)

\* How often x is in q.
Num(q, x) == Cardinality({i \in DOMAIN q : q[i] = x})

\* Nothing is in the empty sequence.
LEMMA NumEmpty == \A x : Num(<<>>, x) = 0
<1>1. \A x : {i \in DOMAIN <<>> : <<>>[i] = x} = {}
  OBVIOUS
<1>. QED BY <1>1, FS_EmptySet DEF Num

\* How often something occurs is a number.
LEMMA NumNat ==
  ASSUME NEW S, NEW q \in Seq(S), NEW x
  PROVE  Num(q, x) \in Nat /\ IsFiniteSet({i \in DOMAIN q : q[i] = x})
<1>1. DOMAIN q = 1 .. Len(q) /\ Len(q) \in Nat
  BY LenProperties
<1>2. IsFiniteSet(1 .. Len(q))
  BY <1>1, FS_Interval
<1>3. IsFiniteSet({i \in DOMAIN q : q[i] = x})
  BY <1>1, <1>2, FS_Subset
<1>. QED BY <1>3, FS_CardinalityType DEF Num

\* Appending e adds one to its number.
LEMMA NumAppend ==
  ASSUME NEW S, NEW q \in Seq(S), NEW e \in S, NEW x
  PROVE  Num(Append(q, e), x) = Num(q, x) + (IF e = x THEN 1 ELSE 0)
<1>. DEFINE A == {i \in DOMAIN q : q[i] = x}
            B == {i \in DOMAIN Append(q, e) : Append(q, e)[i] = x}
            n == Len(q) + 1
<1>1. /\ Len(q) \in Nat /\ DOMAIN q = 1 .. Len(q) /\ DOMAIN Append(q, e) = 1 .. n
      /\ \A i \in 1 .. Len(q) : Append(q, e)[i] = q[i]
      /\ Append(q, e)[n] = e
  BY LenProperties, AppendProperties
<1>2. IsFiniteSet(A) /\ n \notin A /\ Cardinality(A) \in Nat
  <2>1. n \notin A
    BY <1>1
  <2>2. IsFiniteSet(A) /\ Num(q, x) \in Nat
    BY NumNat
  <2>. QED BY <2>1, <2>2 DEF Num
<1>3. CASE e = x
  <2>1. B = A \cup {n}
    BY <1>1, <1>3
  <2>. HIDE DEF A, B, n
  <2>2. Cardinality(B) = Cardinality(A) + 1
    BY <1>2, <2>1, FS_AddElement
  <2>. QED BY <1>3, <2>2 DEF Num, A, B
<1>4. CASE e # x
  <2>1. B = A
    BY <1>1, <1>4
  <2>2. Num(Append(q, e), x) = Num(q, x)
    BY <2>1 DEF Num
  <2>3. Num(q, x) \in Nat
    BY NumNat
  <2>. QED BY <1>4, <2>2, <2>3
<1>. QED BY <1>3, <1>4

\* Taking the head takes one from its number.
LEMMA NumTail ==
  ASSUME NEW S, NEW q \in Seq(S), q # <<>>, NEW x
  PROVE  Num(q, x) = Num(Tail(q), x) + (IF Head(q) = x THEN 1 ELSE 0)
<1>. DEFINE A == {i \in DOMAIN Tail(q) : Tail(q)[i] = x}
            B == {i \in DOMAIN q : q[i] = x}
            C == B \ {1}
            f == [i \in A |-> i + 1]
<1>1. /\ Len(q) \in Nat \ {0} /\ DOMAIN q = 1 .. Len(q) /\ DOMAIN Tail(q) = 1 .. (Len(q) - 1)
      /\ \A i \in 1 .. (Len(q) - 1) : Tail(q)[i] = q[i + 1]
      /\ Head(q) = q[1] /\ Tail(q) \in Seq(S)
  <2>1. Len(q) \in Nat /\ Len(q) # 0 /\ DOMAIN q = 1 .. Len(q)
    BY LenProperties, EmptySeq, Zenon
  <2>2. /\ Tail(q) \in Seq(S) /\ Len(Tail(q)) = Len(q) - 1
        /\ \A i \in 1 .. (Len(q) - 1) : Tail(q)[i] = q[i + 1]
    BY HeadTailProperties, Zenon
  <2>3. DOMAIN Tail(q) = 1 .. (Len(q) - 1)
    <3>1. DOMAIN Tail(q) = 1 .. Len(Tail(q))
      BY <2>2, LenProperties, Zenon
    <3>. QED BY <2>2, <3>1, Zenon
  <2>4. Head(q) = q[1]
    BY <2>1
  <2>. QED BY <2>1, <2>2, <2>3, <2>4
<1>2. /\ IsFiniteSet(A) /\ Cardinality(A) \in Nat
      /\ IsFiniteSet(B) /\ Cardinality(B) \in Nat
  <2>1. Num(Tail(q), x) \in Nat /\ IsFiniteSet(A)
    BY <1>1, NumNat, Zenon
  <2>2. Num(q, x) \in Nat /\ IsFiniteSet(B)
    BY NumNat, Zenon
  <2>. QED BY <2>1, <2>2, Zenon DEF Num
<1>3. Cardinality(A) = Cardinality(C) /\ IsFiniteSet(C)
  <2>1. \A i \in A : i + 1 \in C
    <3>1. ASSUME NEW i \in A PROVE i + 1 \in C
      <4>1. i \in 1 .. (Len(q) - 1) /\ q[i + 1] = x
        BY <1>1
      <4>2. i + 1 \in 1 .. Len(q) /\ i + 1 # 1
        BY <1>1, <4>1
      <4>. QED BY <1>1, <4>1, <4>2
    <3>. QED BY <3>1
  <2>2. \A j \in C : j - 1 \in A /\ j - 1 + 1 = j
    BY <1>1
  <2>3. A \subseteq Int
    BY <1>1
  <2>. HIDE DEF A, C
  <2>4. f \in Bijection(A, C)
    <3>1. f \in [A -> C]
      BY <2>1
    <3>2. \A a, b \in A : f[a] = f[b] => a = b
      BY <2>3
    <3>3. \A j \in C : \E a \in A : f[a] = j
      BY <2>2
    <3>. QED BY <3>1, <3>2, <3>3 DEF Bijection, Injection, Surjection, IsInjective
  <2>. QED BY <1>2, <2>4, FS_Bijection DEF ExistsBijection
<1>4. CASE Head(q) = x
  <2>1. B = C \cup {1} /\ 1 \notin C
    BY <1>1, <1>4
  <2>. HIDE DEF A, B, C
  <2>2. Cardinality(B) = Cardinality(C) + 1
    BY <1>3, <2>1, FS_AddElement
  <2>. QED BY <1>3, <1>4, <2>2 DEF Num, A, B
<1>5. CASE Head(q) # x
  <2>1. B = C
    BY <1>1, <1>5
  <2>2. Num(q, x) = Num(Tail(q), x)
    BY <1>3, <2>1 DEF Num
  <2>3. Num(Tail(q), x) \in Nat
    BY <1>1, NumNat
  <2>. QED BY <1>5, <2>2, <2>3
<1>. QED BY <1>4, <1>5

-----------------------------------------------------------------------------
(* The invariant. *)

\* The run that the command in main's hands may still start.
Owed == IF mpc \in {"join", "start"} /\ cur.cmd \in {"start", "retarget"} THEN 1 ELSE 0

\* Runs are numbered as they start, the active one is the last, and no other is busy; every run was
\* asked for by a command.
RunInv ==
  /\ \A k \in Runs : k > nruns <=> phase[k] = "none"
  /\ \A k \in Runs : phase[k] \notin {"none", "end"} => k = active
  /\ active \in {0, nruns}
  /\ mpc \in {"boot", "start", "drop", "exited"} => active = 0
  /\ mpc = "boot" => nruns = 0
  /\ nruns + Len(stdin) + Owed <= written
  /\ mpc = "join" => cur.cmd \in {"start", "retarget", "stop", "eof"}
  /\ mpc = "start" => cur.cmd \in {"start", "retarget"}

\* Where reporter, forwarder and channel of run k are while its thread is in a phase.
ThreadInv(k) ==
  /\ phase[k] = "none" => fwd[k] = "none" /\ rep[k] = "none" /\ prog[k] = <<>> /\ reports[k] = 0
  /\ phase[k] \in {"none", "grind"} <=> result[k] = "none"
  /\ phase[k] \in {"last", "drop", "joinfwd", "emit", "end"} => rep[k] \in {"none", "gone"}
  /\ phase[k] \in {"emit", "end"} => fwd[k] = "gone"
  /\ fwd[k] = "gone" => prog[k] = <<>> /\ phase[k] \in {"joinfwd", "emit", "end"}
  /\ mode[k] = "gpu" => rep[k] = "none"
  /\ rep[k] = "send" => reports[k] < MaxReports

\* The emitter ends when nobody can send any more, and main after it.
ExitInv ==
  /\ epc = "gone" => /\ evq = <<>> /\ mpc \in {"drop", "exited", "broken", "dead"}
                     /\ \A k \in Runs : phase[k] \in {"none", "end"}
  /\ mpc = "exited" => epc = "gone"

\* What is said of a run before b may come before b.
Before(a, b) == b.run # 0 => a.run <= b.run /\ ~(a.run = b.run /\ a.ev \in Protocol!Ends)

\* Every event that waits may follow those before it: ready is the first, and a run is not spoken of
\* after its end or after the next has begun.
EventInv ==
  /\ \A j \in DOMAIN evq :
       /\ evq[j] \in Protocol!Events
       /\ evq[j].ev = "ready" <=> out = <<>> /\ j = 1
       /\ \A i \in DOMAIN out : Before(out[i], evq[j])
       /\ \A i \in 1 .. (j - 1) : Before(evq[i], evq[j])
  /\ \A i \in DOMAIN out : out[i].run <= nruns
  /\ \A i \in DOMAIN evq : evq[i].run <= nruns
  /\ \A i \in DOMAIN out : out[i].run # 0 /\ out[i].ev \in Protocol!Ends => phase[out[i].run] = "end"
  /\ \A i \in DOMAIN evq : evq[i].run # 0 /\ evq[i].ev \in Protocol!Ends => phase[evq[i].run] = "end"
  /\ mpc = "boot" <=> out = <<>> /\ evq = <<>>

\* Events of a kind and a run that were sent.
Said(kind, k) == Num(out, Event(kind, k)) + Num(evq, Event(kind, k))

\* Updates are in the progress channel, in the forwarder's hands or sent, and a run has said how it
\* ended exactly when it has failed or is over.
CountInv ==
  \A k \in Runs :
    /\ Said("progress", k) + Num(prog[k], "progress") + (IF fwd[k] = "pass" THEN 1 ELSE 0) = reports[k]
    /\ Said("found", k) + Said("stopped", k) + Said("error", k)
         = IF phase[k] = "end" \/ result[k] = "error" THEN 1 ELSE 0

\* The inductive invariant.
IInv ==
  /\ TypeOK /\ RunInv /\ (\A k \in Runs : ThreadInv(k)) /\ ExitInv /\ EventInv /\ CountInv

\* The invariant holds before anything runs.
LEMMA InitIInv == Init => IInv
<1>. SUFFICES ASSUME Init PROVE IInv
  OBVIOUS
<1>. USE DEF Init
<1>1. MaxRuns \in Nat /\ MaxReports \in Nat /\ ProgCap \in Nat /\ 0 <= ProgCap
  BY BoundsAssumption
<1>2. \A S : <<>> \in Seq(S) /\ Len(<<>>) = 0
  BY EmptySeq
<1>3. TypeOK
  <2>1. /\ stdin \in Seq(Commands) /\ evq \in Seq(EventType) /\ out \in Seq(EventType)
        /\ <<>> \in Seq({"progress", "stopped"})
    BY <1>2
  <2>2. prog \in [Runs -> Seq({"progress", "stopped"})] /\ \A k \in Runs : Len(prog[k]) <= ProgCap
    BY <1>1, <1>2, <2>1
  <2>3. 0 \in 0 .. MaxRuns /\ 0 \in 0 .. MaxReports /\ 0 \in 0 .. 0
    BY <1>1
  <2>. QED BY <2>1, <2>2, <2>3 DEF TypeOK
<1>4. RunInv
  BY <1>1, <1>2 DEF RunInv, Runs, Owed, NoCommand
<1>5. \A k \in Runs : ThreadInv(k)
  BY DEF ThreadInv
<1>6. ExitInv /\ EventInv
  BY DEF ExitInv, EventInv
<1>7. CountInv
  BY NumEmpty DEF CountInv, Said
<1>. QED BY <1>3, <1>4, <1>5, <1>6, <1>7 DEF IInv

\* What a command holds.
LEMMA CommandFields ==
  ASSUME NEW c \in Commands
  PROVE  /\ c.cmd \in {"start", "retarget", "stop", "probe", "bad", "garbled"}
         /\ c.cmd = "start" => c.mode \in {"cpu", "gpu"}
         /\ c.cmd \in {"start", "retarget"} => c.ok \in BOOLEAN
         /\ c.cmd \in {"start", "retarget"} => ModeOf(c) \in {"cpu", "gpu"}
BY CommandsAssumption DEF CommandType, ModeOf

\* A run that starts has a number left, and is alone.
LEMMA NextRun ==
  ASSUME TypeOK, RunInv, mpc = "start"
  PROVE  /\ nruns + 1 \in Runs /\ nruns + 1 \in Nat /\ active = 0 /\ cur \in Commands
         /\ phase[nruns + 1] = "none"
         /\ \A k \in Runs : phase[k] \in {"none", "end"}
<1>1. MaxRuns \in Nat /\ Len(stdin) \in Nat /\ nruns \in Nat /\ written \in Nat /\ written <= MaxRuns
  BY BoundsAssumption, LenProperties DEF TypeOK
<1>2. Owed = 1 /\ cur \in Commands /\ active = 0
  BY DEF Owed, RunInv, TypeOK, NoCommand, Eof
<1>3. nruns + 1 \in Runs /\ nruns + 1 > nruns
  BY <1>1, <1>2 DEF RunInv, Runs
<1>4. \A k \in Runs : k # 0
  BY DEF Runs
<1>. QED BY <1>1, <1>2, <1>3, <1>4 DEF RunInv

\* A step keeps the types.
LEMMA TypeStep ==
  ASSUME IInv, Next
  PROVE  TypeOK'
<1>. USE DEF inVars, mainVars, runVars, progVars, outVars, Send, Set, RunFrame
<1>1. TypeOK /\ RunInv /\ MaxRuns \in Nat /\ MaxReports \in Nat /\ ProgCap \in Nat \ {0}
  BY BoundsAssumption DEF IInv
<1>2. \A kind \in {"ready", "devices", "error", "progress", "found", "stopped"}, k \in 0 .. MaxRuns :
        Event(kind, k) \in EventType
  BY DEF Event, EventType
<1>3. \A e \in EventType : Append(evq, e) \in Seq(EventType)
  BY <1>1, AppendProperties DEF TypeOK
<1>4. Runs \subseteq 0 .. MaxRuns /\ 0 \in 0 .. MaxRuns
  BY <1>1 DEF Runs
<1>5. stdin # <<>> => Tail(stdin) \in Seq(Commands) /\ Head(stdin) \in Commands
  BY <1>1, HeadTailProperties DEF TypeOK
<1>6. \A k \in Runs : prog[k] # <<>> => Tail(prog[k]) \in Seq({"progress", "stopped"}) /\ Len(Tail(prog[k])) <= ProgCap
  <2>1. ASSUME NEW k \in Runs, prog[k] # <<>>
        PROVE  Tail(prog[k]) \in Seq({"progress", "stopped"}) /\ Len(Tail(prog[k])) <= ProgCap
    <3>1. prog[k] \in Seq({"progress", "stopped"}) /\ Len(prog[k]) <= ProgCap
      BY <1>1 DEF TypeOK
    <3>2. Tail(prog[k]) \in Seq({"progress", "stopped"}) /\ Len(Tail(prog[k])) = Len(prog[k]) - 1 /\ Len(prog[k]) \in Nat
      BY <2>1, <3>1, HeadTailProperties, LenProperties
    <3>. QED BY <1>1, <3>1, <3>2
  <2>. QED BY <2>1
<1>7. \A k \in Runs, m \in {"progress", "stopped"} : Room(k) =>
        Append(prog[k], m) \in Seq({"progress", "stopped"}) /\ Len(Append(prog[k], m)) <= ProgCap
  <2>1. ASSUME NEW k \in Runs, NEW m \in {"progress", "stopped"}, Room(k)
        PROVE  Append(prog[k], m) \in Seq({"progress", "stopped"}) /\ Len(Append(prog[k], m)) <= ProgCap
    <3>1. prog[k] \in Seq({"progress", "stopped"}) /\ Len(prog[k]) < ProgCap
      BY <1>1, <2>1 DEF TypeOK, Room
    <3>2. /\ Append(prog[k], m) \in Seq({"progress", "stopped"}) /\ Len(Append(prog[k], m)) = Len(prog[k]) + 1
          /\ Len(prog[k]) \in Nat
      BY <3>1, AppendProperties, LenProperties
    <3>. QED BY <1>1, <3>1, <3>2
  <2>. QED BY <2>1
<1>7a. ASSUME NEW k \in Runs, NEW m \in {"progress", "stopped"}, Push(k, m)
       PROVE  /\ prog' \in [Runs -> Seq({"progress", "stopped"})]
              /\ \A j \in Runs : Len(prog'[j]) <= ProgCap
  <2>1. prog' = [prog EXCEPT ![k] = Append(prog[k], m)] /\ Room(k)
    BY <1>7a DEF Push
  <2>2. Append(prog[k], m) \in Seq({"progress", "stopped"}) /\ Len(Append(prog[k], m)) <= ProgCap
    BY <1>7, <2>1
  <2>3. prog \in [Runs -> Seq({"progress", "stopped"})] /\ \A j \in Runs : Len(prog[j]) <= ProgCap
    BY <1>1 DEF TypeOK
  <2>. QED BY <2>1, <2>2, <2>3
<1>8. CASE WriteCommand
  <2>1. \A c \in Commands : Append(stdin, c) \in Seq(Commands)
    BY <1>1, AppendProperties DEF TypeOK
  <2>. QED BY <1>1, <1>8, <2>1 DEF WriteCommand, TypeOK
<1>9. CASE CloseStdin \/ Terminated
  <2>1. eof' \in BOOLEAN /\ UNCHANGED <<stdin, written, mainVars, runVars, progVars, outVars>>
    BY <1>1, <1>9 DEF CloseStdin, Terminated, vars, TypeOK
  <2>. QED BY <1>1, <2>1 DEF TypeOK
<1>10. CASE Boot \/ ReadOther
  <2>1. \A kind \in {"ready", "devices", "error"} : Append(evq, Event(kind, 0)) \in Seq(EventType)
    BY <1>2, <1>3, <1>4
  <2>2. CASE Boot
    BY <1>1, <2>1, <2>2 DEF Boot, TypeOK
  <2>3. CASE ReadOther
    <3>1. stdin' \in Seq(Commands) /\ evq' \in Seq(EventType)
      BY <1>5, <2>1, <2>3 DEF ReadOther
    <3>. QED BY <1>1, <2>3, <3>1 DEF ReadOther, TypeOK
  <2>. QED BY <1>10, <2>2, <2>3
<1>11. CASE ReadCommand \/ ReadEof
  <2>1. active # 0 => active \in Runs
    BY <1>1 DEF TypeOK, Runs
  <2>2. /\ mpc' = "join" /\ cur' \in Commands \cup {Eof} /\ stdin' \in Seq(Commands)
        /\ stop' = IF active = 0 THEN stop ELSE [stop EXCEPT ![active] = TRUE]
        /\ UNCHANGED <<written, eof, active, nruns, mode, phase, result, progVars, outVars>>
    <3>1. CASE ReadCommand
      BY <1>5, <3>1 DEF ReadCommand, TakeActive
    <3>2. CASE ReadEof
      BY <1>1, <3>2 DEF ReadEof, TakeActive, TypeOK
    <3>. QED BY <1>11, <3>1, <3>2
  <2>3. stop' \in [Runs -> BOOLEAN]
    BY <1>1, <2>1, <2>2 DEF TypeOK
  <2>. QED BY <1>1, <2>2, <2>3 DEF TypeOK
<1>12. CASE Joined \/ ExitMain \/ ReadFails \/ ProcessEnds
  BY <1>1, <1>12 DEF Joined, ExitMain, ReadFails, ProcessEnds, TypeOK
<1>13. CASE StartRun
  <2>1. /\ nruns + 1 \in Runs /\ nruns + 1 \in 0 .. MaxRuns /\ nruns + 1 \in 0 .. (nruns + 1)
        /\ ModeOf(cur) \in {"cpu", "gpu"}
    <3>1. nruns + 1 \in Runs /\ nruns + 1 \in Nat /\ cur \in Commands /\ cur.cmd \in {"start", "retarget"}
      BY <1>1, <1>13, NextRun DEF StartRun, RunInv
    <3>. QED BY <1>4, <3>1, CommandFields
  <2>2. CASE cur.ok
    <3>1. /\ mpc' = "read" /\ nruns' = nruns + 1 /\ active' = nruns + 1
          /\ mode' = [mode EXCEPT ![nruns + 1] = ModeOf(cur)]
          /\ phase' = [phase EXCEPT ![nruns + 1] = "grind"]
          /\ rep' = [rep EXCEPT ![nruns + 1] = IF ModeOf(cur) = "cpu" THEN "run" ELSE "none"]
          /\ fwd' = [fwd EXCEPT ![nruns + 1] = "recv"]
          /\ UNCHANGED <<evq, epc, out, inVars, cur, stop, result, reports, prog>>
      BY <1>13, <2>2 DEF StartRun
    <3>. HIDE DEF Send
    <3>. QED BY <1>1, <2>1, <3>1 DEF TypeOK
  <2>3. CASE ~cur.ok
    <3>1. /\ mpc' = "read" /\ evq' = Append(evq, Event("error", 0))
          /\ UNCHANGED <<nruns, active, mode, phase, rep, fwd, epc, out, inVars, cur, stop, result, reports, prog>>
      BY <1>13, <2>3 DEF StartRun
    <3>2. Append(evq, Event("error", 0)) \in Seq(EventType)
      BY <1>2, <1>3, <1>4
    <3>. QED BY <1>1, <3>1, <3>2 DEF TypeOK
  <2>. QED BY <2>2, <2>3
<1>14. CASE EmitterWrites
  <2>1. evq # <<>> /\ Tail(evq) \in Seq(EventType) /\ Head(evq) \in EventType
    BY <1>1, <1>14, HeadTailProperties DEF TypeOK, EmitterWrites
  <2>2. Append(out, Head(evq)) \in Seq(EventType)
    BY <1>1, <2>1, AppendProperties DEF TypeOK
  <2>. QED BY <1>1, <1>14, <2>1, <2>2 DEF EmitterWrites, TypeOK
<1>15. CASE EmitterEnds
  BY <1>1, <1>15 DEF EmitterEnds, TypeOK
<1>16. ASSUME NEW k \in Runs, RunStep(k) \/ GrindFound(k) \/ GpuReport(k) \/ GpuError(k) \/ ReportStep(k)
       PROVE  TypeOK'
  <2>0. k \in 0 .. MaxRuns
    BY <1>4
  <2>1. CASE GrindFound(k) \/ GrindStopped(k)
    <3>1. PICK r \in {"found", "stopped"} : GrindEnds(k, r)
      BY <2>1 DEF GrindFound, GrindStopped
    <3>2. /\ result' = [result EXCEPT ![k] = r]
          /\ \E v \in {"joinrep", "last", "drop"} : phase' = [phase EXCEPT ![k] = v]
          /\ UNCHANGED <<inVars, mainVars, mode, stop, progVars, outVars>>
      BY <3>1 DEF GrindEnds
    <3>3. /\ result' \in [Runs -> {"none", "found", "stopped", "error"}]
          /\ phase' \in [Runs -> {"none", "grind", "joinrep", "last", "drop", "joinfwd", "emit", "end"}]
      BY <1>1, <3>1, <3>2 DEF TypeOK
    <3>. QED BY <1>1, <3>2, <3>3 DEF TypeOK
  <2>2. CASE JoinReporter(k) \/ DropProg(k) \/ JoinForwarder(k)
    <3>1. /\ \E v \in {"last", "joinfwd", "emit"} : phase' = [phase EXCEPT ![k] = v]
          /\ UNCHANGED <<inVars, mainVars, mode, stop, result, progVars, outVars>>
      BY <2>2 DEF JoinReporter, DropProg, JoinForwarder
    <3>2. phase' \in [Runs -> {"none", "grind", "joinrep", "last", "drop", "joinfwd", "emit", "end"}]
      BY <1>1, <3>1 DEF TypeOK
    <3>. QED BY <1>1, <3>1, <3>2 DEF TypeOK
  <2>3. CASE SendStopped(k)
    <3>1. Push(k, "stopped") /\ phase' = [phase EXCEPT ![k] = "drop"]
          /\ UNCHANGED <<inVars, mainVars, mode, stop, result, rep, reports, fwd, outVars>>
      BY <2>3 DEF SendStopped
    <3>2. /\ prog' \in [Runs -> Seq({"progress", "stopped"})]
          /\ \A j \in Runs : Len(prog'[j]) <= ProgCap
      BY <1>7a, <3>1
    <3>3. phase' \in [Runs -> {"none", "grind", "joinrep", "last", "drop", "joinfwd", "emit", "end"}]
      BY <1>1, <3>1 DEF TypeOK
    <3>. QED BY <1>1, <3>1, <3>2, <3>3 DEF TypeOK
  <2>4. CASE EmitResult(k)
    <3>1. CASE result[k] = "error"
      BY <1>1, <2>4, <3>1 DEF EmitResult, TypeOK
    <3>2. CASE result[k] # "error"
      <4>1. result[k] \in {"none", "found", "stopped"}
        BY <1>1, <3>2 DEF TypeOK
      <4>2. result[k] # "none"
        BY <2>4 DEF IInv, ThreadInv, EmitResult
      <4>3. Append(evq, Event(result[k], k)) \in Seq(EventType)
        BY <1>2, <1>3, <2>0, <4>1, <4>2
      <4>. QED BY <1>1, <2>4, <3>2, <4>3 DEF EmitResult, TypeOK
    <3>. QED BY <3>1, <3>2
  <2>5. CASE GpuReport(k) \/ ReporterSends(k)
    <3>1. reports[k] < MaxReports => reports[k] + 1 \in 0 .. MaxReports
      BY <1>1 DEF TypeOK
    <3>2. reports[k] < MaxReports
      BY <2>5 DEF GpuReport, ReporterSends, IInv, ThreadInv
    <3>3. Push(k, "progress") /\ reports' = [reports EXCEPT ![k] = reports[k] + 1]
          /\ UNCHANGED <<inVars, mainVars, mode, stop, phase, result, fwd, outVars>>
      BY <2>5 DEF GpuReport, ReporterSends
    <3>4. /\ prog' \in [Runs -> Seq({"progress", "stopped"})]
          /\ \A j \in Runs : Len(prog'[j]) <= ProgCap
      BY <1>7a, <3>3
    <3>5. reports' \in [Runs -> 0 .. MaxReports]
      BY <1>1, <3>1, <3>2, <3>3 DEF TypeOK
    <3>6. rep' = rep \/ rep' = [rep EXCEPT ![k] = "run"]
      BY <2>5 DEF GpuReport, ReporterSends
    <3>7. rep' \in [Runs -> {"none", "run", "send", "gone"}]
      BY <1>1, <3>6 DEF TypeOK
    <3>. QED BY <1>1, <3>3, <3>4, <3>5, <3>7 DEF TypeOK
  <2>6. CASE GpuError(k)
    BY <1>1, <1>2, <1>3, <2>0, <2>6 DEF GpuError, TypeOK
  <2>7. CASE ReporterWakes(k) \/ ForwarderEnds(k)
    <3>1. CASE ReporterWakes(k)
      <4>1. /\ rep' = [rep EXCEPT ![k] = "gone"] \/ rep' = [rep EXCEPT ![k] = "send"]
            /\ UNCHANGED <<inVars, mainVars, runVars, reports, prog, fwd, outVars>>
        BY <3>1 DEF ReporterWakes
      <4>2. rep' \in [Runs -> {"none", "run", "send", "gone"}]
        BY <1>1, <4>1 DEF TypeOK
      <4>. QED BY <1>1, <4>1, <4>2 DEF TypeOK
    <3>2. CASE ForwarderEnds(k)
      <4>1. /\ fwd' = [fwd EXCEPT ![k] = "gone"]
            /\ UNCHANGED <<inVars, mainVars, runVars, rep, reports, prog, outVars>>
        BY <3>2 DEF ForwarderEnds
      <4>2. fwd' \in [Runs -> {"none", "recv", "pass", "gone"}]
        BY <1>1, <4>1 DEF TypeOK
      <4>. QED BY <1>1, <4>1, <4>2 DEF TypeOK
    <3>. QED BY <2>7, <3>1, <3>2
  <2>8. CASE ForwarderTakes(k)
    BY <1>1, <1>6, <2>8 DEF ForwarderTakes, TypeOK
  <2>9. CASE ForwarderPasses(k)
    BY <1>1, <1>2, <1>3, <2>0, <2>9 DEF ForwarderPasses, TypeOK
  <2>. QED BY <1>16, <2>1, <2>2, <2>3, <2>4, <2>5, <2>6, <2>7, <2>8, <2>9 DEF RunStep, ReportStep
<1>. QED BY <1>8, <1>9, <1>10, <1>11, <1>12, <1>13, <1>14, <1>15, <1>16 DEF Next, MainStep

\* A step keeps the runs in order.
LEMMA RunKept ==
  ASSUME IInv, Next
  PROVE  RunInv'
<1>. USE DEF inVars, mainVars, runVars, progVars, outVars, Send, Set, RunFrame
<1>1. /\ TypeOK /\ RunInv /\ nruns \in Nat /\ written \in Nat /\ Len(stdin) \in Nat /\ Owed \in {0, 1}
      /\ phase \in [Runs -> {"none", "grind", "joinrep", "last", "drop", "joinfwd", "emit", "end"}]
      /\ Runs \subseteq Nat /\ 0 \notin Runs
  BY LenProperties DEF IInv, TypeOK, Owed, Runs
<1>2. CASE WriteCommand
  <2>1. Len(stdin') = Len(stdin) + 1 /\ written' = written + 1
    <3>1. PICK c \in Commands : stdin' = Append(stdin, c)
      BY <1>2 DEF WriteCommand
    <3>. QED BY <1>1, <1>2, <3>1, AppendProperties DEF TypeOK, WriteCommand
  <2>2. Owed' = Owed
    BY <1>2 DEF WriteCommand, Owed
  <2>. QED BY <1>1, <1>2, <2>1, <2>2 DEF WriteCommand, RunInv
<1>3. CASE CloseStdin \/ Terminated \/ EmitterWrites \/ EmitterEnds
  <2>1. UNCHANGED <<stdin, written, mpc, cur, active, nruns, phase>>
    BY <1>3 DEF CloseStdin, Terminated, EmitterWrites, EmitterEnds, vars
  <2>2. Owed' = Owed
    BY <2>1 DEF Owed
  <2>. QED BY <1>1, <2>1, <2>2 DEF RunInv
<1>4. ASSUME NEW k \in Runs, RunStep(k) \/ GrindFound(k) \/ GpuReport(k) \/ GpuError(k) \/ ReportStep(k)
      PROVE  RunInv'
  <2>1. UNCHANGED <<stdin, written, mpc, cur, active, nruns>>
    BY <1>4 DEF RunStep, ReportStep, GrindFound, GrindStopped, GrindEnds, JoinReporter, SendStopped, DropProg,
         JoinForwarder, EmitResult, GpuReport, GpuError, ReporterWakes, ReporterSends, ForwarderTakes,
         ForwarderPasses, ForwarderEnds
  <2>2. \/ phase' = phase
        \/ /\ phase[k] \notin {"none", "end"}
           /\ \E v \in {"joinrep", "last", "drop", "joinfwd", "emit", "end"} : phase' = [phase EXCEPT ![k] = v]
    BY <1>4 DEF RunStep, ReportStep, GrindFound, GrindStopped, GrindEnds, JoinReporter, SendStopped, DropProg,
         JoinForwarder, EmitResult, GpuReport, GpuError, ReporterWakes, ReporterSends, ForwarderTakes,
         ForwarderPasses, ForwarderEnds
  <2>3. Owed' = Owed
    BY <2>1 DEF Owed
  <2>. QED BY <1>1, <2>1, <2>2, <2>3 DEF RunInv
<1>5. CASE Boot
  <2>1. Owed' = 0 /\ Owed = 0
    BY <1>5 DEF Boot, Owed
  <2>. QED BY <1>1, <1>5, <2>1 DEF Boot, RunInv
<1>6. CASE ReadOther \/ ReadCommand
  <2>1. stdin # <<>> /\ Head(stdin) \in Commands /\ Len(stdin') = Len(stdin) - 1
    <3>1. stdin # <<>> /\ stdin' = Tail(stdin)
      BY <1>6 DEF ReadOther, ReadCommand
    <3>. QED BY <1>1, <3>1, HeadTailProperties DEF TypeOK
  <2>2. UNCHANGED <<written, nruns, active, phase>> /\ mpc = "read" /\ Owed = 0
    BY <1>6 DEF ReadOther, ReadCommand, TakeActive, Owed
  <2>3. /\ mpc' \in {"read", "join"}
        /\ mpc' = "join" => cur'.cmd \in {"start", "retarget", "stop"}
    BY <1>6 DEF ReadOther, ReadCommand, TakeActive
  <2>4. Owed' \in {0, 1}
    BY DEF Owed
  <2>. QED BY <1>1, <2>1, <2>2, <2>3, <2>4 DEF RunInv
<1>7. CASE ReadEof
  <2>1. Owed' = 0 /\ Owed = 0 /\ cur'.cmd = "eof" /\ mpc' = "join"
    BY <1>7 DEF ReadEof, TakeActive, Owed, Eof
  <2>. QED BY <1>1, <1>7, <2>1 DEF ReadEof, TakeActive, RunInv
<1>8. CASE Joined
  <2>1. /\ cur.cmd \in {"start", "retarget", "stop", "eof"} /\ mpc = "join"
        /\ mpc' = "start" <=> cur.cmd \in {"start", "retarget"}
        /\ mpc' \in {"read", "drop", "start"} /\ active' = 0
        /\ UNCHANGED <<stdin, written, cur, nruns, phase>>
    BY <1>1, <1>8 DEF Joined, RunInv
  <2>2. Owed' = Owed
    BY <2>1 DEF Owed
  <2>3. \A k \in Runs : phase[k] \in {"none", "end"}
    BY <1>1, <1>8 DEF Joined, RunInv
  <2>. QED BY <1>1, <2>1, <2>2, <2>3 DEF RunInv
<1>9. CASE StartRun
  <2>1. /\ nruns + 1 \in Runs /\ nruns + 1 \in Nat /\ phase[nruns + 1] = "none"
        /\ \A k \in Runs : phase[k] \in {"none", "end"}
    BY <1>1, <1>9, NextRun DEF StartRun
  <2>2. Owed = 1 /\ Owed' = 0 /\ mpc' = "read" /\ UNCHANGED <<stdin, written, cur>>
    BY <1>1, <1>9 DEF StartRun, Owed, RunInv
  <2>3. CASE cur.ok
    <3>1. nruns' = nruns + 1 /\ active' = nruns + 1 /\ phase' = [phase EXCEPT ![nruns + 1] = "grind"]
      BY <1>9, <2>3 DEF StartRun
    <3>2. \A k \in Runs : k > nruns + 1 <=> phase'[k] = "none"
      <4>1. ASSUME NEW k \in Runs PROVE k > nruns + 1 <=> phase'[k] = "none"
        <5>1. CASE k = nruns + 1
          BY <1>1, <2>1, <3>1, <5>1
        <5>2. CASE k # nruns + 1
          <6>1. phase'[k] = phase[k] /\ (k > nruns <=> phase[k] = "none") /\ k \in Nat
            BY <1>1, <3>1, <5>2 DEF RunInv
          <6>. QED BY <1>1, <5>2, <6>1
        <5>. QED BY <5>1, <5>2
      <4>. QED BY <4>1
    <3>3. \A k \in Runs : phase'[k] \notin {"none", "end"} => k = nruns + 1
      BY <1>1, <2>1, <3>1
    <3>. QED BY <1>1, <2>2, <3>1, <3>2, <3>3 DEF RunInv
  <2>4. CASE ~cur.ok
    BY <1>1, <1>9, <2>2, <2>4 DEF StartRun, RunInv
  <2>. QED BY <2>3, <2>4
<1>10. CASE ExitMain \/ ReadFails \/ ProcessEnds
  <2>1. Owed' = 0 /\ Owed = 0
    BY <1>10 DEF ExitMain, ReadFails, ProcessEnds, Owed
  <2>. QED BY <1>1, <1>10, <2>1 DEF ExitMain, ReadFails, ProcessEnds, RunInv
<1>. QED BY <1>2, <1>3, <1>4, <1>5, <1>6, <1>7, <1>8, <1>9, <1>10 DEF Next, MainStep

\* A step keeps the threads of a run together.
LEMMA ThreadKept ==
  ASSUME IInv, Next
  PROVE  \A k \in Runs : ThreadInv(k)'
<1>. USE DEF inVars, mainVars, runVars, progVars, outVars, Send, Set, RunFrame
<1>1. TypeOK /\ RunInv /\ \A k \in Runs : ThreadInv(k)
  BY DEF IInv
<1>2. CASE WriteCommand \/ CloseStdin \/ Terminated \/ EmitterWrites \/ EmitterEnds
  <2>1. UNCHANGED <<mode, phase, result, rep, reports, prog, fwd>>
    BY <1>2 DEF WriteCommand, CloseStdin, Terminated, EmitterWrites, EmitterEnds, vars
  <2>. QED BY <1>1, <2>1 DEF ThreadInv
<1>3. CASE Boot \/ ReadOther \/ ReadCommand \/ ReadEof \/ Joined \/ ExitMain \/ ReadFails \/ ProcessEnds
  <2>1. UNCHANGED <<mode, phase, result, rep, reports, prog, fwd>>
    BY <1>3 DEF Boot, ReadOther, ReadCommand, ReadEof, TakeActive, Joined, ExitMain, ReadFails, ProcessEnds
  <2>. QED BY <1>1, <2>1 DEF ThreadInv
<1>4. CASE StartRun
  <2>1. nruns + 1 \in Runs /\ phase[nruns + 1] = "none"
    BY <1>1, <1>4, NextRun DEF StartRun
  <2>2. CASE cur.ok
    <3>1. /\ mode' = [mode EXCEPT ![nruns + 1] = ModeOf(cur)]
          /\ phase' = [phase EXCEPT ![nruns + 1] = "grind"]
          /\ rep' = [rep EXCEPT ![nruns + 1] = IF ModeOf(cur) = "cpu" THEN "run" ELSE "none"]
          /\ fwd' = [fwd EXCEPT ![nruns + 1] = "recv"]
          /\ UNCHANGED <<result, reports, prog>>
      BY <1>4, <2>2 DEF StartRun
    <3>. QED BY <1>1, <2>1, <3>1 DEF ThreadInv, TypeOK
  <2>3. CASE ~cur.ok
    <3>1. UNCHANGED <<mode, phase, result, rep, reports, prog, fwd>>
      BY <1>4, <2>3 DEF StartRun
    <3>. QED BY <1>1, <3>1 DEF ThreadInv
  <2>. QED BY <2>2, <2>3
<1>5. ASSUME NEW k \in Runs, RunStep(k) \/ GrindFound(k) \/ GpuReport(k) \/ GpuError(k) \/ ReportStep(k)
      PROVE  \A j \in Runs : ThreadInv(j)'
  <2>1. \A j \in Runs : j # k => UNCHANGED <<mode[j], phase[j], result[j], rep[j], reports[j], prog[j], fwd[j]>>
    BY <1>1, <1>5 DEF RunStep, ReportStep, GrindFound, GrindStopped, GrindEnds, JoinReporter, SendStopped, DropProg,
         JoinForwarder, EmitResult, GpuReport, GpuError, ReporterWakes, ReporterSends, ForwarderTakes,
         ForwarderPasses, ForwarderEnds, Push, TypeOK
  <2>2. \A j \in Runs : j # k => ThreadInv(j)'
    BY <1>1, <2>1 DEF ThreadInv
  <2>3. ThreadInv(k) /\ (phase[k] = "none" => prog[k] = <<>>)
    BY <1>1 DEF ThreadInv
  <2>4. CASE GrindFound(k) \/ GrindStopped(k)
    <3>1. PICK r \in {"found", "stopped"} : GrindEnds(k, r)
      BY <2>4 DEF GrindFound, GrindStopped
    <3>. QED BY <1>1, <2>3, <3>1 DEF GrindEnds, ThreadInv, TypeOK
  <2>5. CASE JoinReporter(k) \/ DropProg(k) \/ JoinForwarder(k)
    <3>1. CASE JoinReporter(k)
      BY <1>1, <2>3, <3>1 DEF JoinReporter, ThreadInv, TypeOK
    <3>2. CASE DropProg(k)
      BY <1>1, <2>3, <3>2 DEF DropProg, ThreadInv, TypeOK
    <3>3. CASE JoinForwarder(k)
      BY <1>1, <2>3, <3>3 DEF JoinForwarder, ThreadInv, TypeOK
    <3>. QED BY <2>5, <3>1, <3>2, <3>3
  <2>6. CASE SendStopped(k)
    BY <1>1, <2>3, <2>6 DEF SendStopped, Push, ThreadInv, TypeOK
  <2>7. CASE EmitResult(k)
    BY <1>1, <2>3, <2>7 DEF EmitResult, ThreadInv, TypeOK
  <2>8. CASE GpuReport(k)
    BY <1>1, <2>3, <2>8 DEF GpuReport, Push, ThreadInv, TypeOK
  <2>9. CASE GpuError(k)
    BY <1>1, <2>3, <2>9 DEF GpuError, ThreadInv, TypeOK
  <2>10. CASE ReporterWakes(k)
    BY <1>1, <2>3, <2>10 DEF ReporterWakes, ThreadInv, TypeOK
  <2>11. CASE ReporterSends(k)
    BY <1>1, <2>3, <2>11 DEF ReporterSends, Push, ThreadInv, TypeOK
  <2>12. CASE ForwarderTakes(k)
    BY <1>1, <2>3, <2>12 DEF ForwarderTakes, ThreadInv, TypeOK
  <2>13. CASE ForwarderPasses(k)
    BY <1>1, <2>3, <2>13 DEF ForwarderPasses, ThreadInv, TypeOK
  <2>14. CASE ForwarderEnds(k)
    BY <1>1, <2>3, <2>14 DEF ForwarderEnds, ThreadInv, TypeOK
  <2>15. ThreadInv(k)'
    BY <1>5, <2>4, <2>5, <2>6, <2>7, <2>8, <2>9, <2>10, <2>11, <2>12, <2>13, <2>14 DEF RunStep, ReportStep
  <2>. QED BY <2>2, <2>15
<1>. QED BY <1>2, <1>3, <1>4, <1>5 DEF Next, MainStep

\* A step keeps the order of the exits.
LEMMA ExitKept ==
  ASSUME IInv, Next
  PROVE  ExitInv'
<1>. USE DEF inVars, mainVars, runVars, progVars, outVars, Send, Set, RunFrame
<1>1. TypeOK /\ RunInv /\ ExitInv /\ \A k \in Runs : ThreadInv(k)
  BY DEF IInv
<1>2. CASE WriteCommand \/ CloseStdin \/ Terminated
  BY <1>1, <1>2 DEF WriteCommand, CloseStdin, Terminated, vars, ExitInv
<1>3. CASE EmitterWrites \/ EmitterEnds
  BY <1>1, <1>3 DEF EmitterWrites, EmitterEnds, ExitInv
<1>4. CASE MainStep \/ ReadFails
  BY <1>1, <1>4 DEF MainStep, Boot, ReadOther, ReadCommand, ReadEof, TakeActive, Joined, StartRun, ExitMain,
       ProcessEnds, ReadFails, ExitInv
<1>5. ASSUME NEW k \in Runs, RunStep(k) \/ GrindFound(k) \/ GpuReport(k) \/ GpuError(k) \/ ReportStep(k)
      PROVE  ExitInv'
  <2>1. UNCHANGED <<epc, mpc>> /\ phase[k] # "none"
    BY <1>1, <1>5 DEF RunStep, ReportStep, GrindFound, GrindStopped, GrindEnds, JoinReporter, SendStopped, DropProg,
         JoinForwarder, EmitResult, GpuReport, GpuError, ReporterWakes, ReporterSends, ForwarderTakes,
         ForwarderPasses, ForwarderEnds, ThreadInv
  <2>2. phase[k] # "end"
    BY <1>1, <1>5 DEF RunStep, ReportStep, GrindFound, GrindStopped, GrindEnds, JoinReporter, SendStopped, DropProg,
         JoinForwarder, EmitResult, GpuReport, GpuError, ReporterWakes, ReporterSends, ForwarderTakes,
         ForwarderPasses, ForwarderEnds, ThreadInv
  <2>. QED BY <1>1, <2>1, <2>2 DEF ExitInv
<1>. QED BY <1>2, <1>3, <1>4, <1>5 DEF Next, MainStep

-----------------------------------------------------------------------------
(* The order of events. *)

\* Runs are added, and an ended run stays ended.
LEMMA RunEnds ==
  ASSUME IInv, Next
  PROVE  /\ nruns \in Nat /\ nruns' \in Nat /\ nruns <= nruns'
         /\ \A k \in Runs : phase[k] = "end" => phase'[k] = "end"
<1>. USE DEF inVars, mainVars, runVars, progVars, outVars, Send, Set, RunFrame
<1>1. TypeOK /\ RunInv /\ nruns \in Nat
  BY DEF IInv, TypeOK
<1>2. CASE WriteCommand \/ CloseStdin \/ Terminated \/ EmitterWrites \/ EmitterEnds
  BY <1>1, <1>2 DEF WriteCommand, CloseStdin, Terminated, EmitterWrites, EmitterEnds, vars
<1>3. CASE Boot \/ ReadOther \/ ReadCommand \/ ReadEof \/ Joined \/ ExitMain \/ ReadFails \/ ProcessEnds
  BY <1>1, <1>3 DEF Boot, ReadOther, ReadCommand, ReadEof, TakeActive, Joined, ExitMain, ReadFails, ProcessEnds
<1>4. CASE StartRun
  <2>1. nruns + 1 \in Runs /\ phase[nruns + 1] = "none"
    BY <1>1, <1>4, NextRun DEF StartRun
  <2>2. \/ nruns' = nruns /\ phase' = phase
        \/ nruns' = nruns + 1 /\ phase' = [phase EXCEPT ![nruns + 1] = "grind"]
    BY <1>4 DEF StartRun
  <2>. QED BY <1>1, <2>1, <2>2 DEF TypeOK
<1>5. ASSUME NEW k \in Runs, RunStep(k) \/ GrindFound(k) \/ GpuReport(k) \/ GpuError(k) \/ ReportStep(k)
      PROVE  nruns' = nruns /\ \A j \in Runs : phase[j] = "end" => phase'[j] = "end"
  <2>1. /\ nruns' = nruns
        /\ phase' = phase \/ (phase[k] # "end" /\ \E v : phase' = [phase EXCEPT ![k] = v])
    BY <1>5 DEF RunStep, ReportStep, GrindFound, GrindStopped, GrindEnds, JoinReporter, SendStopped, DropProg,
         JoinForwarder, EmitResult, GpuReport, GpuError, ReporterWakes, ReporterSends, ForwarderTakes,
         ForwarderPasses, ForwarderEnds
  <2>. QED BY <1>1, <2>1 DEF TypeOK
<1>. QED BY <1>1, <1>2, <1>3, <1>4, <1>5 DEF Next, MainStep

\* A step that sends nothing keeps the order of events.
LEMMA QuietEvents ==
  ASSUME IInv, UNCHANGED <<evq, out>>, nruns' \in Nat, nruns <= nruns', mpc' = "boot" <=> mpc = "boot",
         \A k \in Runs : phase[k] = "end" => phase'[k] = "end"
  PROVE  EventInv'
<1>1. TypeOK /\ EventInv /\ nruns \in Nat /\ MaxRuns \in Nat
  BY BoundsAssumption DEF IInv, TypeOK
<1>2. (\A i \in DOMAIN out : out[i] \in EventType) /\ (\A i \in DOMAIN evq : evq[i] \in EventType)
  <2>1. \A S, q : q \in Seq(S) => \A i \in DOMAIN q : q[i] \in S
    BY ElementOfSeq, LenProperties
  <2>. QED BY <1>1, <2>1 DEF TypeOK
<1>3. /\ \A i \in DOMAIN out : out[i].run \in 0 .. MaxRuns /\ (out[i].run # 0 => out[i].run \in Runs)
      /\ \A i \in DOMAIN evq : evq[i].run \in 0 .. MaxRuns /\ (evq[i].run # 0 => evq[i].run \in Runs)
  BY <1>1, <1>2 DEF EventType, Runs
<1>4. /\ \A i \in DOMAIN out : out[i].run <= nruns'
      /\ \A i \in DOMAIN evq : evq[i].run <= nruns'
  BY <1>1, <1>3 DEF EventInv
<1>5. /\ \A i \in DOMAIN out : out[i].run # 0 /\ out[i].ev \in Protocol!Ends => phase'[out[i].run] = "end"
      /\ \A i \in DOMAIN evq : evq[i].run # 0 /\ evq[i].ev \in Protocol!Ends => phase'[evq[i].run] = "end"
  BY <1>1, <1>3 DEF EventInv
<1>6. \A j \in DOMAIN evq :
       /\ evq[j] \in Protocol!Events
       /\ evq[j].ev = "ready" <=> out = <<>> /\ j = 1
       /\ \A i \in DOMAIN out : Before(out[i], evq[j])
       /\ \A i \in 1 .. (j - 1) : Before(evq[i], evq[j])
  BY <1>1 DEF EventInv
<1>7. mpc = "boot" <=> out = <<>> /\ evq = <<>>
  BY <1>1 DEF EventInv
<1>8. evq' = evq /\ out' = out
  OBVIOUS
<1>. QED BY <1>4, <1>5, <1>6, <1>7, <1>8 DEF EventInv, Before

\* An event of the current run, or of none, may follow all that was sent.
LEMMA SentEvents ==
  ASSUME IInv, NEW e \in Protocol!Events, evq' = Append(evq, e), out' = out,
         nruns' \in Nat, nruns <= nruns', mpc' # "boot",
         \A k \in Runs : phase[k] = "end" => phase'[k] = "end",
         e.ev = "ready" <=> mpc = "boot",
         e.run # 0 => e.run \in Runs /\ e.run = nruns /\ phase[e.run] # "end",
         e.run # 0 /\ e.ev \in Protocol!Ends => phase'[e.run] = "end"
  PROVE  EventInv'
<1>1. TypeOK /\ EventInv /\ nruns \in Nat /\ MaxRuns \in Nat
  BY BoundsAssumption DEF IInv, TypeOK
<1>2. /\ Len(evq) \in Nat /\ DOMAIN evq = 1 .. Len(evq) /\ DOMAIN evq' = 1 .. (Len(evq) + 1)
      /\ \A i \in 1 .. Len(evq) : evq'[i] = evq[i]
      /\ evq'[Len(evq) + 1] = e
  <2>1. evq \in Seq(EventType \cup {e}) /\ e \in EventType \cup {e}
    <3>1. Seq(EventType) \subseteq Seq(EventType \cup {e})
      OBVIOUS
    <3>. QED BY <1>1, <3>1 DEF TypeOK
  <2>. QED BY <2>1, AppendProperties, LenProperties
<1>3. (\A i \in DOMAIN out : out[i] \in EventType) /\ (\A i \in DOMAIN evq : evq[i] \in EventType)
  <2>1. \A S, q : q \in Seq(S) => \A i \in DOMAIN q : q[i] \in S
    BY ElementOfSeq, LenProperties
  <2>. QED BY <1>1, <2>1 DEF TypeOK
<1>4. /\ \A i \in DOMAIN out : out[i].run \in 0 .. MaxRuns /\ (out[i].run # 0 => out[i].run \in Runs)
      /\ \A i \in DOMAIN evq : evq[i].run \in 0 .. MaxRuns /\ (evq[i].run # 0 => evq[i].run \in Runs)
  BY <1>1, <1>3 DEF EventType, Runs
<1>5. (\A i \in DOMAIN out : Before(out[i], e)) /\ (\A i \in DOMAIN evq : Before(evq[i], e))
  BY <1>1, <1>4 DEF EventInv, Before
<1>6. e.ev = "ready" <=> out = <<>> /\ Len(evq) + 1 = 1
  <2>1. evq = <<>> <=> Len(evq) = 0
    BY <1>1, EmptySeq DEF TypeOK
  <2>. QED BY <1>1, <1>2, <2>1 DEF EventInv
<1>7. \A j \in DOMAIN evq' :
       /\ evq'[j] \in Protocol!Events
       /\ evq'[j].ev = "ready" <=> out = <<>> /\ j = 1
       /\ \A i \in DOMAIN out : Before(out[i], evq'[j])
       /\ \A i \in 1 .. (j - 1) : Before(evq'[i], evq'[j])
  <2>1. ASSUME NEW j \in 1 .. Len(evq)
        PROVE  /\ evq'[j] \in Protocol!Events
               /\ evq'[j].ev = "ready" <=> out = <<>> /\ j = 1
               /\ \A i \in DOMAIN out : Before(out[i], evq'[j])
               /\ \A i \in 1 .. (j - 1) : Before(evq'[i], evq'[j])
    <3>1. evq'[j] = evq[j] /\ j \in DOMAIN evq /\ \A i \in 1 .. (j - 1) : evq'[i] = evq[i]
      BY <1>2
    <3>. HIDE DEF Before
    <3>. QED BY <1>1, <3>1 DEF EventInv
  <2>2. \A i \in 1 .. Len(evq) : Before(evq'[i], e)
    BY <1>2, <1>5
  <2>3. Len(evq) + 1 - 1 = Len(evq)
    BY <1>2
  <2>4. \A j \in DOMAIN evq' : j \in 1 .. Len(evq) \/ j = Len(evq) + 1
    BY <1>2
  <2>. QED BY <1>2, <1>5, <1>6, <2>1, <2>2, <2>3, <2>4
<1>8. (\A i \in DOMAIN out : out[i].run <= nruns') /\ (\A i \in DOMAIN evq' : evq'[i].run <= nruns')
  <2>1. e.run = 0 \/ e.run = nruns
    OBVIOUS
  <2>2. (\A i \in DOMAIN out : out[i].run <= nruns') /\ (\A i \in DOMAIN evq : evq[i].run <= nruns')
    BY <1>1, <1>4 DEF EventInv
  <2>3. e.run <= nruns'
    BY <1>1, <2>1
  <2>. QED BY <1>2, <2>2, <2>3
<1>9. /\ \A i \in DOMAIN out : out[i].run # 0 /\ out[i].ev \in Protocol!Ends => phase'[out[i].run] = "end"
      /\ \A i \in DOMAIN evq' : evq'[i].run # 0 /\ evq'[i].ev \in Protocol!Ends => phase'[evq'[i].run] = "end"
  <2>1. /\ \A i \in DOMAIN out : out[i].run # 0 /\ out[i].ev \in Protocol!Ends => phase'[out[i].run] = "end"
        /\ \A i \in DOMAIN evq : evq[i].run # 0 /\ evq[i].ev \in Protocol!Ends => phase'[evq[i].run] = "end"
    BY <1>1, <1>4 DEF EventInv
  <2>. QED BY <1>2, <2>1
<1>10. evq' # <<>>
  BY <1>2
<1>. QED BY <1>7, <1>8, <1>9, <1>10 DEF EventInv, Before

\* What the emitter writes may follow what it has written.
LEMMA WrittenEvents ==
  ASSUME IInv, EmitterWrites
  PROVE  EventInv'
<1>1. TypeOK /\ EventInv
  BY DEF IInv
<1>2. evq # <<>> /\ out' = Append(out, Head(evq)) /\ evq' = Tail(evq) /\ UNCHANGED <<mpc, nruns, phase>>
  BY DEF EmitterWrites, mainVars, runVars
<1>3. /\ Len(evq) \in Nat \ {0} /\ DOMAIN evq = 1 .. Len(evq) /\ DOMAIN evq' = 1 .. (Len(evq) - 1)
      /\ Head(evq) = evq[1] /\ \A i \in 1 .. (Len(evq) - 1) : evq'[i] = evq[i + 1]
  BY <1>1, <1>2, EmptySeq, HeadTailProperties, LenProperties DEF TypeOK
<1>4. /\ Len(out) \in Nat /\ DOMAIN out = 1 .. Len(out) /\ DOMAIN out' = 1 .. (Len(out) + 1)
      /\ \A i \in 1 .. Len(out) : out'[i] = out[i]
      /\ out'[Len(out) + 1] = evq[1]
  <2>1. Head(evq) \in EventType
    BY <1>1, <1>2, HeadTailProperties DEF TypeOK
  <2>. QED BY <1>1, <1>2, <1>3, <2>1, AppendProperties, LenProperties DEF TypeOK
<1>5. out' # <<>>
  BY <1>4
<1>6. 1 \in DOMAIN evq /\ \A j \in DOMAIN evq' : j + 1 \in DOMAIN evq /\ j + 1 # 1 /\ 1 \in 1 .. (j + 1 - 1)
  BY <1>3
<1>7. \A j \in DOMAIN evq' :
       /\ evq'[j] \in Protocol!Events
       /\ evq'[j].ev = "ready" <=> out' = <<>> /\ j = 1
       /\ \A i \in DOMAIN out' : Before(out'[i], evq'[j])
       /\ \A i \in 1 .. (j - 1) : Before(evq'[i], evq'[j])
  <2>1. ASSUME NEW j \in DOMAIN evq'
        PROVE  /\ evq'[j] \in Protocol!Events
               /\ evq'[j].ev = "ready" <=> out' = <<>> /\ j = 1
               /\ \A i \in DOMAIN out' : Before(out'[i], evq'[j])
               /\ \A i \in 1 .. (j - 1) : Before(evq'[i], evq'[j])
    <3>1. evq'[j] = evq[j + 1] /\ j + 1 \in DOMAIN evq
      BY <1>3, <1>6
    <3>2. evq[j + 1] \in Protocol!Events /\ evq[j + 1].ev # "ready"
      BY <1>1, <1>6, <3>1 DEF EventInv
    <3>3. \A i \in DOMAIN out' : Before(out'[i], evq[j + 1])
      <4>1. \A i \in 1 .. Len(out) : Before(out[i], evq[j + 1])
        BY <1>1, <1>4, <3>1 DEF EventInv
      <4>2. Before(evq[1], evq[j + 1])
        BY <1>1, <1>6, <3>1 DEF EventInv
      <4>3. \A i \in DOMAIN out' : i \in 1 .. Len(out) \/ i = Len(out) + 1
        BY <1>4
      <4>. QED BY <1>4, <4>1, <4>2, <4>3
    <3>4. \A i \in 1 .. (j - 1) : Before(evq'[i], evq[j + 1])
      <4>1. ASSUME NEW i \in 1 .. (j - 1) PROVE Before(evq'[i], evq[j + 1])
        <5>1. i \in 1 .. (Len(evq) - 1) /\ i + 1 \in 1 .. (j + 1 - 1)
          BY <1>3, <4>1
        <5>. QED BY <1>1, <1>3, <3>1, <5>1 DEF EventInv
      <4>. QED BY <4>1
    <3>. QED BY <1>5, <3>1, <3>2, <3>3, <3>4
  <2>. QED BY <2>1
<1>8. /\ \A i \in DOMAIN out' : out'[i].run <= nruns
      /\ \A i \in DOMAIN evq' : evq'[i].run <= nruns
      /\ \A i \in DOMAIN out' : out'[i].run # 0 /\ out'[i].ev \in Protocol!Ends => phase[out'[i].run] = "end"
      /\ \A i \in DOMAIN evq' : evq'[i].run # 0 /\ evq'[i].ev \in Protocol!Ends => phase[evq'[i].run] = "end"
  <2>1. \A i \in DOMAIN out' : out'[i] = evq[1] \/ (i \in DOMAIN out /\ out'[i] = out[i])
    BY <1>4
  <2>2. \A i \in DOMAIN evq' : i + 1 \in DOMAIN evq /\ evq'[i] = evq[i + 1]
    BY <1>3
  <2>. QED BY <1>1, <1>6, <2>1, <2>2 DEF EventInv
<1>9. mpc' # "boot"
  BY <1>1, <1>2 DEF EventInv
<1>. QED BY <1>2, <1>5, <1>7, <1>8, <1>9 DEF EventInv, Before

\* Events of main and of the runs.
LEMMA AnEvent ==
  /\ \A kind \in {"ready", "devices", "error"} :
       Event(kind, 0) \in Protocol!Events /\ Event(kind, 0) \in EventType
  /\ \A kind \in {"progress", "error", "found", "stopped"}, k \in Runs :
       Event(kind, k) \in Protocol!Events /\ Event(kind, k) \in EventType
BY BoundsAssumption DEF Event, EventType, Runs, Protocol!Events, Protocol!Ends

\* What a step does to the event channel and to stdout.
LEMMA EventSteps ==
  ASSUME IInv, Next
  PROVE  \/ EmitterWrites
         \/ UNCHANGED <<evq, out>> /\ (mpc' = "boot" <=> mpc = "boot")
         \/ /\ out' = out /\ mpc' # "boot"
            /\ \/ evq' = Append(evq, Event("ready", 0)) /\ mpc = "boot"
               \/ \E kind \in {"devices", "error"} : evq' = Append(evq, Event(kind, 0)) /\ mpc # "boot"
               \/ \E k \in Runs :
                    \/ GpuError(k) /\ evq' = Append(evq, Event("error", k))
                    \/ ForwarderPasses(k) /\ evq' = Append(evq, Event("progress", k))
                    \/ EmitResult(k) /\ result[k] \in {"found", "stopped"} /\ evq' = Append(evq, Event(result[k], k))
<1>. USE DEF inVars, mainVars, runVars, progVars, outVars, Send, Set, RunFrame
<1>1. CASE WriteCommand \/ CloseStdin \/ Terminated \/ EmitterEnds
  BY <1>1 DEF WriteCommand, CloseStdin, Terminated, EmitterEnds, vars
<1>2. CASE Boot \/ ReadOther
  BY <1>2 DEF Boot, ReadOther
<1>3. CASE ReadCommand \/ ReadEof \/ Joined \/ ExitMain \/ ReadFails \/ ProcessEnds
  BY <1>3 DEF ReadCommand, ReadEof, TakeActive, Joined, ExitMain, ReadFails, ProcessEnds
<1>4. CASE StartRun
  BY <1>4 DEF StartRun
<1>5. ASSUME NEW k \in Runs, RunStep(k) \/ GrindFound(k) \/ GpuReport(k) \/ GpuError(k) \/ ReportStep(k)
      PROVE  \/ UNCHANGED <<evq, out>> /\ (mpc' = "boot" <=> mpc = "boot")
             \/ /\ out' = out /\ mpc' # "boot"
                /\ \/ GpuError(k) /\ evq' = Append(evq, Event("error", k))
                   \/ ForwarderPasses(k) /\ evq' = Append(evq, Event("progress", k))
                   \/ EmitResult(k) /\ result[k] \in {"found", "stopped"} /\ evq' = Append(evq, Event(result[k], k))
  <2>1. mpc' = mpc
    BY <1>5 DEF RunStep, ReportStep, GrindFound, GrindStopped, GrindEnds, JoinReporter, SendStopped, DropProg,
         JoinForwarder, EmitResult, GpuReport, GpuError, ReporterWakes, ReporterSends, ForwarderTakes,
         ForwarderPasses, ForwarderEnds
  <2>2. TypeOK /\ RunInv /\ ThreadInv(k)
    BY DEF IInv
  <2>3. CASE GpuError(k) \/ EmitResult(k) \/ ForwarderPasses(k)
    <3>1. phase[k] # "none"
      BY <2>2, <2>3 DEF GpuError, EmitResult, ForwarderPasses, ThreadInv
    <3>2. mpc # "boot"
      BY <2>2, <3>1 DEF RunInv, TypeOK, Runs
    <3>3. result[k] \in {"none", "found", "stopped", "error"}
      BY <2>2 DEF TypeOK
    <3>. QED BY <2>1, <2>2, <2>3, <3>2, <3>3 DEF GpuError, EmitResult, ForwarderPasses, ThreadInv
  <2>4. CASE ~(GpuError(k) \/ EmitResult(k) \/ ForwarderPasses(k))
    <3>1. UNCHANGED <<evq, out>>
      BY <1>5, <2>4 DEF RunStep, ReportStep, GrindFound, GrindStopped, GrindEnds, JoinReporter, SendStopped, DropProg,
         JoinForwarder, GpuReport, ReporterWakes, ReporterSends, ForwarderTakes, ForwarderEnds
    <3>. QED BY <2>1, <3>1
  <2>. QED BY <2>3, <2>4
<1>. QED BY <1>1, <1>2, <1>3, <1>4, <1>5 DEF Next, MainStep

\* A step keeps the order of events.
LEMMA EventKept ==
  ASSUME IInv, Next
  PROVE  EventInv'
<1>1. TypeOK /\ RunInv /\ (\A k \in Runs : ThreadInv(k))
  BY DEF IInv
<1>2. /\ nruns \in Nat /\ nruns' \in Nat /\ nruns <= nruns'
      /\ \A k \in Runs : phase[k] = "end" => phase'[k] = "end"
  BY RunEnds
<1>3. \A k \in Runs : k # 0 /\ (phase[k] \notin {"none", "end"} => k = nruns)
  BY <1>1 DEF RunInv, Runs
<1>4. CASE EmitterWrites
  BY <1>4, WrittenEvents
<1>5. CASE UNCHANGED <<evq, out>> /\ (mpc' = "boot" <=> mpc = "boot")
  BY <1>2, <1>5, QuietEvents
<1>6. ASSUME out' = out, mpc' # "boot", mpc = "boot", evq' = Append(evq, Event("ready", 0))
      PROVE  EventInv'
  BY <1>2, <1>6, SentEvents, AnEvent DEF Event
<1>7. ASSUME out' = out, mpc' # "boot", mpc # "boot", NEW kind \in {"devices", "error"},
             evq' = Append(evq, Event(kind, 0))
      PROVE  EventInv'
  BY <1>2, <1>7, SentEvents, AnEvent DEF Event
<1>8. ASSUME out' = out, mpc' # "boot", NEW k \in Runs, NEW kind \in {"error", "progress", "found", "stopped"},
             evq' = Append(evq, Event(kind, k)), phase[k] \notin {"none", "end"},
             kind \in {"found", "stopped"} => phase'[k] = "end"
      PROVE  EventInv'
  <2>1. Event(kind, k) \in Protocol!Events /\ Event(kind, k).ev = kind /\ Event(kind, k).run = k
    BY AnEvent DEF Event
  <2>2. kind # "ready" /\ (kind \in Protocol!Ends => kind \in {"found", "stopped"})
    BY DEF Protocol!Ends
  <2>3. mpc # "boot"
    BY <1>1, <1>2, <1>8 DEF RunInv, Runs
  <2>. QED BY <1>2, <1>3, <1>8, <2>1, <2>2, <2>3, SentEvents
<1>9. ASSUME NEW k \in Runs, GpuError(k) PROVE phase[k] \notin {"none", "end"}
  BY <1>9 DEF GpuError
<1>10. ASSUME NEW k \in Runs, ForwarderPasses(k) PROVE phase[k] \notin {"none", "end"}
  BY <1>1, <1>10 DEF ForwarderPasses, ThreadInv
<1>11. ASSUME NEW k \in Runs, EmitResult(k) PROVE phase[k] \notin {"none", "end"} /\ phase'[k] = "end"
  BY <1>1, <1>11 DEF EmitResult, TypeOK, Set
<1>. QED BY <1>4, <1>5, <1>6, <1>7, <1>8, <1>9, <1>10, <1>11, EventSteps

-----------------------------------------------------------------------------
\* Sending an event adds it to what was said.
LEMMA SaidSend ==
  ASSUME TypeOK, NEW e \in EventType, evq' = Append(evq, e), out' = out, NEW kind, NEW k
  PROVE  Said(kind, k)' = Said(kind, k) + (IF e = Event(kind, k) THEN 1 ELSE 0)
<1>1. /\ Num(evq', Event(kind, k)) = Num(evq, Event(kind, k)) + (IF e = Event(kind, k) THEN 1 ELSE 0)
      /\ Num(evq, Event(kind, k)) \in Nat /\ Num(out, Event(kind, k)) \in Nat
  <2>1. evq \in Seq(EventType) /\ out \in Seq(EventType)
    BY DEF TypeOK
  <2>2. \A x : Num(evq', x) = Num(evq, x) + (IF e = x THEN 1 ELSE 0)
    BY <2>1, NumAppend
  <2>3. \A x : Num(evq, x) \in Nat /\ Num(out, x) \in Nat
    BY <2>1, NumNat
  <2>. QED BY <2>2, <2>3
<1>. QED BY <1>1 DEF Said

\* Writing an event takes nothing from what was said.
LEMMA SaidMove ==
  ASSUME TypeOK, EmitterWrites, NEW kind, NEW k
  PROVE  Said(kind, k)' = Said(kind, k)
<1>1. /\ evq \in Seq(EventType) /\ out \in Seq(EventType) /\ evq # <<>>
      /\ evq' = Tail(evq) /\ out' = Append(out, Head(evq)) /\ Head(evq) \in EventType /\ Tail(evq) \in Seq(EventType)
  BY HeadTailProperties DEF TypeOK, EmitterWrites
<1>2. /\ Num(evq, Event(kind, k)) = Num(evq', Event(kind, k)) + (IF Head(evq) = Event(kind, k) THEN 1 ELSE 0)
      /\ Num(out', Event(kind, k)) = Num(out, Event(kind, k)) + (IF Head(evq) = Event(kind, k) THEN 1 ELSE 0)
      /\ Num(evq', Event(kind, k)) \in Nat /\ Num(out, Event(kind, k)) \in Nat
  <2>1. \A x : Num(evq, x) = Num(evq', x) + (IF Head(evq) = x THEN 1 ELSE 0)
    BY <1>1, NumTail
  <2>2. \A x : Num(out', x) = Num(out, x) + (IF Head(evq) = x THEN 1 ELSE 0)
    BY <1>1, NumAppend
  <2>3. \A x : Num(evq', x) \in Nat /\ Num(out, x) \in Nat
    BY <1>1, NumNat
  <2>. QED BY <2>1, <2>2, <2>3
<1>. QED BY <1>2 DEF Said

\* What was said is a number.
LEMMA SaidNat ==
  ASSUME TypeOK, NEW kind, NEW k
  PROVE  Said(kind, k) \in Nat
<1>1. evq \in Seq(EventType) /\ out \in Seq(EventType)
  BY DEF TypeOK
<1>2. \A x : Num(evq, x) \in Nat /\ Num(out, x) \in Nat
  BY <1>1, NumNat
<1>. QED BY <1>2 DEF Said

\* The parts of CountInv for one run.
Passing(k) == IF fwd[k] = "pass" THEN 1 ELSE 0
Ended(k) == IF phase[k] = "end" \/ result[k] = "error" THEN 1 ELSE 0
Counted(k) ==
  /\ Said("progress", k) + Num(prog[k], "progress") + Passing(k) = reports[k]
  /\ Said("found", k) + Said("stopped", k) + Said("error", k) = Ended(k)

\* A step that does not concern a run keeps its count.
LEMMA CountQuiet ==
  ASSUME TypeOK, NEW k \in Runs, Counted(k),
         \A kind \in {"progress", "found", "stopped", "error"} : Said(kind, k)' = Said(kind, k),
         UNCHANGED <<prog[k], Passing(k), reports[k], Ended(k)>>
  PROVE  Counted(k)'
BY DEF Counted

\* A step keeps the counts.
LEMMA CountKept ==
  ASSUME IInv, Next
  PROVE  CountInv'
<1>. USE DEF inVars, mainVars, runVars, progVars, outVars, Send, Set, RunFrame
<1>1. TypeOK /\ RunInv /\ (\A k \in Runs : ThreadInv(k)) /\ (\A k \in Runs : Counted(k))
  BY DEF IInv, CountInv, Counted, Passing, Ended
<1>2. \A k \in Runs : Num(prog[k], "progress") \in Nat /\ reports[k] \in Nat /\ Passing(k) \in {0, 1} /\ Ended(k) \in {0, 1}
  <2>1. \A k \in Runs : prog[k] \in Seq({"progress", "stopped"}) /\ reports[k] \in Nat
    BY <1>1, BoundsAssumption DEF TypeOK
  <2>2. \A k \in Runs : \A x : Num(prog[k], x) \in Nat
    BY <2>1, NumNat
  <2>. QED BY <2>1, <2>2 DEF Passing, Ended
<1>. SUFFICES ASSUME NEW k \in Runs PROVE Counted(k)'
  BY DEF CountInv, Counted, Passing, Ended
<1>3. \A kind : Said(kind, k) \in Nat
  BY <1>1, SaidNat
<1>4. ThreadInv(k) /\ Counted(k)
  BY <1>1
<1>5. ASSUME UNCHANGED <<evq, out, prog[k], fwd[k], reports[k], phase[k], result[k]>> PROVE Counted(k)'
  <2>1. \A kind : Said(kind, k)' = Said(kind, k)
    BY <1>5 DEF Said
  <2>2. Passing(k)' = Passing(k) /\ Ended(k)' = Ended(k)
    BY <1>5 DEF Passing, Ended
  <2>. QED BY <1>1, <1>5, <2>1, <2>2, CountQuiet
<1>6. ASSUME NEW e \in EventType, evq' = Append(evq, e), out' = out, e.run # k,
             UNCHANGED <<prog[k], fwd[k], reports[k], phase[k], result[k]>>
      PROVE  Counted(k)'
  <2>1. \A kind : e # Event(kind, k)
    BY <1>6 DEF Event
  <2>2. ASSUME NEW kind PROVE Said(kind, k)' = Said(kind, k)
    BY <1>1, <1>3, <1>6, <2>1, SaidSend
  <2>3. Passing(k)' = Passing(k) /\ Ended(k)' = Ended(k)
    BY <1>6 DEF Passing, Ended
  <2>. QED BY <1>1, <1>6, <2>2, <2>3, CountQuiet
<1>7. CASE WriteCommand \/ CloseStdin \/ Terminated \/ EmitterEnds
  BY <1>5, <1>7 DEF WriteCommand, CloseStdin, Terminated, EmitterEnds, vars
<1>8. CASE EmitterWrites
  <2>1. \A kind : Said(kind, k)' = Said(kind, k)
    BY <1>1, <1>8, SaidMove
  <2>2. UNCHANGED <<prog, fwd, reports, phase, result>>
    BY <1>8 DEF EmitterWrites
  <2>3. Passing(k)' = Passing(k) /\ Ended(k)' = Ended(k)
    BY <2>2 DEF Passing, Ended
  <2>. QED BY <1>1, <2>1, <2>2, <2>3, CountQuiet
<1>9. CASE Boot \/ ReadOther
  <2>1. UNCHANGED <<out, prog, fwd, reports, phase, result>>
    BY <1>9 DEF Boot, ReadOther
  <2>2. PICK kind \in {"ready", "devices", "error"} : evq' = Append(evq, Event(kind, 0))
    BY <1>9 DEF Boot, ReadOther
  <2>3. Event(kind, 0) \in EventType /\ Event(kind, 0).run # k
    BY AnEvent DEF Event, Runs
  <2>. QED BY <1>6, <2>1, <2>2, <2>3
<1>10. CASE ReadCommand \/ ReadEof \/ Joined \/ ExitMain \/ ReadFails \/ ProcessEnds
  BY <1>5, <1>10 DEF ReadCommand, ReadEof, TakeActive, Joined, ExitMain, ReadFails, ProcessEnds
<1>11. CASE StartRun
  <2>1. nruns + 1 \in Runs /\ phase[nruns + 1] = "none"
    BY <1>1, <1>11, NextRun DEF StartRun
  <2>2. CASE cur.ok
    <3>1. /\ phase' = [phase EXCEPT ![nruns + 1] = "grind"] /\ fwd' = [fwd EXCEPT ![nruns + 1] = "recv"]
          /\ UNCHANGED <<evq, out, result, reports, prog>>
      BY <1>11, <2>2 DEF StartRun
    <3>2. CASE k # nruns + 1
      BY <1>1, <1>5, <3>1, <3>2 DEF TypeOK
    <3>3. CASE k = nruns + 1
      <4>1. Passing(k)' = Passing(k)
        BY <1>1, <1>4, <2>1, <3>1, <3>3 DEF Passing, ThreadInv, TypeOK
      <4>2. Ended(k)' = Ended(k)
        BY <1>1, <1>4, <2>1, <3>1, <3>3 DEF Ended, TypeOK
      <4>3. \A kind : Said(kind, k)' = Said(kind, k)
        BY <3>1 DEF Said
      <4>. QED BY <1>1, <3>1, <4>1, <4>2, <4>3, CountQuiet
    <3>. QED BY <3>2, <3>3
  <2>3. CASE ~cur.ok
    <3>1. evq' = Append(evq, Event("error", 0)) /\ UNCHANGED <<out, prog, fwd, reports, phase, result>>
      BY <1>11, <2>3 DEF StartRun
    <3>2. Event("error", 0) \in EventType /\ Event("error", 0).run # k
      BY AnEvent DEF Event, Runs
    <3>. QED BY <1>6, <3>1, <3>2
  <2>. QED BY <2>2, <2>3
<1>12. ASSUME NEW j \in Runs, j # k,
              RunStep(j) \/ GrindFound(j) \/ GpuReport(j) \/ GpuError(j) \/ ReportStep(j)
       PROVE  Counted(k)'
  <2>1. UNCHANGED <<prog[k], fwd[k], reports[k], phase[k], result[k]>>
    <3>1. CASE RunStep(j) \/ GrindFound(j)
      BY <1>1, <1>12, <3>1 DEF RunStep, GrindFound, GrindStopped, GrindEnds, JoinReporter, SendStopped, DropProg,
           JoinForwarder, EmitResult, Push, TypeOK
    <3>2. CASE GpuReport(j) \/ GpuError(j)
      BY <1>1, <1>12, <3>2 DEF GpuReport, GpuError, Push, TypeOK
    <3>3. CASE ReportStep(j)
      BY <1>1, <1>12, <3>3 DEF ReportStep, ReporterWakes, ReporterSends, ForwarderTakes, ForwarderPasses,
           ForwarderEnds, Push, TypeOK
    <3>. QED BY <1>12, <3>1, <3>2, <3>3
  <2>2. \/ UNCHANGED <<evq, out>>
        \/ out' = out /\ \E kind \in {"error", "progress"} : evq' = Append(evq, Event(kind, j))
        \/ out' = out /\ result[j] \in {"found", "stopped"} /\ evq' = Append(evq, Event(result[j], j))
    <3>1. result[j] \in {"none", "found", "stopped", "error"} /\ ThreadInv(j)
      BY <1>1 DEF TypeOK
    <3>. QED BY <1>12, <3>1 DEF RunStep, ReportStep, GrindFound, GrindStopped, GrindEnds, JoinReporter, SendStopped,
         DropProg, JoinForwarder, EmitResult, GpuReport, GpuError, ReporterWakes, ReporterSends, ForwarderTakes,
         ForwarderPasses, ForwarderEnds, ThreadInv
  <2>3. \A kind \in {"error", "progress", "found", "stopped"} : Event(kind, j) \in EventType /\ Event(kind, j).run # k
    BY <1>12, AnEvent DEF Event
  <2>. QED BY <1>5, <1>6, <2>1, <2>2, <2>3
<1>13. ASSUME RunStep(k) \/ GrindFound(k) \/ GpuReport(k) \/ GpuError(k) \/ ReportStep(k)
       PROVE  Counted(k)'
  <2>1. CASE GrindFound(k) \/ GrindStopped(k) \/ JoinReporter(k) \/ DropProg(k) \/ JoinForwarder(k)
    <3>1. UNCHANGED <<evq, out, prog, fwd, reports>>
      BY <2>1 DEF GrindFound, GrindStopped, GrindEnds, JoinReporter, DropProg, JoinForwarder
    <3>2. Ended(k)' = Ended(k)
      BY <1>1, <1>4, <2>1 DEF GrindFound, GrindStopped, GrindEnds, JoinReporter, DropProg, JoinForwarder, Ended,
           ThreadInv, TypeOK
    <3>3. (\A kind : Said(kind, k)' = Said(kind, k)) /\ Passing(k)' = Passing(k)
      BY <3>1 DEF Said, Passing
    <3>. QED BY <1>1, <3>1, <3>2, <3>3, CountQuiet
  <2>2. CASE SendStopped(k)
    <3>1. UNCHANGED <<evq, out, fwd, reports, result>> /\ prog'[k] = Append(prog[k], "stopped")
      BY <1>1, <2>2 DEF SendStopped, Push, TypeOK
    <3>2. Ended(k)' = Ended(k)
      BY <1>1, <2>2 DEF SendStopped, Ended, TypeOK
    <3>3. (\A kind : Said(kind, k)' = Said(kind, k)) /\ Passing(k)' = Passing(k)
      BY <3>1 DEF Said, Passing
    <3>4. Num(prog'[k], "progress") = Num(prog[k], "progress")
      <4>1. prog[k] \in Seq({"progress", "stopped"}) /\ "stopped" \in {"progress", "stopped"}
        BY <1>1 DEF TypeOK
      <4>2. Num(Append(prog[k], "stopped"), "progress") = Num(prog[k], "progress") + (IF "stopped" = "progress" THEN 1 ELSE 0)
        BY <4>1, NumAppend
      <4>. QED BY <1>2, <3>1, <4>2
    <3>. QED BY <1>4, <3>1, <3>2, <3>3, <3>4 DEF Counted
  <2>3. CASE EmitResult(k)
    <3>1. /\ UNCHANGED <<out, fwd, reports, result, prog>> /\ phase[k] = "emit" /\ phase'[k] = "end"
          /\ result[k] \in {"found", "stopped", "error"}
          /\ IF result[k] = "error" THEN evq' = evq ELSE evq' = Append(evq, Event(result[k], k))
      BY <1>1, <1>4, <2>3 DEF EmitResult, ThreadInv, TypeOK
    <3>2. Passing(k)' = Passing(k) /\ Ended(k)' = 1
      BY <3>1 DEF Passing, Ended
    <3>3. CASE result[k] = "error"
      <4>1. (\A kind : Said(kind, k)' = Said(kind, k)) /\ Ended(k) = 1
        BY <3>1, <3>3 DEF Said, Ended
      <4>. QED BY <1>4, <3>1, <3>2, <4>1 DEF Counted
    <3>4. CASE result[k] # "error"
      <4>. DEFINE e == Event(result[k], k)
      <4>1. e \in EventType /\ Ended(k) = 0 /\ evq' = Append(evq, e)
        BY <3>1, <3>4, AnEvent DEF Ended
      <4>2. \A kind : Said(kind, k)' = Said(kind, k) + (IF e = Event(kind, k) THEN 1 ELSE 0)
        BY <1>1, <3>1, <4>1, SaidSend
      <4>3. \A kind : e = Event(kind, k) <=> kind = result[k]
        BY DEF Event
      <4>4. /\ Said("progress", k)' = Said("progress", k)
            /\ Said("error", k)' = Said("error", k)
            /\ Said("found", k)' + Said("stopped", k)' = Said("found", k) + Said("stopped", k) + 1
        <5>. HIDE DEF e
        <5>1. \A kind : Said(kind, k)' = Said(kind, k) + (IF kind = result[k] THEN 1 ELSE 0)
          BY <4>2, <4>3
        <5>2. result[k] = "found" \/ result[k] = "stopped"
          BY <3>1, <3>4
        <5>. QED BY <1>3, <5>1, <5>2
      <4>5. Said("progress", k) + Num(prog[k], "progress") + Passing(k) = reports[k]
            /\ Said("found", k) + Said("stopped", k) + Said("error", k) = 0
        BY <1>4, <4>1 DEF Counted
      <4>6. UNCHANGED <<prog[k], reports[k]>>
        BY <3>1
      <4>7. Said("found", k)' + Said("stopped", k)' + Said("error", k)' = Ended(k)'
        <5>. HIDE DEF e
        <5>. QED BY <1>3, <3>2, <4>4, <4>5
      <4>. HIDE DEF e
      <4>. QED BY <3>2, <4>4, <4>5, <4>6, <4>7 DEF Counted
    <3>. QED BY <3>3, <3>4
  <2>4. CASE GpuReport(k) \/ ReporterSends(k)
    <3>1. UNCHANGED <<evq, out, fwd, phase, result>> /\ prog'[k] = Append(prog[k], "progress") /\ reports'[k] = reports[k] + 1
      BY <1>1, <2>4 DEF GpuReport, ReporterSends, Push, TypeOK
    <3>2. /\ Said("progress", k)' = Said("progress", k) /\ Said("found", k)' = Said("found", k)
          /\ Said("stopped", k)' = Said("stopped", k) /\ Said("error", k)' = Said("error", k)
          /\ Passing(k)' = Passing(k) /\ Ended(k)' = Ended(k)
      BY <3>1 DEF Said, Passing, Ended
    <3>3. Num(prog'[k], "progress") = Num(prog[k], "progress") + 1
      <4>1. prog[k] \in Seq({"progress", "stopped"}) /\ "progress" \in {"progress", "stopped"}
        BY <1>1 DEF TypeOK
      <4>. QED BY <3>1, <4>1, NumAppend
    <3>4. /\ Said("progress", k) \in Nat /\ Num(prog[k], "progress") \in Nat /\ Passing(k) \in Nat /\ reports[k] \in Nat
          /\ Said("progress", k) + Num(prog[k], "progress") + Passing(k) = reports[k]
          /\ Said("found", k) + Said("stopped", k) + Said("error", k) = Ended(k)
      BY <1>2, <1>3, <1>4 DEF Counted
    <3>5. \A a, b, c, d \in Nat : a + b + c = d => a + (b + 1) + c = d + 1
      OBVIOUS
    <3>6. Said("progress", k)' + Num(prog'[k], "progress") + Passing(k)' = reports'[k]
      BY <3>1, <3>2, <3>3, <3>4, <3>5
    <3>. QED BY <3>2, <3>4, <3>6 DEF Counted
  <2>5. CASE GpuError(k)
    <3>1. /\ evq' = Append(evq, Event("error", k)) /\ UNCHANGED <<out, prog, fwd, reports>>
          /\ phase[k] = "grind" /\ result'[k] = "error" /\ result[k] = "none"
      BY <1>1, <1>4, <2>5 DEF GpuError, ThreadInv, TypeOK
    <3>2. Passing(k)' = Passing(k) /\ Ended(k)' = 1 /\ Ended(k) = 0 /\ Event("error", k) \in EventType
      BY <3>1, AnEvent DEF Passing, Ended
    <3>3. \A kind : Said(kind, k)' = Said(kind, k) + (IF kind = "error" THEN 1 ELSE 0)
      <4>1. \A kind : Event("error", k) = Event(kind, k) <=> kind = "error"
        BY DEF Event
      <4>2. \A kind : Said(kind, k)' = Said(kind, k) + (IF Event("error", k) = Event(kind, k) THEN 1 ELSE 0)
        BY <1>1, <3>1, <3>2, SaidSend
      <4>. QED BY <4>1, <4>2
    <3>4. Said("found", k)' = Said("found", k) /\ Said("stopped", k)' = Said("stopped", k)
          /\ Said("error", k)' = Said("error", k) + 1 /\ Said("progress", k)' = Said("progress", k)
      BY <1>3, <3>3
    <3>5. Said("progress", k) + Num(prog[k], "progress") + Passing(k) = reports[k]
          /\ Said("found", k) + Said("stopped", k) + Said("error", k) = 0
      BY <1>4, <3>2 DEF Counted
    <3>6. UNCHANGED <<prog[k], reports[k]>>
      BY <3>1
    <3>7. Said("found", k)' + Said("stopped", k)' + Said("error", k)' = Ended(k)'
      BY <1>3, <3>2, <3>4, <3>5
    <3>. QED BY <3>2, <3>4, <3>5, <3>6, <3>7 DEF Counted
  <2>6. CASE ReporterWakes(k)
    BY <1>5, <2>6 DEF ReporterWakes
  <2>7. CASE ForwarderTakes(k)
    <3>1. /\ UNCHANGED <<evq, out, reports, phase, result>> /\ prog[k] # <<>> /\ prog'[k] = Tail(prog[k])
          /\ fwd[k] = "recv" /\ fwd'[k] = (IF Head(prog[k]) = "progress" THEN "pass" ELSE "recv")
      BY <1>1, <2>7 DEF ForwarderTakes, TypeOK
    <3>2. (\A kind : Said(kind, k)' = Said(kind, k)) /\ Ended(k)' = Ended(k)
      BY <3>1 DEF Said, Ended
    <3>3. Passing(k) = 0 /\ Passing(k)' = (IF Head(prog[k]) = "progress" THEN 1 ELSE 0)
      BY <3>1 DEF Passing
    <3>4. /\ Num(prog[k], "progress") = Num(prog'[k], "progress") + (IF Head(prog[k]) = "progress" THEN 1 ELSE 0)
          /\ Num(prog'[k], "progress") \in Nat
      <4>1. prog[k] \in Seq({"progress", "stopped"}) /\ Tail(prog[k]) \in Seq({"progress", "stopped"})
        BY <1>1, <3>1, HeadTailProperties DEF TypeOK
      <4>. QED BY <3>1, <4>1, NumTail, NumNat
    <3>. QED BY <1>2, <1>3, <1>4, <3>1, <3>2, <3>3, <3>4 DEF Counted
  <2>8. CASE ForwarderPasses(k)
    <3>1. /\ evq' = Append(evq, Event("progress", k)) /\ UNCHANGED <<out, prog, reports, phase, result>>
          /\ fwd[k] = "pass" /\ fwd'[k] = "recv"
      BY <1>1, <2>8 DEF ForwarderPasses, TypeOK
    <3>2. Passing(k)' = 0 /\ Passing(k) = 1 /\ Ended(k)' = Ended(k) /\ Event("progress", k) \in EventType
      BY <3>1, AnEvent DEF Passing, Ended
    <3>3. \A kind : Said(kind, k)' = Said(kind, k) + (IF kind = "progress" THEN 1 ELSE 0)
      <4>1. \A kind : Event("progress", k) = Event(kind, k) <=> kind = "progress"
        BY DEF Event
      <4>2. \A kind : Said(kind, k)' = Said(kind, k) + (IF Event("progress", k) = Event(kind, k) THEN 1 ELSE 0)
        BY <1>1, <3>1, <3>2, SaidSend
      <4>. QED BY <4>1, <4>2
    <3>4. /\ Said("progress", k)' = Said("progress", k) + 1 /\ Said("progress", k) \in Nat
          /\ Said("found", k)' = Said("found", k) /\ Said("found", k) \in Nat
          /\ Said("stopped", k)' = Said("stopped", k) /\ Said("stopped", k) \in Nat
          /\ Said("error", k)' = Said("error", k) /\ Said("error", k) \in Nat
      BY <1>3, <3>3
    <3>5. Num(prog'[k], "progress") = Num(prog[k], "progress") /\ reports'[k] = reports[k]
      BY <3>1
    <3>. QED BY <1>2, <1>4, <3>2, <3>4, <3>5 DEF Counted
  <2>9. CASE ForwarderEnds(k)
    <3>1. UNCHANGED <<evq, out, prog, reports, phase, result>> /\ fwd[k] = "recv" /\ fwd'[k] = "gone"
      BY <1>1, <2>9 DEF ForwarderEnds, TypeOK
    <3>2. (\A kind : Said(kind, k)' = Said(kind, k)) /\ Passing(k)' = Passing(k) /\ Ended(k)' = Ended(k)
      BY <3>1 DEF Said, Passing, Ended
    <3>. QED BY <1>1, <3>1, <3>2, CountQuiet
  <2>. QED BY <1>13, <2>1, <2>2, <2>3, <2>4, <2>5, <2>6, <2>7, <2>8, <2>9 DEF RunStep, ReportStep
<1>. QED BY <1>7, <1>8, <1>9, <1>10, <1>11, <1>12, <1>13 DEF Next, MainStep

-----------------------------------------------------------------------------
\* A step that changes nothing keeps the invariant.
LEMMA StutterKept ==
  ASSUME IInv, UNCHANGED vars
  PROVE  IInv'
<1>. USE DEF vars, inVars, mainVars, runVars, progVars, outVars
<1>1. TypeOK'
  BY DEF IInv, TypeOK
<1>2. RunInv' /\ (\A k \in Runs : ThreadInv(k)') /\ ExitInv'
  BY DEF IInv, RunInv, Owed, ThreadInv, ExitInv
<1>3. EventInv' /\ CountInv'
  BY DEF IInv, EventInv, Before, CountInv, Said
<1>. QED BY <1>1, <1>2, <1>3 DEF IInv

\* The inductive invariant holds in every behaviour of the core.
THEOREM Invariant == Spec => []IInv
<1>1. IInv /\ [Next]_vars => IInv'
  <2>1. ASSUME IInv, Next PROVE IInv'
    BY <2>1, TypeStep, RunKept, ThreadKept, ExitKept, EventKept, CountKept DEF IInv
  <2>. QED BY <2>1, StutterKept
<1>. QED BY <1>1, InitIInv, PTL DEF Spec

\* Every variable has its type, and the progress channel stays within its capacity, whatever it is.
THEOREM TypesCorrect == Spec => []TypeOK
<1>1. IInv => TypeOK
  BY DEF IInv
<1>. QED BY <1>1, Invariant, PTL

\* However many commands arrive in whatever order, two runs are never busy at once (main.rs,
\* stop_and_wait before start_run).
THEOREM RunsFollowEachOther == Spec => []OneRunAtATime
<1>1. IInv => OneRunAtATime
  <2>. SUFFICES ASSUME IInv PROVE OneRunAtATime
    OBVIOUS
  <2>. DEFINE B == {k \in Runs : phase[k] \notin {"none", "end"}}
  <2>1. B \subseteq {active}
    BY DEF IInv, RunInv
  <2>2. IsFiniteSet({active}) /\ Cardinality({active}) = 1
    BY FS_Singleton
  <2>. HIDE DEF B
  <2>3. Cardinality(B) <= 1
    BY <2>1, <2>2, FS_Subset
  <2>. QED BY <2>3 DEF OneRunAtATime, B
<1>. QED BY <1>1, Invariant, PTL

\* At any time every run that is over has told once how it ended and all its updates, and a core that
\* exits at the end of its input leaves neither a run behind nor an event unwritten, however many runs
\* there were and however small the progress channel is.
THEOREM NothingIsLost == Spec => []NothingLost
<1>1. IInv => NothingLost
  <2>. SUFFICES ASSUME IInv PROVE NothingLost
    OBVIOUS
  <2>1. \A k \in 1 .. nruns : k \in Runs /\ ~(k > nruns)
    BY BoundsAssumption DEF IInv, TypeOK, Runs
  <2>2. ASSUME NEW k \in 1 .. nruns, phase[k] = "end"
        PROVE  /\ Told("found", k) + Told("stopped", k) + Told("error", k) = 1
               /\ Told("progress", k) = reports[k]
    <3>1. prog[k] = <<>> /\ fwd[k] = "gone"
      BY <2>1, <2>2 DEF IInv, ThreadInv
    <3>2. \A kind : Told(kind, k) = Said(kind, k) /\ Said(kind, k) \in Nat
      BY SaidNat DEF IInv, Told, Count, Said, Num
    <3>3. /\ Said("progress", k) + Num(prog[k], "progress") + (IF fwd[k] = "pass" THEN 1 ELSE 0) = reports[k]
          /\ Said("found", k) + Said("stopped", k) + Said("error", k) = 1
      BY <2>1, <2>2 DEF IInv, CountInv
    <3>4. Num(prog[k], "progress") = 0
      BY <3>1, NumEmpty
    <3>. QED BY <3>1, <3>2, <3>3, <3>4
  <2>3. mpc = "exited" => evq = <<>> /\ \A k \in 1 .. nruns : phase[k] = "end"
    BY <2>1 DEF IInv, ExitInv, RunInv
  <2>. QED BY <2>2, <2>3 DEF NothingLost
<1>. QED BY <1>1, Invariant, PTL

\* The core implements GrinderProtocol, for any number of commands, runs and updates.
THEOREM CoreSpeaksTheProtocol == Spec => ImplementsProtocol
<1>1. Init => Protocol!Init
  BY DEF Init, Protocol!Init
<1>2. IInv /\ [Next]_vars => [Protocol!Next]_out
  <2>. SUFFICES ASSUME IInv, [Next]_vars, out' # out PROVE Protocol!Next
    OBVIOUS
  <2>1. Next
    BY DEF vars, outVars
  <2>2. EmitterWrites
    BY <2>1, EventSteps
  <2>3. evq # <<>> /\ out' = Append(out, Head(evq)) /\ Head(evq) = evq[1] /\ 1 \in DOMAIN evq
    <3>1. evq # <<>> /\ out' = Append(out, Head(evq)) /\ evq \in Seq(EventType)
      BY <2>2 DEF EmitterWrites, IInv, TypeOK
    <3>. QED BY <3>1, EmptySeq, LenProperties, HeadTailProperties
  <2>4. /\ evq[1] \in Protocol!Events
        /\ evq[1].ev = "ready" <=> out = <<>>
        /\ \A i \in DOMAIN out : Before(out[i], evq[1])
    BY <2>3 DEF IInv, EventInv
  <2>5. Protocol!Follows(evq[1], out)
    BY <2>4 DEF Protocol!Follows, Before
  <2>. QED BY <2>3, <2>4, <2>5 DEF Protocol!Next, Protocol!Emit
<1>. QED BY <1>1, <1>2, Invariant, PTL DEF Spec, ImplementsProtocol, Protocol!Spec

-----------------------------------------------------------------------------
(* No circle: main's waits end. *)

\* Main joins a run, which was told to stop (ActiveRun::stop_and_wait).
Waiting == mpc = "join" /\ active # 0

\* One of the threads of run k can take a step: the guards of RunStep, ReportStep and of the failure
\* of a GPU run that has no device.
Ready(k) ==
  \/ phase[k] = "grind" /\ (stop[k] \/ (mode[k] = "gpu" /\ ~GpuAvailable))
  \/ phase[k] = "joinrep" /\ rep[k] = "gone"
  \/ phase[k] = "last" /\ Room(k)
  \/ phase[k] = "joinfwd" /\ fwd[k] = "gone"
  \/ phase[k] \in {"drop", "emit"}
  \/ rep[k] = "run" /\ (stop[k] \/ phase[k] = "joinrep")
  \/ rep[k] = "send" /\ Room(k)
  \/ fwd[k] = "recv" /\ (prog[k] # <<>> \/ phase[k] = "joinfwd")
  \/ fwd[k] = "pass"

\* How far run k is from its end, if it was told to stop: its thread's phases, the reporter's steps, the
\* updates that may still come, and what the forwarder has to do for each message.
PhaseLeft(p) ==
  CASE p = "grind" -> 6 [] p = "joinrep" -> 5 [] p = "last" -> 4 [] p = "drop" -> 3
    [] p = "joinfwd" -> 2 [] p = "emit" -> 1 [] OTHER -> 0
RepLeft(r) == CASE r = "send" -> 4 [] r = "run" -> 1 [] OTHER -> 0
FwdLeft(f) == CASE f = "pass" -> 2 [] f = "recv" -> 1 [] OTHER -> 0
Left(k) ==
  3 * PhaseLeft(phase[k]) + RepLeft(rep[k]) + 3 * (MaxReports - reports[k])
    + 2 * Len(prog[k]) + FwdLeft(fwd[k])
RunState == <<phase, rep, reports, prog, fwd>>

\* Whom main waits for: the run was told to stop and its threads are there.
WaitInv ==
  /\ Waiting => stop[active]
  /\ \A k \in Runs : phase[k] # "none" => fwd[k] # "none"
  /\ \A k \in Runs : (phase[k] = "grind" /\ mode[k] = "cpu") \/ phase[k] = "joinrep" => rep[k] # "none"

\* The distance is a natural number.
LEMMA LeftNat ==
  ASSUME TypeOK, NEW k \in Runs
  PROVE  /\ Left(k) \in Nat /\ MaxReports - reports[k] \in Nat /\ Len(prog[k]) \in Nat
         /\ PhaseLeft(phase[k]) \in 0 .. 6
         /\ RepLeft(rep[k]) \in 0 .. 4 /\ FwdLeft(fwd[k]) \in 0 .. 2
<1>1. PhaseLeft(phase[k]) \in 0 .. 6
  BY DEF PhaseLeft
<1>2. RepLeft(rep[k]) \in 0 .. 4
  BY DEF RepLeft
<1>3. FwdLeft(fwd[k]) \in 0 .. 2
  BY DEF FwdLeft
<1>4. MaxReports - reports[k] \in Nat /\ Len(prog[k]) \in Nat
  BY BoundsAssumption, LenProperties DEF TypeOK
<1>. DEFINE P == PhaseLeft(phase[k])
            R == RepLeft(rep[k])
            F == FwdLeft(fwd[k])
            U == MaxReports - reports[k]
            N == Len(prog[k])
<1>5. Left(k) = 3 * P + R + 3 * U + 2 * N + F
  BY DEF Left
<1>6. P \in 0 .. 6 /\ R \in 0 .. 4 /\ F \in 0 .. 2 /\ U \in Nat /\ N \in Nat
  BY <1>1, <1>2, <1>3, <1>4
<1>. HIDE DEF P, R, U, N, F
<1>7. Left(k) \in Nat
  BY <1>5, <1>6
<1>. QED BY <1>1, <1>2, <1>3, <1>4, <1>7

\* Every step keeps the threads there and the flag up.
LEMMA WaitKept == ASSUME IInv, WaitInv, [Next]_vars PROVE WaitInv'
<1>. USE DEF inVars, mainVars, runVars, progVars, outVars, Send, Set, RunFrame
<1>1. TypeOK /\ RunInv
  BY DEF IInv
<1>2. CASE WriteCommand \/ CloseStdin \/ Terminated \/ EmitterWrites \/ EmitterEnds \/ UNCHANGED vars
  BY <1>2 DEF WriteCommand, CloseStdin, Terminated, EmitterWrites, EmitterEnds, vars, WaitInv, Waiting
<1>3. CASE Boot \/ ReadOther \/ Joined \/ ExitMain \/ ReadFails \/ ProcessEnds
  BY <1>3 DEF Boot, ReadOther, Joined, ExitMain, ReadFails, ProcessEnds, WaitInv, Waiting
<1>4. CASE ReadCommand \/ ReadEof
  <2>1. /\ active' = active /\ stop' = IF active = 0 THEN stop ELSE [stop EXCEPT ![active] = TRUE]
        /\ UNCHANGED <<phase, rep, fwd, mode>>
    BY <1>4 DEF ReadCommand, ReadEof, TakeActive
  <2>2. active # 0 => active \in Runs
    BY <1>1, BoundsAssumption DEF TypeOK, Runs
  <2>. QED BY <1>1, <2>1, <2>2 DEF TypeOK, WaitInv, Waiting
<1>5. CASE StartRun
  <2>1. mpc' # "join" /\ (cur.ok \/ UNCHANGED <<phase, rep, fwd, mode>>)
    BY <1>5 DEF StartRun
  <2>2. CASE UNCHANGED <<phase, rep, fwd, mode>>
    BY <2>1, <2>2 DEF WaitInv, Waiting
  <2>3. CASE nruns' = nruns + 1
    <3>1. nruns + 1 \in Runs
      BY <1>1, <1>5, NextRun DEF StartRun
    <3>2. /\ mode' = [mode EXCEPT ![nruns + 1] = ModeOf(cur)]
          /\ phase' = [phase EXCEPT ![nruns + 1] = "grind"]
          /\ rep' = [rep EXCEPT ![nruns + 1] = IF ModeOf(cur) = "cpu" THEN "run" ELSE "none"]
          /\ fwd' = [fwd EXCEPT ![nruns + 1] = "recv"]
      BY <1>1, <1>5, <2>3 DEF StartRun, TypeOK
    <3>. HIDE DEF ModeOf
    <3>. QED BY <1>1, <2>1, <3>1, <3>2 DEF TypeOK, WaitInv, Waiting
  <2>. QED BY <1>5, <2>2, <2>3 DEF StartRun
<1>6. ASSUME NEW k \in Runs, RunStep(k) \/ GrindFound(k) \/ GpuReport(k) \/ GpuError(k) PROVE WaitInv'
  <2>1. /\ UNCHANGED <<mainVars, mode, stop, rep, fwd>>
        /\ \/ phase' = phase
           \/ /\ phase[k] # "none"
              /\ \E v \in {"joinrep", "last", "drop", "joinfwd", "emit", "end"} :
                   phase' = [phase EXCEPT ![k] = v] /\ (v = "joinrep" => phase[k] = "grind" /\ mode[k] = "cpu")
    <3>1. CASE GrindFound(k) \/ GrindStopped(k)
      <4>1. PICK r : GrindEnds(k, r)
        BY <3>1 DEF GrindFound, GrindStopped
      <4>2. mode[k] \in {"cpu", "gpu"}
        BY <1>1 DEF TypeOK
      <4>. QED BY <4>1, <4>2 DEF GrindEnds
    <3>2. CASE GpuReport(k) \/ GpuError(k)
      BY <3>2 DEF GpuReport, GpuError
    <3>3. CASE JoinReporter(k) \/ SendStopped(k) \/ DropProg(k) \/ JoinForwarder(k) \/ EmitResult(k)
      BY <3>3 DEF JoinReporter, SendStopped, DropProg, JoinForwarder, EmitResult
    <3>. QED BY <1>6, <3>1, <3>2, <3>3 DEF RunStep
  <2>2. Waiting' => stop'[active']
    BY <2>1 DEF WaitInv, Waiting
  <2>3. \A j \in Runs : phase'[j] # "none" => phase[j] # "none"
    BY <1>1, <2>1 DEF TypeOK
  <2>4. ASSUME NEW j \in Runs, (phase'[j] = "grind" /\ mode'[j] = "cpu") \/ phase'[j] = "joinrep"
        PROVE  (phase[j] = "grind" /\ mode[j] = "cpu") \/ phase[j] = "joinrep"
    BY <1>1, <2>1, <2>4 DEF TypeOK
  <2>. QED BY <2>1, <2>2, <2>3, <2>4 DEF WaitInv
<1>7. ASSUME NEW k \in Runs, ReportStep(k) PROVE WaitInv'
  <2>1. /\ UNCHANGED <<mainVars, mode, stop, phase>>
        /\ rep' = rep \/ \E v \in {"gone", "send", "run"} : rep' = [rep EXCEPT ![k] = v]
        /\ fwd' = fwd \/ \E v \in {"pass", "recv", "gone"} : fwd' = [fwd EXCEPT ![k] = v]
    <3>1. CASE ReporterWakes(k) \/ ReporterSends(k)
      BY <3>1 DEF ReporterWakes, ReporterSends
    <3>2. CASE ForwarderTakes(k) \/ ForwarderPasses(k) \/ ForwarderEnds(k)
      BY <3>2 DEF ForwarderTakes, ForwarderPasses, ForwarderEnds
    <3>. QED BY <1>7, <3>1, <3>2 DEF ReportStep
  <2>. QED BY <1>1, <2>1 DEF TypeOK, WaitInv, Waiting
<1>. QED BY <1>2, <1>3, <1>4, <1>5, <1>6, <1>7 DEF Next, MainStep

\* Whatever the capacity of the channel: while main waits for a run, that run is over or one of its
\* threads can take a step.  Reporter, run thread and forwarder never wait for each other in a circle.
NeverStuck == Waiting => phase[active] = "end" \/ Ready(active)

\* While main waits, every step of the threads it waits for brings their end closer, and no other step
\* delays it: however small the channel, what a stop has to wait for is finite.
Closer ==
  Waiting /\ Waiting' => active' = active /\ (UNCHANGED RunState \/ Left(active)' < Left(active))

\* At its end main waits for the emitter, which has something to write or may end, and what it has to
\* write only gets less.
ExitNeverStuck ==
  mpc = "drop" => \/ epc = "gone" \/ evq # <<>>
                  \/ \A k \in Runs : phase[k] \in {"none", "end"}
ExitCloser == mpc = "drop" => UNCHANGED evq \/ Len(evq') < Len(evq)

\* In every phase somebody can move.
LEMMA SomebodyMoves == IInv /\ WaitInv => NeverStuck
<1>. SUFFICES ASSUME IInv, WaitInv, Waiting, phase[active] # "end" PROVE Ready(active)
  BY DEF NeverStuck
<1>. DEFINE k == active
<1>1. k \in Runs /\ stop[k]
  BY BoundsAssumption DEF IInv, TypeOK, Runs, WaitInv, Waiting
<1>2. phase[k] # "none"
  BY <1>1, BoundsAssumption DEF IInv, TypeOK, RunInv, Runs, Waiting
<1>3. fwd[k] \in {"recv", "pass", "gone"} /\ rep[k] \in {"none", "run", "send", "gone"}
  BY <1>1, <1>2 DEF IInv, TypeOK, WaitInv
<1>4. Room(k) \/ prog[k] # <<>>
  <2>1. Len(<<>>) = 0 /\ 0 < ProgCap
    BY BoundsAssumption
  <2>. QED BY <2>1 DEF Room
<1>5. fwd[k] = "gone" => phase[k] \in {"joinfwd", "emit", "end"}
  BY <1>1 DEF IInv, ThreadInv
<1>6. phase[k] = "joinrep" => rep[k] # "none"
  BY <1>1 DEF WaitInv
<1>7. phase[k] \in {"grind", "joinrep", "last", "drop", "joinfwd", "emit"}
  BY <1>1, <1>2 DEF IInv, TypeOK
<1>. HIDE DEF k
<1>8. Ready(k)
  BY <1>1, <1>3, <1>4, <1>5, <1>6, <1>7 DEF Ready
<1>. QED BY <1>8 DEF k

\* Only the run that main waits for has threads that can take a step, and each one counts.
LEMMA StepsCount == IInv /\ WaitInv /\ [Next]_vars => Closer
<1>. SUFFICES ASSUME IInv, WaitInv, [Next]_vars, Waiting, Waiting'
              PROVE  active' = active /\ (UNCHANGED RunState \/ Left(active)' < Left(active))
  BY DEF Closer
<1>. USE DEF inVars, mainVars, runVars, progVars, outVars, RunState, Set, RunFrame
<1>1. TypeOK /\ RunInv /\ active \in Runs /\ stop[active] /\ ThreadInv(active)
  BY BoundsAssumption DEF IInv, TypeOK, Runs, WaitInv, Waiting
<1>2. CASE WriteCommand \/ CloseStdin \/ MainStep \/ ReadFails \/ Terminated \/ EmitterWrites
           \/ EmitterEnds \/ UNCHANGED vars
  BY <1>2 DEF WriteCommand, CloseStdin, MainStep, Boot, ReadOther, ReadCommand, ReadEof, Joined, StartRun,
       ExitMain, ReadFails, ProcessEnds, Terminated, EmitterWrites, EmitterEnds, vars, Waiting
<1>3. ASSUME NEW k \in Runs,
             RunStep(k) \/ GrindFound(k) \/ GpuReport(k) \/ GpuError(k) \/ ReportStep(k)
      PROVE  active' = active /\ (UNCHANGED RunState \/ Left(active)' < Left(active))
  <2>1. active' = active
    BY <1>3 DEF RunStep, GrindFound, GrindStopped, GrindEnds, JoinReporter, SendStopped, DropProg,
         JoinForwarder, EmitResult, GpuReport, GpuError, ReportStep, ReporterWakes, ReporterSends,
         ForwarderTakes, ForwarderPasses, ForwarderEnds
  <2>2. k = active
    <3>1. ThreadInv(k) /\ (phase[k] \notin {"none", "end"} => k = active)
      BY DEF IInv, RunInv
    <3>. QED BY <1>3, <3>1 DEF ThreadInv, RunStep, GrindFound, GrindStopped, GrindEnds, JoinReporter, SendStopped,
         DropProg, JoinForwarder, EmitResult, GpuReport, GpuError, ReportStep, ReporterWakes, ReporterSends,
         ForwarderTakes, ForwarderPasses, ForwarderEnds
  <2>. DEFINE P == PhaseLeft(phase[k])
              R == RepLeft(rep[k])
              F == FwdLeft(fwd[k])
              U == MaxReports - reports[k]
              N == Len(prog[k])
              D == 3 * P + R + 3 * U + 2 * N + F
  <2>3. P \in 0 .. 6 /\ R \in 0 .. 4 /\ F \in 0 .. 2 /\ U \in Nat /\ N \in Nat
    BY <1>1, LeftNat
  <2>4. ASSUME GrindStopped(k) \/ GrindFound(k) \/ GpuError(k) \/ JoinReporter(k) \/ DropProg(k)
             \/ JoinForwarder(k) \/ EmitResult(k)
       PROVE  D' < D
    <3>1. P' < P /\ P' \in 0 .. 6 /\ UNCHANGED <<R, U, N, F>>
      BY <1>1, <2>4 DEF GrindFound, GrindStopped, GrindEnds, JoinReporter, DropProg, JoinForwarder, EmitResult,
           GpuError, TypeOK, PhaseLeft
    <3>. HIDE DEF P, R, U, N, F
    <3>2. P \in Int /\ P' \in Int /\ R \in Int /\ F \in Int /\ U \in Int /\ N \in Int
      BY <2>3, <3>1
    <3>3. \A p, q, r, u, n, f \in Int :
            q < p => 3 * q + r + 3 * u + 2 * n + f < 3 * p + r + 3 * u + 2 * n + f
      OBVIOUS
    <3>. QED BY <3>1, <3>2, <3>3
  <2>5. ASSUME SendStopped(k)
       PROVE  D' < D
    <3>1. P = 4 /\ P' = 3 /\ UNCHANGED <<R, U, F>>
      BY <1>1, <2>5 DEF SendStopped, Push, TypeOK, PhaseLeft
    <3>2. N' = N + 1
      BY <1>1, <2>5, AppendProperties DEF SendStopped, Push, TypeOK
    <3>. HIDE DEF P, R, U, N, F
    <3>. QED BY <2>3, <3>1, <3>2
  <2>6. ASSUME GpuReport(k)
       PROVE  D' < D
    <3>1. UNCHANGED <<P, R, F>> /\ U' = U - 1
      BY <1>1, <2>6, BoundsAssumption DEF GpuReport, Push, TypeOK
    <3>2. N' = N + 1
      BY <1>1, <2>6, AppendProperties DEF GpuReport, Push, TypeOK
    <3>. HIDE DEF P, R, U, N, F
    <3>. QED BY <2>3, <3>1, <3>2
  <2>7. ASSUME ReporterWakes(k)
       PROVE  D' < D
    <3>1. UNCHANGED <<P, U, N, F>> /\ R = 1 /\ R' = 0
      BY <1>1, <2>2, <2>7 DEF ReporterWakes, TypeOK, RepLeft
    <3>. HIDE DEF P, R, U, N, F
    <3>. QED BY <2>3, <3>1
  <2>8. ASSUME ReporterSends(k)
       PROVE  D' < D
    <3>1. UNCHANGED <<P, F>> /\ U' = U - 1 /\ R = 4 /\ R' = 1
      BY <1>1, <2>8, BoundsAssumption DEF ReporterSends, Push, TypeOK, RepLeft
    <3>2. N' = N + 1
      BY <1>1, <2>8, AppendProperties DEF ReporterSends, Push, TypeOK
    <3>. HIDE DEF P, R, U, N, F
    <3>. QED BY <2>3, <3>1, <3>2
  <2>9. ASSUME ForwarderTakes(k)
       PROVE  D' < D
    <3>1. UNCHANGED <<P, R, U>> /\ F = 1 /\ F' \in {1, 2}
      BY <1>1, <2>9 DEF ForwarderTakes, TypeOK, FwdLeft
    <3>2. N' = N - 1
      <4>1. prog[k] \in Seq({"progress", "stopped"}) /\ prog[k] # <<>> /\ prog'[k] = Tail(prog[k])
        BY <1>1, <2>9 DEF ForwarderTakes, TypeOK
      <4>. QED BY <4>1, HeadTailProperties
    <3>. HIDE DEF P, R, U, N, F
    <3>3. CASE F' = 1
      BY <2>3, <3>1, <3>2, <3>3
    <3>4. CASE F' = 2
      BY <2>3, <3>1, <3>2, <3>4
    <3>. QED BY <3>1, <3>3, <3>4
  <2>10. ASSUME ForwarderPasses(k) \/ ForwarderEnds(k)
        PROVE  D' < D
    <3>1. UNCHANGED <<P, R, U, N>> /\ F' = F - 1
      BY <1>1, <2>10 DEF ForwarderPasses, ForwarderEnds, TypeOK, FwdLeft
    <3>. HIDE DEF P, R, U, N, F
    <3>. QED BY <2>3, <3>1
  <2>11. D' < D
    <3>. HIDE DEF D
    <3>. QED BY <1>3, <2>4, <2>5, <2>6, <2>7, <2>8, <2>9, <2>10 DEF RunStep, ReportStep
  <2>12. Left(active) = D /\ Left(active)' = D'
    BY <2>1, <2>2 DEF Left
  <2>. QED BY <2>1, <2>11, <2>12
<1>. QED BY <1>2, <1>3 DEF Next

\* A stop, a new job and the end of the input wait for the old run's threads only as long as these have
\* something to do, of which every step leaves less.
THEOREM StopsDoNotWaitInACircle == Spec => []NeverStuck /\ [][Closer]_vars
<1>1. Init => WaitInv
  BY DEF Init, WaitInv, Waiting
<1>2. IInv /\ WaitInv /\ [Next]_vars => WaitInv'
  BY WaitKept
<1>3. IInv /\ WaitInv => NeverStuck
  BY SomebodyMoves
<1>4. IInv /\ WaitInv /\ [Next]_vars => [Closer]_vars
  BY StepsCount
<1>. QED BY <1>1, <1>2, <1>3, <1>4, Invariant, PTL DEF Spec

\* When main has left its loop nobody sends any more, and the emitter's queue runs empty.
THEOREM ExitsDoNotWaitInACircle == Spec => []ExitNeverStuck /\ [][ExitCloser]_vars
<1>1. IInv => ExitNeverStuck
  BY BoundsAssumption DEF IInv, RunInv, TypeOK, Runs, ExitNeverStuck
<1>2. IInv /\ [Next]_vars => [ExitCloser]_vars
  <2>. SUFFICES ASSUME IInv, [Next]_vars, mpc = "drop" PROVE UNCHANGED evq \/ Len(evq') < Len(evq)
    BY DEF ExitCloser
  <2>1. \A k \in Runs : phase[k] \in {"none", "end"} /\ fwd[k] \in {"none", "gone"}
    <3>1. \A k \in Runs : phase[k] \in {"none", "end"}
      BY BoundsAssumption DEF IInv, RunInv, TypeOK, Runs
    <3>2. \A k \in Runs : ThreadInv(k)
      BY DEF IInv
    <3>. QED BY <3>1, <3>2 DEF ThreadInv
  <2>2. CASE EmitterWrites
    <3>1. evq \in Seq(EventType) /\ evq # <<>> /\ evq' = Tail(evq)
      BY <2>2 DEF IInv, TypeOK, EmitterWrites
    <3>. QED BY <3>1, HeadTailProperties, LenProperties, EmptySeq
  <2>3. CASE ~EmitterWrites
    BY <2>1, <2>3 DEF Next, WriteCommand, CloseStdin, MainStep, Boot, ReadOther, ReadCommand, ReadEof, TakeActive,
         Joined, StartRun, ExitMain, ReadFails, ProcessEnds, Terminated, EmitterEnds, RunStep, GrindFound,
         GrindStopped, GrindEnds, JoinReporter, SendStopped, DropProg, JoinForwarder, EmitResult, GpuReport,
         GpuError, ReportStep, ReporterWakes, ReporterSends, ForwarderTakes, ForwarderPasses, ForwarderEnds, vars, outVars
  <2>. QED BY <2>2, <2>3
<1>. QED BY <1>1, <1>2, Invariant, PTL DEF Spec
=============================================================================
