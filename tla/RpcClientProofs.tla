-------------------------- MODULE RpcClientProofs --------------------------
(***************************************************************************)
(* Safety of RpcClient for any number of endpoints and callers, any faults *)
(* and any shutdown.                                                       *)
(*                                                                         *)
(* What protects a call is that a connection is only ever replaced by one  *)
(* that was probed: the active connection, and every copy of it that a     *)
(* caller holds, is of the right chain or nil, and nil only after Close.   *)
(***************************************************************************)
EXTENDS RpcClient, TLAPS

\* A pool that probes holds connections to the right chain.
ChainInv ==
  ~SubmitOnly =>
    /\ active \in Right \cup {Nil}
    /\ \A c \in Callers : /\ cli[c] \in Right \cup {Nil}
                          /\ pc[c] = "install" => Candidate(c) \in Right

\* Only Close leaves the client without a connection.
NilInv ==
  /\ active = Nil => closed
  /\ \A c \in Callers : pc[c] = "try" /\ cli[c] = Nil => closed
  /\ crashed => closed

IInv == TypeOK /\ ChainInv /\ NilInv

\* The endpoint a scan looks at is one of the list.
LEMMA CandidateType == TypeOK => \A c \in Callers : Candidate(c) \in Endpoints
  <1> SUFFICES ASSUME TypeOK, NEW c \in Callers PROVE Candidate(c) \in Endpoints
    OBVIOUS
  <1>1. start[c] \in Nat /\ tried[c] \in Nat /\ N \in Nat \ {0}
    BY NAssumption DEF TypeOK
  <1>2. (start[c] + tried[c]) % N \in 0..(N - 1)
    BY <1>1, SMT
  <1> QED BY <1>1, <1>2, SMT DEF Candidate, Endpoints

\* A request succeeds or fails, in time or late.
LEMMA AskedType ==
  ASSUME TypeOK, NEW c \in Callers, NEW e \in Endpoints, NEW r \in Asked(c, e)
  PROVE  r.ok \in BOOLEAN /\ r.late \in BOOLEAN
  <1>1. expired[c] \in BOOLEAN /\ health[e] \in {"up", "down", "hang"}
    BY DEF TypeOK
  <1>2. CASE Over(c)
    <2>1. r = [ok |-> FALSE, late |-> expired[c]]
      BY <1>2 DEF Asked
    <2> QED BY <1>1, <2>1
  <1>3. CASE ~Over(c)
    <2>1. CASE health[e] = "up"
      <3>1. r = [ok |-> TRUE, late |-> FALSE]
        BY <1>3, <2>1 DEF Asked
      <3> QED BY <3>1
    <2>2. CASE health[e] = "down"
      <3>1. r = [ok |-> FALSE, late |-> FALSE]
        BY <1>3, <2>2 DEF Asked
      <3> QED BY <3>1
    <2>3. CASE health[e] = "hang"
      <3>1. r = [ok |-> FALSE, late |-> TRUE]
        BY <1>3, <2>3 DEF Asked
      <3> QED BY <3>1
    <2> QED BY <1>1, <2>1, <2>2, <2>3
  <1> QED BY <1>2, <1>3

\* The invariant holds of a client that has just connected.
LEMMA InitInv == Init => IInv
  <1> SUFFICES ASSUME Init PROVE IInv
    OBVIOUS
  <1> USE DEF Init
  <1>1. active \in Endpoints
    BY NAssumption DEF Right, Endpoints
  <1>2. TypeOK
    <2>1. idx \in 0..(N - 1) /\ 0 \in 0..(N - 1) /\ 0 \in 0..N /\ changes \in 0..MaxChanges
      BY <1>1, NAssumption DEF Endpoints
    <2>2. /\ start \in [Callers -> 0..(N - 1)] /\ tried \in [Callers -> 0..N]
          /\ cli \in [Callers -> Endpoints \cup {Nil}] /\ attempt \in [Callers -> {1, 2}]
      BY <2>1
    <2>3. /\ health \in [Endpoints -> {"up", "down", "hang"}]
          /\ pc \in [Callers -> {"idle", "try", "bump", "reconnect", "probe", "install",
                                 "reload", "ok", "failed"}]
          /\ expired \in [Callers -> BOOLEAN] /\ disturbed \in [Callers -> BOOLEAN]
          /\ {cancelled, closed, crashed} \subseteq BOOLEAN
      OBVIOUS
    <2> QED BY <1>1, <2>1, <2>2, <2>3 DEF TypeOK
  <1>3. ChainInv
    BY DEF ChainInv
  <1>4. NilInv
    BY <1>1, NAssumption DEF NilInv, Nil, Endpoints
  <1> QED BY <1>2, <1>3, <1>4 DEF IInv

\* Every step of the callers, of the endpoints and of the shutdown preserves it.
LEMMA NextInv == IInv /\ [Next]_vars => IInv'
  <1> SUFFICES ASSUME IInv, [Next]_vars PROVE IInv'
    OBVIOUS
  <1> USE DEF IInv
  <1>1. CASE Change
    <2> USE <1>1 DEF Change, sharedVars, callVars
    <2>1. TypeOK'
      BY FaultsAssumption, NAssumption DEF TypeOK
    <2>2. ChainInv'
      BY DEF TypeOK, ChainInv, Candidate
    <2>3. NilInv'
      BY DEF TypeOK, NilInv
    <2> QED BY <2>1, <2>2, <2>3
  <1>2. CASE Shutdown
    <2> USE <1>2 DEF Shutdown, sharedVars, callVars
    <2>1. TypeOK'
      BY DEF TypeOK
    <2>2. ChainInv'
      BY DEF TypeOK, ChainInv, Candidate
    <2>3. NilInv'
      BY DEF TypeOK, NilInv
    <2> QED BY <2>1, <2>2, <2>3
  <1>3. CASE Close
    <2> USE <1>3 DEF Close, callVars
    <2>1. TypeOK'
      BY DEF TypeOK
    <2>2. ChainInv'
      BY DEF TypeOK, ChainInv, Candidate
    <2>3. NilInv'
      BY DEF TypeOK, NilInv
    <2> QED BY <2>1, <2>2, <2>3
  <1>4. ASSUME NEW c \in Callers, Call(c) PROVE IInv'
    <2> USE <1>4 DEF Call, Step, Frame, sharedVars, envVars
    <2>1. TypeOK'
      BY DEF TypeOK
    <2>2. ChainInv'
      BY DEF TypeOK, ChainInv, Candidate
    <2>3. NilInv'
      BY DEF TypeOK, NilInv
    <2> QED BY <2>1, <2>2, <2>3
  <1>5. ASSUME NEW c \in Callers, Try(c) PROVE IInv'
    <2> USE <1>5 DEF Try, Step, Frame, sharedVars, envVars
    <2>1. TypeOK'
      <3>1. PICK b \in BOOLEAN : expired' = [expired EXCEPT ![c] = b]
        <4> DEFINE F == IF AppErrors THEN {[ok |-> FALSE, late |-> expired[c]]} ELSE {}
        <4>1. cli[c] \in Endpoints /\ expired[c] \in BOOLEAN
          BY DEF TypeOK
        <4>2. PICK r \in Asked(c, cli[c]) \cup F :
                /\ expired' = [expired EXCEPT ![c] = r.late]
                /\ pc' = [pc EXCEPT ![c] =
                            IF r.ok THEN "ok" ELSE IF attempt[c] = 1 THEN "bump" ELSE "failed"]
          OBVIOUS
        <4>3. r \in Asked(c, cli[c]) => r.late \in BOOLEAN
          BY <4>1, AskedType
        <4>4. r \in F => r.late \in BOOLEAN
          BY <4>1
        <4> QED BY <4>2, <4>3, <4>4
      <3> QED BY <3>1 DEF TypeOK
    <2>2. ChainInv'
      BY DEF TypeOK, ChainInv, Candidate
    <2>3. NilInv'
      BY DEF TypeOK, NilInv
    <2> QED BY <2>1, <2>2, <2>3
  <1>6. ASSUME NEW c \in Callers, TryNil(c) PROVE IInv'
    <2> USE <1>6 DEF TryNil, Step, sharedVars, envVars
    <2>1. TypeOK'
      BY DEF TypeOK
    <2>2. ChainInv'
      BY DEF TypeOK, ChainInv, Candidate
    <2>3. NilInv'
      BY DEF TypeOK, NilInv
    <2> QED BY <2>1, <2>2, <2>3
  <1>7. ASSUME NEW c \in Callers, Bump(c) PROVE IInv'
    <2> USE <1>7 DEF Bump, Step, Frame, sharedVars, envVars
    <2>1. TypeOK'
      <3>1. (idx + 1) % N \in 0..(N - 1)
        BY NAssumption, SMT DEF TypeOK
      <3> QED BY <3>1 DEF TypeOK
    <2>2. ChainInv'
      BY DEF TypeOK, ChainInv, Candidate
    <2>3. NilInv'
      BY DEF TypeOK, NilInv
    <2> QED BY <2>1, <2>2, <2>3
  <1>8. ASSUME NEW c \in Callers, Reconnect(c) PROVE IInv'
    <2> USE <1>8 DEF Reconnect, Step, Frame, sharedVars, envVars
    <2>1. TypeOK'
      BY NAssumption DEF TypeOK
    <2>2. ChainInv'
      BY DEF TypeOK, ChainInv, Candidate
    <2>3. NilInv'
      BY DEF TypeOK, NilInv
    <2> QED BY <2>1, <2>2, <2>3
  <1>9. ASSUME NEW c \in Callers, Probe(c) PROVE IInv'
    <2> USE <1>9 DEF Probe, Step, Frame, sharedVars, envVars
    <2>1. TypeOK'
      <3>1. tried[c] + 1 \in 0..N
        BY NAssumption DEF TypeOK
      <3>2. CASE SubmitOnly
        BY <3>2 DEF TypeOK
      <3>3. CASE ~SubmitOnly
        <4>1. PICK r \in Asked(c, Candidate(c)) :
                /\ expired' = [expired EXCEPT ![c] = r.late]
                /\ IF r.ok /\ RightChain(Candidate(c))
                   THEN Step(c, "install") /\ UNCHANGED tried
                   ELSE tried' = [tried EXCEPT ![c] = @ + 1] /\ UNCHANGED pc
          BY <3>3
        <4>2. r.late \in BOOLEAN
          BY CandidateType, AskedType
        <4> QED BY <3>1, <4>1, <4>2 DEF TypeOK, Step
      <3> QED BY <3>2, <3>3
    <2>2. ChainInv'
      BY DEF TypeOK, ChainInv, Candidate, RightChain
    <2>3. NilInv'
      BY DEF TypeOK, NilInv
    <2> QED BY <2>1, <2>2, <2>3
  <1>10. ASSUME NEW c \in Callers, NoneUsable(c) PROVE IInv'
    <2> USE <1>10 DEF NoneUsable, Step, Frame, sharedVars, envVars
    <2>1. TypeOK'
      BY DEF TypeOK
    <2>2. ChainInv'
      BY DEF TypeOK, ChainInv, Candidate
    <2>3. NilInv'
      BY DEF TypeOK, NilInv
    <2> QED BY <2>1, <2>2, <2>3
  <1>11. ASSUME NEW c \in Callers, Install(c) PROVE IInv'
    <2> USE <1>11 DEF Install, Disturb, Step, Frame, sharedVars, envVars
    <2>1. TypeOK'
      BY CandidateType, NAssumption DEF TypeOK, Endpoints
    <2>2. ChainInv'
      BY DEF TypeOK, ChainInv, Candidate
    <2>3. NilInv'
      BY CandidateType, NAssumption DEF TypeOK, NilInv, Endpoints, Nil
    <2> QED BY <2>1, <2>2, <2>3
  <1>12. ASSUME NEW c \in Callers, Reload(c) PROVE IInv'
    <2> USE <1>12 DEF Reload, Step, Frame, sharedVars, envVars
    <2>1. TypeOK'
      BY DEF TypeOK
    <2>2. ChainInv'
      BY DEF TypeOK, ChainInv, Candidate
    <2>3. NilInv'
      BY DEF TypeOK, NilInv
    <2> QED BY <2>1, <2>2, <2>3
  <1>13. ASSUME NEW c \in Callers, Return(c) PROVE IInv'
    <2> USE <1>13 DEF Return, Step, Frame, sharedVars, envVars
    <2>1. TypeOK'
      BY NAssumption DEF TypeOK
    <2>2. ChainInv'
      BY DEF TypeOK, ChainInv, Candidate
    <2>3. NilInv'
      BY DEF TypeOK, NilInv
    <2> QED BY <2>1, <2>2, <2>3
  <1>14. CASE UNCHANGED vars
    BY <1>14 DEF vars, sharedVars, envVars, callVars, TypeOK, ChainInv, NilInv, Candidate
  <1> QED
    BY <1>1, <1>2, <1>3, <1>4, <1>5, <1>6, <1>7, <1>8, <1>9, <1>10, <1>11, <1>12, <1>13, <1>14 DEF Next, CallStep, Crashed

\* The inductive invariant holds of every behaviour.
THEOREM Invariance == Spec => []IInv
  <1>1. Init => IInv
    BY InitInv
  <1>2. IInv /\ [Next]_vars => IInv'
    BY NextInv
  <1> QED BY <1>1, <1>2, PTL DEF Spec

\* Every variable of the client has its type, and its index stays within the list.
THEOREM TypeCorrect == Spec => []TypeOK
  <1>1. IInv => TypeOK
    BY DEF IInv
  <1> QED BY <1>1, Invariance, PTL

\* No read goes to an endpoint of another chain.
THEOREM ReadsUseTheRightChain == Spec => []UsesRightChain
  <1>1. IInv => UsesRightChain
    BY DEF IInv, ChainInv, UsesRightChain
  <1> QED BY <1>1, Invariance, PTL

\* No call dereferences a nil client before Close.
THEOREM NilIsOnlyAfterClose == Spec => []NilOnlyAfterClose
  <1>1. IInv => NilOnlyAfterClose
    BY DEF IInv, NilInv, NilOnlyAfterClose
  <1> QED BY <1>1, Invariance, PTL

-----------------------------------------------------------------------------
(* Failover. *)

\* Endpoints answer at once, with an error only when they are down, and the pool probes them.
Benign == Faults \subseteq {"down"} /\ ~AppErrors /\ ~SubmitOnly

Usable(e) == e \in Right /\ health[e] = "up"
\* The endpoint that is j places after the first one of a scan from s.
Place(s, j) == ((s + j) % N) + 1

\* What a call knows of the endpoints if nothing it relies on has changed.
CalmInv(c) ==
  /\ pc[c] = "probe" => \A j \in 0..(N - 1) : j < tried[c] => ~Usable(Place(start[c], j))
  /\ pc[c] = "install" => Usable(Candidate(c))
  /\ pc[c] = "reload" => Usable(active)
  /\ pc[c] = "try" /\ attempt[c] = 2 => Usable(cli[c])
  /\ pc[c] # "failed"

FailInv ==
  /\ health \in [Endpoints -> {"up", "down"}]
  /\ \E e \in Endpoints : Usable(e)
  /\ \A c \in Callers : ~expired[c]
  /\ closed => cancelled
  /\ \A c \in Callers : ~disturbed[c] /\ ~cancelled => CalmInv(c)

\* A scan of N places from any start passes every endpoint.
LEMMA ScanIsComplete ==
  \A s \in 0..(N - 1), e \in Endpoints : \E j \in 0..(N - 1) : Place(s, j) = e
  <1> SUFFICES ASSUME NEW s \in 0..(N - 1), NEW e \in Endpoints
               PROVE  \E j \in 0..(N - 1) : Place(s, j) = e
    OBVIOUS
  <1>1. N \in Nat \ {0} /\ s \in Nat /\ s < N /\ e \in Nat /\ 1 <= e /\ e <= N
    BY NAssumption DEF Endpoints
  <1>2. (e - 1) % N = e - 1 /\ (e - 1 + N) % N = e - 1
    BY <1>1, SMT
  <1>3. CASE e - 1 >= s
    <2>1. e - 1 - s \in 0..(N - 1) /\ s + (e - 1 - s) = e - 1
      BY <1>1, <1>3
    <2>2. Place(s, e - 1 - s) = e
      BY <1>1, <1>2, <2>1 DEF Place
    <2> QED BY <2>1, <2>2
  <1>4. CASE e - 1 < s
    <2>1. e - 1 - s + N \in 0..(N - 1) /\ s + (e - 1 - s + N) = e - 1 + N
      BY <1>1, <1>4
    <2>2. Place(s, e - 1 - s + N) = e
      BY <1>1, <1>2, <2>1 DEF Place
    <2> QED BY <2>1, <2>2
  <1> QED BY <1>1, <1>3, <1>4

\* An endpoint that is up answers, one that is down does not, and no answer is late.
LEMMA Answers ==
  ASSUME FailInv, NEW c \in Callers, NEW e \in Endpoints, NEW r \in Asked(c, e)
  PROVE  ~r.late /\ (~cancelled => (r.ok <=> health[e] = "up"))
  <1>1. ~expired[c] /\ health[e] \in {"up", "down"}
    BY DEF FailInv
  <1>2. CASE Over(c)
    <2>1. r = [ok |-> FALSE, late |-> expired[c]]
      BY <1>2 DEF Asked
    <2> QED BY <1>1, <1>2, <2>1 DEF Over
  <1>3. CASE ~Over(c) /\ health[e] = "up"
    <2>1. r = [ok |-> TRUE, late |-> FALSE]
      BY <1>3 DEF Asked
    <2> QED BY <1>3, <2>1
  <1>4. CASE ~Over(c) /\ health[e] = "down"
    <2>1. r = [ok |-> FALSE, late |-> FALSE]
      BY <1>4 DEF Asked
    <2> QED BY <1>4, <2>1
  <1> QED BY <1>1, <1>2, <1>3, <1>4

\* All endpoints are up when the client has connected, and nobody calls.
LEMMA InitFail == Init => FailInv
  <1> SUFFICES ASSUME Init PROVE FailInv
    OBVIOUS
  <1>1. PICK e \in Endpoints : e \in Right
    BY ChainAssumption DEF Right, Endpoints
  <1>2. Usable(e)
    BY <1>1 DEF Init, Usable
  <1> QED BY <1>2 DEF Init, FailInv, CalmInv

\* A step that leaves the endpoints and every other call alone keeps the invariant if the
\* call that makes it does.
LEMMA CallFail ==
  ASSUME FailInv, NEW c \in Callers,
         UNCHANGED <<health, cancelled, closed>>,
         ~expired'[c],
         ~disturbed'[c] /\ ~cancelled => CalmInv(c)',
         \A d \in Callers \ {c} :
           /\ expired'[d] = expired[d]
           /\ ~disturbed'[d] /\ ~cancelled =>
                /\ ~disturbed[d]
                /\ UNCHANGED <<pc[d], cli[d], attempt[d], start[d], tried[d]>>
                /\ active' = active \/ Usable(active')
  PROVE  FailInv'
  <1>1. \A e : Usable(e)' <=> Usable(e)
    BY DEF Usable
  <1>2. \A d \in Callers : ~disturbed'[d] /\ ~cancelled' => CalmInv(d)'
    <2> SUFFICES ASSUME NEW d \in Callers, ~disturbed'[d], ~cancelled', d # c
                 PROVE  CalmInv(d)'
      OBVIOUS
    <2>1. CalmInv(d)
      BY DEF FailInv
    <2>2. UNCHANGED <<pc[d], cli[d], attempt[d], start[d], tried[d]>>
          /\ (active' = active \/ Usable(active'))
      OBVIOUS
    <2>3. Candidate(d)' = Candidate(d)
      BY <2>2 DEF Candidate
    <2> QED BY <2>1, <2>2, <2>3 DEF CalmInv, Usable
  <1> QED BY <1>2 DEF FailInv, Usable

\* Every step preserves what a call knows of the endpoints.
LEMMA NextFail ==
  ASSUME Benign, IInv, FailInv, [Next]_vars
  PROVE  FailInv'
  <1> USE DEF IInv
  <1>1. CASE Change
    <2> USE <1>1 DEF Change, sharedVars, callVars
    <2>1. health' \in [Endpoints -> {"up", "down"}]
      BY DEF FailInv, Benign
    <2>2. \E e \in Endpoints : Usable(e)'
      BY DEF Usable, Right
    <2>3. \A d \in Callers : disturbed'[d]
      OBVIOUS
    <2> QED BY <2>1, <2>2, <2>3 DEF FailInv
  <1>2. CASE Shutdown
    <2> USE <1>2 DEF Shutdown, sharedVars, callVars
    <2> QED BY DEF FailInv, Usable
  <1>3. CASE Close
    <2> USE <1>3 DEF Close, callVars
    <2> QED BY DEF FailInv, Usable
  <1>4. ASSUME NEW c \in Callers, Call(c) PROVE FailInv'
    <2> USE <1>4 DEF Call, Step, Frame, sharedVars, envVars
    <2>1. CalmInv(c)'
      BY DEF TypeOK, CalmInv
    <2> QED BY <2>1, CallFail DEF TypeOK
  <1>5. ASSUME NEW c \in Callers, Try(c) PROVE FailInv'
    <2> USE <1>5 DEF Try, Step, Frame, sharedVars, envVars
    <2>1. cli[c] \in Endpoints
      BY DEF TypeOK
    <2>2. PICK r \in Asked(c, cli[c]) \cup {[ok |-> FALSE, late |-> expired[c]]} :
            /\ AppErrors \/ r \in Asked(c, cli[c])
            /\ expired' = [expired EXCEPT ![c] = r.late]
            /\ pc' = [pc EXCEPT ![c] =
                        IF r.ok THEN "ok" ELSE IF attempt[c] = 1 THEN "bump" ELSE "failed"]
      OBVIOUS
    <2>3. ~r.late /\ (~cancelled => (r.ok <=> health[cli[c]] = "up"))
      BY <2>1, <2>2, Answers DEF Benign
    <2>4. ~expired'[c]
      BY <2>2, <2>3 DEF TypeOK
    <2>5. ASSUME ~disturbed[c], ~cancelled PROVE CalmInv(c)'
      <3>1. attempt[c] = 2 => Usable(cli[c])
        BY <2>5 DEF FailInv, CalmInv
      <3>2. pc'[c] \in {"ok", "bump"}
        BY <2>2, <2>3, <2>5, <3>1 DEF TypeOK, Usable
      <3> QED BY <3>2 DEF CalmInv
    <2> QED BY <2>2, <2>4, <2>5, CallFail DEF TypeOK
  <1>6. ASSUME NEW c \in Callers, TryNil(c) PROVE FailInv'
    <2> USE <1>6 DEF TryNil, Step, sharedVars, envVars
    <2>1. cancelled
      BY DEF NilInv, FailInv
    <2>2. ~expired'[c]
      BY DEF FailInv
    <2> QED BY <2>1, <2>2, CallFail DEF TypeOK
  <1>7. ASSUME NEW c \in Callers, Bump(c) PROVE FailInv'
    <2> USE <1>7 DEF Bump, Step, Frame, sharedVars, envVars
    <2>1. CalmInv(c)' /\ ~expired'[c]
      BY DEF TypeOK, CalmInv, FailInv
    <2> QED BY <2>1, CallFail DEF TypeOK
  <1>8. ASSUME NEW c \in Callers, Reconnect(c) PROVE FailInv'
    <2> USE <1>8 DEF Reconnect, Step, Frame, sharedVars, envVars
    <2>1. pc'[c] = "probe" /\ tried'[c] = 0 /\ ~expired'[c]
      BY DEF TypeOK, FailInv
    <2>2. CalmInv(c)'
      BY <2>1 DEF CalmInv
    <2> QED BY <2>1, <2>2, CallFail DEF TypeOK
  <1>9. ASSUME NEW c \in Callers, Probe(c) PROVE FailInv'
    <2> USE <1>9 DEF Probe, Step, Frame, sharedVars, envVars
    <2>1. Candidate(c) \in Endpoints
      BY CandidateType
    <2>2. PICK r \in Asked(c, Candidate(c)) :
            /\ expired' = [expired EXCEPT ![c] = r.late]
            /\ IF r.ok /\ RightChain(Candidate(c))
               THEN pc' = [pc EXCEPT ![c] = "install"] /\ UNCHANGED tried
               ELSE tried' = [tried EXCEPT ![c] = @ + 1] /\ UNCHANGED pc
      BY DEF Benign
    <2>3. ~r.late /\ (~cancelled => (r.ok <=> health[Candidate(c)] = "up"))
      BY <2>1, <2>2, Answers
    <2>4. ~expired'[c]
      BY <2>2, <2>3 DEF TypeOK
    <2>5. ASSUME ~disturbed[c], ~cancelled PROVE CalmInv(c)'
      <3>1. CASE r.ok /\ RightChain(Candidate(c))
        <4>1. Usable(Candidate(c)) /\ pc'[c] = "install" /\ Candidate(c)' = Candidate(c)
          BY <2>2, <2>3, <2>5, <3>1 DEF TypeOK, Usable, RightChain, Candidate
        <4> QED BY <4>1 DEF CalmInv, Usable
      <3>2. CASE ~(r.ok /\ RightChain(Candidate(c)))
        <4>1. ~Usable(Place(start[c], tried[c]))
          BY <2>3, <2>5, <3>2 DEF Usable, RightChain, Candidate, Place
        <4>2. pc'[c] = "probe" /\ tried'[c] = tried[c] + 1 /\ start'[c] = start[c]
          BY <2>2, <3>2 DEF TypeOK
        <4>3. \A j \in 0..(N - 1) : j < tried[c] => ~Usable(Place(start[c], j))
          BY <2>5 DEF FailInv, CalmInv
        <4>4. \A j \in 0..(N - 1) : j < tried[c] + 1 => j < tried[c] \/ j = tried[c]
          BY NAssumption DEF TypeOK
        <4>5. \A j \in 0..(N - 1) : j < tried'[c] => ~Usable(Place(start'[c], j))
          BY <4>1, <4>2, <4>3, <4>4
        <4>6. \A j \in 0..(N - 1) : j < tried'[c] => ~Usable(Place(start[c], j))'
          BY <4>5 DEF Usable, Place
        <4> QED BY <4>2, <4>6 DEF CalmInv
      <3> QED BY <3>1, <3>2
    <2> QED BY <2>2, <2>4, <2>5, CallFail DEF TypeOK
  <1>10. ASSUME NEW c \in Callers, NoneUsable(c) PROVE FailInv'
    <2> USE <1>10 DEF NoneUsable, Step, Frame, sharedVars, envVars
    <2>1. disturbed[c] \/ cancelled
      <3> SUFFICES ASSUME ~disturbed[c], ~cancelled PROVE FALSE
        OBVIOUS
      <3>1. PICK e \in Endpoints : Usable(e)
        BY DEF FailInv
      <3>2. PICK j \in 0..(N - 1) : Place(start[c], j) = e
        BY ScanIsComplete DEF TypeOK
      <3>3. j < tried[c]
        BY NAssumption
      <3> QED BY <3>1, <3>2, <3>3 DEF FailInv, CalmInv
    <2>2. ~expired'[c]
      BY DEF FailInv
    <2> QED BY <2>1, <2>2, CallFail DEF TypeOK
  <1>11. ASSUME NEW c \in Callers, Install(c) PROVE FailInv'
    <2> USE <1>11 DEF Install, Step, Frame, sharedVars, envVars, Disturb
    <2>1. ~expired'[c]
      BY DEF FailInv
    <2>2. disturbed[c] => \A d \in Callers : disturbed'[d]
      OBVIOUS
    <2>3. ~disturbed[c] /\ ~cancelled => Usable(active')
      BY DEF FailInv, CalmInv
    <2>4. ~disturbed'[c] /\ ~cancelled => CalmInv(c)'
      BY <2>2, <2>3 DEF TypeOK, CalmInv, Usable
    <2> QED BY <2>1, <2>2, <2>3, <2>4, CallFail DEF TypeOK
  <1>12. ASSUME NEW c \in Callers, Reload(c) PROVE FailInv'
    <2> USE <1>12 DEF Reload, Step, Frame, sharedVars, envVars
    <2>1. ~expired'[c]
      BY DEF FailInv
    <2>2. ~disturbed[c] /\ ~cancelled => Usable(active)
      BY DEF FailInv, CalmInv
    <2>3. ~disturbed'[c] /\ ~cancelled => CalmInv(c)'
      BY <2>2 DEF TypeOK, CalmInv, Usable
    <2> QED BY <2>1, <2>3, CallFail DEF TypeOK
  <1>13. ASSUME NEW c \in Callers, Return(c) PROVE FailInv'
    <2> USE <1>13 DEF Return, Step, Frame, sharedVars, envVars
    <2>1. CalmInv(c)' /\ ~expired'[c]
      BY DEF TypeOK, CalmInv
    <2> QED BY <2>1, CallFail DEF TypeOK
  <1>14. CASE UNCHANGED vars
    BY <1>14 DEF vars, sharedVars, envVars, callVars, FailInv, CalmInv, Usable, Candidate, Place
  <1> QED
    BY <1>1, <1>2, <1>3, <1>4, <1>5, <1>6, <1>7, <1>8, <1>9, <1>10, <1>11, <1>12, <1>13, <1>14 DEF Next, CallStep, Crashed

\* A call during which nothing it relies on changes succeeds, whichever endpoint it starts
\* from and whatever the other callers install.
THEOREM CallsFailOver ==
  ASSUME Benign
  PROVE  Spec => []FailsOver
  <1>1. Init => IInv /\ FailInv
    BY InitInv, InitFail
  <1>2. IInv /\ FailInv /\ [Next]_vars => (IInv /\ FailInv)'
    BY NextInv, NextFail
  <1>3. FailInv => FailsOver
    BY DEF FailInv, CalmInv, FailsOver
  <1> QED BY <1>1, <1>2, <1>3, PTL DEF Spec
-----------------------------------------------------------------------------
(* A call ends. *)

InCall(c) == pc[c] \notin {"idle", "ok", "failed"}

\* Steps that the call of caller c has left: of the attempt or the scan that it is in, and, in its
\* first attempt, of the reconnect and the second attempt.
CallLeft(c) ==
  IF ~InCall(c) THEN 0
  ELSE (CASE pc[c] = "reconnect" -> N + 5 [] pc[c] = "probe" -> 4 + (N - tried[c])
          [] pc[c] = "install" -> 3 [] pc[c] = "reload" -> 2 [] pc[c] = "try" -> 1 [] OTHER -> 0)
       + (IF attempt[c] = 1 THEN N + 6 ELSE 0)

\* A call makes two attempts at most, and scans the endpoints at most once for each.
CallBounded ==
  \A c \in Callers : /\ CallLeft(c) \in 0 .. 2 * N + 11
                     /\ pc[c] = "bump" => attempt[c] = 1

\* Each step of a call leaves less of it, and no other caller's step, no failing or recovering endpoint
\* and no shutdown gives it more to do: what others install never starts a scan again.
CallCloser ==
  \A c \in Callers : InCall(c) => \/ UNCHANGED <<pc[c], tried[c], attempt[c]>>
                                  \/ CallLeft(c)' < CallLeft(c)

\* The numbers of CallLeft.
LEMMA CallLeftIs ==
  ASSUME NEW c \in Callers
  PROVE  LET more == IF attempt[c] = 1 THEN N + 6 ELSE 0 IN
         /\ pc[c] = "reconnect" => CallLeft(c) = N + 5 + more
         /\ pc[c] = "probe" => CallLeft(c) = 4 + (N - tried[c]) + more
         /\ pc[c] = "install" => CallLeft(c) = 3 + more
         /\ pc[c] = "reload" => CallLeft(c) = 2 + more
         /\ pc[c] = "try" => CallLeft(c) = 1 + more
         /\ pc[c] = "bump" => CallLeft(c) = 0 + more
         /\ pc[c] \in {"idle", "ok", "failed"} => CallLeft(c) = 0
  BY DEF CallLeft, InCall

\* What one step of a call does to its place, its scan and its attempt.
LEMMA CallMoves ==
  ASSUME TypeOK, NEW c \in Callers, InCall(c), CallStep(c)
  PROVE  \/ pc'[c] = "failed" \/ (pc[c] = "try" /\ pc'[c] = "ok")
         \/ pc[c] = "try" /\ attempt[c] = 1 /\ pc'[c] = "bump" /\ attempt'[c] = attempt[c]
         \/ pc[c] = "bump" /\ pc'[c] = "reconnect" /\ attempt'[c] = 2
         \/ /\ attempt'[c] = attempt[c]
            /\ \/ pc[c] = "reconnect" /\ pc'[c] = "probe" /\ tried'[c] = 0
               \/ pc[c] = "probe" /\ pc'[c] = "probe" /\ tried[c] < N /\ tried'[c] = tried[c] + 1
               \/ pc[c] = "probe" /\ pc'[c] = "install" /\ tried[c] < N
               \/ pc[c] = "install" /\ pc'[c] = "reload"
               \/ pc[c] = "reload" /\ pc'[c] = "try"
  <1>0. /\ pc \in [Callers -> {"idle", "try", "bump", "reconnect", "probe", "install", "reload", "ok", "failed"}]
        /\ attempt \in [Callers -> {1, 2}] /\ tried \in [Callers -> 0..N]
    BY DEF TypeOK
  <1>1. CASE Call(c) \/ Return(c)
    BY <1>1 DEF Call, Return, InCall
  <1>2. CASE Try(c) \/ TryNil(c)
    BY <1>0, <1>2 DEF Try, TryNil, Step
  <1>3. CASE Bump(c) \/ Reconnect(c)
    BY <1>0, <1>3 DEF Bump, Reconnect, Step
  <1>4. CASE Probe(c) \/ NoneUsable(c)
    BY <1>0, <1>4 DEF Probe, NoneUsable, Step
  <1>5. CASE Install(c) \/ Reload(c)
    BY <1>0, <1>5 DEF Install, Reload, Step
  <1> QED BY <1>1, <1>2, <1>3, <1>4, <1>5 DEF CallStep

\* Each step of a call counts.
LEMMA EachStepCounts ==
  ASSUME TypeOK, CallBounded, NEW c \in Callers, InCall(c), CallStep(c)
  PROVE  CallLeft(c)' < CallLeft(c)
  <1> DEFINE more == IF attempt[c] = 1 THEN N + 6 ELSE 0
  <1>0. /\ N \in Nat \ {0} /\ tried[c] \in 0..N /\ attempt[c] \in {1, 2} /\ more \in Nat
        /\ pc[c] = "bump" => attempt[c] = 1
        /\ pc[c] \in {"try", "bump", "reconnect", "probe", "install", "reload"}
    BY NAssumption DEF TypeOK, CallBounded, InCall
  <1>1. /\ pc'[c] = "reconnect" => CallLeft(c)' = N + 5 + more'
        /\ pc'[c] = "probe" => CallLeft(c)' = 4 + (N - tried'[c]) + more'
        /\ pc'[c] = "install" => CallLeft(c)' = 3 + more'
        /\ pc'[c] = "reload" => CallLeft(c)' = 2 + more'
        /\ pc'[c] = "try" => CallLeft(c)' = 1 + more'
        /\ pc'[c] = "bump" => CallLeft(c)' = 0 + more'
        /\ pc'[c] \in {"ok", "failed"} => CallLeft(c)' = 0
    BY DEF CallLeft, InCall
  <1>2. CASE pc'[c] \in {"ok", "failed"}
    <2>1. CallLeft(c) > 0
      BY <1>0, CallLeftIs
    <2> QED BY <1>1, <1>2, <2>1
  <1>3. CASE pc[c] = "try" /\ attempt[c] = 1 /\ pc'[c] = "bump" /\ attempt'[c] = attempt[c]
    <2>1. CallLeft(c) = 1 + more /\ CallLeft(c)' = 0 + more
      BY <1>1, <1>3, CallLeftIs
    <2> QED BY <1>0, <2>1
  <1>4. CASE pc[c] = "bump" /\ pc'[c] = "reconnect" /\ attempt'[c] = 2
    <2>1. CallLeft(c) = 0 + (N + 6) /\ CallLeft(c)' = N + 5 + 0
      BY <1>0, <1>1, <1>4, CallLeftIs
    <2> QED BY <1>0, <2>1
  <1>5. CASE /\ attempt'[c] = attempt[c]
             /\ \/ pc[c] = "reconnect" /\ pc'[c] = "probe" /\ tried'[c] = 0
                \/ pc[c] = "probe" /\ pc'[c] = "probe" /\ tried[c] < N /\ tried'[c] = tried[c] + 1
                \/ pc[c] = "probe" /\ pc'[c] = "install" /\ tried[c] < N
                \/ pc[c] = "install" /\ pc'[c] = "reload"
                \/ pc[c] = "reload" /\ pc'[c] = "try"
    <2>1. more' = more
      BY <1>5
    <2>2. /\ pc[c] = "reconnect" => CallLeft(c) = N + 5 + more
          /\ pc[c] = "probe" => CallLeft(c) = 4 + (N - tried[c]) + more
          /\ pc[c] = "install" => CallLeft(c) = 3 + more
          /\ pc[c] = "reload" => CallLeft(c) = 2 + more
      BY CallLeftIs
    <2> HIDE DEF more
    <2>3. CASE pc[c] = "probe" /\ pc'[c] = "probe" /\ tried'[c] = tried[c] + 1
      <3>1. CallLeft(c)' = 4 + (N - (tried[c] + 1)) + more
        BY <1>1, <2>1, <2>3
      <3> QED BY <1>0, <2>2, <2>3, <3>1
    <2>4. CASE pc[c] = "reconnect" /\ pc'[c] = "probe" /\ tried'[c] = 0
      <3>1. CallLeft(c)' = 4 + (N - 0) + more
        BY <1>1, <2>1, <2>4
      <3> QED BY <1>0, <2>2, <2>4, <3>1
    <2>5. CASE pc[c] = "probe" /\ pc'[c] = "install" /\ tried[c] < N
      <3>1. CallLeft(c)' = 3 + more
        BY <1>1, <2>1, <2>5
      <3> QED BY <1>0, <2>2, <2>5, <3>1
    <2>6. CASE (pc[c] = "install" /\ pc'[c] = "reload") \/ (pc[c] = "reload" /\ pc'[c] = "try")
      BY <1>0, <1>1, <2>1, <2>2, <2>6
    <2> QED BY <1>5, <2>3, <2>4, <2>5, <2>6
  <1> QED BY <1>2, <1>3, <1>4, <1>5, CallMoves

\* Another caller's step, and a step of the environment, leaves a call where it is.
LEMMA CallsApart ==
  ASSUME TypeOK, [Next]_vars, NEW c \in Callers
  PROVE  (~crashed /\ CallStep(c)) \/ UNCHANGED <<pc[c], tried[c], attempt[c]>>
  <1>1. ASSUME NEW d \in Callers, d # c, CallStep(d) PROVE UNCHANGED <<pc[c], tried[c], attempt[c]>>
    BY <1>1 DEF TypeOK, CallStep, Call, Try, TryNil, Bump, Reconnect, Probe, NoneUsable, Install, Reload, Return,
                Step
  <1>2. CASE ~ \E d \in Callers : ~crashed /\ CallStep(d)
    BY <1>2 DEF Next, Change, Shutdown, Close, Crashed, vars, callVars
  <1> QED BY <1>1, <1>2 DEF Next

\* For any number of endpoints and callers a call ends after two attempts at most, whatever is installed
\* by the others, whatever fails, and when the process shuts down in the meantime.
THEOREM CallsEnd == Spec => []CallBounded /\ [][CallCloser]_vars
  <1>1. Init => CallBounded
    BY NAssumption, CallLeftIs DEF Init, CallBounded
  <1>2. IInv /\ CallBounded /\ [Next]_vars => CallBounded'
    <2> SUFFICES ASSUME IInv, IInv', CallBounded, [Next]_vars, NEW c \in Callers
                 PROVE  (CallLeft(c) \in 0 .. 2 * N + 11 /\ (pc[c] = "bump" => attempt[c] = 1))'
      BY NextInv DEF CallBounded
    <2>1. /\ N \in Nat \ {0} /\ tried'[c] \in 0..N /\ attempt'[c] \in {1, 2}
          /\ pc'[c] \in {"idle", "try", "bump", "reconnect", "probe", "install", "reload", "ok", "failed"}
      BY NAssumption DEF IInv, TypeOK
    <2>2. CallLeft(c)' \in 0 .. 2 * N + 11
      BY <2>1 DEF CallLeft, InCall
    <2>3. CASE CallStep(c)
      BY <2>2, <2>3, CallMoves DEF IInv, TypeOK, InCall, CallStep, Call, Return, Step, Try, TryNil, Bump,
           Reconnect, Probe, NoneUsable, Install, Reload
    <2>4. CASE UNCHANGED <<pc[c], tried[c], attempt[c]>>
      BY <2>2, <2>4 DEF CallBounded
    <2> QED BY <2>3, <2>4, CallsApart DEF IInv
  <1>3. IInv /\ CallBounded /\ [Next]_vars => [CallCloser]_vars
    BY CallsApart, EachStepCounts DEF IInv, CallCloser
  <1> QED BY <1>1, <1>2, <1>3, InitInv, Invariance, PTL DEF Spec
=============================================================================
