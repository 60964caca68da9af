----------------------------- MODULE Submitter -----------------------------
(***************************************************************************)
(* Submitter.SubmitMine (internal/chain/submitter.go) of one account, RPC  *)
(* by RPC, while blocks are mined: the fees, the gas limit, the nonce, the *)
(* transaction that is signed and what becomes of it.  Amounts are natural *)
(* numbers of some unit of wei and of gas.                                 *)
(***************************************************************************)
EXTENDS Integers, Sequences

CONSTANTS
  Tip, BumpedTip,          \* cfg.Mining.MaxPriorityFeeGwei, alone and times the bump factor
  NetworkTips,             \* what SuggestGasTipCap may say
  Estimates,               \* what EstimateGas may say
  MinGas, MaxGas,          \* cfg.Mining.GasLimitFloor and GasLimitCeiling, in any order
  MultNum, MultDen,        \* GasLimitSafetyMult as a fraction
  FirstFees                \* base fees to start from

ASSUME SubmitterAssumption ==
  /\ {Tip, BumpedTip, MinGas, MaxGas, MultNum} \subseteq Nat /\ MultDen \in Nat \ {0}
  /\ NetworkTips \subseteq Nat /\ Estimates \subseteq Nat
  /\ FirstFees \subseteq Nat \ 0..7
VARIABLES
  head,   \* number of the latest block
  base,   \* its base fee
  mined,  \* transactions of the account in blocks: its latest nonce
  txs,    \* transactions an endpoint has accepted
  draft,  \* the locals of SubmitMine
  hpc     \* where the handler goroutine is

chainVars == <<head, base, mined, txs>>
NoDraft == [tip |-> 0, cap |-> 0, at |-> 0, estimate |-> 0, gas |-> 0, nonce |-> 0, knew |-> {}]

SubmitterInit ==
  /\ head = 0 /\ base \in FirstFees /\ mined = 0 /\ txs = <<>>
  /\ draft = NoDraft /\ hpc = "recv"

-----------------------------------------------------------------------------
(* The chain. *)

Min2(a, b) == IF a <= b THEN a ELSE b
Max2(a, b) == IF a >= b THEN a ELSE b

\* EIP-1559: the base fee moves by at most an eighth (and here never under 8).
NextFees(b) == Max2(8, b - (b \div 8)) .. (b + (b \div 8))

\* A block may take, nonce by nonce, transactions that pay its base fee.
MineBlock ==
  /\ head' = head + 1
  /\ base' \in NextFees(base)
  /\ \E n \in mined .. (mined + Len(txs)) :
       /\ \A m \in mined .. (n - 1) : \E i \in DOMAIN txs : txs[i].nonce = m /\ txs[i].cap >= base'
       /\ mined' = n
  /\ UNCHANGED <<txs, draft, hpc>>

\* What the endpoint that answers may know of the account: any of its endpoints may, after a
\* failover, be one that lags, or one that never hears of what is sent to private endpoints.
Views == [mined : 0 .. mined, pool : SUBSET DOMAIN txs]
PoolNonces(v) == {txs[i].nonce : i \in v.pool}

\* The transactions an endpoint has in its blocks or in its pool.
Known(v) == v.pool \cup {i \in DOMAIN txs : txs[i].nonce < v.mined}

\* mutant: the latest nonce instead of the pending one
LatestNonce(v) == v.mined

\* PendingNonceAt: the first nonce that no transaction it knows of has.
PendingNonce(v) ==
  CHOOSE n \in v.mined .. (mined + Len(txs)) :
    n \notin PoolNonces(v) /\ \A m \in v.mined .. (n - 1) : m \in PoolNonces(v)

-----------------------------------------------------------------------------
(* SubmitMine. *)

Fail == hpc' = "failed" /\ draft' = NoDraft

\* Engine.onFound bumps the tip when the latest block holds 7 mints or more; a failed RPC
\* leaves it alone.
ChooseTip ==
  /\ hpc = "found"
  /\ \E tip \in {Tip, BumpedTip} : draft' = [draft EXCEPT !.tip = tip]
  /\ hpc' = "pack"
  /\ UNCHANGED chainVars

PackMine ==
  /\ hpc = "pack"
  /\ Fail \/ (hpc' = "fees" /\ UNCHANGED draft)
  /\ UNCHANGED chainVars

\* mutant: the cap is not twice the base fee
CapOnce(b, tip) == b + tip

Cap(b, tip) == 2 * b + tip

SuggestFees ==
  /\ hpc = "fees"
  /\ \/ Fail
     \/ /\ \E suggested \in NetworkTips :
             LET tip == Max2(draft.tip, suggested) IN
             draft' = [draft EXCEPT !.tip = tip, !.cap = Cap(base, tip), !.at = head]
        /\ hpc' = "gas"
  /\ UNCHANGED chainVars

\* The floor, then the ceiling.
Clamp(g) == Min2(Max2(g, MinGas), MaxGas)

\* mutant: the margin is added after the clamp
GasLimitThenMargin(est) == (Clamp(est) * MultNum) \div MultDen

GasLimit(est) == Clamp((est * MultNum) \div MultDen)

\* A failed estimate counts as the floor.
EstimateGas ==
  /\ hpc = "gas"
  /\ \E est \in Estimates \cup {MinGas} :
       draft' = [draft EXCEPT !.estimate = est, !.gas = GasLimit(est)]
  /\ hpc' = "nonce"
  /\ UNCHANGED chainVars

\* Always from Client, whichever of its endpoints is the active one.
ReadNonce ==
  /\ hpc = "nonce"
  /\ \/ Fail
     \/ /\ \E v \in Views : draft' = [draft EXCEPT !.nonce = PendingNonce(v), !.knew = Known(v)]
        /\ hpc' = "send"
  /\ UNCHANGED chainVars

\* "knew" is history: the transactions known to the endpoint that gave the nonce.
Transaction == [nonce |-> draft.nonce, tip |-> draft.tip, cap |-> draft.cap, at |-> draft.at,
                knew |-> draft.knew]

\* The endpoint takes it, takes it but its answer is lost (and another endpoint already knows
\* it), or does not take it.
SendTransaction ==
  /\ hpc = "send"
  /\ \/ /\ txs' = Append(txs, Transaction)
        /\ Fail \/ (hpc' = "submitted" /\ draft' = NoDraft)
     \/ Fail /\ UNCHANGED txs
  /\ UNCHANGED <<head, base, mined>>

SubmitMine == PackMine \/ SuggestFees \/ EstimateGas \/ ReadNonce \/ SendTransaction
=============================================================================
