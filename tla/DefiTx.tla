------------------------------- MODULE DefiTx --------------------------------
(* packages/defi-bnb/src/defi.ts: the operations that move tokens of one account
   through a spender (the router for swaps, a market or a farm for lend, repay
   and stake), interleaved at their awaits.  They share the allowance of the
   account to the spender; transactions of the account are mined in the order
   they were sent.  Operations on the native coin, borrow, enterMarkets and
   harvests need no allowance and are left out, as are prices but for the loss
   they make a swap look like. *)
EXTENDS Integers, Sequences, FiniteSets

CONSTANTS Ops, Amounts,
          Losses       \* what the best pool costs against the market price, in percent

VARIABLES ops, allowance, mempool

defiVars == <<ops, allowance, mempool>>

Spenders == {"router", "market"}
Idle == [pc |-> "idle"]
Settled == {"idle", "done", "failed"}
Emergency == [slippage |-> 10, priced |-> TRUE, force |-> FALSE]     \* dumpAllPositions
Usual == {[slippage |-> 0 (* 0.5 *), priced |-> p, force |-> f] : p, f \in BOOLEAN}

Init == ops = [o \in Ops |-> Idle] /\ allowance = [s \in Spenders |-> 0] /\ mempool = <<>>

goes(o, pc) == ops' = [ops EXCEPT ![o].pc = pc]
sends(o, what, value) == mempool' = Append(mempool, [op |-> o, what |-> what, spender |-> ops[o].spender, value |-> value])

(* swap behind the scan of the target and the quote; lend, repay and stake. *)
starts(o, spender, amount, terms, dump) ==
  /\ ops[o].pc = "idle" /\ (dump => spender = "router" /\ terms = Emergency)
  /\ ops' = [ops EXCEPT ![o] = [pc |-> "allowance", spender |-> spender, amount |-> amount, terms |-> terms,
                                dump |-> dump, granted |-> FALSE, sent |-> FALSE, excuse |-> "none"]]
  /\ UNCHANGED <<allowance, mempool>>

(* The allowance is read; another operation may already count on it. *)
readsAllowance(o) ==
  /\ ops[o].pc = "allowance"
  /\ goes(o, IF allowance[ops[o].spender] >= ops[o].amount THEN "checks" ELSE "approving")
  /\ UNCHANGED <<allowance, mempool>>

(* BUFFERED: 1.2 times the amount, rounded up. *)
getApprovalAmount(amount) == (amount * 12000 + 9999) \div 10000

approves(o, ok) ==
  /\ ops[o].pc = "approving"
  /\ IF ok THEN goes(o, "confirming") /\ sends(o, "approve", getApprovalAmount(ops[o].amount))
           ELSE goes(o, "failed") /\ UNCHANGED mempool
  /\ UNCHANGED allowance

pending(o) == \E i \in DOMAIN mempool : mempool[i].op = o

confirmed(o) ==
  /\ ops[o].pc = "confirming" /\ ~pending(o)
  /\ ops' = [ops EXCEPT ![o].pc = "checks", ![o].granted = TRUE]
  /\ UNCHANGED <<allowance, mempool>>

(* The wait for the receipt ends in an error: swap does not know it granted. *)
receiptLost(o) ==
  /\ ops[o].pc = "confirming"
  /\ ops' = [ops EXCEPT ![o].pc = "failed", ![o].excuse = "receipt"]
  /\ UNCHANGED <<allowance, mempool>>

\* Mutant: a failing operation leaves what it was granted.
failing_without_revoke(o) == goes(o, "failed")

failing(o) == goes(o, IF ops[o].granted /\ ops[o].spender = "router" THEN "revoking" ELSE "failed")

(* checkThermodynamics and simulateTransaction: the latter sees the allowance
   of the last block. *)
checks(o, ok) ==
  /\ ops[o].pc = "checks"
  /\ IF ok /\ allowance[ops[o].spender] >= ops[o].amount
     THEN goes(o, IF ops[o].spender = "router" THEN "impact" ELSE "sending") ELSE failing(o)
  /\ UNCHANGED <<allowance, mempool>>

(* checkPriceImpact, against the least amount out: the slippage counts as loss. *)
impact(o, loss) ==
  LET t == ops[o].terms IN
  /\ ops[o].pc = "impact"
  /\ IF ~t.force /\ t.priced /\ loss + t.slippage > 10
     THEN IF ops[o].granted THEN ops' = [ops EXCEPT ![o].pc = "revoking", ![o].excuse = "impact"]
                            ELSE ops' = [ops EXCEPT ![o].pc = "failed", ![o].excuse = "impact"]
     ELSE goes(o, "sending")
  /\ UNCHANGED <<allowance, mempool>>

transmits(o, ok) ==
  /\ ops[o].pc = "sending"
  /\ IF ok THEN /\ sends(o, "transfer", ops[o].amount)
                /\ ops' = [ops EXCEPT ![o].sent = TRUE, ![o].pc = IF ops[o].spender = "router" THEN "sent" ELSE "done"]
           ELSE failing(o) /\ UNCHANGED mempool
  /\ UNCHANGED allowance

(* The decimals of the token bought are looked up behind the swap, within the
   same try: a failure is reported as the swap's. *)
lookup(o, ok) ==
  /\ ops[o].pc = "sent" /\ IF ok THEN goes(o, "done") ELSE failing(o)
  /\ UNCHANGED <<allowance, mempool>>

revokeApproval(o, ok) ==
  /\ ops[o].pc = "revoking"
  /\ IF ok THEN goes(o, "failed") /\ sends(o, "approve", 0)
           ELSE ops' = [ops EXCEPT ![o].pc = "failed", ![o].excuse = "revoke"] /\ UNCHANGED mempool
  /\ UNCHANGED allowance

(* A transfer beyond the allowance reverts. *)
mined ==
  /\ mempool # <<>> /\ mempool' = Tail(mempool)
  /\ LET tx == Head(mempool) s == tx.spender IN
     allowance' = [allowance EXCEPT ![s] = IF tx.what = "approve" THEN tx.value
                                           ELSE IF @ >= tx.value THEN @ - tx.value ELSE @]
  /\ UNCHANGED ops

Next ==
  \/ \E o \in Ops, s \in Spenders, a \in Amounts, t \in Usual \cup {Emergency}, dump \in BOOLEAN : starts(o, s, a, t, dump)
  \/ \E o \in Ops : readsAllowance(o) \/ confirmed(o) \/ receiptLost(o)
  \/ \E o \in Ops, ok \in BOOLEAN :
       approves(o, ok) \/ checks(o, ok) \/ transmits(o, ok) \/ lookup(o, ok) \/ revokeApproval(o, ok)
  \/ \E o \in Ops, loss \in Losses : impact(o, loss)
  \/ mined

Spec == Init /\ [][Next]_defiVars

(* When all is mined, an allowance is left to a spender only by an operation
   that was sent, one other than a swap that failed, or one whose receipt or
   revocation was lost: swaps that fail side by side leave none, in whatever
   order they approve and revoke (defi.ts:414, 448, 469). *)
LeftoverIsExplained ==
  (\A o \in Ops : ops[o].pc \in Settled) /\ mempool = <<>> =>
    \A s \in Spenders : allowance[s] > 0 =>
      \E o \in Ops : ops[o].pc # "idle" /\ ops[o].spender = s
                     /\ (ops[o].sent \/ s = "market" \/ ops[o].excuse \in {"receipt", "revoke"})

(* What the comment on dumpAllPositions says (defi.ts:534): the emergency sale
   ignores slippage checks. *)
EmergencyIgnoresSlippage == \A o \in Ops : ops[o].pc # "idle" /\ ops[o].dump => ops[o].excuse # "impact"
=============================================================================
