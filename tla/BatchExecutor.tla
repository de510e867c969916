---------------------------- MODULE BatchExecutor ----------------------------
(* contracts/BatchExecutor.sol: batches of calls that spend ether, strict or
   tolerant of failures, and the refunds their senders may fetch later.  A
   transaction holds the chain until it ends or reverts; the contracts it calls
   can only fail, keep the ether or send some back (everything else they could
   call is nonReentrant or needs a role).  Gas, call data and logs are left out. *)
EXTENDS Integers, FiniteSetsExt

CONSTANTS Executors,    \* senders other than the owner
          Owner,
          MaxValue,     \* bound on one amount of ether
          MaxCalls,     \* bound on the length of a batch (50 in the code)
          MaxBalance    \* bound on the ether held, given and gone

VARIABLES authorizedExecutors, pendingRefunds, balance, tx,
          given,      \* history: ether that came in outside a batch
          drained,    \* history: ether taken by emergencyWithdraw
          overspent   \* history: ether spent beyond what the batches brought

batchVars == <<authorizedExecutors, pendingRefunds, balance, tx, given, drained, overspent>>

Senders == Executors \cup {Owner}
Values == 0..MaxValue
NoTx == [kind |-> "none"]
owed == MapThenSumSet(LAMBDA u : pendingRefunds[u], Senders)

room(v) == balance + given + drained + overspent + v <= MaxBalance

Init ==
  /\ authorizedExecutors = {} /\ pendingRefunds = [u \in Senders |-> 0]
  /\ balance = 0 /\ tx = NoTx
  /\ given = 0 /\ drained = 0 /\ overspent = 0

authorizeExecutor(u) ==
  /\ tx = NoTx /\ authorizedExecutors' = authorizedExecutors \cup {u}
  /\ UNCHANGED <<pendingRefunds, balance, tx, given, drained, overspent>>

revokeExecutor(u) ==
  /\ tx = NoTx /\ authorizedExecutors' = authorizedExecutors \ {u}
  /\ UNCHANGED <<pendingRefunds, balance, tx, given, drained, overspent>>

(* The three entry points: onlyAuthorized, and the ether sent is the contract's
   from the first instruction on. *)
begin(u, kind, value, n) ==
  /\ tx = NoTx /\ (u = Owner \/ u \in authorizedExecutors)
  /\ n \in 1..(IF kind = "single" THEN 1 ELSE MaxCalls)
  /\ room(value)
  /\ balance' = balance + value
  /\ tx' = [kind |-> kind, sender |-> u, value |-> value, left |-> n, used |-> 0,
            before |-> balance, givenBefore |-> given]
  /\ UNCHANGED <<authorizedExecutors, pendingRefunds, given, drained, overspent>>

\* Mutant: a failed call counts as spent.
CountsAlways(success, v) == v

countsAsUsed(success, v) == IF success THEN v ELSE 0

(* One call of the batch that succeeds: its target may send ether back. *)
callSucceeds(v, back) ==
  /\ tx # NoTx /\ tx.left > 0 /\ v <= balance /\ back <= v /\ given + back <= MaxBalance
  /\ balance' = balance - v + back /\ given' = given + back
  /\ tx' = [tx EXCEPT !.left = @ - 1, !.used = @ + countsAsUsed(TRUE, v)]
  /\ UNCHANGED <<authorizedExecutors, pendingRefunds, drained, overspent>>

(* One that fails (a zero target, a balance too small or the target's own
   revert): a strict batch reverts as a whole, the others go on. *)
callFails(v) ==
  /\ tx # NoTx /\ tx.left > 0
  /\ IF tx.kind = "strict"
     THEN tx' = NoTx /\ balance' = tx.before /\ given' = tx.givenBefore
     ELSE /\ tx' = [tx EXCEPT !.left = @ - 1, !.used = @ + countsAsUsed(FALSE, v)]
          /\ UNCHANGED <<balance, given>>
  /\ UNCHANGED <<authorizedExecutors, pendingRefunds, drained, overspent>>

refundExcess(u, value, used) ==
  pendingRefunds' = IF value > used THEN [pendingRefunds EXCEPT ![u] = @ + (value - used)]
                    ELSE pendingRefunds

finish ==
  /\ tx # NoTx /\ tx.left = 0
  /\ refundExcess(tx.sender, tx.value, tx.used)
  /\ overspent' = overspent + (IF tx.used > tx.value THEN tx.used - tx.value ELSE 0)
  /\ tx' = NoTx
  /\ UNCHANGED <<authorizedExecutors, balance, given, drained>>

(* A withdrawal the balance cannot pay reverts and changes nothing. *)
withdrawRefund(u) ==
  /\ tx = NoTx /\ pendingRefunds[u] > 0 /\ pendingRefunds[u] <= balance
  /\ balance' = balance - pendingRefunds[u]
  /\ pendingRefunds' = [pendingRefunds EXCEPT ![u] = 0]
  /\ UNCHANGED <<authorizedExecutors, tx, given, drained, overspent>>

(* The owner takes everything, the refunds owed included. *)
emergencyWithdraw ==
  /\ tx = NoTx /\ balance > 0
  /\ drained' = drained + balance /\ balance' = 0
  /\ UNCHANGED <<authorizedExecutors, pendingRefunds, tx, given, overspent>>

receive(v) ==
  /\ tx = NoTx /\ v > 0 /\ room(v)
  /\ balance' = balance + v /\ given' = given + v
  /\ UNCHANGED <<authorizedExecutors, pendingRefunds, tx, drained, overspent>>

Next ==
  \/ \E u \in Executors : authorizeExecutor(u) \/ revokeExecutor(u)
  \/ \E u \in Senders, kind \in {"strict", "tolerant", "single"}, v \in Values, n \in 1..MaxCalls :
       begin(u, kind, v, n)
  \/ \E v, back \in Values : callSucceeds(v, back)
  \/ \E v \in Values : callFails(v) \/ receive(v)
  \/ finish \/ emergencyWithdraw
  \/ \E u \in Senders : withdrawRefund(u)

Spec == Init /\ [][Next]_batchVars

TypeOK ==
  /\ authorizedExecutors \subseteq Executors
  /\ pendingRefunds \in [Senders -> Nat]
  /\ balance \in Nat /\ given \in Nat /\ drained \in Nat /\ overspent \in Nat
  /\ \/ tx = NoTx
     \/ /\ tx.kind \in {"strict", "tolerant", "single"} /\ tx.sender \in Senders
        /\ tx.left \in 0..MaxCalls
        /\ tx.value \in Nat /\ tx.used \in Nat /\ tx.before \in Nat /\ tx.givenBefore \in Nat

(* Between transactions the books balance to the wei: what the contract holds
   is the refunds owed and the ether given to it, less what the owner took and
   what batches spent beyond the ether they brought.  So refunds are covered
   unless one of the last two happened (BatchExecutor.sol:160, 187). *)
BooksBalance == tx = NoTx => balance + drained + overspent = owed + given
=============================================================================
