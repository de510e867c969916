-------------------------------- MODULE AntiRug --------------------------------
(* How a token's report becomes a verdict: AntiRug.compute_score of
   crates/trading-domain/src/security.rs, and the TypeScript stand-in of
   WasmAdapter.ts that serves while the WASM module cannot be loaded.  The
   module's state is one report, which gets worse step by step. *)
EXTENDS Integers, FiniteSets

CONSTANT Taxes    \* per cent; above 100 stands for what does not parse

VARIABLES flags, buyTax, sellTax, liquidity, lists

rugVars == <<flags, buyTax, sellTax, liquidity, lists>>

Fatal == {"honeypot", "owner_change_balance", "cannot_sell_all", "is_blacklisted"}

Penalty ==
  [same_creator |-> 30, cannot_buy |-> 20, proxy |-> 20, mintable |-> 15, closed |-> 40, owned |-> 15]

Flags == Fatal \union DOMAIN Penalty

Init ==
  /\ flags = {} /\ buyTax = 0 /\ sellTax = 0 /\ liquidity = "locked"
  /\ lists \in SUBSET {"whitelist", "source"}   \* the user's whitelist, the source's

Points(lost) ==
  LET of(f) == IF f \in lost THEN Penalty[f] ELSE 0
  IN of("same_creator") + of("cannot_buy") + of("proxy") + of("mintable") + of("closed") + of("owned")

TaxPenalty(tax) == IF tax > 5 THEN 4 * tax ELSE 0

LiquidityPoints_forgiving == [locked |-> 5, unknown |-> -10, open |-> 0]

LiquidityPoints == [locked |-> 5, unknown |-> -10, open |-> -20]

Clamp(n) == IF n < 0 THEN 0 ELSE IF n > 100 THEN 100 ELSE n

Verdict(score, honeypot, verified) == [score |-> score, honeypot |-> honeypot, verified |-> verified]

(* The user's lists, then fatal flags, then unreadable and prohibitive taxes,
   then points. *)
compute_score ==
  IF "blacklist" \in lists THEN Verdict(0, TRUE, FALSE)
  ELSE IF "whitelist" \in lists THEN Verdict(100, FALSE, TRUE)
  ELSE IF flags \intersect Fatal # {} THEN Verdict(0, TRUE, FALSE)
  ELSE IF buyTax > 100 \/ sellTax > 100 THEN Verdict(0, FALSE, "closed" \notin flags)
  ELSE IF buyTax > 20 \/ sellTax > 20 THEN Verdict(10, FALSE, "closed" \notin flags)
  ELSE Verdict(Clamp(100 - Points(flags) - TaxPenalty(buyTax) - TaxPenalty(sellTax)
                       + LiquidityPoints[liquidity]
                       + (IF "source" \in lists THEN 10 ELSE 0)
                       + (IF {"closed", "owned"} \intersect flags = {} THEN 5 ELSE 0)),
               FALSE, "closed" \notin flags)

(* The stand-in: its whitelist wins, it knows one fatal flag, and a tax it
   cannot read costs nothing. *)
compute_score_mock ==
  LET over(tax) == IF tax > 10 /\ tax <= 100 THEN 15 ELSE 0
      points == 65 + (IF "closed" \notin flags THEN 15 ELSE 0)
                   + (IF "owned" \notin flags THEN 10 ELSE 0)
                   + (CASE liquidity = "locked" -> 10 [] liquidity = "open" -> -20 [] OTHER -> 0)
                   - over(buyTax) - over(sellTax)
  IN IF "whitelist" \in lists THEN Verdict(100, FALSE, TRUE)
     ELSE IF "blacklist" \in lists \/ "honeypot" \in flags THEN Verdict(0, TRUE, FALSE)
     ELSE Verdict(Clamp(points), FALSE, "closed" \notin flags)

(* What EidolonGuard lets through. *)
scoreOk(verdict) == ~verdict.honeypot /\ verdict.verified /\ verdict.score >= 50

flagged(f) ==
  /\ f \notin flags
  /\ f \in Fatal => flags \intersect Fatal = {}
  /\ flags' = flags \union {f}
  /\ UNCHANGED <<buyTax, sellTax, liquidity, lists>>

taxed ==
  /\ \/ \E t \in Taxes : t > buyTax /\ buyTax' = t /\ UNCHANGED sellTax
     \/ \E t \in Taxes : t > sellTax /\ sellTax' = t /\ UNCHANGED buyTax
  /\ UNCHANGED <<flags, liquidity, lists>>

drained ==
  /\ \/ liquidity = "locked" /\ liquidity' = "unknown"
     \/ liquidity = "unknown" /\ liquidity' = "open"
  /\ UNCHANGED <<flags, buyTax, sellTax, lists>>

listed ==
  /\ "blacklist" \notin lists
  /\ lists' = lists \union {"blacklist"}
  /\ UNCHANGED <<flags, buyTax, sellTax, liquidity>>

Next == taxed \/ drained \/ listed \/ \E f \in Flags : flagged(f)

Spec == Init /\ [][Next]_rugVars

(* A worse report never makes a token pass, of either implementation (the
   stand-in excepted when a tax becomes unreadable), and never raises the score,
   but for a tax that becomes prohibitive: that is 10 points flat, more than the
   worst tokens below it have. *)
worsens ==
  /\ scoreOk(compute_score)' => scoreOk(compute_score)
  /\ scoreOk(compute_score_mock)' /\ buyTax' <= 100 /\ sellTax' <= 100 => scoreOk(compute_score_mock)
  /\ \/ compute_score.score' <= compute_score.score
     \/ compute_score.score' = 10 /\ (buyTax' > 20 \/ sellTax' > 20)
WorseNeverPasses == [][worsens]_rugVars
=============================================================================
