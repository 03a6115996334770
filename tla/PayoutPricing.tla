---------------------------- MODULE PayoutPricing ----------------------------
(***************************************************************************)
(* What a payout is worth and what it costs (fx/fx.service.ts, and the      *)
(* arithmetic of stellar/stellar.service.ts and groups/payout.service.ts):  *)
(* the rate of each contribution is locked when it is submitted, the round  *)
(* pays the sum of the normalized amounts, by a path payment where the      *)
(* group collects another asset than it pays out, and the fee of a direct   *)
(* payout is capped and counted by the day.  Amounts are counted in their   *)
(* smallest unit, rates in 1/Scale, as the seven decimals do in the code.   *)
(***************************************************************************)
EXTENDS Integers, FiniteSets, FiniteSetsExt

CONSTANTS
  Payers, Paid,       \* members, the amounts they pay
  Required,           \* contributionAmount
  Rates, Scale,       \* what the oracle may say, the decimals of a rate
  ToleranceBps, RateLife,
  Estimates,          \* the fees a simulation may answer
  MaxFee, BufferPercent, AlertThreshold,
  MaxTime, MaxPayouts, MaxPriceFaults

ASSUME PricingAssumption ==
  /\ Scale \in Nat \ {0} /\ Rates \subseteq Nat \ {0}
  /\ Paid \subseteq Nat \ {0} /\ IsFiniteSet(Payers)
  /\ Estimates \subseteq Nat /\ RateLife \in Nat /\ ToleranceBps \in 0 .. 10000
  /\ \A n \in {Required, MaxFee, BufferPercent, AlertThreshold, MaxTime,
               MaxPayouts, MaxPriceFaults} : n \in Nat

VARIABLES
  converts,    \* the group collects another asset than its unit of account
  market,      \* the rate at which the market converts now
  now,
  quotes,      \* the contributions of the round and their locked rates
  payout,      \* the last payout
  payouts,     \* how many there were
  dayTotal,    \* stellar:fees:<day>
  alerted,     \* DAILY_FEE_EXCEEDED has been dispatched today
  priceFaults

pricingVars == <<converts, market, now, quotes, payout, payouts, dayTotal,
                 alerted, priceFaults>>

NoQuote == [at |-> "none", paid |-> 0, rate |-> 0, expires |-> 0, worth |-> 0]
NoPayout == [outcome |-> "none", sent |-> FALSE, amount |-> 0, source |-> 0,
             fee |-> 0, market |-> 0]

\* toFixed rounds half up; the order book takes what it needs, rounded up.
Rounded(n, d) == (2 * n + d) \div (2 * d)
RoundedUp(n, d) == (n + d - 1) \div d
Normalized(amount, rate) == Rounded(amount * rate, Scale)
Accepted == {p \in Payers : quotes[p].at = "accepted"}

\* PARTIAL_FILL is not: a strict receive delivers the amount or fails.
PathPaymentOutcome == {"FULL_FILL", "SLIPPAGE_EXCEEDED", "FAILED"}

PricingTypeOK ==
  /\ converts \in BOOLEAN /\ market \in Rates /\ now \in 0 .. MaxTime
  /\ DOMAIN quotes = Payers
  /\ \A p \in Payers :
       /\ quotes[p].at \in {"none", "asking", "accepted", "refused"}
       /\ quotes[p].paid \in Paid \cup {0}
       /\ quotes[p].rate \in Rates \cup {0, Scale}
       /\ quotes[p].at = "accepted" => quotes[p].worth >= Required
  /\ payout.outcome \in PathPaymentOutcome \cup {"none", "refused"}
  /\ payouts \in 0 .. MaxPayouts /\ dayTotal \in Nat
  /\ alerted \in BOOLEAN /\ priceFaults \in 0 .. MaxPriceFaults

-----------------------------------------------------------------------------
PriceFault == priceFaults > 0 /\ priceFaults' = priceFaults - 1
Quote(p, q) == quotes' = [quotes EXCEPT ![p] = q]
Elsewhere ==
  UNCHANGED <<converts, market, now, payout, payouts, dayTotal, alerted>>

\* Accepted if it is worth what the group asks.
Judged(q) == [q EXCEPT !.at = IF q.worth >= Required THEN "accepted"
                                                     ELSE "refused"]

\* lockRate, normalizeToUnitOfAccount: one asset needs no conversion; ...
PayInUnit(p, amount) ==
  /\ quotes[p].at = "none"
  /\ Quote(p, Judged([NoQuote EXCEPT !.paid = amount, !.rate = Scale,
                                     !.worth = amount]))
  /\ Elsewhere /\ UNCHANGED priceFaults

\* ... otherwise the life of the rate starts, the oracle is asked, ...
AskRate(p, amount) ==
  /\ quotes[p].at = "none"
  /\ Quote(p, [NoQuote EXCEPT !.at = "asking", !.paid = amount,
                              !.expires = now + RateLife])
  /\ Elsewhere /\ UNCHANGED priceFaults

\* fetchRate: a static rate that is current, or what the oracle says.
FetchedRate == market

\* ... and what it says holds unless the answer comes after that life.
RateArrives(p) ==
  LET q == quotes[p] IN
  /\ q.at = "asking"
  /\ \/ /\ Quote(p, IF q.expires > now
                    THEN Judged([q EXCEPT !.rate = FetchedRate,
                                   !.worth = Normalized(q.paid, FetchedRate)])
                    ELSE [q EXCEPT !.at = "refused"])
        /\ UNCHANGED priceFaults
     \/ PriceFault /\ Quote(p, [q EXCEPT !.at = "refused"])
  /\ Elsewhere

-----------------------------------------------------------------------------
\* computePayoutAmount: the configured amount if nobody has contributed.
PayoutAmount ==
  IF Accepted = {} THEN Required
  ELSE MapThenSumSet(LAMBDA p : quotes[p].worth, Accepted)

\* The rate the payout hands to submitPathPayment: "already normalized".
LockedRate == Scale

\* Mutation of SendMax: the tolerance is granted twice.
SendMaxTwice(amount, rate) ==
  Rounded(amount * Scale * (10000 + 2 * ToleranceBps), rate * 10000)

\* computeSendMax.
SendMax(amount, rate) ==
  Rounded(amount * Scale * (10000 + ToleranceBps), rate * 10000)

\* extractEffectiveRate, isRateWithinTolerance.
EffectiveRate(amount, source) == Rounded(amount * Scale, source)
Deviation(a, b) == IF a > b THEN a - b ELSE b - a
WithinTolerance(rate, effective) ==
  Deviation(effective, rate) * 10000 <= ToleranceBps * rate

NextRound(result) ==
  /\ payout' = result /\ payouts' = payouts + 1
  /\ quotes' = [p \in Payers |-> NoQuote]
  /\ UNCHANGED <<converts, market, now>>

PathResult(outcome, sent, amount, source) ==
  [NoPayout EXCEPT !.outcome = outcome, !.sent = sent, !.amount = amount,
     !.source = IF sent THEN source ELSE 0, !.market = market]

\* submitPathPayment: the network refuses what would take more than sendMax;
\* what it has executed is judged by the amount it took, if the answer says.
PayByPath ==
  LET amount == PayoutAmount
      source == RoundedUp(amount * Scale, market)
      effective == EffectiveRate(amount, source)
  IN  /\ converts /\ payouts < MaxPayouts
      /\ \A p \in Payers : quotes[p].at # "asking"
      /\ \/ /\ source > SendMax(amount, LockedRate)
            /\ \E o \in {"SLIPPAGE_EXCEEDED", "FAILED"} :
                 NextRound(PathResult(o, FALSE, amount, source))
            /\ UNCHANGED priceFaults
         \/ /\ source <= SendMax(amount, LockedRate)
            /\ \E told \in BOOLEAN :
                 NextRound(PathResult(
                   IF told /\ source > 0 /\ ~WithinTolerance(LockedRate, effective)
                   THEN "SLIPPAGE_EXCEEDED" ELSE "FULL_FILL",
                   TRUE, amount, source))
            /\ UNCHANGED priceFaults
         \/ NextRound(PathResult("FAILED", FALSE, amount, source)) /\ PriceFault
      /\ UNCHANGED <<dayTotal, alerted>>

\* disbursePayout: the amount becomes an i128 only if its text has no decimals,
\* as the configured amount; the sum of contributions always has seven.
HasDecimals == Accepted # {}

Buffered(estimate) == RoundedUp(estimate * (100 + BufferPercent), 100)

\* redis.service.ts, incrBy: what the count is after, and the answer.
IncrBy(up, number, n) ==
  IF up THEN [total |-> number + n, answer |-> number + n]
        ELSE [total |-> number, answer |-> 0]

\* recordFeeSpend counts the fee; a failure of Redis answers 0, which alerts
\* nobody, and one of the webhooks is logged.
RecordFeeSpend(fee) ==
  \E up, told \in BOOLEAN :
    LET spent == IncrBy(up, dayTotal, fee)
    IN  /\ IF up /\ told THEN UNCHANGED priceFaults ELSE PriceFault
        /\ dayTotal' = spent.total
        /\ alerted' = (alerted \/ (told /\ fee > 0
                                   /\ spent.answer > AlertThreshold))

DirectResult(outcome, sent, fee) ==
  [NoPayout EXCEPT !.outcome = outcome, !.sent = sent, !.fee = fee,
                   !.amount = PayoutAmount]

\* An estimate beyond the cap refuses the payout; the buffer comes on top.
PayDirectly ==
  /\ ~converts /\ payouts < MaxPayouts
  /\ \A p \in Payers : quotes[p].at # "asking"
  /\ \/ \* no call can be built: a made-up hash is returned
        /\ HasDecimals /\ NextRound(DirectResult("FULL_FILL", FALSE, 0))
        /\ UNCHANGED <<dayTotal, alerted, priceFaults>>
     \/ /\ ~HasDecimals
        /\ \E estimate \in Estimates :
             IF estimate > MaxFee
             THEN /\ NextRound(DirectResult("refused", FALSE, 0))
                  /\ UNCHANGED <<dayTotal, alerted, priceFaults>>
             ELSE /\ NextRound(DirectResult("FULL_FILL", TRUE, Buffered(estimate)))
                  /\ RecordFeeSpend(Buffered(estimate))

-----------------------------------------------------------------------------
MarketMoves(rate) ==
  /\ rate # market /\ market' = rate
  /\ UNCHANGED <<converts, now, quotes, payout, payouts, dayTotal, alerted,
                 priceFaults>>

\* Time passes; the fees of a day are counted under its date.
TimePasses(midnight) ==
  /\ now < MaxTime /\ now' = now + 1
  /\ dayTotal' = IF midnight THEN 0 ELSE dayTotal
  /\ alerted' = (alerted /\ ~midnight)
  /\ UNCHANGED <<converts, market, quotes, payout, payouts, priceFaults>>

PricingInit ==
  /\ converts \in BOOLEAN /\ market \in Rates /\ now = 0
  /\ quotes = [p \in Payers |-> NoQuote] /\ payout = NoPayout /\ payouts = 0
  /\ dayTotal = 0 /\ alerted = FALSE /\ priceFaults = MaxPriceFaults

PricingNext ==
  \/ \E p \in Payers, amount \in Paid :
       PayInUnit(p, amount) \/ AskRate(p, amount)
  \/ \E p \in Payers : RateArrives(p)
  \/ PayByPath \/ PayDirectly
  \/ \E rate \in Rates : MarketMoves(rate)
  \/ \E midnight \in BOOLEAN : TimePasses(midnight)

PricingSpec == PricingInit /\ [][PricingNext]_pricingVars

-----------------------------------------------------------------------------
\* computeSendMax bounds what a path payment may take, isRateWithinTolerance
\* judges what it took: a payment that was executed and is then reported as
\* SLIPPAGE_EXCEEDED took less than the locked rate allows, never more.
SlippageIsNeverWorse ==
  payout.outcome = "SLIPPAGE_EXCEEDED" /\ payout.sent
    => payout.source * LockedRate < payout.amount * Scale

\* recordFeeSpend: once the fees of a day exceed the threshold the alert has
\* been dispatched, unless Redis or the webhooks have failed.
AlertIsRaised ==
  dayTotal > AlertThreshold /\ priceFaults = MaxPriceFaults => alerted

\* "Maximum allowed fee per transaction" (.env.example:63).  Fails: the cap is
\* compared with the estimate, before the buffer is added.
FeeIsCapped == payout.fee <= MaxFee

\* disbursePayout "Build[s] and submit[s] the disburse_payout contract call":
\* a payout that is taken for submitted was sent.  Fails: of an amount with
\* decimals no call can be built.
SubmittedWasSent == payout.outcome = "FULL_FILL" => payout.sent

\* The conversion "follows the locked rates captured on the contributions"
\* (payout.service.ts:183-185).  Fails: the payout passes the rate 1.
LockedRateIsHonoured ==
  [][payouts' # payouts /\ converts /\ priceFaults' = priceFaults
       /\ Accepted # {} /\ (\A p \in Accepted : quotes[p].rate = market)
     => payout'.outcome = "FULL_FILL"]_pricingVars
=============================================================================
