---------------------------- MODULE BalanceMonitor ----------------------------
(***************************************************************************)
(* The balance monitor (balance-monitor.service.ts) behind the circuit       *)
(* breaker (stellar-circuit-breaker.service.ts) and the congestion monitor   *)
(* (congestion-monitor.service.ts) it consults.  The monitor is the only     *)
(* user of the breaker, and wraps each read in it twice.                     *)
(***************************************************************************)
EXTENDS Integers, FiniteSets

CONSTANTS
  Issuer, Escrows,     \* accounts: the issuer's and those of active groups
  Readers,             \* the cron task, and requests of GET balances
  Cron,
  BreakerThreshold, BaseTimeout, ProbeInterval,   \* of the breaker, in ticks
  MinSamples,          \* CONGESTION_MIN_SAMPLES
  MaxSamples           \* bound: samples in one window

ASSUME BalanceAssumption ==
  /\ IsFiniteSet(Escrows) /\ Issuer \notin Escrows
  /\ IsFiniteSet(Readers) /\ Cron \in Readers
  /\ {BreakerThreshold, BaseTimeout, ProbeInterval, MinSamples, MaxSamples}
       \subseteq Nat \ {0}

VARIABLES
  breaker,     \* state of the breaker, times as ages
  samples,     \* the window of the congestion monitor
  streak,      \* failed loads since the last that succeeded
  network,     \* how the network is
  low,         \* whether the balance of each account is low
  reader,      \* what each check is at
  previous,    \* previousLowBalanceAccounts
  told,        \* the last alert sent about each account
  unsent       \* accounts whose last alert could not be sent

balanceVars ==
  <<breaker, samples, streak, network, low, reader, previous, told, unsent>>

-----------------------------------------------------------------------------
AllAccounts == {Issuer} \cup Escrows

\* checkAllBalances looks for groups whose deletedAt lies before 1970; find
\* adds that deletedAt be null.  No group is both.
ActiveGroupsFound == {}
AccountsToCheck == {Issuer} \cup ActiveGroupsFound

NotReading == [at |-> "none"]
Reading ==
  [at : {"pick", "load"}, left : SUBSET AllAccounts,
   account : AllAccounts, lowOnes : SUBSET AllAccounts,
   read : SUBSET AllAccounts]

CircuitState ==
  [failures : 0 .. BreakerThreshold, open : BOOLEAN,
   sinceFailure : 0 .. BaseTimeout, sinceProbe : 0 .. ProbeInterval]
LatencyWindow ==
  [slow : 0 .. MaxSamples, fast : 0 .. MaxSamples, failed : 0 .. MaxSamples]

BalanceTypeOK ==
  /\ breaker \in CircuitState /\ samples \in LatencyWindow
  /\ streak \in 0 .. BreakerThreshold
  /\ network \in {"fast", "slow", "down"}
  /\ low \in [AllAccounts -> BOOLEAN]
  /\ \A r \in Readers : reader[r] \in Reading \cup {NotReading}
  /\ previous \subseteq AllAccounts
  /\ told \in [AllAccounts -> {"nothing", "low", "recovered"}]
  /\ unsent \subseteq AllAccounts

-----------------------------------------------------------------------------
\* The 99th percentile of a window of under 100 samples is its slowest.
HighLatency(w) == w.slow > 0
Total(w) == w.slow + w.fast + w.failed
Congested(w) ==
  /\ Total(w) >= MinSamples
  /\ HighLatency(w)
  /\ 4 * w.failed <= Total(w)

\* recordSuccess and recordFailure; a full window starts anew.
Record(w, what) ==
  LET kept == IF Total(w) < MaxSamples THEN w
              ELSE [slow |-> 0, fast |-> 0, failed |-> 0]
  IN  [kept EXCEPT ![what] = @ + 1]

\* getAdaptiveTimeout: congestion excludes a likely outage (1/4 < 1/2).
AdaptiveTimeout == IF Congested(samples) THEN BaseTimeout \div 2
                                         ELSE BaseTimeout

Closed ==
  [failures |-> 0, open |-> FALSE, sinceFailure |-> BaseTimeout,
   sinceProbe |-> ProbeInterval]

\* execute lets a call through, at once or as the probe of a half-open circuit.
LetsThrough(b) ==
  b.open => b.sinceFailure >= AdaptiveTimeout /\ b.sinceProbe >= ProbeInterval
ProbeStarted(b) == IF b.open THEN [b EXCEPT !.sinceProbe = 0] ELSE b

OnSuccess(b) == Closed

OnFailure(b) ==
  LET failures == IF b.failures < BreakerThreshold THEN b.failures + 1
                                                   ELSE b.failures
  IN  [failures |-> failures,
       open |-> b.open \/ failures >= BreakerThreshold,
       sinceFailure |-> 0,
       sinceProbe |-> IF b.open THEN 0 ELSE b.sinceProbe]

-----------------------------------------------------------------------------
\* checkAllBalances, or getCurrentBalances of a request, lists the accounts.
StartCheck(r) ==
  /\ reader[r] = NotReading
  /\ reader' = [reader EXCEPT ![r] =
       [at |-> "pick", left |-> AccountsToCheck, account |-> Issuer,
        lowOnes |-> {}, read |-> {}]]
  /\ UNCHANGED <<breaker, samples, streak, network, low, previous, told, unsent>>

\* The next account, by an execute within an execute, both before the first
\* await: the probe the outer one starts makes the inner one reject.
AskAccount(r) ==
  /\ reader[r].at = "pick"
  /\ \E a \in reader[r].left :
       LET check  == [reader[r] EXCEPT !.left = @ \ {a}, !.account = a]
           outer  == ProbeStarted(breaker)
           passes == LetsThrough(breaker) /\ LetsThrough(outer)
       IN  /\ reader' = [reader EXCEPT ![r] =
                IF passes THEN [check EXCEPT !.at = "load"] ELSE check]
           /\ IF LetsThrough(breaker) /\ ~passes
              THEN /\ breaker' = OnFailure(outer)
                   /\ samples' = Record(samples, "failed")
              ELSE UNCHANGED <<breaker, samples>>
  /\ UNCHANGED <<streak, network, low, previous, told, unsent>>

\* loadAccount answers: success and failure are counted by both.
LoadSucceeds(r) ==
  /\ reader[r].at = "load" /\ network # "down"
  /\ breaker' = OnSuccess(OnSuccess(breaker))
  /\ samples' = Record(Record(samples, network), network)
  /\ streak' = 0
  /\ LET a == reader[r].account
     IN  reader' = [reader EXCEPT
           ![r].at = "pick", ![r].read = @ \cup {a},
           ![r].lowOnes = IF low[a] THEN @ \cup {a} ELSE @]
  /\ UNCHANGED <<network, low, previous, told, unsent>>

LoadFails(r) ==
  /\ reader[r].at = "load" /\ network = "down"
  /\ breaker' = OnFailure(OnFailure(breaker))
  /\ samples' = Record(Record(samples, "failed"), "failed")
  /\ streak' = IF streak < BreakerThreshold THEN streak + 1 ELSE streak
  /\ reader' = [reader EXCEPT ![r].at = "pick"]
  /\ UNCHANGED <<network, low, previous, told, unsent>>

\* emitLowBalanceAlert and emitBalanceRecoveredAlert: a dispatch that throws is
\* logged, and that is all.
Emit(lowOnes, recovered) ==
  \E failed \in SUBSET (lowOnes \cup recovered) :
    /\ told' = [a \in AllAccounts |->
         IF a \in lowOnes \ failed THEN "low"
         ELSE IF a \in recovered \ failed THEN "recovered" ELSE told[a]]
    /\ unsent' = (unsent \ (lowOnes \cup recovered)) \cup failed

\* Mutation of ProcessBalanceResults: who was low once stays in the set.
ProcessBalanceResultsAll ==
  /\ reader[Cron].at = "pick" /\ reader[Cron].left = {}
  /\ LET current == IF Congested(samples) THEN {} ELSE reader[Cron].lowOnes
     IN  /\ Emit(current \ previous, (previous \ current) \cap reader[Cron].read)
         /\ previous' = previous \cup current
  /\ reader' = [reader EXCEPT ![Cron] = NotReading]
  /\ UNCHANGED <<breaker, samples, streak, network, low>>

\* processBalanceResults: congestion leaves low accounts out of the new set,
\* and those of the old set that were read and are not in the new one are said
\* to have recovered.  The new set is kept whether or not the alerts were sent.
ProcessBalanceResults ==
  /\ reader[Cron].at = "pick" /\ reader[Cron].left = {}
  /\ LET current == IF Congested(samples) THEN {} ELSE reader[Cron].lowOnes
     IN  /\ Emit(current \ previous, (previous \ current) \cap reader[Cron].read)
         /\ previous' = current
  /\ reader' = [reader EXCEPT ![Cron] = NotReading]
  /\ UNCHANGED <<breaker, samples, streak, network, low>>

\* getCurrentBalances only answers.
AnswerBalances(r) ==
  /\ r # Cron /\ reader[r].at = "pick" /\ reader[r].left = {}
  /\ reader' = [reader EXCEPT ![r] = NotReading]
  /\ UNCHANGED <<breaker, samples, streak, network, low, previous, told, unsent>>

-----------------------------------------------------------------------------
Tick ==
  /\ breaker' = [breaker EXCEPT
       !.sinceFailure = IF @ < BaseTimeout THEN @ + 1 ELSE @,
       !.sinceProbe = IF @ < ProbeInterval THEN @ + 1 ELSE @]
  /\ UNCHANGED <<samples, streak, network, low, reader, previous, told, unsent>>

\* cleanOldSamples resets a window twice as old as its size.
WindowEnds ==
  /\ Total(samples) > 0
  /\ samples' = [slow |-> 0, fast |-> 0, failed |-> 0]
  /\ UNCHANGED <<breaker, streak, network, low, reader, previous, told, unsent>>

NetworkChanges ==
  /\ network' \in {"fast", "slow", "down"} \ {network}
  /\ UNCHANGED <<breaker, samples, streak, low, reader, previous, told, unsent>>

BalanceChanges ==
  /\ \E a \in AllAccounts : low' = [low EXCEPT ![a] = ~@]
  /\ UNCHANGED <<breaker, samples, streak, network, reader, previous, told, unsent>>

-----------------------------------------------------------------------------
BalanceInit ==
  /\ breaker = Closed
  /\ samples = [slow |-> 0, fast |-> 0, failed |-> 0]
  /\ streak = 0
  /\ network = "fast"
  /\ low = [a \in AllAccounts |-> FALSE]
  /\ reader = [r \in Readers |-> NotReading]
  /\ previous = {}
  /\ told = [a \in AllAccounts |-> "nothing"]
  /\ unsent = {}

LoadAnswered(r) == LoadSucceeds(r) \/ LoadFails(r)
HandleBalanceCheck == StartCheck(Cron) \/ ProcessBalanceResults
MonitoredBalances(r) == StartCheck(r) \/ AnswerBalances(r)

BalanceNext ==
  \/ Tick \/ WindowEnds \/ NetworkChanges \/ BalanceChanges
  \/ HandleBalanceCheck
  \/ \E r \in Readers : MonitoredBalances(r) \/ AskAccount(r) \/ LoadAnswered(r)

\* Time passes, the task keeps starting and what is asked is answered.
BalanceFairness ==
  /\ WF_balanceVars(Tick) /\ WF_balanceVars(WindowEnds)
  /\ WF_balanceVars(HandleBalanceCheck)
  /\ \A r \in Readers : WF_balanceVars(AskAccount(r) \/ LoadAnswered(r))

BalanceSpec == BalanceInit /\ [][BalanceNext]_balanceVars /\ BalanceFairness

-----------------------------------------------------------------------------
\* The breaker counts a failed load twice, yet it never opens on fewer loads
\* failed in a row than half its threshold, whatever checks overlap and however
\* their answers interleave.
TripsOnRealFailures == breaker.open => 2 * streak >= BreakerThreshold

\* An account that stays low while the network is well is in the end recorded
\* as low and told to be so and nothing else, unless the breaker stays open:
\* alerts withheld or taken back during congestion are made good
\* (processBalanceResults).  Only an alert whose one dispatch failed is not: the
\* account is recorded all the same, and never alerted about again.
AlertsSettle ==
  (<>[](network = "fast" /\ low[Issuer]) /\ []<>(~breaker.open)) =>
    <>[](Issuer \in previous /\ (told[Issuer] = "low" \/ Issuer \in unsent))

\* "Uses the circuit breaker to handle RPC downtime gracefully": a network that
\* is back for good gets the circuit closed again.
BreakerRecovers == <>[](network # "down") => []<>(~breaker.open)

\* "Check for accounts that recovered from low balance": who is told to have
\* recovered was not read low in that check.
RecoveredIsRecovered ==
  [][\A a \in AllAccounts :
       told[a] # "recovered" /\ told'[a] = "recovered" =>
         a \notin reader[Cron].lowOnes]_balanceVars
=============================================================================
