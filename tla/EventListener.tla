---------------------------- MODULE EventListener ----------------------------
(***************************************************************************)
(* EventListenerService: a poll reads the ledger checkpoint from Redis,    *)
(* fetches a page of the contract's transactions after it, and handles     *)
(* them one by one, each with a write of its effect, a processed mark and  *)
(* a new checkpoint.  Transactions are numbered in the order of the chain; *)
(* a ledger shows all of its transactions at once.  A poller is a run of   *)
(* pollNow: pollTick starts one every 15 seconds, whether or not the last  *)
(* one has ended, in every instance of the service.                        *)
(***************************************************************************)
EXTENDS Integers, FiniteSetsExt

CONSTANTS
  NumTxs,      \* how many transactions the contract has
  Layouts,     \* ways they may be spread over ledgers
  Successful,  \* the transactions that are successful
  Pollers,     \* runs of pollNow that can overlap
  PageSize,    \* limit of a fetch, 200 in the code
  MaxCrashes,  \* bound: crashes of a poller
  MaxErrors    \* bound: handlers that throw

Txs == 1 .. NumTxs

ASSUME LedgersAssumption ==
  /\ NumTxs \in Nat
  /\ \A layout \in Layouts :
       /\ layout \in [Txs -> Nat \ {0}]
       /\ \A s, t \in Txs : s <= t => layout[s] <= layout[t]
ASSUME BoundsAssumption ==
  Successful \subseteq Txs /\ PageSize \in Nat \ {0} /\ MaxCrashes \in Nat /\ MaxErrors \in Nat

VARIABLES
  ledgerOf,    \* the ledger of each transaction
  ledger,      \* the last closed ledger
  checkpoint,  \* event-listener:last-processed-ledger
  processed,   \* transactions with a processed-tx key
  applied,     \* how often the effects of each have been written
  poller,      \* where each poller stands,
  last,        \* the checkpoint it has read,
  next,        \* the next transaction of its page, and
  end,         \* the last one
  overlapped,  \* two polls have run at a time
  crashes,
  errors

pageVars == <<next, end>>
pollVars == <<poller, last, pageVars>>
chainVars == <<ledgerOf, ledger>>
storeVars == <<checkpoint, processed>>
listenerVars == <<ledgerOf, ledger, checkpoint, processed, applied, pollVars, overlapped, crashes, errors>>

-----------------------------------------------------------------------------
Ledgers == {ledgerOf[t] : t \in Txs}
PollSteps == {"idle", "fetch", "next", "check", "handle", "mark", "advance"}

\* The transactions a poller has yet to go through.
Page(p) == next[p] .. end[p]

ListenerTypeOK ==
  /\ ledgerOf \in Layouts
  /\ ledger \in Ledgers \cup {0}
  /\ checkpoint \in Ledgers \cup {0}
  /\ processed \in SUBSET Txs
  /\ applied \in [Txs -> Nat]
  /\ poller \in [Pollers -> PollSteps]
  /\ last \in [Pollers -> Ledgers \cup {0}]
  /\ next \in [Pollers -> 1 .. NumTxs + 1] /\ end \in [Pollers -> 0 .. NumTxs]
  /\ \A p \in Pollers : end[p] < next[p] + PageSize
  /\ overlapped \in BOOLEAN
  /\ crashes \in 0 .. MaxCrashes
  /\ errors \in 0 .. MaxErrors

ListenerInit ==
  /\ ledgerOf \in Layouts
  /\ ledger = 0
  /\ checkpoint = 0
  /\ processed = {}
  /\ applied = [t \in Txs |-> 0]
  /\ poller = [p \in Pollers |-> "idle"]
  /\ last = [p \in Pollers |-> 0]
  /\ next = [p \in Pollers |-> 1] /\ end = [p \in Pollers |-> 0]
  /\ overlapped = FALSE
  /\ crashes = 0
  /\ errors = 0

-----------------------------------------------------------------------------
PollGoes(p, from, to) == poller[p] = from /\ poller' = [poller EXCEPT ![p] = to]

\* The transactions up to a ledger.
UpTo(l) == {t \in Txs : ledgerOf[t] <= l}

\* Horizon shows the transactions after the checkpoint, m + 1 .. n in order.
Shows(p, m, n) == UpTo(last[p]) = 1 .. m /\ UpTo(ledger) = 1 .. n

SetPage(p, first, final) ==
  next' = [next EXCEPT ![p] = first] /\ end' = [end EXCEPT ![p] = final]

ReadCheckpoint(p) ==
  /\ PollGoes(p, "idle", "fetch")
  /\ last' = [last EXCEPT ![p] = checkpoint]
  /\ overlapped' = (overlapped \/ \E q \in Pollers \ {p} : poller[q] # "idle")
  /\ UNCHANGED <<chainVars, storeVars, applied, pageVars, crashes, errors>>

\* Mutation of Fetch: no limit.
FetchAll(p) ==
  /\ PollGoes(p, "fetch", "next")
  /\ \E m, n \in 0 .. NumTxs : Shows(p, m, n) /\ SetPage(p, m + 1, n)
  /\ UNCHANGED <<chainVars, storeVars, applied, last, crashes, errors, overlapped>>

\* Mutation of Fetch: a page of the newest transactions, in ascending order.
FetchNewest(p) ==
  /\ PollGoes(p, "fetch", "next")
  /\ \E m, n \in 0 .. NumTxs :
       Shows(p, m, n) /\ SetPage(p, IF n > m + PageSize THEN n + 1 - PageSize ELSE m + 1, n)
  /\ UNCHANGED <<chainVars, storeVars, applied, last, crashes, errors, overlapped>>

\* fetchTransactionsSince: one page, in ascending order.
Fetch(p) ==
  /\ PollGoes(p, "fetch", "next")
  /\ \E m, n \in 0 .. NumTxs : Shows(p, m, n) /\ SetPage(p, m + 1, Min({n, m + PageSize}))
  /\ UNCHANGED <<chainVars, storeVars, applied, last, crashes, errors, overlapped>>

\* Horizon answers with an error, and the poll ends.
FetchFails(p) ==
  /\ PollGoes(p, "fetch", "idle")
  /\ UNCHANGED <<chainVars, storeVars, applied, last, pageVars, crashes, errors, overlapped>>

\* The loop goes on to the next transaction of the page, or ends.
NextTx(p) ==
  /\ \/ /\ next[p] <= end[p]
        /\ PollGoes(p, "next", "check") /\ UNCHANGED pageVars
     \/ /\ next[p] > end[p]
        /\ PollGoes(p, "next", "idle") /\ SetPage(p, 1, 0)
  /\ UNCHANGED <<chainVars, storeVars, applied, last, crashes, errors, overlapped>>

\* A processed transaction only moves the checkpoint; one that failed on
\* chain is marked without being handled.
CheckProcessed(p) ==
  /\ PollGoes(p, "check", IF next[p] \in processed THEN "advance"
                      ELSE IF next[p] \in Successful THEN "handle" ELSE "mark")
  /\ UNCHANGED <<chainVars, storeVars, applied, last, pageVars, crashes, errors, overlapped>>

\* The first write of the effects of the transaction's event.
Handle(p) ==
  /\ PollGoes(p, "handle", "mark")
  /\ applied' = [applied EXCEPT ![next[p]] = @ + 1]
  /\ UNCHANGED <<chainVars, storeVars, last, pageVars, crashes, errors, overlapped>>

\* Parsing or the database throws, before or after the first write: the
\* error is logged, and the finally block still marks the transaction.
HandleFails(p) ==
  /\ errors < MaxErrors /\ errors' = errors + 1
  /\ PollGoes(p, "handle", "mark")
  /\ applied' \in {applied, [applied EXCEPT ![next[p]] = @ + 1]}
  /\ UNCHANGED <<chainVars, storeVars, last, pageVars, crashes, overlapped>>

MarkProcessed(p) ==
  /\ PollGoes(p, "mark", "advance")
  /\ processed' = processed \cup {next[p]}
  /\ UNCHANGED <<chainVars, checkpoint, applied, last, pageVars, crashes, errors, overlapped>>

\* Mutation of Advance: the checkpoint moves to the end of the page.
AdvanceToEnd(p) ==
  /\ PollGoes(p, "advance", "next")
  /\ checkpoint' = ledgerOf[end[p]]
  /\ SetPage(p, next[p] + 1, end[p])
  /\ UNCHANGED <<chainVars, processed, applied, last, crashes, errors, overlapped>>

\* A plain SET, forwards or backwards.
Advance(p) ==
  /\ PollGoes(p, "advance", "next")
  /\ checkpoint' = ledgerOf[next[p]]
  /\ SetPage(p, next[p] + 1, end[p])
  /\ UNCHANGED <<chainVars, processed, applied, last, crashes, errors, overlapped>>

\* The process dies; the next poll begins from the checkpoint.
PollerCrashes(p) ==
  /\ crashes < MaxCrashes /\ crashes' = crashes + 1
  /\ poller[p] # "idle"
  /\ poller' = [poller EXCEPT ![p] = "idle"]
  /\ SetPage(p, 1, 0)
  /\ UNCHANGED <<chainVars, storeVars, applied, last, errors, overlapped>>

\* The network closes the next ledger that has transactions of the contract.
Close ==
  /\ \E t \in Txs :
       /\ ledgerOf[t] > ledger /\ ledger' = ledgerOf[t]
       /\ \A s \in Txs : ledgerOf[s] > ledger => ledgerOf[s] >= ledgerOf[t]
  /\ UNCHANGED <<ledgerOf, storeVars, applied, pollVars, crashes, errors, overlapped>>

-----------------------------------------------------------------------------
ContinuePoll(p) ==
  \/ Fetch(p) \/ FetchFails(p) \/ NextTx(p) \/ CheckProcessed(p) \/ Handle(p)
  \/ HandleFails(p) \/ MarkProcessed(p) \/ Advance(p)

ListenerNext ==
  \/ Close
  \/ \E p \in Pollers : ReadCheckpoint(p) \/ ContinuePoll(p) \/ PollerCrashes(p)

\* The interval fires for ever, polls go on, and Horizon does not answer with
\* an error for ever.  A chain need not close another ledger.
ListenerFairness ==
  \A p \in Pollers : WF_listenerVars(ReadCheckpoint(p)) /\ WF_listenerVars(ContinuePoll(p)) /\ SF_listenerVars(Fetch(p))

ListenerSpec == ListenerInit /\ [][ListenerNext]_listenerVars /\ ListenerFairness

-----------------------------------------------------------------------------
\* The effects that have been written again.
Repeats == UNION {{t} \X (2 .. applied[t]) : t \in Txs}

(* As long as polls do not overlap, the effects of a transaction are written
   once, so the round is incremented once for a RoundCompleted: the mark and
   the checkpoint follow the effects, and the next poll begins behind them.
   A crash repeats the transaction at hand, and that one only (pollNow and
   its finally block). *)
HandledOnce == ~overlapped => Cardinality(Repeats) <= crashes

(* As long as polls do not overlap, transactions are handled in the order of
   the chain, after a crash too, so a contribution to the new round never
   precedes the RoundCompleted event that resets the flags. *)
HandledInOrder ==
  [][\A s, t \in Txs : s < t /\ applied[t] > 0 /\ ~overlapped => applied'[s] = applied[s]]_listenerVars

\* The checkpoint names a ledger: when a poll dies within one that holds
\* several transactions, or a page ends there, those behind are lost.
Alone == \A s, t \in Txs : s # t => ledgerOf[s] # ledgerOf[t]
EndsLedger(t) == t \in 1 .. NumTxs - 1 => ledgerOf[t] # ledgerOf[t + 1]
PagesEndLedgers == \A t \in 0 .. NumTxs : EndsLedger(t) => EndsLedger(t + PageSize)
NothingCutShort == Alone \/ (crashes = 0 /\ PagesEndLedgers)

(* What the checkpoint lets the next poll skip has been processed, or is in
   the hands of a poll, overlapping or not; after a crash too, when no ledger
   holds two of the contract's transactions (setLastProcessedLedger). *)
CheckpointIsSafe ==
  NothingCutShort => \A t \in Txs : ledgerOf[t] <= checkpoint =>
    t \in processed \/ \E p \in Pollers : t \in Page(p)

(* A transaction the chain shows is processed in the end, across failed
   fetches, overlapping polls and, on the same condition, crashes. *)
EveryTxProcessed ==
  \A t \in Txs : ledgerOf[t] <= ledger ~> t \in processed \/ ~NothingCutShort

(* As long as polls do not overlap, the checkpoint never leads back to
   ledgers already gone through. *)
CheckpointAdvances == [][~overlapped => checkpoint' >= checkpoint]_listenerVars
=============================================================================
