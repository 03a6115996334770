------------------------------- MODULE MCEvents -------------------------------
(***************************************************************************)
(* Instances of EventListener and EventSync for TLC.  The two keep apart   *)
(* the events of the contract that the poll finds and those that arrive as *)
(* jobs; they share no state, so one run takes them one at a time: a       *)
(* behaviour belongs to one subject, and the variables of the other stay   *)
(* as they began.                                                          *)
(***************************************************************************)
EXTENDS EventListener, EventSync

CONSTANTS Subjects, t1

VARIABLE subject

\* Three transactions, each alone in its ledger or two to a ledger, which does
\* not reach over the end of a page.
AloneOrPaired == {<<2, 3, 5>>, <<2, 2, 3>>}

\* Every delivery is of one transfer.
Twice == [d \in Deliveries |-> t1]

EventsInit ==
  /\ subject \in Subjects
  /\ ListenerInit /\ (subject = "listener" \/ ledgerOf = <<2, 3, 5>>)
  /\ SyncInit

ListenerStep ==
  subject = "listener" /\ ListenerNext /\ UNCHANGED <<subject, syncVars>>

SyncStep ==
  subject = "sync" /\ SyncNext /\ UNCHANGED <<subject, listenerVars>>

EventsNext == ListenerStep \/ SyncStep

eventsVars == <<subject, listenerVars, syncVars>>

\* The fairness of each component, for its own behaviours.
EventsFairness ==
  /\ \A p \in Pollers :
       /\ WF_listenerVars(subject = "listener" /\ ReadCheckpoint(p))
       /\ WF_listenerVars(subject = "listener" /\ ContinuePoll(p))
       /\ SF_listenerVars(subject = "listener" /\ Fetch(p))
  /\ \A j \in Jobs : WF_syncVars(subject = "sync" /\ ContinueJob(j))

EventsSpec == EventsInit /\ [][EventsNext]_eventsVars /\ EventsFairness

\* The variables have the types their modules give them.
EventsTypeOK == subject \in Subjects /\ ListenerTypeOK /\ SyncTypeOK

\* A poll passes nothing over and writes nothing twice: CheckpointIsSafe, and
\* HandledOnce while polls do not overlap (pollNow).
PollsAreSafe == CheckpointIsSafe /\ HandledOnce

\* Whatever the chain shows is processed, and whatever the queue delivers is
\* done or dead in the end, in the order of the chain and for good: the polls
\* (pollNow) and the jobs (EventSyncProcessor), each in its behaviours.
EventsSettle ==
  /\ subject = "listener" => EveryTxProcessed
  /\ subject = "sync" => EveryJobSettles
  /\ HandledInOrder /\ CheckpointAdvances /\ RecordedForGood
=============================================================================
