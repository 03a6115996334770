---------------------------- MODULE PushDelivery ----------------------------
(***************************************************************************)
(* Push notifications (notification/services/push-notification.service.ts,  *)
(* bullmq/push-notification.processor.ts): a job sends to the devices of a  *)
(* user one after the other, deactivates those whose token is refused, and  *)
(* is tried again if it has reached none.  Devices are registered with      *)
(* their user, and with another one, while the jobs run.                    *)
(***************************************************************************)
EXTENDS Naturals

CONSTANTS
  Devices, PushUsers, PushJobs,
  PushAttempts,  \* the attempts of a job
  MaxPushFaults  \* failures of Firebase, of the database, crashes of a worker

ASSUME PushAssumption == PushAttempts \in Nat \ {0} /\ MaxPushFaults \in Nat

VARIABLES
  devices,    \* device_tokens: whose a token is, and whether it is active
  leaving,    \* unregisterToken, between finding the token and updating it
  pushes,     \* the jobs of the push queue
  delivered,  \* how often each job's message has reached each device
  doubtful,   \* jobs of which a worker has died or an answer was lost
  pushFaults

pushVars == <<devices, leaving, pushes, delivered, doubtful, pushFaults>>

Nobody == "nobody"
Nothing == "nothing"
\* todo: the devices the attempt is still to send to; now: the one it sends to;
\* answer: what Firebase said; ok, bad: a result was a success, a failure.
NotQueued == [at |-> "none", user |-> Nobody, tries |-> 0, todo |-> {},
              now |-> Nothing, answer |-> Nothing, ok |-> FALSE, bad |-> FALSE]
Push == [at : {"none", "waiting", "sending", "marking", "done", "dead"},
         user : PushUsers \cup {Nobody}, tries : 0 .. PushAttempts,
         todo : SUBSET Devices, now : Devices \cup {Nothing},
         answer : {Nothing, "sent", "failed", "invalid"},
         ok : BOOLEAN, bad : BOOLEAN]

DeviceToken == [owner : PushUsers \cup {Nobody}, active : BOOLEAN]

PushTypeOK ==
  /\ devices \in [Devices -> DeviceToken]
  /\ leaving \in [PushUsers -> Devices \cup {Nothing}]
  /\ pushes \in [PushJobs -> Push]
  /\ delivered \in [PushJobs -> [Devices -> 0 .. 2]]
  /\ doubtful \subseteq PushJobs /\ pushFaults \in 0 .. MaxPushFaults

-----------------------------------------------------------------------------
\* registerToken: a token is its last user's, and active.
RegisterToken(u, d) ==
  /\ devices[d] # [owner |-> u, active |-> TRUE]
  /\ devices' = [devices EXCEPT ![d] = [owner |-> u, active |-> TRUE]]
  /\ UNCHANGED <<leaving, pushes, delivered, doubtful, pushFaults>>

\* unregisterToken: the token is found with its user, and deactivated by its id.
FindToken(u, d) ==
  /\ leaving[u] = Nothing /\ devices[d].owner = u
  /\ leaving' = [leaving EXCEPT ![u] = d]
  /\ UNCHANGED <<devices, pushes, delivered, doubtful, pushFaults>>

Deactivated(d) == [devices EXCEPT ![d].active = FALSE]

UnregisterToken(u) ==
  /\ leaving[u] # Nothing
  /\ devices' = Deactivated(leaving[u])
  /\ leaving' = [leaving EXCEPT ![u] = Nothing]
  /\ UNCHANGED <<pushes, delivered, doubtful, pushFaults>>

-----------------------------------------------------------------------------
Put(j, p) == pushes' = [pushes EXCEPT ![j] = p]
PushFault == pushFaults > 0 /\ pushFaults' = pushFaults - 1

\* addSendPushNotification.
QueuePush(j, u) ==
  /\ pushes[j].at = "none"
  /\ Put(j, [NotQueued EXCEPT !.at = "waiting", !.user = u])
  /\ UNCHANGED <<devices, leaving, delivered, doubtful, pushFaults>>

\* sendPush reads the active devices of the user once, ...
ActiveDevices(u) == {d \in Devices : devices[d] = [owner |-> u, active |-> TRUE]}

StartPush(j) ==
  /\ pushes[j].at = "waiting"
  /\ Put(j, [pushes[j] EXCEPT !.at = "sending",
               !.todo = ActiveDevices(pushes[j].user), !.ok = FALSE,
               !.bad = FALSE])
  /\ UNCHANGED <<devices, leaving, delivered, doubtful, pushFaults>>

\* ... sends to each in turn, whoever's it has become; ...
SendToToken(j, d) ==
  /\ pushes[j].at = "sending" /\ d \in pushes[j].todo
  /\ \E answer \in {"sent", "failed", "invalid"}, arrives \in BOOLEAN :
       /\ answer = "sent" => arrives
       /\ answer = "invalid" => ~arrives
       /\ IF answer = "sent" THEN UNCHANGED pushFaults ELSE PushFault
       /\ Put(j, [pushes[j] EXCEPT !.at = "marking", !.now = d,
                    !.todo = @ \ {d}, !.answer = answer])
       /\ delivered' = IF arrives /\ delivered[j][d] < 2
                       THEN [delivered EXCEPT ![j][d] = @ + 1] ELSE delivered
       /\ doubtful' = IF answer = "failed" /\ arrives THEN doubtful \cup {j}
                                                      ELSE doubtful
  /\ UNCHANGED <<devices, leaving>>

\* ... and notes the use of the device or deactivates it.  If that fails, the
\* device counts as a failure as well.
MarkDevice(j) ==
  LET p == pushes[j]
      ok == p.ok \/ p.answer = "sent"
      bad == p.bad \/ p.answer # "sent"
      On(failed) == [p EXCEPT !.at = "sending", !.now = Nothing,
                       !.answer = Nothing, !.ok = ok, !.bad = bad \/ failed]
  IN  /\ p.at = "marking"
      /\ \/ /\ Put(j, On(FALSE))
            /\ devices' = IF p.answer = "invalid" THEN Deactivated(p.now)
                                                  ELSE devices
            /\ UNCHANGED pushFaults
         \/ /\ PushFault /\ p.answer # "failed"
            /\ Put(j, On(TRUE)) /\ UNCHANGED devices
      /\ UNCHANGED <<leaving, delivered, doubtful>>

\* handleSendPush: the job is tried again if it has failed everywhere, ...
NeedsRetry(p) == p.bad /\ ~p.ok

\* ... and becomes a dead letter when its attempts are used up.
FinishPush(j) ==
  LET p == pushes[j] IN
  /\ p.at = "sending" /\ p.todo = {}
  /\ Put(j, IF ~NeedsRetry(p) THEN [p EXCEPT !.at = "done"]
            ELSE [p EXCEPT !.tries = @ + 1,
                    !.at = IF p.tries + 1 < PushAttempts THEN "waiting"
                                                         ELSE "dead"])
  /\ UNCHANGED <<devices, leaving, delivered, doubtful, pushFaults>>

\* A worker dies; its job stalls and is given to another from the start.
PushWorkerDies(j) ==
  /\ pushes[j].at \in {"sending", "marking"} /\ PushFault
  /\ Put(j, [NotQueued EXCEPT !.at = "waiting", !.user = pushes[j].user,
               !.tries = pushes[j].tries])
  /\ doubtful' = doubtful \cup {j}
  /\ UNCHANGED <<devices, leaving, delivered>>

PushInit ==
  /\ devices = [d \in Devices |-> [owner |-> Nobody, active |-> FALSE]]
  /\ leaving = [u \in PushUsers |-> Nothing]
  /\ pushes = [j \in PushJobs |-> NotQueued]
  /\ delivered = [j \in PushJobs |-> [d \in Devices |-> 0]]
  /\ doubtful = {} /\ pushFaults = MaxPushFaults

\* The endpoints of device tokens; the one that lists them changes nothing.
DeviceTokenRequest(u) ==
  \/ \E d \in Devices : RegisterToken(u, d) \/ FindToken(u, d)
  \/ UnregisterToken(u)

PushNext ==
  \/ \E u \in PushUsers : DeviceTokenRequest(u)
  \/ \E j \in PushJobs :
       \/ StartPush(j) \/ MarkDevice(j) \/ FinishPush(j) \/ PushWorkerDies(j)
       \/ \E u \in PushUsers : QueuePush(j, u)
       \/ \E d \in Devices : SendToToken(j, d)

PushSpec == PushInit /\ [][PushNext]_pushVars

-----------------------------------------------------------------------------
\* Retries reach nobody twice: however devices come and go, fail and are
\* deactivated, a message reaches a device more than once only if a worker has
\* died or Firebase's answer was lost (push-notification.processor.ts:78,
\* push-notification.service.ts:92).
NobodyIsPushedTwice ==
  \A j \in PushJobs, d \in Devices : delivered[j][d] > 1 => j \in doubtful
=============================================================================
