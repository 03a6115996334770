--------------------------- MODULE WebhookDelivery ---------------------------
(***************************************************************************)
(* Webhooks (webhook.service.ts, webhook-delivery.processor.ts): an event  *)
(* is queued once for every subscribed webhook, and each job posts it to    *)
(* the endpoint and keeps one row of webhook_deliveries per webhook and     *)
(* event.  A test and a replay run the same deliverWebhook beside the jobs. *)
(***************************************************************************)
EXTENDS Integers, FiniteSets

CONSTANTS
  Hooks,           \* webhooks that may be registered
  HookEvents,      \* event ids: the hash of an event and its data
  PostAttempts,    \* attempts of a job of webhook-delivery-queue (5)
  MaxPosts,        \* bound: deliveries ever started
  MaxHookFaults    \* bound: stops of a dispatcher or a worker

ASSUME HooksAssumption ==
  /\ IsFiniteSet(Hooks) /\ IsFiniteSet(HookEvents)
  /\ {PostAttempts, MaxPosts} \subseteq Nat \ {0} /\ MaxHookFaults \in Nat

VARIABLES
  hook,         \* the subscriptions that exist
  delivery,     \* rows of webhook_deliveries
  post,         \* the jobs, and the tests, that deliver
  dispatching,  \* the dispatchEvent under way
  endpoint,     \* how each endpoint has received each event
  hookFaults

hookVars == <<hook, delivery, post, dispatching, endpoint, hookFaults>>

-----------------------------------------------------------------------------
PostIds == 1 .. MaxPosts
DeliveryKeys == Hooks \X (HookEvents \cup {"TEST"})
DeliveryStatus == {"PENDING", "SUCCESS", "FAILED"}
NoDelivery == "none"
\* 2xx; 3xx or 4xx; 5xx; no answer.
Answers == {"ok", "refused", "error", "unreachable"}
Received == {"ok", "refused"}

NoPost == [state |-> "none"]
PostSteps == {"find", "open", "post", "close", "rethrow"}
Posts == [state : {"waiting", "completed", "failed", "buried"} \cup PostSteps,
          key : DeliveryKeys, isJob : BOOLEAN, made : 0 .. PostAttempts,
          found : BOOLEAN, answer : Answers, stalled : BOOLEAN]
NotDispatching == [event |-> "none", left |-> {}]

HooksTypeOK ==
  /\ hook \subseteq Hooks
  /\ delivery \in [DeliveryKeys -> DeliveryStatus \cup {NoDelivery}]
  /\ \A p \in PostIds : post[p] \in Posts \cup {NoPost}
  /\ dispatching.event \in HookEvents \cup {"none"}
  /\ dispatching.left \subseteq Hooks
  /\ endpoint \in [DeliveryKeys -> SUBSET Received]
  /\ hookFaults \in 0 .. MaxHookFaults

IsNewPost(p) == post[p] = NoPost /\ \A k \in PostIds : k < p => post[k] # NoPost
NewPost(p, key, isJob, state) ==
  /\ IsNewPost(p)
  /\ post' = [post EXCEPT ![p] =
       [state |-> state, key |-> key, isJob |-> isJob, made |-> 0,
        found |-> FALSE, answer |-> "ok", stalled |-> FALSE]]
HookFault == hookFaults < MaxHookFaults /\ hookFaults' = hookFaults + 1

-----------------------------------------------------------------------------
\* The owner, and an administrator.

CreateWebhook(h) ==
  /\ h \notin hook
  /\ h \notin dispatching.left
  /\ \A p \in PostIds : post[p] # NoPost => post[p].key[1] # h
  /\ hook' = hook \cup {h}
  /\ UNCHANGED <<delivery, post, dispatching, endpoint, hookFaults>>

\* DELETE cascades to the deliveries; jobs in the queue keep their url.
DeleteWebhook(h) ==
  /\ h \in hook
  /\ hook' = hook \ {h}
  /\ delivery' = [k \in DeliveryKeys |->
                    IF k[1] = h THEN NoDelivery ELSE delivery[k]]
  /\ UNCHANGED <<post, dispatching, endpoint, hookFaults>>

\* A test is a delivery within the request, under the id of its content.
TestWebhook(p, h) ==
  /\ h \in hook
  /\ NewPost(p, <<h, "TEST">>, FALSE, "find")
  /\ UNCHANGED <<hook, delivery, dispatching, endpoint, hookFaults>>

ReplayDelivery(p, key) ==
  /\ delivery[key] # NoDelivery
  /\ NewPost(p, key, TRUE, "waiting")
  /\ UNCHANGED <<hook, delivery, dispatching, endpoint, hookFaults>>

-----------------------------------------------------------------------------
\* dispatchEvent: one read of the webhooks, then one add after another.

DispatchEvent(e) ==
  /\ dispatching = NotDispatching
  /\ \A p \in PostIds : post[p] # NoPost => post[p].key[2] # e
  /\ \E relevant \in SUBSET hook \ {{}} :
       dispatching' = [event |-> e, left |-> relevant]
  /\ UNCHANGED <<hook, delivery, post, endpoint, hookFaults>>

AddDelivery(p, h) ==
  /\ h \in dispatching.left
  /\ NewPost(p, <<h, dispatching.event>>, TRUE, "waiting")
  /\ LET left == dispatching.left \ {h}
     IN  dispatching' = IF left = {} THEN NotDispatching
                        ELSE [dispatching EXCEPT !.left = left]
  /\ UNCHANGED <<hook, delivery, endpoint, hookFaults>>

\* The caller logs the error, or stops: the other webhooks hear nothing.
DispatchFails ==
  /\ dispatching # NotDispatching /\ HookFault
  /\ dispatching' = NotDispatching
  /\ UNCHANGED <<hook, delivery, post, endpoint>>

-----------------------------------------------------------------------------
\* deliverWebhook, one action per await.

TakeDelivery(p) ==
  /\ post[p].state = "waiting"
  /\ post' = [post EXCEPT ![p].state = "find"]
  /\ UNCHANGED <<hook, delivery, dispatching, endpoint, hookFaults>>

\* A delivery known to have succeeded is not posted again.
FindDelivery(p) ==
  /\ post[p].state = "find"
  /\ LET row == delivery[post[p].key]
     IN  post' = [post EXCEPT
           ![p].state = IF row = "SUCCESS" THEN "completed" ELSE "open",
           ![p].found = (row # NoDelivery)]
  /\ UNCHANGED <<hook, delivery, dispatching, endpoint, hookFaults>>

\* What an error of deliverWebhook does: a test answers 400, a job is tried
\* again or, as onFailed has it, moved to the dead letters.
Ended(p) ==
  LET made == post[p].made + 1
  IN  IF ~post[p].isJob THEN [post[p] EXCEPT !.state = "failed"]
      ELSE [post[p] EXCEPT !.made = made,
              !.state = IF made < PostAttempts THEN "waiting" ELSE "buried"]

\* save: an INSERT when no row was found or the row is gone by now.
CanSave(key, found) ==
  /\ key[1] \in hook
  /\ found \/ delivery[key] = NoDelivery

OpenDelivery(p) ==
  /\ post[p].state = "open"
  /\ IF CanSave(post[p].key, post[p].found)
     THEN /\ delivery' = [delivery EXCEPT ![post[p].key] = "PENDING"]
          /\ post' = [post EXCEPT ![p].state = "post"]
     ELSE post' = [post EXCEPT ![p] = Ended(p)] /\ UNCHANGED delivery
  /\ UNCHANGED <<hook, dispatching, endpoint, hookFaults>>

PostPayload(p) ==
  /\ post[p].state = "post"
  /\ \E answer \in Answers :
       /\ post' = [post EXCEPT ![p].answer = answer,
            ![p].state = IF answer = "unreachable" THEN "rethrow" ELSE "close"]
       /\ endpoint' = [endpoint EXCEPT
            ![post[p].key] = @ \cup ({answer} \cap Received)]
  /\ UNCHANGED <<hook, delivery, dispatching, hookFaults>>

StatusOf(answer) == IF answer = "ok" THEN "SUCCESS" ELSE "FAILED"

\* The save after the answer; a server error, or this save's own error, goes on
\* to the catch.
CloseDelivery(p) ==
  /\ post[p].state = "close"
  /\ LET key == post[p].key
         saved == CanSave(key, TRUE)
         throws == ~saved \/ post[p].answer = "error"
     IN  /\ delivery' = IF saved
              THEN [delivery EXCEPT ![key] = StatusOf(post[p].answer)]
              ELSE delivery
         /\ post' = [post EXCEPT
              ![p].state = IF throws THEN "rethrow" ELSE "completed"]
  /\ UNCHANGED <<hook, dispatching, endpoint, hookFaults>>

Rethrow(p) ==
  /\ post[p].state = "rethrow"
  /\ delivery' = IF CanSave(post[p].key, TRUE)
                 THEN [delivery EXCEPT ![post[p].key] = "FAILED"]
                 ELSE delivery
  /\ post' = [post EXCEPT ![p] = Ended(p)]
  /\ UNCHANGED <<hook, dispatching, endpoint, hookFaults>>

\* A worker stops: the stalled job is taken again, the second time failed
\* without a dead letter.  A test is lost with its request.
DeliveryStalls(p) ==
  /\ post[p].state \in PostSteps /\ HookFault
  /\ post' = [post EXCEPT ![p].stalled = TRUE,
       ![p].state = IF post[p].isJob /\ ~post[p].stalled
                    THEN "waiting" ELSE "failed"]
  /\ UNCHANGED <<hook, delivery, dispatching, endpoint>>

-----------------------------------------------------------------------------
HooksInit ==
  /\ hook = {}
  /\ delivery = [k \in DeliveryKeys |-> NoDelivery]
  /\ post = [p \in PostIds |-> NoPost]
  /\ dispatching = NotDispatching
  /\ endpoint = [k \in DeliveryKeys |-> {}]
  /\ hookFaults = 0

WebhookRequest ==
  \/ \E h \in Hooks : CreateWebhook(h) \/ DeleteWebhook(h)
  \/ \E p \in PostIds, h \in Hooks : TestWebhook(p, h)
  \/ \E p \in PostIds, k \in DeliveryKeys : ReplayDelivery(p, k)

DeliverWebhook(p) ==
  \/ TakeDelivery(p) \/ FindDelivery(p) \/ OpenDelivery(p) \/ PostPayload(p)
  \/ CloseDelivery(p) \/ Rethrow(p)

HooksNext ==
  \/ WebhookRequest
  \/ \E e \in HookEvents : DispatchEvent(e)
  \/ \E p \in PostIds, h \in Hooks : AddDelivery(p, h)
  \/ DispatchFails
  \/ \E p \in PostIds : DeliverWebhook(p) \/ DeliveryStalls(p)

HooksSpec == HooksInit /\ [][HooksNext]_hookVars

-----------------------------------------------------------------------------
\* deliverWebhook: however tests, replays and retries of one event interleave,
\* its row says SUCCESS only if the endpoint accepted that event, and a
\* delivery that ended well was answered, without a server's error.
SuccessWasAnswered ==
  /\ \A k \in DeliveryKeys : delivery[k] = "SUCCESS" => "ok" \in endpoint[k]
  /\ \A p \in PostIds :
       post[p].state = "completed" => endpoint[post[p].key] # {}
=============================================================================
