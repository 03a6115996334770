---------------------------- MODULE RequestCaching ----------------------------
(***************************************************************************)
(* What every request passes on its way to a handler (app.module.ts:153):   *)
(* the maintenance guard, the cache of GET answers and the time limit; and   *)
(* the idempotency interceptor of the POST routes that record contributions *)
(* and payouts.  One cached route and one idempotency key.                   *)
(***************************************************************************)
EXTENDS Integers, FiniteSets

CONSTANTS
  Writers,           \* POST requests under way, all with the same key
  Readers,           \* GET requests under way, all of the same route
  CacheTicks,        \* @CacheTTL, or 300 s
  TimeoutTicks,      \* REQUEST_TIMEOUT_MS
  AnswerTicks,       \* how long an idempotent answer is kept, 24 h
  MaintenanceTicks,  \* how long maintenance mode lasts, 24 h
  EnvMaintenance,    \* MAINTENANCE_MODE
  MaxEffects         \* bound: executions of the POST handler

ASSUME CachingAssumption ==
  /\ IsFiniteSet(Writers) /\ IsFiniteSet(Readers)
  /\ {CacheTicks, TimeoutTicks, AnswerTicks, MaintenanceTicks, MaxEffects}
       \subseteq Nat \ {0}
  /\ EnvMaintenance \in BOOLEAN

VARIABLES
  cached,       \* cache:<url>: what it says of the data, and its ticks left
  answer,       \* idempotency:<key>: ticks left, 0 if there is none
  maintenance,  \* maintenance:global: ticks left, and whether it lets the
                \* administrator's address pass
  effects,      \* executions of the POST handler that took effect
  writer,       \* where each POST request is
  reader        \* where each GET request is, and what it has read

cachingVars == <<cached, answer, maintenance, effects, writer, reader>>

-----------------------------------------------------------------------------
\* What an answer says of the data: still the truth, or outdated for so many
\* ticks, counted up to one more than the bound below.
Current == -1
StaleBound == CacheTicks + TimeoutTicks
Staleness == Current .. StaleBound + 1
Absent == [says |-> Current, left |-> 0]
Present(says) == [says |-> says, left |-> CacheTicks]

NotReading == [at |-> "none", says |-> Current, age |-> 0]
NotWriting == [at |-> "none", age |-> 0, found |-> FALSE]

CachingTypeOK ==
  /\ cached \in [says : Staleness, left : 0 .. CacheTicks]
  /\ answer \in 0 .. AnswerTicks
  /\ maintenance \in [left : 0 .. MaintenanceTicks, passes : BOOLEAN]
  /\ effects \in 0 .. MaxEffects
  /\ writer \in [Writers -> [at : {"none", "look", "run", "left", "store"},
                             age : 0 .. TimeoutTicks, found : BOOLEAN]]
  /\ reader \in [Readers -> [at : {"none", "read", "fill"},
                             says : Staleness, age : 0 .. TimeoutTicks]]

Writes(w, at) == writer' = [writer EXCEPT ![w].at = at]
Leaves(w) == writer' = [writer EXCEPT ![w] = NotWriting]

-----------------------------------------------------------------------------
\* maintenance-mode.guard.ts: the key of Redis, or the environment's setting
\* when there is none; a Redis that fails is a key that is not there.
Closed(up, admin) ==
  IF up /\ maintenance.left > 0 THEN ~(admin /\ maintenance.passes)
                                ELSE EnvMaintenance

\* The key is set with its time to live, or deleted.
SetGlobalMaintenanceMode(enabled, passes) ==
  maintenance' = IF enabled THEN [left |-> MaintenanceTicks, passes |-> passes]
                            ELSE [left |-> 0, passes |-> FALSE]

\* admin.controller.ts, POST /admin/maintenance: no route is exempt, so this
\* one too is refused to whom maintenance does not let pass.
SetMaintenance ==
  /\ \E up \in BOOLEAN : ~Closed(up, TRUE)
  /\ \E enabled, passes \in BOOLEAN : SetGlobalMaintenanceMode(enabled, passes)
  /\ UNCHANGED <<cached, answer, effects, writer, reader>>

-----------------------------------------------------------------------------
\* A POST request with a key, let in by the guard, ...
ReceivePost(w) ==
  /\ writer[w].at = "none" /\ effects < MaxEffects
  /\ \E up \in BOOLEAN : ~Closed(up, FALSE)
  /\ Writes(w, "look")
  /\ UNCHANGED <<cached, answer, maintenance, effects, reader>>

\* ... looks for an answer.  RedisService.get has parsed the one it finds, and
\* JSON.parse of an object throws: the request goes on as if it had found none.
FindAnswer(w) ==
  /\ writer[w].at = "look"
  /\ \E up \in BOOLEAN :
       writer' = [writer EXCEPT ![w].at = "run", ![w].found = up /\ answer > 0]
  /\ UNCHANGED <<cached, answer, maintenance, effects, reader>>

\* The handler takes effect, which outdates what was read before, or fails,
\* which is not cached; one that has run out of time may still take effect.
Outdate(says) == IF says = Current THEN 0 ELSE says

RunHandler(w) ==
  /\ writer[w].at \in {"run", "left"}
  /\ \/ /\ effects < MaxEffects
        /\ effects' = effects + 1
        /\ cached' = [cached EXCEPT !.says = Outdate(@)]
        /\ reader' = [r \in Readers |->
             IF reader[r].at = "fill"
             THEN [reader[r] EXCEPT !.says = Outdate(@)] ELSE reader[r]]
        /\ IF writer[w].at = "run" THEN Writes(w, "store") ELSE Leaves(w)
     \/ /\ Leaves(w)
        /\ UNCHANGED <<cached, effects, reader>>
  /\ UNCHANGED <<answer, maintenance>>

\* The answer is kept, unless Redis fails.
StoreAnswer(w) ==
  /\ writer[w].at = "store"
  /\ answer' \in {answer, AnswerTicks}
  /\ Leaves(w)
  /\ UNCHANGED <<cached, maintenance, effects, reader>>

-----------------------------------------------------------------------------
\* A GET request is exempt from maintenance; it is answered from the cache, ...
ReceiveGet(r) ==
  /\ reader[r].at = "none"
  /\ \E up \in BOOLEAN :
       reader' = [reader EXCEPT ![r].at =
                    IF up /\ cached.left > 0 THEN "none" ELSE "read"]
  /\ UNCHANGED <<cached, answer, maintenance, effects, writer>>

\* ... or its handler reads the data, ...
ReadData(r) ==
  /\ reader[r].at = "read"
  /\ reader' = [reader EXCEPT ![r].at = "fill", ![r].says = Current]
  /\ UNCHANGED <<cached, answer, maintenance, effects, writer>>

\* ... and the answer is cached, unless Redis fails.
FillResponse(r) ==
  /\ reader[r].at = "fill"
  /\ cached' \in {cached, Present(reader[r].says)}
  /\ reader' = [reader EXCEPT ![r] = NotReading]
  /\ UNCHANGED <<answer, maintenance, effects, writer>>

\* A write invalidates nothing: CacheInvalidator has no caller.

-----------------------------------------------------------------------------
\* timeout.interceptor.ts: a request that takes too long is answered 408; a
\* reader caches nothing, a writer's answer is not kept, but it goes on.
Late(request) ==
  request.age >= TimeoutTicks /\ request.at \in {"look", "run", "read", "fill"}

Timeout ==
  /\ \/ \E w \in Writers :
          /\ Late(writer[w])
          /\ IF writer[w].at = "run" THEN Writes(w, "left") ELSE Leaves(w)
          /\ UNCHANGED reader
     \/ \E r \in Readers :
          /\ Late(reader[r])
          /\ reader' = [reader EXCEPT ![r] = NotReading]
          /\ UNCHANGED writer
  /\ UNCHANGED <<cached, answer, maintenance, effects>>

Older(request) == IF request.at = "none" \/ request.age = TimeoutTicks
                  THEN request ELSE [request EXCEPT !.age = @ + 1]
Staler(says) == IF says \in {Current, StaleBound + 1} THEN says ELSE says + 1
Less(n) == IF n > 0 THEN n - 1 ELSE 0

\* Time passes; Redis expires its keys.  A timer that is due fires first.
CachingTick ==
  /\ \A r \in Readers : ~Late(reader[r])
  /\ \A w \in Writers : ~Late(writer[w])
  /\ cached' = IF cached.left <= 1 THEN Absent
               ELSE [says |-> Staler(cached.says), left |-> cached.left - 1]
  /\ answer' = Less(answer)
  /\ maintenance' = [maintenance EXCEPT !.left = Less(@)]
  /\ writer' = [w \in Writers |-> Older(writer[w])]
  /\ reader' = [r \in Readers |-> [Older(reader[r]) EXCEPT !.says = Staler(@)]]
  /\ UNCHANGED effects

CachingInit ==
  /\ cached = Absent /\ answer = 0 /\ effects = 0
  /\ maintenance = [left |-> 0, passes |-> FALSE]
  /\ writer = [w \in Writers |-> NotWriting]
  /\ reader = [r \in Readers |-> NotReading]

CachingNext ==
  \/ \E w \in Writers :
       ReceivePost(w) \/ FindAnswer(w) \/ RunHandler(w) \/ StoreAnswer(w)
  \/ \E r \in Readers : ReceiveGet(r) \/ ReadData(r) \/ FillResponse(r)
  \/ SetMaintenance \/ Timeout \/ CachingTick

CachingSpec == CachingInit /\ [][CachingNext]_cachingVars

-----------------------------------------------------------------------------
\* Nobody is told what has been wrong for longer than an entry lives and a
\* request may take: an answer read just before a write, cached late and served
\* at the end of its life, is the oldest there is (cache.interceptor.ts:72,
\* timeout.interceptor.ts:34).
StalenessIsBounded == cached.left > 0 => cached.says <= StaleBound

\* "On duplicate request: returns cached response immediately"
\* (idempotency.interceptor.ts:48): a request that has found an answer does not
\* run the handler.
AnswerIsReplayed == \A w \in Writers : writer[w].at = "run" => ~writer[w].found
=============================================================================
