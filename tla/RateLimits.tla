------------------------------ MODULE RateLimits ------------------------------
(***************************************************************************)
(* Rate limiting (src/throttler): every request is counted in Redis, in a   *)
(* bucket of its caller for each throttler and in one of its API key, and   *)
(* refused when one of them is over its limit; a full bucket stays closed   *)
(* for a while, and an address that is refused too often is blocked.        *)
(***************************************************************************)
EXTENDS Integers, Sequences, FiniteSets

CONSTANTS
  Visits,            \* requests under way at once
  Callers,           \* addresses, each with its own tracker
  WithApiKey,        \* those that send an X-Api-Key, all the same one
  DefaultLimit,      \* THROTTLE_LIMIT
  ApiKeyLimit,       \* API_KEY_THROTTLE_LIMIT
  ShortLimit,        \* THROTTLE_SHORT_LIMIT
  WindowTicks,       \* ttl of the default throttler and of the API key's; the
                     \* short one's is one tick; blockDuration is the ttl too
  Sliding,           \* THROTTLE_ALGORITHM is sliding_window, not fixed_window
  ViolationLimit,    \* violations before an address is blocked
  IpBlockTicks       \* how long violations count and an address is blocked

ASSUME RateAssumption ==
  /\ IsFiniteSet(Visits) /\ IsFiniteSet(Callers)
  /\ WithApiKey \subseteq Callers
  /\ {DefaultLimit, ApiKeyLimit, ShortLimit, WindowTicks, ViolationLimit,
      IpBlockTicks} \subseteq Nat \ {0}
  /\ Sliding \in BOOLEAN

VARIABLES
  hits,         \* throttle:sw:* or throttle:fw:*: the hits of each bucket
  closed,       \* throttle:block:*: ticks a bucket stays closed
  violations,   \* violations:<ip>: how many, and for how long they count
  ipBlock,      \* blocked_ip:<ip>: ticks left
  visit         \* where each request is

rateVars == <<hits, closed, violations, ipBlock, visit>>
bucketVars == <<hits, closed>>
addressVars == <<violations, ipBlock>>

-----------------------------------------------------------------------------
\* The buckets: two throttlers restrict, `default` and `short`, the others are
\* ceilings out of reach; the API key has a bucket beside the former's.
Throttlers == {"default", "apikey", "short"}
EveryCaller == "every caller"
BucketOf(caller, throttler) ==
  <<IF throttler = "apikey" THEN EveryCaller ELSE caller, throttler>>
Buckets == {BucketOf(c, t) : c \in Callers, t \in Throttlers}
LimitOf(throttler) == CASE throttler = "default" -> DefaultLimit
                        [] throttler = "apikey" -> ApiKeyLimit
                        [] throttler = "short" -> ShortLimit
TicksOf(throttler) == IF throttler = "short" THEN 1 ELSE WindowTicks
MaxHits == DefaultLimit + ApiKeyLimit + ShortLimit + Cardinality(Visits)

Hit == [left : 1 .. WindowTicks, through : BOOLEAN]
Gone == [at |-> "none"]
Visiting == [at : {"closed", "count", "close", "violation", "block"},
             caller : Callers, throttler : Throttlers, over : BOOLEAN]

RateTypeOK ==
  /\ hits \in [Buckets -> Seq(Hit)] /\ \A b \in Buckets : Len(hits[b]) <= MaxHits
  /\ closed \in [Buckets -> 0 .. WindowTicks]
  /\ violations \in [Callers -> [count : Nat, left : 0 .. IpBlockTicks]]
  /\ ipBlock \in [Callers -> 0 .. IpBlockTicks]
  /\ visit \in [Visits -> Visiting \cup {Gone}]

Bucket(v) == BucketOf(visit[v].caller, visit[v].throttler)
IsIpBlocked(c) == ipBlock[c] > 0
Goes(v, to) == visit' = [visit EXCEPT ![v] = to]

-----------------------------------------------------------------------------
\* canActivate: a blocked address is refused; one that is not, and that the
\* route does not let past as a trusted one, is counted.
Visit(v) ==
  /\ visit[v] = Gone
  /\ \E c \in Callers :
       /\ ~IsIpBlocked(c)
       /\ Goes(v, [at |-> "closed", caller |-> c, throttler |-> "default",
                   over |-> FALSE])
  /\ UNCHANGED <<bucketVars, addressVars>>

\* handleRequest goes on to the API key's bucket, whether the caller's was
\* over or not, and canActivate to the next throttler unless one was over.
AfterBucket(v, over) ==
  LET now == [visit[v] EXCEPT !.over = visit[v].over \/ over, !.at = "closed"]
  IN  CASE now.throttler = "default" /\ now.caller \in WithApiKey ->
             [now EXCEPT !.throttler = "apikey"]
        [] now.over -> [now EXCEPT !.at = "violation"]
        [] now.throttler \in {"default", "apikey"} ->
             [now EXCEPT !.throttler = "short"]
        [] OTHER -> Gone

\* increment: a closed bucket refuses without counting, ...
CheckClosed(v) ==
  /\ visit[v].at = "closed"
  /\ Goes(v, IF closed[Bucket(v)] > 0 THEN AfterBucket(v, TRUE)
             ELSE [visit[v] EXCEPT !.at = "count"])
  /\ UNCHANGED <<bucketVars, addressVars>>

\* Mutation of NewHit: the hits are counted before the new one is added.
NewHitBefore(throttler, old) ==
  [left |-> TicksOf(throttler), through |-> Len(old) <= LimitOf(throttler)]

\* ... any other one counts the hit, a sliding window from now, a fixed one
\* until the window ends that is open, ...
NewHit(throttler, old) ==
  [left |-> IF Sliding \/ old = <<>> THEN TicksOf(throttler) ELSE old[1].left,
   through |-> Len(old) + 1 <= LimitOf(throttler)]

CountHit(v) ==
  LET b == Bucket(v)
      hit == NewHit(visit[v].throttler, hits[b])
  IN  /\ visit[v].at = "count" /\ Len(hits[b]) < MaxHits
      /\ hits' = [hits EXCEPT ![b] = Append(@, hit)]
      /\ Goes(v, IF hit.through THEN AfterBucket(v, FALSE)
                 ELSE [visit[v] EXCEPT !.at = "close"])
      /\ UNCHANGED <<closed, addressVars>>

\* ... and one over the limit closes the bucket, unless it is closed already.
CloseBucket(v) ==
  LET b == Bucket(v)
  IN  /\ visit[v].at = "close"
      /\ closed' = [closed EXCEPT ![b] =
                      IF @ > 0 THEN @ ELSE TicksOf(visit[v].throttler)]
      /\ Goes(v, AfterBucket(v, TRUE))
      /\ UNCHANGED <<hits, addressVars>>

\* A request that is refused is a violation of its address, ...
IncrementViolations(v) ==
  LET c == visit[v].caller
      count == IF violations[c].count < ViolationLimit
               THEN violations[c].count + 1 ELSE ViolationLimit
  IN  /\ visit[v].at = "violation"
      /\ violations' = [violations EXCEPT ![c] =
           [count |-> count, left |-> IF @.count = 0 THEN IpBlockTicks
                                      ELSE @.left]]
      /\ Goes(v, IF count >= ViolationLimit
                 THEN [visit[v] EXCEPT !.at = "block"] ELSE Gone)
      /\ UNCHANGED <<bucketVars, ipBlock>>

\* ... and blocks it when there are too many.
BlockIp(v) ==
  /\ visit[v].at = "block"
  /\ ipBlock' = [ipBlock EXCEPT ![visit[v].caller] = IpBlockTicks]
  /\ Goes(v, Gone)
  /\ UNCHANGED <<bucketVars, violations>>

\* Redis does not answer, or the instance dies: the request is refused with
\* 503, and what it has counted stays.
RateRedisFails(v) ==
  /\ visit[v] # Gone
  /\ Goes(v, Gone)
  /\ UNCHANGED <<bucketVars, addressVars>>

-----------------------------------------------------------------------------
\* rate-limit-admin.controller.ts: an administrator blocks and unblocks an
\* address, which leaves its violations.
AdminBlocks ==
  /\ \E c \in Callers, ticks \in {0, IpBlockTicks} :
       ipBlock' = [ipBlock EXCEPT ![c] = ticks]
  /\ UNCHANGED <<bucketVars, violations, visit>>

Sooner(n) == IF n > 0 THEN n - 1 ELSE 0

\* zremrangebyscore, or the key expires: the oldest hits go, ...
Expired(b) ==
  CHOOSE k \in 0 .. Len(hits[b]) :
    \A i \in DOMAIN hits[b] : hits[b][i].left <= 1 <=> i <= k
AgedHit(hit) == [hit EXCEPT !.left = @ - 1]
Remaining(b) ==
  [i \in 1 .. Len(hits[b]) - Expired(b) |-> AgedHit(hits[b][i + Expired(b)])]

\* ... Redis expires its other keys, and the window slides on.
RateTick ==
  /\ hits' = [b \in Buckets |-> Remaining(b)]
  /\ closed' = [b \in Buckets |-> Sooner(closed[b])]
  /\ violations' = [c \in Callers |->
       IF violations[c].left <= 1 THEN [count |-> 0, left |-> 0]
       ELSE [violations[c] EXCEPT !.left = @ - 1]]
  /\ ipBlock' = [c \in Callers |-> Sooner(ipBlock[c])]
  /\ UNCHANGED visit

RateInit ==
  /\ hits = [b \in Buckets |-> <<>>] /\ closed = [b \in Buckets |-> 0]
  /\ violations = [c \in Callers |-> [count |-> 0, left |-> 0]]
  /\ ipBlock = [c \in Callers |-> 0]
  /\ visit = [v \in Visits |-> Gone]

RateNext ==
  \/ \E v \in Visits :
       \/ Visit(v) \/ CheckClosed(v) \/ CountHit(v) \/ CloseBucket(v)
       \/ IncrementViolations(v) \/ BlockIp(v) \/ RateRedisFails(v)
  \/ AdminBlocks \/ RateTick

RateSpec == RateInit /\ [][RateNext]_rateVars

-----------------------------------------------------------------------------
\* The limit holds over every window, whatever requests are counted at once:
\* of the hits a bucket still counts, no more than its limit were let through
\* (redis-throttler-storage.service.ts:28, :158).
LimitHolds ==
  \A c \in Callers, t \in Throttlers :
    LET bucket == hits[BucketOf(c, t)] IN
    Cardinality({i \in DOMAIN bucket : bucket[i].through}) <= LimitOf(t)

\* Waiting pays off: who waits until a closed bucket opens again finds it empty
\* but for the hits of requests that were under way when it closed
\* (redis-throttler-storage.service.ts:92, :115), so asking too early costs
\* nothing but the violations.
WaitPaysOff ==
  [][\A b \in Buckets : closed[b] > 0 /\ closed'[b] = 0 =>
       Len(hits'[b]) < Cardinality(Visits)]_rateVars
=============================================================================
