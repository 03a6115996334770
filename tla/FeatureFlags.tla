---------------------------- MODULE FeatureFlags ----------------------------
(***************************************************************************)
(* The feature flags (feature-flags): one key of Redis holds every flag;    *)
(* administrators read it whole, change one flag and write it back, and     *)
(* each instance keeps the flags it has asked for to itself for a while.    *)
(* An environment variable overrides Redis on the instances that have it,   *)
(* which write their flags to Redis when they start.                        *)
(***************************************************************************)
EXTENDS Naturals, FiniteSets

CONSTANTS
  FlagNames, FlagServers,
  Edits,         \* the requests of administrators, one of them at a time each
  FlagUsers,
  Settings,      \* the settings that are tried: [enabled, strategy, audience]
  EnvFlags,      \* the flags of FEATURE_FLAGS ...
  EnvSetting,    \* ... and how they are set there
  FlagCacheLife, \* CACHE_TTL_SECONDS, in ticks
  MaxEdits, MaxFlagFaults

Strategies == {"disabled", "all", "percentage", "users", "roles"}
Setting == [enabled : BOOLEAN, strategy : Strategies,
            audience : SUBSET FlagUsers]

ASSUME FlagsAssumption ==
  /\ Settings \subseteq Setting /\ EnvSetting \in Setting
  /\ FlagNames # {} /\ FlagServers # {}
  /\ EnvFlags \subseteq FlagNames /\ FlagCacheLife \in Nat \ {0}
  /\ MaxEdits \in Nat /\ MaxFlagFaults \in Nat

NoSetting == [enabled |-> FALSE, strategy |-> "none", audience |-> {}]
MaybeSetting == Setting \cup {NoSetting}
Stored ==
  {c \in Setting : c.audience = {} => c.strategy \notin {"users", "roles"}}
    \cup {NoSetting}

VARIABLES
  flagStore, \* what Redis holds under feature_flags
  local,     \* localCache of each instance: a setting and the ticks it has left
  lookups,   \* getFlag, between Redis and the cache
  edits,     \* the requests under way, with the flags they have read
  booting,   \* the flags of its environment an instance has yet to write
  unchanged, \* for each flag, the ticks since Redis was last given it
  meant,     \* the flags as their last edits meant them
  careless,  \* edits have overlapped, or Redis has failed one
  editsLeft, flagFaults

flagVars == <<flagStore, local, lookups, edits, booting, unchanged, meant,
              careless, editsLeft, flagFaults>>

NothingSeen == [f \in FlagNames |-> NoSetting]
NotCached == [setting |-> NoSetting, left |-> 0]
NoLookup == [asked |-> FALSE, found |-> NoSetting]
NoEdit == [asked |-> FALSE, boots |-> FALSE, server |-> CHOOSE s \in FlagServers : TRUE,
           flag |-> CHOOSE f \in FlagNames : TRUE, to |-> NoSetting,
           seen |-> NothingSeen]

FlagsTypeOK ==
  /\ flagStore \in [FlagNames -> Stored]
  /\ meant \in [FlagNames -> MaybeSetting]
  /\ \A s \in FlagServers, f \in FlagNames :
       /\ local[s][f].setting \in MaybeSetting
       /\ local[s][f].left \in 0 .. FlagCacheLife
       /\ lookups[s][f].found \in MaybeSetting
  /\ \A e \in Edits : edits[e].seen \in [FlagNames -> MaybeSetting]
  /\ booting \in [FlagServers -> SUBSET FlagNames]
  /\ unchanged \in [FlagNames -> 0 .. FlagCacheLife]
  /\ editsLeft \in 0 .. MaxEdits /\ flagFaults \in 0 .. MaxFlagFaults

-----------------------------------------------------------------------------
\* Mutation of Valid: the audience is not looked at.
ValidAnyAudience(c) == c.strategy \in Strategies

\* validateFlagConfig.
Valid(c) == c.strategy \in {"users", "roles"} => c.audience # {}

\* evaluate; the percentage, the list of users and the roles are each the set
\* of users they take in.
Evaluate(c, user) ==
  /\ c # NoSetting /\ c.enabled
  /\ \/ c.strategy = "all"
     \/ c.strategy \notin {"all", "disabled"} /\ user \in c.audience

Cached(s, f) == local[s][f].left > 0

\* getFlag: what Redis holds is cached once its answer is there, and a failure
\* looks like no flag at all.  The flags of the environment come before Redis's;
\* what is cached of them is always the same and is left out.
AskRedis(s, f) ==
  /\ ~Cached(s, f) /\ f \notin EnvFlags /\ ~lookups[s][f].asked
  /\ flagStore[f] # NoSetting
  /\ lookups' = [lookups EXCEPT ![s][f] = [asked |-> TRUE,
                                           found |-> flagStore[f]]]
  /\ UNCHANGED <<flagStore, local, edits, booting, unchanged, meant, careless,
                 editsLeft, flagFaults>>

CacheFlag(s, f) ==
  /\ lookups[s][f].asked
  /\ local' = [local EXCEPT ![s][f] = [setting |-> lookups[s][f].found,
                                      left |-> FlagCacheLife]]
  /\ lookups' = [lookups EXCEPT ![s][f] = NoLookup]
  /\ UNCHANGED <<flagStore, edits, booting, unchanged, meant, careless,
                 editsLeft, flagFaults>>

-----------------------------------------------------------------------------
\* setFlag and deleteFlag begin with all the flags; an instance that fails to
\* read them goes on with none.  PUT asks first whether the flag is known, out
\* of the cache where it can; a flag that is deleted must be among those read.
Begin(e, s, f, c, boots) ==
  /\ ~edits[e].asked
  /\ careless' = (careless \/ \E other \in Edits : edits[other].asked)
  /\ edits' = [edits EXCEPT ![e] = [asked |-> TRUE, boots |-> boots,
              server |-> s, flag |-> f, to |-> c, seen |-> flagStore]]
  /\ UNCHANGED <<flagStore, local, lookups, unchanged, meant, flagFaults>>

SetFlag(e, s, f) ==
  /\ editsLeft > 0 /\ editsLeft' = editsLeft - 1
  /\ \E c \in Settings : Valid(c) /\ Begin(e, s, f, c, FALSE)
  /\ UNCHANGED booting

DeleteFlag(e, s, f) ==
  /\ editsLeft > 0 /\ editsLeft' = editsLeft - 1
  /\ flagStore[f] # NoSetting /\ Begin(e, s, f, NoSetting, FALSE)
  /\ UNCHANGED booting

\* initializeFromEnv, at an instance that has started; an invalid flag ends it.
SetFromEnvironment(e, s) ==
  /\ Valid(EnvSetting)
  /\ \A other \in Edits : ~(edits[other].boots /\ edits[other].server = s)
  /\ \E f \in booting[s] :
       /\ booting' = [booting EXCEPT ![s] = @ \ {f}]
       /\ Begin(e, s, f, EnvSetting, TRUE)
  /\ UNCHANGED editsLeft

ReadFails(e) ==
  /\ edits[e].asked /\ edits[e].to # NoSetting
  /\ flagFaults > 0 /\ flagFaults' = flagFaults - 1
  /\ edits' = [edits EXCEPT ![e].seen = NothingSeen]
  /\ careless' = TRUE
  /\ UNCHANGED <<flagStore, local, lookups, booting, unchanged, meant,
                 editsLeft>>

\* Mutation of Merged: the flag is written without the others.
MergedAlone(edit) == [NothingSeen EXCEPT ![edit.flag] = edit.to]

Merged(edit) == [edit.seen EXCEPT ![edit.flag] = edit.to]

\* They end with all the flags they have read and the one they change;
\* RedisService swallows a failure.  Only the instance that edits drops its cached flag.
WriteFlags(e) ==
  LET edit == edits[e] IN
  /\ edit.asked
  /\ edits' = [edits EXCEPT ![e] = NoEdit]
  /\ local' = [local EXCEPT ![edit.server][edit.flag] = NotCached]
  /\ meant' = [meant EXCEPT ![edit.flag] = edit.to]
  /\ \/ /\ flagStore' = Merged(edit)
        /\ unchanged' = [f \in FlagNames |->
             IF flagStore[f] = Merged(edit)[f] THEN unchanged[f] ELSE 0]
        /\ UNCHANGED <<careless, flagFaults>>
     \/ /\ flagFaults > 0 /\ flagFaults' = flagFaults - 1
        /\ careless' = TRUE
        /\ UNCHANGED <<flagStore, unchanged>>
  /\ UNCHANGED <<lookups, booting, editsLeft>>

-----------------------------------------------------------------------------
\* An instance starts again: its cache is empty, its requests are lost, and its
\* environment's flags are to be written.
RestartServer(s) ==
  /\ flagFaults > 0 /\ flagFaults' = flagFaults - 1
  /\ local' = [local EXCEPT ![s] = [f \in FlagNames |-> NotCached]]
  /\ lookups' = [lookups EXCEPT ![s] = [f \in FlagNames |-> NoLookup]]
  /\ edits' = [e \in Edits |-> IF edits[e].server = s THEN NoEdit ELSE edits[e]]
  /\ booting' = [booting EXCEPT ![s] = EnvFlags]
  /\ UNCHANGED <<flagStore, unchanged, meant, careless, editsLeft>>

\* Time passes; Redis answers within a tick.
FlagTick ==
  /\ \A s \in FlagServers, f \in FlagNames : ~lookups[s][f].asked
  /\ local' = [s \in FlagServers |-> [f \in FlagNames |->
                 IF local[s][f].left = 0 THEN local[s][f]
                                         ELSE [local[s][f] EXCEPT !.left = @ - 1]]]
  /\ unchanged' = [f \in FlagNames |-> IF unchanged[f] < FlagCacheLife
                                       THEN unchanged[f] + 1 ELSE FlagCacheLife]
  /\ UNCHANGED <<flagStore, lookups, edits, booting, meant, careless, editsLeft,
                 flagFaults>>

FlagsInit ==
  /\ \E c \in Settings \cap Stored : flagStore = [f \in FlagNames |-> c]
  /\ meant = flagStore
  /\ local = [s \in FlagServers |-> [f \in FlagNames |-> NotCached]]
  /\ lookups = [s \in FlagServers |-> [f \in FlagNames |-> NoLookup]]
  /\ edits = [e \in Edits |-> NoEdit]
  /\ booting = [s \in FlagServers |-> EnvFlags]
  /\ unchanged = [f \in FlagNames |-> 0]
  /\ careless = FALSE
  /\ editsLeft = MaxEdits /\ flagFaults = MaxFlagFaults

FlagsNext ==
  \/ \E s \in FlagServers, f \in FlagNames :
       AskRedis(s, f) \/ CacheFlag(s, f)
  \/ \E e \in Edits, s \in FlagServers :
       \/ SetFromEnvironment(e, s)
       \/ \E f \in FlagNames : SetFlag(e, s, f) \/ DeleteFlag(e, s, f)
  \/ \E e \in Edits : ReadFails(e) \/ WriteFlags(e)
  \/ \E s \in FlagServers : RestartServer(s)
  \/ FlagTick

FlagsSpec == FlagsInit /\ [][FlagsNext]_flagVars

-----------------------------------------------------------------------------
\* "Changes take effect immediately (with up to 30s cache delay)": an instance
\* that lets a user in, or keeps one out, where Redis would not, does so for
\* less than the life of a cached flag (feature-flags-admin.controller.ts:121,
\* feature-flag.service.ts:76, :307).
CacheDelayIsBounded ==
  \A s \in FlagServers, f \in FlagNames \ EnvFlags, u \in FlagUsers :
    Cached(s, f) /\ Evaluate(local[s][f].setting, u) # Evaluate(flagStore[f], u)
      => unchanged[f] < FlagCacheLife

\* A flag is lost or brought back only by edits that overlap or by a failure of
\* Redis: otherwise Redis holds every flag as it was last edited
\* (feature-flag.service.ts:112, :131, :152).
FlagsAreKept == ~careless => flagStore = meant

=============================================================================
