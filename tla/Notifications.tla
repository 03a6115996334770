---------------------------- MODULE Notifications ----------------------------
(***************************************************************************)
(* In-app notifications (notification): batches whose rows carry a key      *)
(* against duplicates and ask each recipient's preference, the preferences  *)
(* with their cache, and the streams over which a user follows them, of     *)
(* which an instance allows a few at a time.                                *)
(***************************************************************************)
EXTENDS Naturals, FiniteSets

CONSTANTS
  Batches,      \* calls of notifyBatch
  NoteKeys,     \* idempotency keys, one notification each
  Recipients, RecipientOf,
  Streams,      \* connections to the SSE stream of one user and instance
  MaxStreams,   \* SSE_MAX_CONNECTIONS_PER_USER
  MaxNoteFaults

ASSUME NotificationsAssumption ==
  /\ RecipientOf \in [NoteKeys -> Recipients]
  /\ MaxStreams \in Nat \ {0} /\ MaxNoteFaults \in Nat

VARIABLES
  notes,      \* the rows of a key: how many, and whether they are read
  dayOld,     \* keys whose rows are more than a day old
  prefs,      \* notification_preferences: whether the user takes them in app
  prefCache,  \* the same in Redis
  batches,    \* the batches under way: the keys left to insert
  streams,    \* the state of each connection
  slots,      \* the connections the instance counts
  noteFaults

notesVars == <<notes, dayOld, prefs, prefCache, batches, streams, slots,
               noteFaults>>

\* The unique index on idempotencyKey.
NoteRow == [count : 0 .. 1, read : BOOLEAN]
StreamState == {"none", "subscribing", "open", "ended"}
Choice == {"none", "in", "out"}
NoteBatch == [at : {"idle", "filter", "cache", "insert"},
              keys : SUBSET NoteKeys, found : [Recipients -> Choice]]
NoChoice == [u \in Recipients |-> "none"]
NoNoteBatch == [at |-> "idle", keys |-> {}, found |-> NoChoice]

NotesTypeOK ==
  /\ notes \in [NoteKeys -> NoteRow]
  /\ dayOld \subseteq NoteKeys
  /\ prefs \in [Recipients -> Choice] /\ prefCache \in [Recipients -> Choice]
  /\ batches \in [Batches -> NoteBatch]
  /\ streams \in [Streams -> StreamState]
  /\ slots \subseteq Streams /\ noteFaults \in 0 .. MaxNoteFaults

-----------------------------------------------------------------------------
Note(b, batch) == batches' = [batches EXCEPT ![b] = batch]
NoteFault == noteFaults > 0 /\ noteFaults' = noteFaults - 1

\* getExistingKeys: keys of the last day.
ExistingKeys == {k \in NoteKeys \ dayOld : notes[k].count > 0}

\* notifyBatch: duplicates within the batch, and those of the last day, go; ...
NotifyBatch(b) ==
  /\ batches[b].at = "idle"
  /\ \E keys \in SUBSET NoteKeys :
       /\ keys \ ExistingKeys # {}
       /\ Note(b, [NoNoteBatch EXCEPT !.at = "filter",
                                      !.keys = keys \ ExistingKeys])
  /\ UNCHANGED <<notes, dayOld, prefs, prefCache, streams, slots, noteFaults>>

\* ... each recipient's preference is looked up, in the cache or else in its
\* row, which is created where there is none; ...
Found(u) == IF prefCache[u] # "none" THEN prefCache[u]
            ELSE IF prefs[u] # "none" THEN prefs[u] ELSE "in"

ReadPreferences(b) ==
  LET users == {RecipientOf[k] : k \in batches[b].keys} IN
  /\ batches[b].at = "filter"
  /\ Note(b, [batches[b] EXCEPT !.at = "cache",
                !.found = [u \in Recipients |-> IF u \in users THEN Found(u)
                                                              ELSE "none"]])
  /\ prefs' = [u \in Recipients |-> IF u \in users /\ prefCache[u] = "none"
                                    THEN Found(u) ELSE prefs[u]]
  /\ UNCHANGED <<notes, dayOld, prefCache, streams, slots, noteFaults>>

CachePreferences(b) ==
  LET batch == batches[b] IN
  /\ batch.at = "cache"
  /\ prefCache' = [u \in Recipients |->
       IF batch.found[u] # "none" THEN batch.found[u] ELSE prefCache[u]]
  /\ LET allowed == {k \in batch.keys : batch.found[RecipientOf[k]] = "in"}
     IN  Note(b, IF allowed = {} THEN NoNoteBatch
                 ELSE [batch EXCEPT !.at = "insert", !.keys = allowed])
  /\ UNCHANGED <<notes, dayOld, prefs, streams, slots, noteFaults>>

\* ... and all the rows are inserted in one transaction, which the unique index
\* on the key undoes if one of them is there, however old it is.
InsertBatch(b) ==
  /\ batches[b].at = "insert" /\ Note(b, NoNoteBatch)
  /\ IF \E k \in batches[b].keys : notes[k].count > 0 THEN UNCHANGED notes
     ELSE notes' = [k \in NoteKeys |->
            IF k \in batches[b].keys THEN [count |-> 1, read |-> FALSE]
                                     ELSE notes[k]]
  /\ UNCHANGED <<dayOld, prefs, prefCache, streams, slots, noteFaults>>

BatchDies(b) ==
  /\ batches[b].at # "idle" /\ NoteFault /\ Note(b, NoNoteBatch)
  /\ UNCHANGED <<notes, dayOld, prefs, prefCache, streams, slots>>

\* markAsRead, markAllAsRead.
MarkRead(keys) ==
  /\ \E k \in keys : notes[k].count > 0 /\ ~notes[k].read
  /\ notes' = [k \in NoteKeys |-> IF k \in keys /\ notes[k].count > 0
                                  THEN [notes[k] EXCEPT !.read = TRUE]
                                  ELSE notes[k]]
  /\ UNCHANGED <<dayOld, prefs, prefCache, batches, streams, slots, noteFaults>>

NotesOf(u) == {k \in NoteKeys : RecipientOf[k] = u}

DayPasses(k) ==
  /\ notes[k].count > 0 /\ k \notin dayOld
  /\ dayOld' = dayOld \cup {k}
  /\ UNCHANGED <<notes, prefs, prefCache, batches, streams, slots, noteFaults>>

-----------------------------------------------------------------------------
\* update saves the row and drops the cached one; seedForUser and the first
\* look create it.
UpdatePreference(u) ==
  /\ \E c \in {"in", "out"} : prefs[u] # c /\ prefs' = [prefs EXCEPT ![u] = c]
  /\ prefCache' = [prefCache EXCEPT ![u] = "none"]
  /\ UNCHANGED <<notes, dayOld, batches, streams, slots, noteFaults>>

CachedPreferenceExpires(u) ==
  /\ prefCache[u] # "none"
  /\ prefCache' = [prefCache EXCEPT ![u] = "none"]
  /\ UNCHANGED <<notes, dayOld, prefs, batches, streams, slots, noteFaults>>

-----------------------------------------------------------------------------
RestUnchanged == UNCHANGED <<notes, dayOld, prefs, prefCache, batches>>
Becomes(c, state) == streams' = [streams EXCEPT ![c] = state]

\* stream: the slot is taken before Redis is asked to subscribe, ...
OpenStream(c) ==
  /\ streams[c] = "none" /\ Cardinality(slots) < MaxStreams
  /\ Becomes(c, "subscribing") /\ slots' = slots \cup {c}
  /\ UNCHANGED noteFaults /\ RestUnchanged

\* ... and the handler that gives it back is attached afterwards: a client that
\* has gone by then, or a subscription that fails, leaves the slot taken.
Subscribed(c) ==
  /\ streams[c] = "subscribing" /\ Becomes(c, "open")
  /\ slots' = slots \cup {c}
  /\ UNCHANGED noteFaults /\ RestUnchanged

GivesUpEarly(c) ==
  /\ streams[c] = "subscribing" /\ NoteFault /\ Becomes(c, "ended")
  /\ UNCHANGED slots /\ RestUnchanged

CloseStream(c) ==
  /\ streams[c] = "open" /\ Becomes(c, "ended")
  /\ slots' = slots \ {c}
  /\ UNCHANGED noteFaults /\ RestUnchanged

\* onModuleDestroy: all streams complete.
ServerStops ==
  /\ streams' = [c \in Streams |-> IF streams[c] = "none" THEN "none"
                                                          ELSE "ended"]
  /\ slots' = {} /\ NoteFault
  /\ RestUnchanged

NotesInit ==
  /\ notes = [k \in NoteKeys |-> [count |-> 0, read |-> FALSE]] /\ dayOld = {}
  /\ prefs = NoChoice /\ prefCache = NoChoice
  /\ batches = [b \in Batches |-> NoNoteBatch]
  /\ streams = [c \in Streams |-> "none"] /\ slots = {}
  /\ noteFaults = MaxNoteFaults

NotesNext ==
  \/ \E b \in Batches :
       \/ NotifyBatch(b) \/ ReadPreferences(b) \/ CachePreferences(b)
       \/ InsertBatch(b) \/ BatchDies(b)
  \/ \E k \in NoteKeys : MarkRead({k}) \/ DayPasses(k)
  \/ \E u \in Recipients :
       MarkRead(NotesOf(u)) \/ UpdatePreference(u) \/ CachedPreferenceExpires(u)
  \/ \E c \in Streams :
       OpenStream(c) \/ Subscribed(c) \/ GivesUpEarly(c) \/ CloseStream(c)
  \/ ServerStops

NotesSpec == NotesInit /\ [][NotesNext]_notesVars

-----------------------------------------------------------------------------
\* "Duplicate idempotency keys within 24h are silently dropped"
\* (notifications.service.ts:110): no batch comes to insert a notification that
\* is there and is not a day old.
DuplicatesAreDropped ==
  \A b \in Batches : batches[b].at = "insert" =>
    \A k \in batches[b].keys : notes[k].count > 0 => k \in dayOld

\* A user never has more streams than allowed, whatever happens while they
\* subscribe (notifications.controller.ts:105).
StreamLimitHolds ==
  Cardinality({c \in Streams : streams[c] \in {"subscribing", "open"}})
    <= MaxStreams

\* "one per active SSE connection" (notifications.controller.ts:36): a slot
\* belongs to a connection that still is.
SlotsAreActive == \A c \in slots : streams[c] \in {"subscribing", "open"}
=============================================================================
