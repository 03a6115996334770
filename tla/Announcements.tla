----------------------------- MODULE Announcements -----------------------------
(***************************************************************************)
(* The announcements of a group (announcements.service.ts): posting under a *)
(* cap that drops the oldest one not pinned, editing and deleting, by       *)
(* overlapping requests of the group's admin.                               *)
(***************************************************************************)
EXTENDS Integers, FiniteSets

CONSTANTS
  Posters,            \* requests of the admin under way
  AnnouncementCap,    \* GROUP_MAX_ANNOUNCEMENTS
  MaxPosted           \* bound: announcements ever posted

ASSUME AnnouncementAssumption ==
  /\ IsFiniteSet(Posters)
  /\ {AnnouncementCap, MaxPosted} \subseteq Nat \ {0}

VARIABLES
  posted,     \* the rows, in order of creation
  poster,     \* what each request is at
  slack       \* requests that started while another one was under way, and
              \* pins, counted up to MaxPosted

boardVars == <<posted, poster, slack>>

-----------------------------------------------------------------------------
BoardRows == [pinned : BOOLEAN, deleted : BOOLEAN]
Numbers == 1 .. MaxPosted
NotPosting == [at |-> "none"]
Posting ==
  [at : {"count", "drop", "save"}, row : Numbers \cup {0}, pinned : BOOLEAN]
  \cup [at : {"edit"}, row : Numbers, was : BoardRows]
  \cup [at : {"delete"}, row : Numbers]

BoardTypeOK ==
  /\ posted \in UNION {[1 .. n -> BoardRows] : n \in 0 .. MaxPosted}
  /\ poster \in [Posters -> Posting \cup {NotPosting}]
  /\ slack \in 0 .. MaxPosted

Live == {n \in DOMAIN posted : ~posted[n].deleted}
Droppable == {n \in Live : ~posted[n].pinned}
NumPosted == Cardinality(DOMAIN posted)

SlackIf(more) == slack' = IF more /\ slack < MaxPosted THEN slack + 1 ELSE slack
PosterAt(p, state) == poster' = [poster EXCEPT ![p] = state]

\* requireGroupAdmin has let the request through.
StartRequest(p, state) ==
  /\ poster[p] = NotPosting
  /\ PosterAt(p, state)
  /\ SlackIf(\E q \in Posters : poster[q] # NotPosting)
  /\ UNCHANGED posted

-----------------------------------------------------------------------------
\* createAnnouncement: the live ones are counted ...
StartPost(p) ==
  /\ \E pinned \in BOOLEAN :
       StartRequest(p, [at |-> "count", row |-> 0, pinned |-> pinned])

CountAnnouncements(p) ==
  /\ poster[p].at = "count"
  /\ PosterAt(p, [poster[p] EXCEPT
       !.at = IF Cardinality(Live) >= AnnouncementCap THEN "drop" ELSE "save"])
  /\ UNCHANGED <<posted, slack>>

\* ... at the cap the oldest one that is not pinned is found, if there is one,
FindOldest(p) ==
  /\ poster[p].at = "drop" /\ poster[p].row = 0
  /\ IF Droppable = {}
     THEN PosterAt(p, [poster[p] EXCEPT !.at = "save"])
     ELSE \E n \in Droppable :
            /\ \A k \in Droppable : n <= k
            /\ PosterAt(p, [poster[p] EXCEPT !.row = n])
  /\ UNCHANGED <<posted, slack>>

\* and soft-deleted,
DropOldest(p) ==
  /\ poster[p].at = "drop" /\ poster[p].row # 0
  /\ posted' = [posted EXCEPT ![poster[p].row].deleted = TRUE]
  /\ PosterAt(p, [poster[p] EXCEPT !.at = "save"])
  /\ UNCHANGED slack

\* and the new one is saved.
SaveAnnouncement(p) ==
  /\ poster[p].at = "save" /\ NumPosted < MaxPosted
  /\ posted' = [n \in 1 .. NumPosted + 1 |->
                 IF n <= NumPosted THEN posted[n]
                 ELSE [pinned |-> poster[p].pinned, deleted |-> FALSE]]
  /\ SlackIf(poster[p].pinned)
  /\ PosterAt(p, NotPosting)

-----------------------------------------------------------------------------
\* updateAnnouncement saves the whole row it found, deletedAt included.
FindAnnouncementForEdit(p) ==
  \E n \in Live, pinned \in BOOLEAN :
    StartRequest(p, [at |-> "edit", row |-> n,
                     was |-> [posted[n] EXCEPT !.pinned = pinned]])

UpdateAnnouncement(p) ==
  /\ poster[p].at = "edit"
  /\ posted' = [posted EXCEPT ![poster[p].row] = poster[p].was]
  /\ SlackIf(poster[p].was.pinned)
  /\ PosterAt(p, NotPosting)

FindAnnouncementForDelete(p) ==
  \E n \in Live : StartRequest(p, [at |-> "delete", row |-> n])

DeleteAnnouncement(p) ==
  /\ poster[p].at = "delete"
  /\ posted' = [posted EXCEPT ![poster[p].row].deleted = TRUE]
  /\ PosterAt(p, NotPosting)
  /\ UNCHANGED slack

-----------------------------------------------------------------------------
BoardInit ==
  /\ posted = [n \in {} |-> {}]
  /\ poster = [p \in Posters |-> NotPosting]
  /\ slack = 0

CreateAnnouncement(p) ==
  \/ StartPost(p) \/ CountAnnouncements(p)
  \/ FindOldest(p) \/ DropOldest(p) \/ SaveAnnouncement(p)
BoardRequest(p) ==
  \/ CreateAnnouncement(p)
  \/ FindAnnouncementForEdit(p) \/ UpdateAnnouncement(p)
  \/ FindAnnouncementForDelete(p) \/ DeleteAnnouncement(p)

BoardNext == \E p \in Posters : BoardRequest(p)

BoardSpec == BoardInit /\ [][BoardNext]_boardVars

-----------------------------------------------------------------------------
\* The cap slips only by what overlaps and what is pinned: createAnnouncement
\* counts, drops and saves in separate calls, yet a request that ran alone adds
\* nothing above the cap, and every request that overlapped, and every pin, at
\* most one.
CapSlipsByRacesOnly ==
  Cardinality(Live) <= AnnouncementCap + slack
=============================================================================
