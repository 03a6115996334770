---------------------------- MODULE PlatformProofs ----------------------------
(***************************************************************************)
(* What the platform does for every user, whatever the numbers of jobs,    *)
(* webhooks, requests, messages, files and posts. The components share no  *)
(* variable, so each has an inductive invariant of its own: those of the   *)
(* safeguards are proved in SafeguardProofs, the others below; the last    *)
(* part puts all of them together for the specification of the whole.      *)
(***************************************************************************)
EXTENDS MCPlatform, SafeguardProofs

-----------------------------------------------------------------------------
(***************************************************************************)
(* The queues and their dead letters.                                      *)
(***************************************************************************)
\* is to mark a row, or to take a letter away, has queued the payload anew.
JobRowsHold ==
  /\ job \in [JobIds -> JobRows \cup {NoEntry}]
  /\ \A i \in Used, k \in JobIds : k < i => k \in Used
  /\ \A i \in Used : job[i].state = "waiting" => job[i].made < Runs
  /\ \A i \in Used : job[i].state = "active" => job[i].made > 0

TrackedHolds ==
  /\ tracked \in [JobIds -> Nat]
  /\ \A i \in JobIds : tracked[i] > 0 =>
       /\ i \in Used /\ tracked[i] <= job[i].made
       /\ job[i].state = "active" => tracked[i] < job[i].made

FailuresHold ==
  /\ failures \in [Tries -> FailureRows \cup {NoFailure}]
  /\ telling \subseteq Tries /\ handing \subseteq Used
  /\ letter \in [JobIds -> {"none", "kept", "retried"}]
  /\ \A t \in telling : t[1] \in Used
  /\ \A t \in Tries : failures[t] # NoFailure => t[1] \in Used
  /\ \A i \in JobIds : letter[i] # "none" => i \in Used

LeadsOn(request) ==
  /\ request.at \in {"add", "mark"} => failures[request.row] # NoFailure
  /\ request.at = "mark" => QueuedAnew(request.row[1])
  /\ request.at \in {"readd", "remove"} => request.letter \in Used
  /\ request.at = "remove" => QueuedAnew(request.letter)

AdminsHold ==
  /\ admin \in [Admins -> Requests \cup {NotCalling}]
  /\ \A a \in Admins : LeadsOn(admin[a])

JobsInv ==
  /\ JobRowsHold /\ TrackedHolds /\ FailuresHold /\ AdminsHold
  /\ RetriesLoseNothing /\ jobFaults \in 0 .. MaxJobFaults

\* The invariant of this part holds at first,
LEMMA JobsInitially == JobsInit => JobsInv
<1> SUFFICES ASSUME JobsInit PROVE JobsInv
  OBVIOUS
<1>1. Used = {}
  BY DEF JobsInit, Used
<1>2. JobRowsHold /\ TrackedHolds
  BY <1>1 DEF JobsInit, JobRowsHold, TrackedHolds
<1>3. FailuresHold
  BY <1>1 DEF JobsInit, FailuresHold, NoFailure
<1>4. AdminsHold
  BY <1>1 DEF JobsInit, AdminsHold, LeadsOn, NotCalling
<1>5. RetriesLoseNothing /\ jobFaults \in 0 .. MaxJobFaults
  BY JobsAssumption DEF JobsInit, RetriesLoseNothing, NoFailure
<1> QED
  BY <1>2, <1>3, <1>4, <1>5 DEF JobsInv

\* Jobs only come and change their states: what is used stays used, and what
\* is queued anew stays so.
JobsOnlyGrow ==
  \A i \in Used : i \in Used' /\ job'[i].payload = job[i].payload

\* A row that is used remains so, and a payload queued anew remains queued.
LEMMA GrowthKeeps ==
  ASSUME JobsOnlyGrow
  PROVE  Used \subseteq Used' /\ \A i \in Used : QueuedAnew(i) => QueuedAnew(i)'
BY DEF JobsOnlyGrow, QueuedAnew

\* A change of one job of the queue.
LEMMA OneJobChanges ==
  ASSUME JobRowsHold, NEW i \in JobIds, i \in Used,
         NEW row \in JobRows, row.payload = job[i].payload,
         row.state = "waiting" => row.made < Runs,
         row.state = "active" => row.made > 0,
         job' = [job EXCEPT ![i] = row]
  PROVE  JobRowsHold' /\ JobsOnlyGrow /\ Used' = Used
<1>1. row # NoEntry
  BY DEF JobRows, NoEntry
<1>2. Used' = Used
  BY <1>1 DEF Used, JobRowsHold
<1>3. JobRowsHold'
  BY <1>2 DEF JobRowsHold
<1> QED
  BY <1>2, <1>3 DEF JobsOnlyGrow, JobRowsHold

\* A job that is added comes after all the others.
LEMMA OneJobMore ==
  ASSUME JobRowsHold, NEW i \in JobIds, NEW payload \in Payloads,
         Enqueued(i, payload)
  PROVE  /\ JobRowsHold' /\ JobsOnlyGrow /\ Used' = Used \cup {i}
         /\ \A k \in Used : k < i
         /\ job'[i].payload = payload /\ job'[i].state = "waiting"
<1> DEFINE row == [state |-> "waiting", payload |-> payload, made |-> 0]
<1>1. row \in JobRows /\ row # NoEntry
  BY JobsAssumption DEF JobRows, NoEntry, Runs
<1>2. job' = [job EXCEPT ![i] = row] /\ IsNewId(i)
  BY DEF Enqueued
<1>3. row.payload = payload /\ row.state = "waiting" /\ row.made = 0
  OBVIOUS
<1> HIDE DEF row
<1>4. Used' = Used \cup {i}
  BY <1>1, <1>2 DEF Used, JobRowsHold
<1>5. \A k \in Used : k < i
  BY <1>2 DEF JobRowsHold, IsNewId, JobIds, Used
<1>6. 0 < Runs
  BY JobsAssumption DEF Runs
<1>7. JobRowsHold'
  <2>1. \A j \in Used', k \in JobIds : k < j => k \in Used'
    BY <1>2, <1>4 DEF JobRowsHold, IsNewId
  <2>2. job' \in [JobIds -> JobRows \cup {NoEntry}]
    BY <1>1, <1>2 DEF JobRowsHold
  <2>3. \A j \in Used' : job'[j] = IF j = i THEN row ELSE job[j]
    BY <1>2 DEF JobRowsHold, Used
  <2> QED
    BY <1>3, <1>4, <1>6, <2>1, <2>2, <2>3 DEF JobRowsHold
<1>8. i \notin Used
  BY <1>2 DEF IsNewId
<1>9. JobsOnlyGrow
  BY <1>2, <1>4, <1>8 DEF JobsOnlyGrow, JobRowsHold, Used
<1> QED
  BY <1>2, <1>3, <1>4, <1>5, <1>7, <1>9 DEF JobRowsHold

\* What a request leads to stays there while rows are only added.
RowsStay ==
  \A t \in Tries : failures[t] # NoFailure => failures'[t] # NoFailure

\* What an administrator is about to do remains right when only rows are added.
LEMMA StillLeads ==
  ASSUME JobsOnlyGrow, FailuresHold, RowsStay,
         NEW request \in Requests \cup {NotCalling}, LeadsOn(request)
  PROVE  LeadsOn(request)'
<1>1. Used \subseteq Used' /\ \A i \in Used : QueuedAnew(i) => QueuedAnew(i)'
  BY GrowthKeeps
<1>2. CASE request.at = "add"
  <2>1. request.row \in Tries
    BY <1>2 DEF Requests, NotCalling
  <2> QED
    BY <1>2, <2>1 DEF LeadsOn, RowsStay
<1>3. CASE request.at = "mark"
  <2>1. request.row \in Tries
    BY <1>3 DEF Requests, NotCalling
  <2>2. failures[request.row] # NoFailure /\ QueuedAnew(request.row[1])
    BY <1>3 DEF LeadsOn
  <2>3. request.row[1] \in Used
    BY <2>1, <2>2 DEF FailuresHold
  <2>4. QueuedAnew(request.row[1])'
    BY <1>1, <2>2, <2>3
  <2> QED
    BY <1>3, <2>1, <2>2, <2>4 DEF LeadsOn, RowsStay
<1>4. CASE request.at = "readd"
  BY <1>1, <1>4 DEF LeadsOn
<1>5. CASE request.at = "remove"
  <2>1. request.letter \in Used /\ QueuedAnew(request.letter)
    BY <1>5 DEF LeadsOn
  <2>2. QueuedAnew(request.letter)'
    BY <1>1, <2>1
  <2> QED
    BY <1>1, <1>5, <2>1, <2>2 DEF LeadsOn
<1>6. CASE request = NotCalling
  BY <1>6 DEF LeadsOn, NotCalling
<1> QED
  BY <1>2, <1>3, <1>4, <1>5, <1>6 DEF Requests

\* Steps of others leave the administrators where they are.
LEMMA AdminsStay ==
  ASSUME JobsOnlyGrow, FailuresHold, RowsStay, AdminsHold, UNCHANGED admin
  PROVE  AdminsHold'
<1>1. \A a \in Admins : LeadsOn(admin[a])'
  <2> SUFFICES ASSUME NEW a \in Admins PROVE LeadsOn(admin[a])'
    OBVIOUS
  <2>1. admin[a] \in Requests \cup {NotCalling} /\ LeadsOn(admin[a])
    BY DEF AdminsHold
  <2> DEFINE request == admin[a]
  <2>2. ASSUME NEW r \in Requests \cup {NotCalling}, LeadsOn(r)
        PROVE  /\ r.at \in {"add", "mark"} => failures'[r.row] # NoFailure
               /\ r.at = "mark" => QueuedAnew(r.row[1])'
               /\ r.at \in {"readd", "remove"} => r.letter \in Used'
               /\ r.at = "remove" => QueuedAnew(r.letter)'
    BY <2>2, StillLeads DEF LeadsOn
  <2> QED
    BY <2>1, <2>2 DEF LeadsOn, AdminsHold
<1> QED
  BY <1>1 DEF AdminsHold

\* A step that changes one request, to one that leads on after it.
LEMMA OneRequestChanges ==
  ASSUME JobsOnlyGrow, FailuresHold, RowsStay, AdminsHold,
         NEW a \in Admins, NEW request \in Requests \cup {NotCalling},
         admin' = [admin EXCEPT ![a] = request], LeadsOn(request)'
  PROVE  AdminsHold'
<1>1. \A b \in Admins \ {a} : admin'[b] = admin[b]
  BY DEF AdminsHold
<1>2. admin'[a] = request /\ admin' \in [Admins -> Requests \cup {NotCalling}]
  BY DEF AdminsHold
<1>3. ASSUME NEW r \in Requests \cup {NotCalling}, LeadsOn(r)
      PROVE  /\ r.at \in {"add", "mark"} => failures'[r.row] # NoFailure
             /\ r.at = "mark" => QueuedAnew(r.row[1])'
             /\ r.at \in {"readd", "remove"} => r.letter \in Used'
             /\ r.at = "remove" => QueuedAnew(r.letter)'
  BY <1>3, StillLeads DEF LeadsOn
<1>4. ASSUME NEW b \in Admins \ {a} PROVE LeadsOn(admin[b])'
  <2>1. admin[b] \in Requests \cup {NotCalling} /\ LeadsOn(admin[b])
    BY DEF AdminsHold
  <2> QED
    BY <1>1, <1>3, <2>1 DEF LeadsOn
<1>5. LeadsOn(admin[a])'
  BY <1>2 DEF LeadsOn
<1> QED
  BY <1>2, <1>4, <1>5 DEF AdminsHold

\* What does not touch the rows, the letters and the requests keeps what is
\* said of them.
LEMMA KeepsTheRest ==
  ASSUME FailuresHold, AdminsHold, RetriesLoseNothing, JobsOnlyGrow,
         handing' \subseteq Used',
         \A t \in telling' : t \in Tries /\ t[1] \in Used',
         UNCHANGED <<letter, failures, admin>>
  PROVE  FailuresHold' /\ AdminsHold' /\ RetriesLoseNothing'
<1>1. Used \subseteq Used' /\ \A i \in Used : QueuedAnew(i) => QueuedAnew(i)'
  BY GrowthKeeps
<1>2. FailuresHold'
  BY <1>1 DEF FailuresHold
<1>3. AdminsHold'
  BY AdminsStay DEF RowsStay
<1>4. RetriesLoseNothing'
  BY <1>1 DEF RetriesLoseNothing, FailuresHold, NoFailure
<1> QED
  BY <1>2, <1>3, <1>4

\* What leaves the jobs alone keeps what is said of them.
LEMMA SameJobs ==
  ASSUME JobRowsHold, UNCHANGED job
  PROVE  JobRowsHold' /\ JobsOnlyGrow /\ Used' = Used
         /\ \A i \in JobIds : QueuedAnew(i)' = QueuedAnew(i)
<1>1. Used' = Used
  BY DEF Used
<1>2. JobRowsHold'
  BY <1>1 DEF JobRowsHold
<1>3. JobsOnlyGrow
  BY <1>1 DEF JobsOnlyGrow
<1>4. \A i \in JobIds : QueuedAnew(i)' = QueuedAnew(i)
  BY <1>1 DEF QueuedAnew
<1> QED
  BY <1>1, <1>2, <1>3, <1>4

\* The steps of the producers and the workers.
LEMMA WorkersKeepJobs ==
  ASSUME JobsInv, NEW i \in JobIds,
         \/ \E payload \in Payloads : AddJob(i, payload)
         \/ Process(i) \/ Completed(i) \/ Failed(i)
         \/ CrashBeforeHandOver(i) \/ ForgetStale(i)
  PROVE  JobsInv'
<1> USE DEF JobsInv
<1>0. handing \subseteq Used /\ \A t \in telling : t \in Tries /\ t[1] \in Used
  BY DEF FailuresHold
<1>1. ASSUME NEW payload \in Payloads, AddJob(i, payload) PROVE JobsInv'
  <2>1. Enqueued(i, payload) /\ UNCHANGED <<letter, handing, telling, failures,
                                           tracked, admin, jobFaults>>
    BY <1>1 DEF AddJob
  <2>2. /\ JobRowsHold' /\ JobsOnlyGrow /\ Used' = Used \cup {i}
    BY <2>1, OneJobMore
  <2>3. FailuresHold' /\ AdminsHold' /\ RetriesLoseNothing'
    BY <1>0, <2>1, <2>2, KeepsTheRest
  <2>4. \A k \in Used : job'[k] = job[k]
    BY <2>1 DEF Enqueued, IsNewId, JobRowsHold, Used
  <2>5. TrackedHolds'
    BY <2>1, <2>2, <2>4 DEF TrackedHolds
  <2> QED
    BY <2>1, <2>2, <2>3, <2>5
<1>2. CASE Process(i)
  <2> DEFINE row == [job[i] EXCEPT !.state = "active", !.made = @ + 1]
  <2>1. job[i].state = "waiting" /\ job' = [job EXCEPT ![i] = row]
        /\ UNCHANGED <<letter, handing, telling, failures, tracked, admin,
                       jobFaults>>
    BY <1>2 DEF Process
  <2>2. i \in Used
    BY <2>1 DEF Used, NoEntry
  <2>3. job[i] \in JobRows /\ job[i].made < Runs
    BY <2>1, <2>2 DEF JobRowsHold, Used
  <2>4. row \in JobRows /\ row.payload = job[i].payload /\ row.state = "active"
        /\ row.made = job[i].made + 1 /\ row.made > 0
    <3>1. job[i].made \in Nat /\ Runs \in Nat
      BY <2>3, JobsAssumption DEF JobRows, Runs
    <3>2. PICK n : n = job[i].made + 1
      OBVIOUS
    <3>3. n \in 0 .. Runs /\ n > 0
      BY <2>3, <3>1, <3>2
    <3>4. row.made = n /\ row = [[job[i] EXCEPT !.state = "active"] EXCEPT !.made = n]
      BY <2>3, <3>2 DEF JobRows
    <3> HIDE DEF row
    <3> QED
      BY <2>3, <3>2, <3>3, <3>4 DEF JobRows
  <2> HIDE DEF row
  <2>5. JobRowsHold' /\ JobsOnlyGrow /\ Used' = Used
    BY <2>1, <2>2, <2>4, OneJobChanges
  <2>6. FailuresHold' /\ AdminsHold' /\ RetriesLoseNothing'
    BY <1>0, <2>1, <2>5, KeepsTheRest
  <2>7. job[i].made \in Nat /\ tracked[i] \in Nat
    BY <2>3, JobsAssumption DEF JobRows, Runs, TrackedHolds
  <2>8. tracked[i] > 0 => tracked[i] < row.made
    BY <2>2, <2>4, <2>7 DEF TrackedHolds
  <2>9. TrackedHolds'
    BY <2>1, <2>2, <2>4, <2>5, <2>8, <2>7 DEF TrackedHolds, JobRowsHold
  <2> QED
    BY <2>1, <2>5, <2>6, <2>9
<1>3. CASE Completed(i)
  <2> DEFINE row == [job[i] EXCEPT !.state = "completed"]
  <2>1. job[i].state = "active" /\ job' = [job EXCEPT ![i] = row]
        /\ UNCHANGED <<letter, handing, telling, failures, tracked, admin,
                       jobFaults>>
    BY <1>3 DEF Completed
  <2>2. i \in Used
    BY <2>1 DEF Used, NoEntry
  <2>3. job[i] \in JobRows
    BY <2>2 DEF JobRowsHold, Used
  <2>4. row \in JobRows /\ row.payload = job[i].payload
        /\ row.state = "completed" /\ row.made = job[i].made
    BY <2>3 DEF JobRows
  <2> HIDE DEF row
  <2>5. JobRowsHold' /\ JobsOnlyGrow /\ Used' = Used
    BY <2>1, <2>2, <2>4, OneJobChanges
  <2>6. FailuresHold' /\ AdminsHold' /\ RetriesLoseNothing'
    BY <1>0, <2>1, <2>5, KeepsTheRest
  <2>7. TrackedHolds'
    BY <2>1, <2>2, <2>4, <2>5 DEF TrackedHolds, JobRowsHold
  <2> QED
    BY <2>1, <2>5, <2>6, <2>7
<1>4. CASE Failed(i)
  <2> DEFINE last == job[i].made >= Attempts
             row == [job[i] EXCEPT !.state = IF last THEN "failed" ELSE "waiting"]
  <2>1. job[i].state = "active" /\ job' = [job EXCEPT ![i] = row]
        /\ UNCHANGED <<letter, failures, admin, jobFaults>>
    BY <1>4 DEF Failed
  <2>2. i \in Used
    BY <2>1 DEF Used, NoEntry
  <2>3. job[i] \in JobRows /\ job[i].made > 0
    BY <2>1, <2>2 DEF JobRowsHold, Used
  <2>4. job[i].made \in 0 .. Runs /\ Attempts \in Nat
    BY <2>3, JobsAssumption DEF JobRows
  <2>5. /\ row \in JobRows /\ row.payload = job[i].payload
        /\ row.made = job[i].made /\ row.state \in {"failed", "waiting"}
    BY <2>3 DEF JobRows
  <2>6. row.state = "waiting" => job[i].made < Attempts
    BY <2>3, <2>4 DEF JobRows
  <2>7. row.state = "waiting" => row.made < Runs
    BY <2>4, <2>5, <2>6 DEF Runs
  <2> HIDE DEF row
  <2>8. JobRowsHold' /\ JobsOnlyGrow /\ Used' = Used
    BY <2>1, <2>2, <2>5, <2>7, OneJobChanges
  <2>9. handing' \subseteq Used'
    BY <1>4, <1>0, <2>2, <2>8 DEF Failed
  <2>10. <<i, job[i].made>> \in Tries
    BY <2>3, <2>4 DEF Tries, Runs
  <2>11. \A t \in telling' : t \in Tries /\ t[1] \in Used'
    BY <1>4, <1>0, <2>2, <2>8, <2>10 DEF Failed, Emit
  <2>12. FailuresHold' /\ AdminsHold' /\ RetriesLoseNothing'
    BY <2>1, <2>8, <2>9, <2>11, KeepsTheRest
  <2>13. /\ tracked' \in [JobIds -> Nat]
         /\ \A k \in JobIds :
              \/ tracked'[k] \in {0, tracked[k]}
              \/ k = i /\ tracked'[k] \in {1, tracked[k] + 1}
    <3>1. CASE UNCHANGED tracked
      BY <3>1 DEF TrackedHolds
    <3>2. ASSUME NEW same \in BOOLEAN, tracked' \in RecordFailure(tracked, i, same)
          PROVE  /\ tracked' \in [JobIds -> Nat]
                 /\ \A k \in JobIds :
                      \/ tracked'[k] \in {0, tracked[k]}
                      \/ k = i /\ tracked'[k] \in {1, tracked[k] + 1}
      <4>1. CASE tracked[i] > 0
        BY <3>2, <4>1 DEF RecordFailure, TrackedHolds
      <4>2. CASE ~(tracked[i] > 0)
        <5> DEFINE t == [tracked EXCEPT ![i] = 1]
        <5>1. tracked' = t \/ \E k \in JobIds : tracked' = [t EXCEPT ![k] = 0]
          BY <3>2, <4>2 DEF RecordFailure, EnforceTrackerLimit
        <5> QED
          BY <5>1 DEF TrackedHolds
      <4> QED
        BY <4>1, <4>2
    <3> QED
      BY <3>1, <3>2, <1>4 DEF Failed
  <2>14. TrackedHolds'
    <3> SUFFICES ASSUME NEW k \in JobIds, tracked'[k] > 0
                 PROVE  /\ k \in Used' /\ tracked'[k] <= job'[k].made
                        /\ job'[k].state = "active" => tracked'[k] < job'[k].made
      BY <2>13 DEF TrackedHolds
    <3>1. CASE k = i
      <4>1. job'[i] = row
        BY <2>1 DEF JobRowsHold
      <4>2. tracked[i] \in Nat /\ tracked[i] > 0 => tracked[i] < job[i].made
        BY <2>1 DEF TrackedHolds
      <4>3. tracked'[i] <= job[i].made
        BY <2>3, <2>4, <2>13, <4>2 DEF TrackedHolds
      <4> QED
        BY <2>2, <2>5, <2>8, <3>1, <4>1, <4>3
    <3>2. CASE k # i
      <4>1. job'[k] = job[k] /\ tracked'[k] = tracked[k]
        BY <2>1, <2>13, <3>2 DEF JobRowsHold
      <4> QED
        BY <2>8, <4>1 DEF TrackedHolds
    <3> QED
      BY <3>1, <3>2
  <2> QED
    BY <2>1, <2>8, <2>12, <2>14
<1>5. CASE CrashBeforeHandOver(i)
  <2>1. JobRowsHold' /\ JobsOnlyGrow /\ Used' = Used
    BY <1>5, SameJobs DEF CrashBeforeHandOver
  <2>2. handing' \subseteq Used' /\ jobFaults' \in 0 .. MaxJobFaults
    BY <1>0, <1>5, <2>1, JobsAssumption DEF CrashBeforeHandOver, JobFault
  <2>3. FailuresHold' /\ AdminsHold' /\ RetriesLoseNothing'
    BY <1>0, <1>5, <2>1, <2>2, KeepsTheRest DEF CrashBeforeHandOver
  <2> QED
    BY <1>5, <2>1, <2>2, <2>3 DEF CrashBeforeHandOver, TrackedHolds
<1>6. CASE ForgetStale(i)
  <2>1. JobRowsHold' /\ JobsOnlyGrow /\ Used' = Used
    BY <1>6, SameJobs DEF ForgetStale
  <2>2. FailuresHold' /\ AdminsHold' /\ RetriesLoseNothing'
    BY <1>0, <1>6, <2>1, KeepsTheRest DEF ForgetStale
  <2>3. TrackedHolds'
    BY <1>6, <2>1 DEF ForgetStale, TrackedHolds
  <2> QED
    BY <1>6, <2>1, <2>2, <2>3 DEF ForgetStale
<1> QED
  BY <1>1, <1>2, <1>3, <1>4, <1>5, <1>6

\* The entry of a job that failed for good, and the row of a failed attempt.
LEMMA TracesKeepJobs ==
  ASSUME JobsInv, NEW i \in JobIds,
         MoveToDeadLetter(i) \/ \E n \in 1 .. Runs : Persist(i, n)
  PROVE  JobsInv'
<1> USE DEF JobsInv
<1>1. JobRowsHold' /\ JobsOnlyGrow /\ Used' = Used
      /\ \A k \in JobIds : QueuedAnew(k)' = QueuedAnew(k)
  BY SameJobs DEF MoveToDeadLetter, Persist
<1>2. UNCHANGED <<job, tracked, admin>>
  BY DEF MoveToDeadLetter, Persist
<1>3. TrackedHolds'
  BY <1>1, <1>2 DEF TrackedHolds
<1>4. CASE MoveToDeadLetter(i)
  <2>1. FailuresHold' /\ UNCHANGED <<failures, jobFaults>>
    BY <1>1, <1>4 DEF MoveToDeadLetter, FailuresHold
  <2>2. AdminsHold'
    BY <1>1, <1>2, <2>1, AdminsStay DEF RowsStay
  <2>3. \A k \in JobIds : letter'[k] = "retried" => letter[k] = "retried"
    BY <1>4 DEF MoveToDeadLetter, FailuresHold
  <2>4. RetriesLoseNothing'
    BY <1>1, <2>1, <2>3 DEF RetriesLoseNothing, Tries
  <2> QED
    BY <1>1, <1>3, <2>1, <2>2, <2>4
<1>5. ASSUME NEW n \in 1 .. Runs, Persist(i, n) PROVE JobsInv'
  <2> DEFINE poison == tracked[i] >= PoisonThreshold
             new == [status |-> IF poison THEN "POISON" ELSE "PENDING",
                     isPoison |-> poison, retries |-> 0]
  <2>1. <<i, n>> \in telling /\ <<i, n>> \in Tries /\ i \in Used
    BY <1>5 DEF Persist, FailuresHold
  <2>2. new \in FailureRows /\ new # NoFailure /\ new.status # "RETRYING"
    <3>1. poison \in BOOLEAN
      OBVIOUS
    <3>2. new.status \in {"POISON", "PENDING"}
      OBVIOUS
    <3> HIDE DEF poison
    <3> QED
      BY <3>1, <3>2 DEF FailureRows, NoFailure
  <2>3. failures' \in {failures, [failures EXCEPT ![<<i, n>>] = new]}
    BY <1>5 DEF Persist
  <2> HIDE DEF new
  <2>4. /\ failures' \in [Tries -> FailureRows \cup {NoFailure}]
        /\ \A t \in Tries : failures'[t] # NoFailure =>
             failures[t] # NoFailure \/ t = <<i, n>>
        /\ \A t \in Tries : failures[t] # NoFailure => failures'[t] # NoFailure
        /\ \A t \in Tries : failures'[t].status = "RETRYING" =>
             failures[t].status = "RETRYING"
    BY <2>2, <2>3 DEF FailuresHold
  <2>5. FailuresHold'
    <3>1. telling' \subseteq telling /\ UNCHANGED <<letter, handing>>
      BY <1>5 DEF Persist
    <3>2. \A t \in Tries : failures'[t] # NoFailure => t[1] \in Used
      BY <2>1, <2>4 DEF FailuresHold
    <3> QED
      BY <1>1, <2>4, <3>1, <3>2 DEF FailuresHold
  <2>6. AdminsHold'
    BY <1>1, <1>2, <2>4, AdminsStay DEF RowsStay
  <2>7. RetriesLoseNothing'
    BY <1>1, <1>5, <2>4 DEF RetriesLoseNothing, Tries, Persist
  <2>8. jobFaults' \in 0 .. MaxJobFaults
    BY <1>5, JobsAssumption DEF Persist, JobFault
  <2> QED
    BY <1>1, <1>3, <2>5, <2>6, <2>7, <2>8
<1> QED
  BY <1>4, <1>5

\* The steps of an administrator's retry.
LEMMA RetriesKeepJobs ==
  ASSUME JobsInv, NEW a \in Admins, AdminRequest(a)
  PROVE  JobsInv'
<1> USE DEF JobsInv
<1>0. handing \subseteq Used /\ \A t \in telling : t \in Tries /\ t[1] \in Used
  BY DEF FailuresHold
<1>1. admin[a] \in Requests \cup {NotCalling} /\ LeadsOn(admin[a])
  BY DEF AdminsHold
\* A step that leaves the jobs, the rows and the letters.
<1>2. ASSUME NEW request \in Requests \cup {NotCalling}, LeadsOn(request),
             Ask(a, request),
             UNCHANGED <<job, letter, handing, telling, failures, tracked>>,
             jobFaults' \in 0 .. MaxJobFaults
      PROVE  JobsInv'
  <2>1. JobRowsHold' /\ JobsOnlyGrow /\ Used' = Used
        /\ \A k \in JobIds : QueuedAnew(k)' = QueuedAnew(k)
    BY <1>2, SameJobs
  <2>2. FailuresHold' /\ RowsStay
    BY <1>2, <2>1 DEF FailuresHold, RowsStay
  <2>3. LeadsOn(request)'
    BY <1>2, <2>1, <2>2, StillLeads
  <2>4. AdminsHold'
    BY <1>2, <2>1, <2>2, <2>3, OneRequestChanges DEF Ask
  <2>5. TrackedHolds' /\ RetriesLoseNothing'
    BY <1>2, <2>1 DEF TrackedHolds, RetriesLoseNothing, Tries
  <2> QED
    BY <1>2, <2>1, <2>2, <2>4, <2>5
\* A step that queues a payload anew.
<1>3. ASSUME NEW k \in Used, NEW i \in JobIds, Enqueued(i, job[k].payload),
             NEW request \in Requests, Ask(a, request),
             UNCHANGED <<letter, handing, telling, failures, tracked, jobFaults>>,
             QueuedAnew(k)' => LeadsOn(request)'
      PROVE  JobsInv'
  <2>1. k \in JobIds /\ job[k] \in JobRows
    BY DEF JobRowsHold, Used
  <2>2. job[k].payload \in Payloads
    BY <2>1 DEF JobRows
  <2>3. /\ JobRowsHold' /\ JobsOnlyGrow /\ Used' = Used \cup {i}
        /\ \A j \in Used : j < i
        /\ job'[i].payload = job[k].payload
    BY <1>3, <2>2, OneJobMore
  <2>4. FailuresHold' /\ RowsStay
    BY <1>0, <1>3, <2>3 DEF FailuresHold, RowsStay
  <2>5. QueuedAnew(k)'
    <3>1. job'[k].payload = job[k].payload /\ i > k /\ i \in Used'
      BY <2>1, <2>3 DEF JobsOnlyGrow, JobIds
    <3> QED
      BY <2>3, <3>1 DEF QueuedAnew
  <2>6. AdminsHold'
    BY <1>3, <2>3, <2>4, <2>5, OneRequestChanges DEF Ask
  <2>7. RetriesLoseNothing'
    <3>1. \A j \in Used : QueuedAnew(j) => QueuedAnew(j)'
      BY <2>3, GrowthKeeps
    <3> QED
      BY <1>3, <3>1 DEF RetriesLoseNothing, FailuresHold, NoFailure
  <2>8. \A j \in Used : job'[j] = job[j]
    BY <1>3 DEF Enqueued, IsNewId, JobRowsHold, Used
  <2>9. TrackedHolds'
    BY <1>3, <2>3, <2>8 DEF TrackedHolds
  <2> QED
    BY <1>3, <2>3, <2>4, <2>6, <2>7, <2>9
<1>4. NotCalling \in Requests \cup {NotCalling} /\ LeadsOn(NotCalling)
  BY DEF LeadsOn, NotCalling
<1>5. CASE FindFailure(a)
  <2>1. PICK t \in Tries :
          /\ failures[t] # NoFailure
          /\ Ask(a, [at |-> "add", row |-> t, retries |-> failures[t].retries])
    BY <1>5 DEF FindFailure
  <2> DEFINE request == [at |-> "add", row |-> t, retries |-> failures[t].retries]
  <2>2. failures[t] \in FailureRows
    BY <2>1 DEF FailuresHold
  <2>3. request \in Requests /\ LeadsOn(request)
    BY <2>1, <2>2 DEF Requests, FailureRows, LeadsOn
  <2> HIDE DEF request
  <2>4. Ask(a, request)
    BY <2>1 DEF request
  <2> QED
    BY <1>2, <1>5, <2>3, <2>4 DEF FindFailure
<1>6. CASE RetryAdd(a)
  <2>1. PICK request : request = [admin[a] EXCEPT !.at = "mark"]
    OBVIOUS
  <2>2. PICK k : k = admin[a].row[1]
    OBVIOUS
  <2>3. PICK i \in JobIds : Enqueued(i, job[k].payload)
    BY <1>6, <2>2 DEF RetryAdd
  <2>4. admin[a].at = "add" /\ Ask(a, request)
        /\ UNCHANGED <<letter, handing, telling, failures, tracked, jobFaults>>
    BY <1>6, <2>1 DEF RetryAdd
  <2>5. admin[a].row \in Tries /\ failures[admin[a].row] # NoFailure
    BY <1>1, <2>4 DEF Requests, NotCalling, LeadsOn
  <2>6. k \in Used
    BY <2>2, <2>5 DEF FailuresHold
  <2>7. /\ request \in Requests /\ request.at = "mark"
        /\ request.row = admin[a].row
    BY <1>1, <2>1, <2>4 DEF Requests, NotCalling
  <2>8. request.row[1] = k /\ failures'[request.row] # NoFailure
    BY <2>2, <2>4, <2>5, <2>7
  <2>9. QueuedAnew(k)' => LeadsOn(request)'
    BY <2>7, <2>8 DEF LeadsOn
  <2> QED
    BY <1>3, <2>3, <2>4, <2>6, <2>7, <2>9
<1>7. CASE RetryMark(a)
  <2>1. PICK t : t = admin[a].row
    OBVIOUS
  <2>2. /\ admin[a].at = "mark" /\ Ask(a, NotCalling) /\ ClearJob(t[1])
        /\ failures' = [failures EXCEPT ![t].status = "RETRYING",
                                        ![t].retries = admin[a].retries + 1]
        /\ UNCHANGED <<job, letter, handing, telling, jobFaults>>
    BY <1>7, <2>1 DEF RetryMark
  <2>3. t \in Tries /\ failures[t] # NoFailure /\ QueuedAnew(t[1])
        /\ admin[a].retries \in Nat
    BY <1>1, <2>1, <2>2 DEF Requests, NotCalling, LeadsOn
  <2>4. failures[t] \in FailureRows /\ t[1] \in JobIds
    BY <2>3 DEF FailuresHold, Used
  <2>5. PICK row : row = [failures[t] EXCEPT !.status = "RETRYING",
                                             !.retries = admin[a].retries + 1]
    OBVIOUS
  <2>6. row \in FailureRows /\ row # NoFailure
    <3>1. PICK n \in Nat : n = admin[a].retries + 1
      BY <2>3
    <3>2. row = [[failures[t] EXCEPT !.status = "RETRYING"] EXCEPT !.retries = n]
      BY <2>4, <2>5, <3>1 DEF FailureRows
    <3> QED
      BY <2>4, <3>2 DEF FailureRows, NoFailure
  <2>7. failures' = [failures EXCEPT ![t] = row]
    BY <2>2, <2>3, <2>5 DEF FailuresHold
  <2>8. JobRowsHold' /\ JobsOnlyGrow /\ Used' = Used
        /\ \A k \in JobIds : QueuedAnew(k)' = QueuedAnew(k)
    BY <2>2, SameJobs
  <2>9. FailuresHold' /\ RowsStay
    BY <2>2, <2>3, <2>6, <2>7, <2>8 DEF FailuresHold, RowsStay
  <2>10. AdminsHold'
    <3>1. LeadsOn(NotCalling)'
      BY DEF LeadsOn, NotCalling
    <3> QED
      BY <1>4, <2>2, <2>8, <2>9, <3>1, OneRequestChanges DEF Ask
  <2>11. RetriesLoseNothing'
    BY <2>2, <2>3, <2>4, <2>7, <2>8 DEF RetriesLoseNothing, FailuresHold, Tries
  <2>12. TrackedHolds'
    BY <2>2, <2>4, <2>8 DEF TrackedHolds, ClearJob
  <2> QED
    BY <2>2, <2>8, <2>9, <2>10, <2>11, <2>12
<1>8. CASE RetryFails(a)
  <2>1. jobFaults' \in 0 .. MaxJobFaults
    BY <1>8, JobsAssumption DEF RetryFails, JobFault
  <2> QED
    BY <1>2, <1>4, <1>8, <2>1 DEF RetryFails
<1>9. CASE FindLetter(a)
  <2>1. PICK i \in JobIds : /\ letter[i] = "kept"
                            /\ Ask(a, [at |-> "readd", letter |-> i])
    BY <1>9 DEF FindLetter
  <2>2. PICK request : request = [at |-> "readd", letter |-> i]
    OBVIOUS
  <2>3. request \in Requests /\ LeadsOn(request) /\ Ask(a, request)
    BY <2>1, <2>2 DEF Requests, LeadsOn, FailuresHold
  <2> QED
    BY <1>2, <1>9, <2>3 DEF FindLetter
<1>10. CASE ReAdd(a)
  <2>1. PICK request : request = [admin[a] EXCEPT !.at = "remove"]
    OBVIOUS
  <2>2. PICK k : k = admin[a].letter
    OBVIOUS
  <2>3. PICK i \in JobIds : Enqueued(i, job[k].payload)
    BY <1>10, <2>2 DEF ReAdd
  <2>4. admin[a].at = "readd" /\ Ask(a, request)
        /\ UNCHANGED <<letter, handing, telling, failures, tracked, jobFaults>>
    BY <1>10, <2>1 DEF ReAdd
  <2>5. k \in Used
    BY <1>1, <2>2, <2>4 DEF LeadsOn
  <2>6. request \in Requests /\ request.at = "remove" /\ request.letter = k
    BY <1>1, <2>1, <2>2, <2>4 DEF Requests, NotCalling
  <2>7. Used \subseteq Used'
    BY <2>3, <2>5, OneJobMore DEF JobRowsHold, Used, JobRows
  <2>8. QueuedAnew(k)' => LeadsOn(request)'
    BY <2>5, <2>6, <2>7 DEF LeadsOn
  <2> QED
    BY <1>3, <2>3, <2>4, <2>5, <2>6, <2>8
<1>11. CASE RemoveLetter(a)
  <2>1. PICK i : i = admin[a].letter
    OBVIOUS
  <2>2. /\ admin[a].at = "remove" /\ Ask(a, NotCalling)
        /\ letter' = [letter EXCEPT ![i] = "retried"]
        /\ UNCHANGED <<job, handing, telling, failures, tracked, jobFaults>>
    BY <1>11, <2>1 DEF RemoveLetter
  <2>3. i \in Used /\ QueuedAnew(i) /\ i \in JobIds
    BY <1>1, <2>1, <2>2 DEF LeadsOn, Used
  <2>4. JobRowsHold' /\ JobsOnlyGrow /\ Used' = Used
        /\ \A k \in JobIds : QueuedAnew(k)' = QueuedAnew(k)
    BY <2>2, SameJobs
  <2>5. FailuresHold' /\ RowsStay
    BY <2>2, <2>3, <2>4 DEF FailuresHold, RowsStay
  <2>6. AdminsHold'
    <3>1. LeadsOn(NotCalling)'
      BY DEF LeadsOn, NotCalling
    <3> QED
      BY <1>4, <2>2, <2>4, <2>5, <3>1, OneRequestChanges DEF Ask
  <2>7. RetriesLoseNothing'
    BY <2>2, <2>3, <2>4 DEF RetriesLoseNothing, FailuresHold, Tries
  <2>8. TrackedHolds'
    BY <2>2, <2>4 DEF TrackedHolds
  <2> QED
    BY <2>2, <2>4, <2>5, <2>6, <2>7, <2>8
<1> QED
  BY <1>5, <1>6, <1>7, <1>8, <1>9, <1>10, <1>11 DEF AdminRequest

\* Every failed job itself once more.
LEMMA RetryAllKeepsJobs ==
  ASSUME JobsInv, NEW i \in JobIds, RetryAll(i)
  PROVE  JobsInv'
<1> USE DEF JobsInv
<1>1. PICK row : row = [job[i] EXCEPT !.state = "waiting"]
  OBVIOUS
<1>2. /\ job[i].state = "failed" /\ job[i].made < Runs
      /\ job' = [job EXCEPT ![i] = row] /\ ClearJob(i)
      /\ failures' = [t \in Tries |->
           IF t[1] = i /\ failures[t] # NoFailure
           THEN [failures[t] EXCEPT !.retries = @ + 1] ELSE failures[t]]
      /\ UNCHANGED <<letter, handing, telling, admin, jobFaults>>
  BY <1>1 DEF RetryAll
<1>3. i \in Used
  BY <1>2 DEF Used, NoEntry
<1>4. job[i] \in JobRows
  BY <1>3 DEF JobRowsHold, Used
<1>5. row \in JobRows /\ row.payload = job[i].payload
      /\ row.state = "waiting" /\ row.made = job[i].made
  BY <1>1, <1>4 DEF JobRows
<1>6. JobRowsHold' /\ JobsOnlyGrow /\ Used' = Used
  BY <1>2, <1>3, <1>5, OneJobChanges
<1>7. ASSUME NEW t \in Tries
      PROVE  /\ failures'[t] \in FailureRows \cup {NoFailure}
             /\ failures'[t] = NoFailure <=> failures[t] = NoFailure
             /\ failures'[t].status = failures[t].status
  <2>1. CASE t[1] = i /\ failures[t] # NoFailure
    <3>1. failures'[t] = [failures[t] EXCEPT !.retries = @ + 1]
      BY <1>2, <2>1
    <3>2. failures[t] \in FailureRows
      BY <2>1 DEF FailuresHold
    <3> QED
      BY <2>1, <3>1, <3>2 DEF FailureRows, NoFailure
  <2>2. CASE ~(t[1] = i /\ failures[t] # NoFailure)
    BY <1>2, <2>2 DEF FailuresHold
  <2> QED
    BY <2>1, <2>2
<1>8. failures' \in [Tries -> FailureRows \cup {NoFailure}]
  BY <1>2, <1>7
<1>9. FailuresHold' /\ RowsStay
  BY <1>2, <1>6, <1>7, <1>8 DEF FailuresHold, RowsStay
<1>10. AdminsHold'
  BY <1>2, <1>6, <1>9, AdminsStay
<1>11. RetriesLoseNothing'
  <2>1. \A j \in Used : QueuedAnew(j) => QueuedAnew(j)'
    BY <1>6, GrowthKeeps
  <2> QED
    BY <1>2, <1>7, <2>1 DEF RetriesLoseNothing, FailuresHold, NoFailure
<1>12. TrackedHolds'
  BY <1>2, <1>6 DEF TrackedHolds, ClearJob, JobRowsHold
<1> QED
  BY <1>2, <1>6, <1>9, <1>10, <1>11, <1>12

\* ... every step keeps it,
LEMMA JobsStepHolds == JobsInv /\ [JobsNext]_jobsVars => JobsInv'
<1> SUFFICES ASSUME JobsInv, [JobsNext]_jobsVars PROVE JobsInv'
  OBVIOUS
<1>1. CASE UNCHANGED jobsVars
  <2>1. JobRowsHold' /\ JobsOnlyGrow /\ Used' = Used
        /\ \A k \in JobIds : QueuedAnew(k)' = QueuedAnew(k)
    BY <1>1, SameJobs DEF jobsVars, JobsInv
  <2>2. FailuresHold' /\ AdminsHold' /\ RetriesLoseNothing'
    BY <1>1, <2>1, KeepsTheRest DEF jobsVars, JobsInv, FailuresHold
  <2> QED
    BY <1>1, <2>1, <2>2 DEF jobsVars, JobsInv, TrackedHolds
<1> QED
  BY <1>1, WorkersKeepJobs, TracesKeepJobs, RetriesKeepJobs, RetryAllKeepsJobs
  DEF JobsNext

\* ... and it implies what is to be shown of this part.
LEMMA JobsConclusion == JobsInv => RetriesLoseNothing /\ JobsTypeOK
<1> SUFFICES ASSUME JobsInv PROVE RetriesLoseNothing /\ JobsTypeOK
  OBVIOUS
<1>1. \A i \in JobIds : job[i] \in JobRows \cup {NoEntry}
  BY DEF JobsInv, JobRowsHold
<1>2. \A i \in JobIds : tracked[i] \in 0 .. Runs
  <2>1. Runs \in Nat
    BY JobsAssumption DEF Runs
  <2> SUFFICES ASSUME NEW i \in JobIds, tracked[i] > 0 PROVE tracked[i] \in 0 .. Runs
    BY <2>1 DEF JobsInv, TrackedHolds
  <2>2. i \in Used /\ tracked[i] <= job[i].made
    BY DEF JobsInv, TrackedHolds
  <2>3. job[i] \in JobRows
    BY <1>1, <2>2 DEF Used
  <2>4. job[i].made \in 0 .. Runs
    BY <2>3 DEF JobRows
  <2> QED
    BY <2>1, <2>2, <2>4 DEF JobsInv, TrackedHolds
<1>3. tracked \in [JobIds -> 0 .. Runs]
  BY <1>2 DEF JobsInv, TrackedHolds
<1>4. handing \subseteq JobIds
  BY DEF JobsInv, FailuresHold, Used
<1> QED
  BY <1>1, <1>3, <1>4 DEF JobsInv, JobsTypeOK, FailuresHold, AdminsHold

-----------------------------------------------------------------------------
(***************************************************************************)
(* The webhooks.                                                           *)
(***************************************************************************)
\* endpoint's answer.  An answer under way to the row is one it has given.
PostHolds(p) ==
  /\ p \in Posts
  /\ p.state \in PostSteps \cup {"waiting"} => p.made < PostAttempts
  /\ p.state = "close" => p.answer # "unreachable"
                          /\ (p.answer \in Received => p.answer \in endpoint[p.key])
  /\ p.state = "completed" => endpoint[p.key] # {}

DispatchingHolds ==
  /\ dispatching \in [event : HookEvents \cup {"none"}, left : SUBSET Hooks]
  /\ dispatching.left # {} => dispatching.event \in HookEvents

HooksInv ==
  /\ hook \subseteq Hooks /\ hookFaults \in 0 .. MaxHookFaults
  /\ delivery \in [DeliveryKeys -> DeliveryStatus \cup {NoDelivery}]
  /\ endpoint \in [DeliveryKeys -> SUBSET Received]
  /\ post \in [PostIds -> Posts \cup {NoPost}]
  /\ \A p \in PostIds : post[p] = NoPost \/ PostHolds(post[p])
  /\ DispatchingHolds
  /\ \A k \in DeliveryKeys : delivery[k] = "SUCCESS" => "ok" \in endpoint[k]

\* The invariant of this part holds at first,
LEMMA HooksInitially == HooksInit => HooksInv
<1> SUFFICES ASSUME HooksInit PROVE HooksInv
  OBVIOUS
<1>1. DispatchingHolds
  BY DEF HooksInit, DispatchingHolds, NotDispatching
<1> QED
  BY <1>1, HooksAssumption
  DEF HooksInit, HooksInv, DeliveryStatus, NoDelivery

\* ... and it implies what is to be shown of this part.
LEMMA HooksConclusion == HooksInv => SuccessWasAnswered /\ HooksTypeOK
<1> SUFFICES ASSUME HooksInv PROVE SuccessWasAnswered /\ HooksTypeOK
  OBVIOUS
<1>1. \A p \in PostIds : post[p].state = "completed" => endpoint[post[p].key] # {}
  BY DEF HooksInv, PostHolds, NoPost
<1> QED
  BY <1>1 DEF HooksInv, SuccessWasAnswered, HooksTypeOK, DispatchingHolds

\* A step that changes one post, or adds one, while the answers of the
\* endpoints only become more.
LEMMA OnePostChanges ==
  ASSUME HooksInv, endpoint' \in [DeliveryKeys -> SUBSET Received],
         \A k \in DeliveryKeys : endpoint[k] \subseteq endpoint'[k],
         NEW p \in PostIds, NEW row \in Posts, post' = [post EXCEPT ![p] = row],
         row.state \in PostSteps \cup {"waiting"} => row.made < PostAttempts,
         row.state = "close" =>
           /\ row.answer # "unreachable"
           /\ row.answer \in Received => row.answer \in endpoint'[row.key],
         row.state = "completed" => endpoint'[row.key] # {}
  PROVE  /\ post' \in [PostIds -> Posts \cup {NoPost}]
         /\ \A q \in PostIds : post'[q] = NoPost \/ PostHolds(post[q])'
<1>1. post' \in [PostIds -> Posts \cup {NoPost}]
  BY DEF HooksInv
<1>2. post'[p] = row /\ PostHolds(post[p])'
  BY DEF HooksInv, PostHolds
<1>3. ASSUME NEW q \in PostIds, q # p
      PROVE  post'[q] = NoPost \/ PostHolds(post[q])'
  <2>1. post'[q] = post[q]
    BY <1>3 DEF HooksInv
  <2>2. CASE post[q] = NoPost
    BY <2>1, <2>2
  <2>3. CASE PostHolds(post[q])
    <3>1. post[q].key \in DeliveryKeys
      BY <2>3 DEF PostHolds, Posts
    <3> QED
      BY <2>1, <2>3, <3>1 DEF PostHolds
  <2> QED
    BY <2>2, <2>3 DEF HooksInv
<1> QED
  BY <1>1, <1>2, <1>3

\* A post that is added waits, or looks for its row.
LEMMA NewPostHolds ==
  ASSUME HooksInv, NEW p \in PostIds, NEW key \in DeliveryKeys,
         NEW isJob \in BOOLEAN, NEW state \in {"waiting", "find"},
         NewPost(p, key, isJob, state), UNCHANGED endpoint
  PROVE  /\ post' \in [PostIds -> Posts \cup {NoPost}]
         /\ \A q \in PostIds : post'[q] = NoPost \/ PostHolds(post[q])'
<1>1. PICK row : row = [state |-> state, key |-> key, isJob |-> isJob,
                        made |-> 0, found |-> FALSE, answer |-> "ok",
                        stalled |-> FALSE]
  OBVIOUS
<1>2. PostAttempts \in Nat /\ 0 < PostAttempts
  BY HooksAssumption
<1>3. row \in Posts /\ row.made = 0 /\ row.state = state
  BY <1>1, <1>2 DEF Posts, PostSteps, Answers
<1>4. post' = [post EXCEPT ![p] = row]
  BY <1>1 DEF NewPost
<1> QED
  BY <1>2, <1>3, <1>4, OnePostChanges DEF HooksInv

\* The steps of the owners and of dispatchEvent.
LEMMA RequestsKeepHooks ==
  ASSUME HooksInv,
         \/ WebhookRequest \/ DispatchFails
         \/ \E e \in HookEvents : DispatchEvent(e)
         \/ \E p \in PostIds, h \in Hooks : AddDelivery(p, h)
  PROVE  HooksInv'
<1>1. ASSUME NEW h \in Hooks, CreateWebhook(h) PROVE HooksInv'
  BY <1>1 DEF CreateWebhook, HooksInv, PostHolds, DispatchingHolds
<1>2. ASSUME NEW h \in Hooks, DeleteWebhook(h) PROVE HooksInv'
  <2>1. /\ delivery' \in [DeliveryKeys -> DeliveryStatus \cup {NoDelivery}]
        /\ \A k \in DeliveryKeys : delivery'[k] = "SUCCESS" => delivery[k] = "SUCCESS"
    BY <1>2 DEF DeleteWebhook, HooksInv, NoDelivery
  <2> QED
    BY <1>2, <2>1 DEF DeleteWebhook, HooksInv, PostHolds, DispatchingHolds
<1>3. ASSUME NEW p \in PostIds, NEW h \in Hooks, TestWebhook(p, h)
      PROVE  HooksInv'
  <2>1. <<h, "TEST">> \in DeliveryKeys
    BY DEF DeliveryKeys
  <2>2. NewPost(p, <<h, "TEST">>, FALSE, "find")
        /\ UNCHANGED <<hook, delivery, dispatching, endpoint, hookFaults>>
    BY <1>3 DEF TestWebhook
  <2>3. /\ post' \in [PostIds -> Posts \cup {NoPost}]
        /\ \A q \in PostIds : post'[q] = NoPost \/ PostHolds(post[q])'
    BY <2>1, <2>2, NewPostHolds
  <2> QED
    BY <2>2, <2>3 DEF HooksInv, DispatchingHolds
<1>4. ASSUME NEW p \in PostIds, NEW k \in DeliveryKeys, ReplayDelivery(p, k)
      PROVE  HooksInv'
  <2>1. NewPost(p, k, TRUE, "waiting")
        /\ UNCHANGED <<hook, delivery, dispatching, endpoint, hookFaults>>
    BY <1>4 DEF ReplayDelivery
  <2>2. /\ post' \in [PostIds -> Posts \cup {NoPost}]
        /\ \A q \in PostIds : post'[q] = NoPost \/ PostHolds(post[q])'
    BY <2>1, NewPostHolds
  <2> QED
    BY <2>1, <2>2 DEF HooksInv, DispatchingHolds
<1>5. CASE DispatchFails
  BY <1>5, HooksAssumption
  DEF DispatchFails, HookFault, HooksInv, PostHolds, DispatchingHolds,
      NotDispatching
<1>6. ASSUME NEW e \in HookEvents, DispatchEvent(e) PROVE HooksInv'
  <2>1. DispatchingHolds'
    BY <1>6 DEF DispatchEvent, DispatchingHolds, HooksInv
  <2> QED
    BY <1>6, <2>1 DEF DispatchEvent, HooksInv, PostHolds
<1>7. ASSUME NEW p \in PostIds, NEW h \in Hooks, AddDelivery(p, h)
      PROVE  HooksInv'
  <2>1. h \in dispatching.left /\ dispatching.event \in HookEvents
    BY <1>7 DEF AddDelivery, HooksInv, DispatchingHolds
  <2>2. PICK key \in DeliveryKeys : key = <<h, dispatching.event>>
    BY <2>1 DEF DeliveryKeys
  <2>3. NewPost(p, key, TRUE, "waiting")
        /\ UNCHANGED <<hook, delivery, endpoint, hookFaults>>
    BY <1>7, <2>2 DEF AddDelivery
  <2>4. /\ post' \in [PostIds -> Posts \cup {NoPost}]
        /\ \A q \in PostIds : post'[q] = NoPost \/ PostHolds(post[q])'
    BY <2>3, NewPostHolds
  <2>5. DispatchingHolds'
    BY <1>7, <2>1 DEF AddDelivery, HooksInv, DispatchingHolds, NotDispatching
  <2> QED
    BY <2>3, <2>4, <2>5 DEF HooksInv
<1> QED
  BY <1>1, <1>2, <1>3, <1>4, <1>5, <1>6, <1>7 DEF WebhookRequest

\* What the steps of a delivery leave of its post is of the type.
LEMMA EndedHolds ==
  ASSUME HooksInv, NEW p \in PostIds, post[p].state \in PostSteps,
         NEW row, row = Ended(p)
  PROVE  /\ row \in Posts /\ row.state \in {"waiting", "failed", "buried"}
         /\ row.state = "waiting" => row.made < PostAttempts
<1>1. post[p] \in Posts /\ post[p].made < PostAttempts
  BY DEF HooksInv, PostHolds, PostSteps, NoPost
<1>2. post[p].made \in Nat /\ PostAttempts \in Nat
  BY <1>1, HooksAssumption DEF Posts
<1>3. PICK made \in 0 .. PostAttempts : made = post[p].made + 1
  BY <1>1, <1>2
<1>4. CASE ~post[p].isJob
  BY <1>1, <1>4 DEF Ended, Posts
<1>5. CASE post[p].isJob
  <2>1. PICK state \in {"waiting", "buried"} :
          state = IF made < PostAttempts THEN "waiting" ELSE "buried"
    OBVIOUS
  <2>2. row = [[post[p] EXCEPT !.made = made] EXCEPT !.state = state]
    BY <1>1, <1>3, <1>5, <2>1 DEF Ended, Posts
  <2>3. row \in Posts /\ row.state = state /\ row.made = made
    BY <1>1, <2>2 DEF Posts
  <2> QED
    BY <2>1, <2>3
<1> QED
  BY <1>4, <1>5

\* Such a step keeps the invariant if what it writes to the row of its
\* delivery is no SUCCESS the endpoint has not answered.
LEMMA OnePostKeepsHooks ==
  ASSUME HooksInv, endpoint' \in [DeliveryKeys -> SUBSET Received],
         \A k \in DeliveryKeys : endpoint[k] \subseteq endpoint'[k],
         NEW p \in PostIds, NEW row \in Posts, post' = [post EXCEPT ![p] = row],
         row.state \in PostSteps \cup {"waiting"} => row.made < PostAttempts,
         row.state = "close" =>
           /\ row.answer # "unreachable"
           /\ row.answer \in Received => row.answer \in endpoint'[row.key],
         row.state = "completed" => endpoint'[row.key] # {},
         NEW key \in DeliveryKeys, NEW says \in DeliveryStatus,
         \/ UNCHANGED delivery
         \/ /\ delivery' = [delivery EXCEPT ![key] = says]
            /\ says = "SUCCESS" => "ok" \in endpoint'[key],
         UNCHANGED <<hook, dispatching>>, hookFaults' \in 0 .. MaxHookFaults
  PROVE  HooksInv'
<1>1. /\ post' \in [PostIds -> Posts \cup {NoPost}]
      /\ \A q \in PostIds : post'[q] = NoPost \/ PostHolds(post[q])'
  BY OnePostChanges
<1>2. /\ delivery' \in [DeliveryKeys -> DeliveryStatus \cup {NoDelivery}]
      /\ \A k \in DeliveryKeys : delivery'[k] = "SUCCESS" => "ok" \in endpoint'[k]
  BY DEF HooksInv
<1>3. DispatchingHolds'
  BY DEF HooksInv, DispatchingHolds
<1> QED
  BY <1>1, <1>2, <1>3 DEF HooksInv

\* A post that keeps to its delivery keeps the invariant.
LEMMA SamePostKeepsHooks ==
  ASSUME HooksInv, NEW p \in PostIds, NEW row \in Posts,
         post' = [post EXCEPT ![p] = row],
         row.state \in PostSteps \cup {"waiting"} => row.made < PostAttempts,
         row.state # "close",
         row.state = "completed" => endpoint[row.key] # {},
         NEW key \in DeliveryKeys,
         \/ UNCHANGED delivery
         \/ \E says \in {"PENDING", "FAILED"} :
              delivery' = [delivery EXCEPT ![key] = says],
         UNCHANGED <<hook, dispatching, endpoint>>,
         hookFaults' \in 0 .. MaxHookFaults
  PROVE  HooksInv'
<1>1. PICK says \in {"PENDING", "FAILED"} :
        \/ UNCHANGED delivery
        \/ delivery' = [delivery EXCEPT ![key] = says]
  OBVIOUS
<1>2. says \in DeliveryStatus /\ says # "SUCCESS"
  BY DEF DeliveryStatus
<1>3. endpoint' \in [DeliveryKeys -> SUBSET Received]
      /\ \A k \in DeliveryKeys : endpoint[k] \subseteq endpoint'[k]
  BY DEF HooksInv
<1> QED
  BY <1>1, <1>2, <1>3, OnePostKeepsHooks

\* Sending a post, answered or not, keeps it.
LEMMA DeliveriesKeepHooks ==
  ASSUME HooksInv, NEW p \in PostIds, DeliverWebhook(p) \/ DeliveryStalls(p)
  PROVE  HooksInv'
<1>0. post[p] \in Posts /\ PostHolds(post[p]) /\ post[p].key \in DeliveryKeys
  <2>1. post[p].state \in PostSteps \cup {"waiting"}
    BY DEF DeliverWebhook, DeliveryStalls, TakeDelivery, FindDelivery,
           OpenDelivery, PostPayload, CloseDelivery, Rethrow, PostSteps
  <2>2. PostHolds(post[p])
    BY <2>1 DEF HooksInv, NoPost, PostSteps
  <2> QED
    BY <2>2 DEF PostHolds, Posts
<1>k. PICK key \in DeliveryKeys : key = post[p].key
  BY <1>0
<1>b. hookFaults \in 0 .. MaxHookFaults
  BY DEF HooksInv
<1>1. CASE TakeDelivery(p)
  <2>1. PICK row : row = [post[p] EXCEPT !.state = "find"]
    OBVIOUS
  <2>2. row \in Posts /\ row.state = "find" /\ row.made = post[p].made
    BY <1>0, <2>1 DEF Posts, PostSteps
  <2>3. post[p].made < PostAttempts
    BY <1>0, <1>1 DEF PostHolds, TakeDelivery
  <2> QED
    BY <1>1, <1>b, <1>k, SamePostKeepsHooks, <2>1, <2>2, <2>3 DEF TakeDelivery
<1>2. CASE FindDelivery(p)
  <2>1. PICK state \in {"completed", "open"} : state =
          IF delivery[post[p].key] = "SUCCESS" THEN "completed" ELSE "open"
    OBVIOUS
  <2>2. PICK found \in BOOLEAN : found = (delivery[post[p].key] # NoDelivery)
    OBVIOUS
  <2>3. PICK row : row = [[post[p] EXCEPT !.state = state] EXCEPT !.found = found]
    OBVIOUS
  <2>4. row \in Posts /\ row.state = state /\ row.made = post[p].made
        /\ row.key = post[p].key
    BY <1>0, <2>3 DEF Posts, PostSteps
  <2>5. post' = [post EXCEPT ![p] = row]
    BY <1>0, <1>2, <2>1, <2>2, <2>3 DEF FindDelivery, HooksInv, Posts
  <2>6. post[p].made < PostAttempts
    BY <1>0, <1>2 DEF PostHolds, FindDelivery, PostSteps
  <2>7. state = "completed" => endpoint[post[p].key] # {}
    BY <1>0, <2>1 DEF HooksInv
  <2> QED
    BY <1>2, <1>b, <1>k, SamePostKeepsHooks, <2>4, <2>5, <2>6, <2>7 DEF FindDelivery
<1>3. CASE OpenDelivery(p)
  <2>1. CASE CanSave(post[p].key, post[p].found)
    <3>1. PICK row : row = [post[p] EXCEPT !.state = "post"]
      OBVIOUS
    <3>2. row \in Posts /\ row.state = "post" /\ row.made = post[p].made
      BY <1>0, <3>1 DEF Posts, PostSteps
    <3>3. post[p].made < PostAttempts
      BY <1>0, <1>3 DEF PostHolds, OpenDelivery, PostSteps
    <3>4. post' = [post EXCEPT ![p] = row]
          /\ delivery' = [delivery EXCEPT ![post[p].key] = "PENDING"]
      BY <1>3, <2>1, <3>1 DEF OpenDelivery
    <3> QED
      BY <1>3, <1>b, <1>k, SamePostKeepsHooks, <3>2, <3>3, <3>4 DEF OpenDelivery
  <2>2. CASE ~CanSave(post[p].key, post[p].found)
    <3>1. PICK row : row = Ended(p)
      OBVIOUS
    <3>2. /\ row \in Posts /\ row.state \in {"waiting", "failed", "buried"}
          /\ row.state = "waiting" => row.made < PostAttempts
      BY <1>3, <3>1, EndedHolds DEF OpenDelivery, PostSteps
    <3>3. post' = [post EXCEPT ![p] = row] /\ UNCHANGED delivery
      BY <1>3, <2>2, <3>1 DEF OpenDelivery
    <3> QED
      BY <1>3, <1>b, <1>k, SamePostKeepsHooks, <3>2, <3>3 DEF OpenDelivery, PostSteps
  <2> QED
    BY <2>1, <2>2
<1>4. CASE PostPayload(p)
  <2>1. PICK reply \in Answers :
          /\ post' = [post EXCEPT ![p].answer = reply,
               ![p].state = IF reply = "unreachable" THEN "rethrow" ELSE "close"]
          /\ endpoint' = [endpoint EXCEPT
               ![post[p].key] = @ \cup ({reply} \cap Received)]
    BY <1>4 DEF PostPayload
  <2>2. PICK state \in {"rethrow", "close"} :
          state = IF reply = "unreachable" THEN "rethrow" ELSE "close"
    OBVIOUS
  <2>3. PICK row : row = [[post[p] EXCEPT !.answer = reply] EXCEPT !.state = state]
    OBVIOUS
  <2>4. row \in Posts /\ row.state = state /\ row.made = post[p].made
        /\ row.key = post[p].key /\ row.answer = reply
    BY <1>0, <2>3 DEF Posts, PostSteps
  <2>5. post' = [post EXCEPT ![p] = row]
    BY <1>0, <2>1, <2>2, <2>3 DEF HooksInv, Posts
  <2>6. post[p].made < PostAttempts
    BY <1>0, <1>4 DEF PostHolds, PostPayload, PostSteps
  <2>7. /\ endpoint' \in [DeliveryKeys -> SUBSET Received]
        /\ \A k \in DeliveryKeys : endpoint[k] \subseteq endpoint'[k]
        /\ reply \in Received => reply \in endpoint'[post[p].key]
    BY <1>0, <2>1 DEF HooksInv
  <2>8. "FAILED" \in DeliveryStatus
    BY DEF DeliveryStatus
  <2> QED
    BY <1>4, <1>b, <1>k, OnePostKeepsHooks, <2>2, <2>4, <2>5, <2>6, <2>7, <2>8
    DEF PostPayload
<1>5. CASE CloseDelivery(p)
  <2>2. PICK saved \in BOOLEAN : saved <=> CanSave(key, TRUE)
    BY Zenon
  <2>3. PICK state \in {"rethrow", "completed"} : state =
          IF ~saved \/ post[p].answer = "error" THEN "rethrow" ELSE "completed"
    OBVIOUS
  <2>4. PICK row : row = [post[p] EXCEPT !.state = state]
    OBVIOUS
  <2>5. row \in Posts /\ row.state = state /\ row.made = post[p].made
        /\ row.key = post[p].key
    BY <1>0, <2>4 DEF Posts, PostSteps
  <2>6. post' = [post EXCEPT ![p] = row]
        /\ delivery' \in {delivery, [delivery EXCEPT ![key] = StatusOf(post[p].answer)]}
    BY <1>5, <1>k, <2>2, <2>3, <2>4 DEF CloseDelivery
  <2>7. post[p].made < PostAttempts /\ post[p].answer # "unreachable"
        /\ (post[p].answer \in Received => post[p].answer \in endpoint[post[p].key])
    BY <1>0, <1>5 DEF PostHolds, CloseDelivery, PostSteps
  <2>8. state = "completed" => endpoint[post[p].key] # {}
    BY <1>0, <2>3, <2>7 DEF Posts, Answers, Received
  <2>9. PICK says : says = StatusOf(post[p].answer)
    OBVIOUS
  <2>10. says \in DeliveryStatus /\ (says = "SUCCESS" => "ok" \in endpoint[post[p].key])
    BY <2>7, <2>9 DEF StatusOf, DeliveryStatus, Received
  <2>11. endpoint' \in [DeliveryKeys -> SUBSET Received]
         /\ \A k \in DeliveryKeys : endpoint[k] \subseteq endpoint'[k]
    BY <1>5 DEF CloseDelivery, HooksInv
  <2> QED
    BY <1>5, <1>b, <1>k, OnePostKeepsHooks, <2>3, <2>5, <2>6, <2>7, <2>8, <2>9,
       <2>10, <2>11
    DEF CloseDelivery
<1>6. CASE Rethrow(p)
  <2>1. PICK row : row = Ended(p)
    OBVIOUS
  <2>2. /\ row \in Posts /\ row.state \in {"waiting", "failed", "buried"}
        /\ row.state = "waiting" => row.made < PostAttempts
    BY <1>6, <2>1, EndedHolds DEF Rethrow, PostSteps
  <2>3. post' = [post EXCEPT ![p] = row]
        /\ delivery' \in {delivery, [delivery EXCEPT ![post[p].key] = "FAILED"]}
    BY <1>6, <2>1 DEF Rethrow
  <2> QED
    BY <1>6, <1>b, <1>k, SamePostKeepsHooks, <2>2, <2>3 DEF Rethrow, PostSteps
<1>7. CASE DeliveryStalls(p)
  <2>1. PICK state \in {"waiting", "failed"} : state =
          IF post[p].isJob /\ ~post[p].stalled THEN "waiting" ELSE "failed"
    OBVIOUS
  <2>2. PICK row : row = [[post[p] EXCEPT !.stalled = TRUE] EXCEPT !.state = state]
    OBVIOUS
  <2>3. row \in Posts /\ row.state = state /\ row.made = post[p].made
    BY <1>0, <2>2 DEF Posts
  <2>4. post' = [post EXCEPT ![p] = row]
    BY <1>0, <1>7, <2>1, <2>2 DEF DeliveryStalls, HooksInv, Posts
  <2>5. post[p].made < PostAttempts
    BY <1>0, <1>7 DEF PostHolds, DeliveryStalls
  <2>6. hookFaults' \in 0 .. MaxHookFaults
    BY <1>7, <1>b, HooksAssumption DEF DeliveryStalls, HookFault
  <2> QED
    BY <1>7, <1>b, <1>k, SamePostKeepsHooks, <2>3, <2>4, <2>5, <2>6 DEF DeliveryStalls, PostSteps
<1> QED
  BY <1>1, <1>2, <1>3, <1>4, <1>5, <1>6, <1>7 DEF DeliverWebhook

\* ... every step keeps it,
LEMMA HooksStepHolds == HooksInv /\ [HooksNext]_hookVars => HooksInv'
<1> SUFFICES ASSUME HooksInv, [HooksNext]_hookVars PROVE HooksInv'
  OBVIOUS
<1>1. CASE UNCHANGED hookVars
  BY <1>1 DEF hookVars, HooksInv, PostHolds, DispatchingHolds
<1> QED
  BY <1>1, RequestsKeepHooks, DeliveriesKeepHooks DEF HooksNext

-----------------------------------------------------------------------------
(***************************************************************************)
(* The cache of responses.                                                 *)
(***************************************************************************)
\* its own age, and an entry by no more than a request may take and the time it
\* has been there.
CachingInv ==
  /\ CachingTypeOK
  /\ \A r \in Readers : reader[r].at = "fill" => reader[r].says <= reader[r].age
  /\ cached.left > 0 => cached.says <= TimeoutTicks + CacheTicks - cached.left

\* The invariant of this part holds at first,
LEMMA CachingInitially == CachingInit => CachingInv
<1> SUFFICES ASSUME CachingInit PROVE CachingInv
  OBVIOUS
<1>1. /\ TimeoutTicks \in Nat /\ CacheTicks \in Nat /\ AnswerTicks \in Nat
      /\ MaintenanceTicks \in Nat /\ MaxEffects \in Nat
  BY CachingAssumption
<1>2. /\ Current \in Staleness /\ 0 \in 0 .. CacheTicks
      /\ 0 \in 0 .. TimeoutTicks /\ 0 \in 0 .. AnswerTicks
      /\ 0 \in 0 .. MaintenanceTicks /\ 0 \in 0 .. MaxEffects
  BY <1>1 DEF Current, Staleness, StaleBound
<1> QED
  BY <1>2
  DEF CachingInit, CachingInv, CachingTypeOK, Absent, NotWriting, NotReading

\* ... and it implies what is to be shown of this part.
LEMMA CachingConclusion == CachingInv => StalenessIsBounded /\ CachingTypeOK
<1> SUFFICES ASSUME CachingInv, cached.left > 0 PROVE cached.says <= StaleBound
  BY DEF CachingInv, StalenessIsBounded
<1>1. TimeoutTicks \in Nat /\ CacheTicks \in Nat
  BY CachingAssumption
<1>2. cached.left \in 0 .. CacheTicks /\ cached.says \in Staleness
  BY DEF CachingInv, CachingTypeOK
<1>3. cached.says \in Int
  BY <1>1, <1>2 DEF Staleness, Current, StaleBound
<1> QED
  BY <1>1, <1>2, <1>3 DEF CachingInv, StaleBound

\* What a reader and a writer may be.
ReaderRow == [at : {"none", "read", "fill"}, says : Staleness,
              age : 0 .. TimeoutTicks]
WriterRow == [at : {"none", "look", "run", "left", "store"},
              age : 0 .. TimeoutTicks, found : BOOLEAN]

\* Getting older by a tick, and outdated by a write.
LEMMA OlderAndStaler ==
  /\ \A says \in Staleness : Staler(says) \in Staleness /\ Outdate(says) \in Staleness
  /\ \A says \in Staleness, n \in Nat : says <= n => /\ Outdate(says) <= n
                                                     /\ Staler(says) <= n + 1
  /\ \A w \in WriterRow : Older(w) \in WriterRow
  /\ \A r \in ReaderRow :
       /\ [Older(r) EXCEPT !.says = Staler(@)] \in ReaderRow
       /\ [Older(r) EXCEPT !.says = Staler(@)].at = r.at
       /\ [Older(r) EXCEPT !.says = Staler(@)].says = Staler(r.says)
       /\ r.at # "none" /\ r.age < TimeoutTicks
            => [Older(r) EXCEPT !.says = Staler(@)].age = r.age + 1
<1>1. TimeoutTicks \in Nat /\ CacheTicks \in Nat
  BY CachingAssumption
<1>2. Staleness = -1 .. (CacheTicks + TimeoutTicks + 1)
  BY DEF Staleness, Current, StaleBound
<1>3. /\ \A says \in Staleness :
           Staler(says) \in Staleness /\ Outdate(says) \in Staleness
      /\ \A says \in Staleness, n \in Nat : says <= n => /\ Outdate(says) <= n
                                                     /\ Staler(says) <= n + 1
  BY <1>1, <1>2 DEF Staler, Outdate, Current, StaleBound
<1>4. ASSUME NEW age \in 0 .. TimeoutTicks, age # TimeoutTicks
      PROVE  age + 1 \in 0 .. TimeoutTicks
  BY <1>1, <1>4
<1>5. ASSUME NEW w \in WriterRow PROVE Older(w) \in WriterRow
  <2>1. CASE w.at = "none" \/ w.age = TimeoutTicks
    BY <2>1 DEF Older
  <2>2. CASE ~(w.at = "none" \/ w.age = TimeoutTicks)
    BY <1>4, <2>2 DEF Older, WriterRow
  <2> QED
    BY <2>1, <2>2
<1>6. ASSUME NEW r \in ReaderRow
      PROVE  /\ Older(r) \in ReaderRow /\ Older(r).at = r.at
             /\ Older(r).says = r.says
             /\ r.at # "none" /\ r.age < TimeoutTicks => Older(r).age = r.age + 1
  <2>1. CASE r.at = "none" \/ r.age = TimeoutTicks
    <3>1. r.age < TimeoutTicks => r.age # TimeoutTicks
      BY <1>1 DEF ReaderRow
    <3> QED
      BY <2>1, <3>1 DEF Older
  <2>2. CASE ~(r.at = "none" \/ r.age = TimeoutTicks)
    BY <1>4, <2>2 DEF Older, ReaderRow
  <2> QED
    BY <2>1, <2>2
<1>7. ASSUME NEW r \in ReaderRow, NEW says \in Staleness
      PROVE  /\ [r EXCEPT !.says = says] \in ReaderRow
             /\ [r EXCEPT !.says = says].at = r.at
             /\ [r EXCEPT !.says = says].says = says
             /\ [r EXCEPT !.says = says].age = r.age
  BY DEF ReaderRow
<1>8. ASSUME NEW r \in ReaderRow
      PROVE  /\ [Older(r) EXCEPT !.says = Staler(@)] \in ReaderRow
             /\ [Older(r) EXCEPT !.says = Staler(@)].at = r.at
             /\ [Older(r) EXCEPT !.says = Staler(@)].says = Staler(r.says)
             /\ r.at # "none" /\ r.age < TimeoutTicks
                  => [Older(r) EXCEPT !.says = Staler(@)].age = r.age + 1
  <2>1. PICK older \in ReaderRow : older = Older(r)
    BY <1>6
  <2>2. Staler(r.says) \in Staleness
    BY <1>3 DEF ReaderRow
  <2>3. [Older(r) EXCEPT !.says = Staler(@)] = [older EXCEPT !.says = Staler(r.says)]
    BY <1>6, <2>1
  <2> QED
    BY <1>6, <1>7, <2>1, <2>2, <2>3
<1> QED
  BY <1>3, <1>5, <1>8

\* The parts of the invariant, by the actors that change them.
CachedHolds ==
  /\ cached \in [says : Staleness, left : 0 .. CacheTicks]
  /\ cached.left > 0 => cached.says <= TimeoutTicks + CacheTicks - cached.left

ReadersHold ==
  /\ reader \in [Readers -> ReaderRow]
  /\ \A r \in Readers : reader[r].at = "fill" => reader[r].says <= reader[r].age

WritersHold ==
  /\ writer \in [Writers -> WriterRow]
  /\ answer \in 0 .. AnswerTicks /\ effects \in 0 .. MaxEffects
  /\ maintenance \in [left : 0 .. MaintenanceTicks, passes : BOOLEAN]

\* The invariant falls into what it says of the cache, the readers and the writers.
LEMMA CachingParts == CachingInv <=> CachedHolds /\ ReadersHold /\ WritersHold
  BY DEF CachingInv, CachingTypeOK, CachedHolds, ReadersHold, WritersHold,
         ReaderRow, WriterRow

\* The bounds are natural numbers, and an answer that is current is not stale.
LEMMA CachingNumbers ==
  /\ TimeoutTicks \in Nat /\ CacheTicks \in Nat /\ AnswerTicks \in Nat
  /\ MaintenanceTicks \in Nat /\ MaxEffects \in Nat
  /\ Staleness \subseteq Int /\ Current = -1 /\ Current \in Staleness
  BY CachingAssumption DEF Staleness, StaleBound, Current

\* What a writer changes of its own row.
LEMMA WritesTyped ==
  ASSUME WritersHold, NEW w \in Writers
  PROVE  /\ Leaves(w) => writer' \in [Writers -> WriterRow]
         /\ \A at \in {"none", "look", "run", "left", "store"} :
              Writes(w, at) => writer' \in [Writers -> WriterRow]
<1>1. NotWriting \in WriterRow
  BY CachingNumbers DEF NotWriting, WriterRow
<1>2. \A row \in WriterRow, at \in {"none", "look", "run", "left", "store"} :
        [row EXCEPT !.at = at] \in WriterRow
  BY DEF WriterRow
<1>3. writer[w] \in WriterRow /\ writer \in [Writers -> WriterRow]
  BY DEF WritersHold
<1>4. \A at \in {"none", "look", "run", "left", "store"} :
        Writes(w, at) => writer' \in [Writers -> WriterRow]
  BY <1>2, <1>3 DEF Writes
<1> QED
  BY <1>1, <1>3, <1>4 DEF Leaves

\* A handler that writes makes what was read before one effect older.
LEMMA HandlerStep ==
  ASSUME CachedHolds, ReadersHold, WritersHold, NEW w \in Writers, RunHandler(w)
  PROVE  CachedHolds' /\ ReadersHold' /\ WritersHold'
<1>1. writer' \in [Writers -> WriterRow] /\ UNCHANGED <<answer, maintenance>>
  BY WritesTyped DEF RunHandler
<1>2. effects' \in 0 .. MaxEffects
  BY CachingNumbers DEF RunHandler, WritersHold
<1>3. WritersHold'
  BY <1>1, <1>2 DEF WritersHold
<1>4. CASE UNCHANGED <<cached, effects, reader>>
  BY <1>3, <1>4 DEF CachedHolds, ReadersHold
<1>5. CASE cached' = [cached EXCEPT !.says = Outdate(@)]
           /\ reader' = [r \in Readers |->
                IF reader[r].at = "fill"
                THEN [reader[r] EXCEPT !.says = Outdate(@)] ELSE reader[r]]
  <2>1. \A says \in Staleness :
          /\ Outdate(says) \in Staleness
          /\ \A n \in Nat : says <= n => Outdate(says) <= n
    BY OlderAndStaler
  <2>2. CachedHolds'
    <3>1. cached.says \in Staleness /\ cached.left \in 0 .. CacheTicks
      BY DEF CachedHolds
    <3>2. cached'.left = cached.left /\ cached'.says = Outdate(cached.says)
          /\ cached' \in [says : Staleness, left : 0 .. CacheTicks]
      BY <1>5, <2>1, <3>1 DEF CachedHolds
    <3>3. TimeoutTicks + CacheTicks - cached.left \in Nat
      BY <3>1, CachingNumbers
    <3> QED
      BY <2>1, <3>1, <3>2, <3>3 DEF CachedHolds
  <2>3. ReadersHold'
    <3>1. \A row \in ReaderRow :
            /\ [row EXCEPT !.says = Outdate(@)] \in ReaderRow
            /\ row.says <= row.age => Outdate(row.says) <= row.age
      BY <2>1, CachingNumbers DEF ReaderRow
    <3>2. \A r \in Readers : reader[r] \in ReaderRow
      BY DEF ReadersHold
    <3>3. reader' \in [Readers -> ReaderRow]
      BY <1>5, <3>1, <3>2
    <3>4. ASSUME NEW r \in Readers, reader'[r].at = "fill"
          PROVE  reader'[r].says <= reader'[r].age
      <4>1. reader[r].at = "fill"
        BY <1>5, <3>2, <3>4 DEF ReaderRow
      <4>2. reader'[r] = [reader[r] EXCEPT !.says = Outdate(@)]
        BY <1>5, <4>1
      <4>3. reader'[r].says = Outdate(reader[r].says)
            /\ reader'[r].age = reader[r].age
        BY <3>2, <4>2 DEF ReaderRow
      <4> QED
        BY <3>1, <3>2, <4>1, <4>3 DEF ReadersHold
    <3> QED
      BY <3>3, <3>4 DEF ReadersHold
  <2> QED
    BY <1>3, <2>2, <2>3
<1> QED
  BY <1>4, <1>5 DEF RunHandler

\* The steps of a reader keep the ages of what it read and stores.
LEMMA ReadersStep ==
  ASSUME CachedHolds, ReadersHold, NEW r \in Readers,
         ReceiveGet(r) \/ ReadData(r) \/ FillResponse(r)
  PROVE  CachedHolds' /\ ReadersHold'
<1>1. reader[r] \in ReaderRow /\ reader \in [Readers -> ReaderRow]
  BY DEF ReadersHold
<1>2. ASSUME NEW row \in ReaderRow, reader' = [reader EXCEPT ![r] = row],
             row.at = "fill" => row.says <= row.age
      PROVE  ReadersHold'
  BY <1>1, <1>2 DEF ReadersHold
<1>3. CASE ReceiveGet(r)
  <2>1. PICK at \in {"none", "read"} : reader' = [reader EXCEPT ![r].at = at]
    BY <1>3 DEF ReceiveGet
  <2>2. [reader[r] EXCEPT !.at = at] \in ReaderRow
        /\ [reader[r] EXCEPT !.at = at].at = at
    BY <1>1 DEF ReaderRow
  <2>3. ReadersHold'
    BY <1>2, <2>1, <2>2
  <2> QED
    BY <1>3, <2>3 DEF ReceiveGet, CachedHolds
<1>4. CASE ReadData(r)
  <2>1. PICK row : row = [[reader[r] EXCEPT !.at = "fill"] EXCEPT !.says = Current]
    OBVIOUS
  <2>2. reader' = [reader EXCEPT ![r] = row]
    BY <1>1, <1>4, <2>1 DEF ReadData
  <2>3. row \in ReaderRow /\ row.says <= row.age
    <3>1. row \in ReaderRow /\ row.says = Current
      BY <1>1, <2>1, CachingNumbers DEF ReaderRow
    <3> QED
      BY <3>1, CachingNumbers DEF ReaderRow
  <2>4. ReadersHold'
    BY <1>2, <2>2, <2>3
  <2> QED
    BY <1>4, <2>4 DEF ReadData, CachedHolds
<1>5. CASE FillResponse(r)
  <2>1. NotReading \in ReaderRow /\ NotReading.at = "none"
    BY CachingNumbers DEF NotReading, ReaderRow
  <2>2. ReadersHold'
    BY <1>2, <1>5, <2>1 DEF FillResponse
  <2>3. reader[r].says <= TimeoutTicks /\ reader[r].says \in Staleness
    <3>1. reader[r].at = "fill"
      BY <1>5 DEF FillResponse
    <3>2. reader[r].says <= reader[r].age
      BY <3>1 DEF ReadersHold
    <3>3. reader[r].says \in Staleness /\ reader[r].age \in 0 .. TimeoutTicks
      BY <1>1 DEF ReaderRow
    <3>4. reader[r].says \in Int
      BY <3>3, CachingNumbers
    <3> QED
      BY <3>2, <3>3, <3>4, CachingNumbers
  <2>4. CASE cached' = Present(reader[r].says)
    <3>1. cached'.left = CacheTicks /\ cached'.says = reader[r].says
          /\ cached' \in [says : Staleness, left : 0 .. CacheTicks]
      BY <2>3, <2>4, CachingNumbers DEF Present
    <3> QED
      BY <2>2, <2>3, <3>1, CachingNumbers DEF CachedHolds
  <2>5. CASE UNCHANGED cached
    BY <2>2, <2>5 DEF CachedHolds
  <2> QED
    BY <1>5, <2>4, <2>5 DEF FillResponse
<1> QED
  BY <1>3, <1>4, <1>5

\* Time ages what is cached as it ages what is read.
LEMMA CachingTickStep ==
  ASSUME CachedHolds, ReadersHold, WritersHold, CachingTick
  PROVE  CachedHolds' /\ ReadersHold' /\ WritersHold'
<1>1. ReadersHold'
  <2>1. \A r \in Readers : reader[r] \in ReaderRow
    BY DEF ReadersHold
  <2>2. reader' = [r \in Readers |-> [Older(reader[r]) EXCEPT !.says = Staler(@)]]
    BY DEF CachingTick
  <2>3. reader' \in [Readers -> ReaderRow]
    BY <2>1, <2>2, OlderAndStaler
  <2>4. ASSUME NEW r \in Readers, reader'[r].at = "fill"
        PROVE  reader'[r].says <= reader'[r].age
    <3>1. /\ reader'[r].at = reader[r].at
          /\ reader'[r].says = Staler(reader[r].says)
          /\ reader[r].at # "none" /\ reader[r].age < TimeoutTicks
               => reader'[r].age = reader[r].age + 1
      BY <2>1, <2>2, OlderAndStaler
    <3>2. reader[r].age < TimeoutTicks
      BY <2>1, <2>4, <3>1, CachingNumbers DEF CachingTick, Late, ReaderRow
    <3>3. reader[r].says \in Staleness /\ reader[r].age \in Nat
          /\ reader[r].says <= reader[r].age
      BY <2>1, <2>4, <3>1 DEF ReadersHold, ReaderRow
    <3> QED
      BY <2>4, <3>1, <3>2, <3>3, OlderAndStaler
  <2> QED
    BY <2>3, <2>4 DEF ReadersHold
<1>2. WritersHold'
  <2>1. writer' \in [Writers -> WriterRow]
    BY OlderAndStaler DEF CachingTick, WritersHold
  <2>2. \A m \in Nat : \A n \in 0 .. m : Less(n) \in 0 .. m
    BY DEF Less
  <2>3. maintenance' \in [left : 0 .. MaintenanceTicks, passes : BOOLEAN]
    BY <2>2, CachingNumbers DEF CachingTick, WritersHold
  <2>4. answer' \in 0 .. AnswerTicks
    BY <2>2, CachingNumbers DEF CachingTick, WritersHold
  <2> QED
    BY <2>1, <2>3, <2>4 DEF CachingTick, WritersHold
<1>3. CachedHolds'
  <2>1. cached.says \in Staleness /\ cached.left \in 0 .. CacheTicks
    BY DEF CachedHolds
  <2>2. CASE cached.left <= 1
    <3>1. cached' = Absent
      BY <2>2 DEF CachingTick
    <3> QED
      BY <3>1, CachingNumbers DEF CachedHolds, Absent
  <2>3. CASE ~(cached.left <= 1)
    <3>1. cached' = [says |-> Staler(cached.says), left |-> cached.left - 1]
      BY <2>3 DEF CachingTick
    <3>2. cached.left - 1 \in 0 .. CacheTicks
      BY <2>1, <2>3, CachingNumbers
    <3>3. Staler(cached.says) \in Staleness
      BY <2>1, OlderAndStaler
    <3>4. TimeoutTicks + CacheTicks - cached.left \in Nat
      BY <2>1, CachingNumbers
    <3>5. cached.says <= TimeoutTicks + CacheTicks - cached.left
      BY <2>1, <2>3, CachingNumbers DEF CachedHolds
    <3>6. Staler(cached.says) <= TimeoutTicks + CacheTicks - cached.left + 1
      BY <2>1, <3>4, <3>5, OlderAndStaler
    <3>7. Staler(cached.says) <= TimeoutTicks + CacheTicks - (cached.left - 1)
      BY <2>1, <3>3, <3>6, CachingNumbers
    <3> QED
      BY <3>1, <3>2, <3>3, <3>7 DEF CachedHolds
  <2> QED
    BY <2>2, <2>3
<1> QED
  BY <1>1, <1>2, <1>3

\* ... every step keeps it,
LEMMA CachingStepHolds == CachingInv /\ [CachingNext]_cachingVars => CachingInv'
<1> SUFFICES ASSUME CachedHolds, ReadersHold, WritersHold,
                    [CachingNext]_cachingVars
             PROVE  CachedHolds' /\ ReadersHold' /\ WritersHold'
  BY CachingParts DEF CachingInv, CachingTypeOK, CachedHolds, ReadersHold,
     WritersHold, ReaderRow, WriterRow
<1>1. ASSUME NEW w \in Writers, ReceivePost(w) \/ FindAnswer(w) \/ StoreAnswer(w)
      PROVE  CachedHolds' /\ ReadersHold' /\ WritersHold'
  <2>1. UNCHANGED <<cached, reader, maintenance, effects>>
    BY <1>1 DEF ReceivePost, FindAnswer, StoreAnswer
  <2>2. answer' \in 0 .. AnswerTicks
    <3>1. answer' \in {answer, AnswerTicks}
      BY <1>1 DEF ReceivePost, FindAnswer, StoreAnswer
    <3>2. answer \in 0 .. AnswerTicks /\ AnswerTicks \in Nat
      BY CachingNumbers DEF WritersHold
    <3> QED
      BY <3>1, <3>2
  <2>3. writer' \in [Writers -> WriterRow]
    <3>1. CASE FindAnswer(w)
      <4>1. writer[w] \in WriterRow
        BY DEF WritersHold
      <4>2. PICK found \in BOOLEAN :
              writer' = [writer EXCEPT ![w].at = "run", ![w].found = found]
        BY <3>1 DEF FindAnswer
      <4>3. [[writer[w] EXCEPT !.at = "run"] EXCEPT !.found = found] \in WriterRow
        BY <4>1 DEF WriterRow
      <4> QED
        BY <4>2, <4>3 DEF WritersHold
    <3> QED
      BY <1>1, <3>1, WritesTyped DEF ReceivePost, StoreAnswer
  <2> QED
    BY <2>1, <2>2, <2>3 DEF CachedHolds, ReadersHold, WritersHold
<1>2. ASSUME NEW r \in Readers, ReceiveGet(r) \/ ReadData(r) \/ FillResponse(r)
      PROVE  CachedHolds' /\ ReadersHold' /\ WritersHold'
  <2>1. CachedHolds' /\ ReadersHold'
    BY <1>2, ReadersStep
  <2>2. UNCHANGED <<writer, answer, effects, maintenance>>
    BY <1>2 DEF ReceiveGet, ReadData, FillResponse
  <2> QED
    BY <2>1, <2>2 DEF WritersHold
<1>3. CASE SetMaintenance
  <2>1. maintenance' \in [left : 0 .. MaintenanceTicks, passes : BOOLEAN]
    BY <1>3, CachingNumbers DEF SetMaintenance, SetGlobalMaintenanceMode
  <2> QED
    BY <1>3, <2>1 DEF SetMaintenance, CachedHolds, ReadersHold, WritersHold
<1>4. CASE Timeout
  <2>1. UNCHANGED <<cached, answer, maintenance, effects>>
    BY <1>4 DEF Timeout
  <2>2. ASSUME NEW w \in Writers, Writes(w, "left") \/ Leaves(w), UNCHANGED reader
        PROVE  CachedHolds' /\ ReadersHold' /\ WritersHold'
    <3>1. writer' \in [Writers -> WriterRow]
      BY <2>2, WritesTyped
    <3> QED
      BY <2>1, <2>2, <3>1 DEF CachedHolds, ReadersHold, WritersHold
  <2>3. ASSUME NEW r \in Readers, reader' = [reader EXCEPT ![r] = NotReading],
               UNCHANGED writer
        PROVE  CachedHolds' /\ ReadersHold' /\ WritersHold'
    <3>1. NotReading \in ReaderRow /\ NotReading.at # "fill"
      BY CachingNumbers DEF NotReading, ReaderRow
    <3>2. ReadersHold'
      BY <2>3, <3>1 DEF ReadersHold
    <3> QED
      BY <2>1, <2>3, <3>2 DEF CachedHolds, WritersHold
  <2> QED
    BY <1>4, <2>2, <2>3 DEF Timeout
<1>5. CASE UNCHANGED cachingVars
  BY <1>5 DEF cachingVars, CachedHolds, ReadersHold, WritersHold
<1> QED
  BY <1>1, <1>2, <1>3, <1>4, <1>5, HandlerStep, CachingTickStep DEF CachingNext

-----------------------------------------------------------------------------
(***************************************************************************)
(* The push messages.                                                      *)
(***************************************************************************)
\* send to a device has not sent to it, and one that has sent to any succeeds.
PushRowHolds(p, sent) ==
  /\ p.at \in {"none", "waiting"} => sent = 0
  /\ p.at \in {"sending", "marking"} /\ sent > 0 =>
       p.ok \/ (p.at = "marking" /\ p.answer = "sent")
  /\ sent <= 1
RowToSend(p) ==
  p.at \in {"none", "waiting", "sending", "marking"} => p.tries < PushAttempts

PushHolds(j) ==
  /\ RowToSend(pushes[j])
  /\ j \notin doubtful => \A d \in Devices :
       /\ PushRowHolds(pushes[j], delivered[j][d])
       /\ pushes[j].at \in {"sending", "marking"} /\ d \in pushes[j].todo =>
            delivered[j][d] = 0

PushInv == PushTypeOK /\ \A j \in PushJobs : PushHolds(j)

\* The invariant of this part holds at first,
LEMMA PushInitially == PushInit => PushInv
<1> SUFFICES ASSUME PushInit PROVE PushInv
  OBVIOUS
<1>1. NotQueued \in Push /\ NotQueued.at = "none" /\ NotQueued.tries = 0
  BY PushAssumption DEF NotQueued, Push
<1>2. PushTypeOK
  BY <1>1, PushAssumption DEF PushInit, PushTypeOK, DeviceToken
<1>3. ASSUME NEW j \in PushJobs PROVE PushHolds(j)
  <2>1. pushes[j] = NotQueued /\ \A d \in Devices : delivered[j][d] = 0
    BY <1>3 DEF PushInit
  <2> QED
    BY <1>1, <2>1, PushAssumption DEF PushHolds, PushRowHolds, RowToSend
<1> QED
  BY <1>2, <1>3 DEF PushInv

\* ... and it implies what is to be shown of this part.
LEMMA PushConclusion == PushInv => NobodyIsPushedTwice /\ PushTypeOK
<1> SUFFICES ASSUME PushInv, NEW j \in PushJobs, NEW d \in Devices,
                    delivered[j][d] > 1, j \notin doubtful
             PROVE  FALSE
  BY DEF PushInv, NobodyIsPushedTwice
<1>1. delivered[j][d] <= 1 /\ delivered[j][d] \in 0 .. 2
  BY DEF PushInv, PushHolds, PushRowHolds, PushTypeOK
<1> QED
  BY <1>1

\* A step of one job.
LEMMA JobPuts ==
  ASSUME PushInv, NEW j \in PushJobs, NEW row \in Push, Put(j, row),
         RowToSend(row),
         devices' \in [Devices -> DeviceToken], UNCHANGED leaving,
         pushFaults' \in 0 .. MaxPushFaults,
         delivered' \in [PushJobs -> [Devices -> 0 .. 2]],
         \A i \in PushJobs : i # j => delivered'[i] = delivered[i],
         doubtful' \in {doubtful, doubtful \cup {j}},
         j \notin doubtful' => \A d \in Devices :
           /\ PushRowHolds(row, delivered'[j][d])
           /\ row.at \in {"sending", "marking"} /\ d \in row.todo =>
                delivered'[j][d] = 0
  PROVE  PushInv'
<1>1. pushes' \in [PushJobs -> Push] /\ pushes'[j] = row
      /\ \A i \in PushJobs : i # j => pushes'[i] = pushes[i]
  BY DEF Put, PushInv, PushTypeOK
<1>2. PushTypeOK'
  BY <1>1 DEF PushInv, PushTypeOK
<1>3. ASSUME NEW i \in PushJobs PROVE PushHolds(i)'
  <2>1. CASE i = j
    BY <1>1, <2>1 DEF PushHolds
  <2>2. CASE i # j
    <3>1. PushHolds(i) /\ pushes'[i] = pushes[i] /\ delivered'[i] = delivered[i]
      BY <1>1, <2>2 DEF PushInv
    <3>2. i \in doubtful' <=> i \in doubtful
      BY <2>2
    <3> QED
      BY <3>1, <3>2 DEF PushHolds
  <2> QED
    BY <2>1, <2>2
<1> QED
  BY <1>2, <1>3 DEF PushInv

\* The rows of a job as it goes on.
Started(p, todo) ==
  [p EXCEPT !.at = "sending", !.todo = todo, !.ok = FALSE, !.bad = FALSE]
SentTo(p, d, todo, reply) ==
  [p EXCEPT !.at = "marking", !.now = d, !.todo = todo, !.answer = reply]
Marked(p, ok, bad) ==
  [p EXCEPT !.at = "sending", !.now = Nothing, !.answer = Nothing, !.ok = ok,
            !.bad = bad]
PushEnded(p, n, at) == [p EXCEPT !.tries = n, !.at = at]
Queued(u) == [NotQueued EXCEPT !.at = "waiting", !.user = u]
Requeued(u, n) == [NotQueued EXCEPT !.at = "waiting", !.user = u, !.tries = n]

\* What the rows of a push say when it starts,
LEMMA StartedRow ==
  ASSUME NEW p \in Push, NEW todo \in SUBSET Devices
  PROVE  /\ Started(p, todo) \in Push /\ Started(p, todo).at = "sending"
         /\ Started(p, todo).todo = todo /\ Started(p, todo).tries = p.tries
  BY DEF Push, Started

\* ... when it has been sent to a device,
LEMMA SentRow ==
  ASSUME NEW p \in Push, NEW d \in Devices, NEW todo \in SUBSET Devices,
         NEW reply \in {"sent", "failed", "invalid"}
  PROVE  /\ SentTo(p, d, todo, reply) \in Push
         /\ SentTo(p, d, todo, reply).at = "marking"
         /\ SentTo(p, d, todo, reply).todo = todo
         /\ SentTo(p, d, todo, reply).tries = p.tries
         /\ SentTo(p, d, todo, reply).ok = p.ok
         /\ SentTo(p, d, todo, reply).answer = reply
  BY DEF Push, SentTo

\* ... when the device has been marked,
LEMMA MarkedRow ==
  ASSUME NEW p \in Push, NEW ok \in BOOLEAN, NEW bad \in BOOLEAN
  PROVE  /\ Marked(p, ok, bad) \in Push /\ Marked(p, ok, bad).at = "sending"
         /\ Marked(p, ok, bad).todo = p.todo /\ Marked(p, ok, bad).tries = p.tries
         /\ Marked(p, ok, bad).ok = ok
  BY DEF Push, Marked

\* ... when it ends or waits to be tried again,
LEMMA EndedRow ==
  ASSUME NEW p \in Push, NEW n \in 0 .. PushAttempts, NEW at \in {"waiting", "dead"}
  PROVE  /\ PushEnded(p, n, at) \in Push /\ PushEnded(p, n, at).at = at
         /\ PushEnded(p, n, at).tries = n
  BY DEF Push, PushEnded

\* ... when it is queued,
LEMMA QueuedRow ==
  ASSUME NEW u \in PushUsers
  PROVE  Queued(u) \in Push /\ Queued(u).at = "waiting" /\ Queued(u).tries = 0
<1>1. NotQueued \in Push /\ NotQueued.tries = 0
  BY PushAssumption DEF NotQueued, Push
<1> QED
  BY <1>1 DEF Push, Queued

\* ... and when it is queued once more.
LEMMA RequeuedRow ==
  ASSUME NEW u \in PushUsers \cup {Nobody}, NEW n \in 0 .. PushAttempts
  PROVE  /\ Requeued(u, n) \in Push /\ Requeued(u, n).at = "waiting"
         /\ Requeued(u, n).tries = n
<1>1. NotQueued \in Push
  BY PushAssumption DEF NotQueued, Push
<1> QED
  BY <1>1 DEF Push, Requeued

\* Sending to a device keeps the invariant: it has not had the push.
LEMMA SendStep ==
  ASSUME PushInv, NEW j \in PushJobs, NEW d \in Devices, SendToToken(j, d)
  PROVE  PushInv'
<1>1. PICK reply \in {"sent", "failed", "invalid"}, arrives \in BOOLEAN :
       /\ reply = "sent" => arrives
       /\ reply = "invalid" => ~arrives
       /\ IF reply = "sent" THEN UNCHANGED pushFaults ELSE PushFault
       /\ Put(j, [pushes[j] EXCEPT !.at = "marking", !.now = d,
                    !.todo = @ \ {d}, !.answer = reply])
       /\ delivered' = IF arrives /\ delivered[j][d] < 2
                       THEN [delivered EXCEPT ![j][d] = @ + 1] ELSE delivered
       /\ doubtful' = IF reply = "failed" /\ arrives THEN doubtful \cup {j}
                                                      ELSE doubtful
  BY DEF SendToToken
<1>2. /\ pushes[j] \in Push /\ pushes[j].at = "sending" /\ d \in pushes[j].todo
      /\ UNCHANGED <<devices, leaving>>
      /\ devices \in [Devices -> DeviceToken]
  BY DEF SendToToken, PushInv, PushTypeOK
<1>3. PICK p \in Push : p = pushes[j]
  BY <1>2
<1>4. PICK todo \in SUBSET Devices : todo = p.todo \ {d}
  BY DEF Push
<1>5. PICK row \in Push : row = SentTo(p, d, todo, reply)
  BY SentRow
<1>6. /\ row.at = "marking" /\ row.todo = todo /\ row.tries = p.tries
      /\ row.ok = p.ok /\ row.answer = reply
  BY <1>5, SentRow
<1>7. Put(j, row)
  BY <1>1, <1>3, <1>4, <1>5 DEF SentTo
<1>8. RowToSend(row)
  BY <1>2, <1>3, <1>6 DEF PushInv, PushHolds, RowToSend
<1>9. pushFaults' \in 0 .. MaxPushFaults
  BY <1>1, PushAssumption DEF PushFault, PushInv, PushTypeOK
<1>10. delivered \in [PushJobs -> [Devices -> 0 .. 2]]
  BY DEF PushInv, PushTypeOK
<1>11. delivered[j][d] < 2 => delivered[j][d] + 1 \in 0 .. 2
  BY <1>10
<1>12. /\ delivered' \in [PushJobs -> [Devices -> 0 .. 2]]
       /\ \A i \in PushJobs : i # j => delivered'[i] = delivered[i]
       /\ \A e \in Devices : e # d => delivered'[j][e] = delivered[j][e]
       /\ delivered'[j][d] = IF arrives /\ delivered[j][d] < 2
                             THEN delivered[j][d] + 1 ELSE delivered[j][d]
  BY <1>1, <1>10, <1>11
<1>13. ASSUME j \notin doubtful', NEW e \in Devices
       PROVE  /\ PushRowHolds(row, delivered'[j][e])
              /\ e \in row.todo => delivered'[j][e] = 0
  <2>1. j \notin doubtful /\ (arrives => reply = "sent")
    BY <1>1, <1>13
  <2>2. PushHolds(j)
    BY DEF PushInv
  <2>3. CASE e = d
    <3>1. delivered[j][d] = 0 /\ PushRowHolds(p, 0)
      BY <1>2, <1>3, <2>1, <2>2 DEF PushHolds
    <3>2. delivered'[j][d] = IF arrives THEN 1 ELSE 0
      BY <1>12, <3>1
    <3>3. PICK n \in 0 .. 1 : n = delivered'[j][d] /\ (n > 0 => arrives)
      BY <3>2
    <3>4. PushRowHolds(row, n)
      BY <1>6, <2>1, <3>3 DEF PushRowHolds
    <3>5. d \notin row.todo
      BY <1>4, <1>6
    <3> QED
      BY <2>3, <3>3, <3>4, <3>5
  <2>4. CASE e # d
    <3>1. /\ PushRowHolds(p, delivered[j][e])
          /\ e \in p.todo => delivered[j][e] = 0
      BY <1>2, <1>3, <2>1, <2>2 DEF PushHolds
    <3>2. delivered'[j][e] = delivered[j][e] /\ delivered[j][e] \in 0 .. 2
      BY <1>10, <1>12, <2>4
    <3>3. delivered[j][e] > 0 => row.ok
      BY <1>2, <1>3, <1>6, <3>1 DEF PushRowHolds
    <3>4. delivered[j][e] <= 1
      BY <3>1 DEF PushRowHolds
    <3>5. PICK n \in 0 .. 2 :
            /\ n = delivered'[j][e] /\ n = delivered[j][e]
            /\ n > 0 => row.ok
            /\ n <= 1
      BY <3>2, <3>3, <3>4
    <3>6. PushRowHolds(row, n)
      BY <1>6, <3>5 DEF PushRowHolds
    <3>7. e \in row.todo => e \in p.todo
      BY <1>4, <1>6
    <3> QED
      BY <3>1, <3>2, <3>5, <3>6, <3>7
  <2> QED
    BY <2>3, <2>4
<1> QED
  BY <1>1, <1>2, <1>7, <1>8, <1>9, <1>12, <1>13, JobPuts

\* The tokens of devices remain tokens.
LEMMA DeviceTokens ==
  ASSUME devices \in [Devices -> DeviceToken]
  PROVE  /\ \A d : Deactivated(d) \in [Devices -> DeviceToken]
         /\ \A u \in PushUsers, d \in Devices :
              [devices EXCEPT ![d] = [owner |-> u, active |-> TRUE]]
                \in [Devices -> DeviceToken]
<1>1. \A t \in DeviceToken : [t EXCEPT !.active = FALSE] \in DeviceToken
  BY DEF DeviceToken
<1>2. \A u \in PushUsers : [owner |-> u, active |-> TRUE] \in DeviceToken
  BY DEF DeviceToken
<1>3. ASSUME NEW d PROVE Deactivated(d) \in [Devices -> DeviceToken]
  <2>1. Deactivated(d) = [devices EXCEPT ![d] = [devices[d] EXCEPT !.active = FALSE]]
    BY DEF Deactivated
  <2>2. CASE d \in Devices
    <3>1. [devices[d] EXCEPT !.active = FALSE] \in DeviceToken
      BY <1>1, <2>2
    <3> QED
      BY <2>1, <3>1
  <2>3. CASE d \notin Devices
    BY <2>1, <2>3
  <2> QED
    BY <2>2, <2>3
<1>4. ASSUME NEW u \in PushUsers, NEW d \in Devices
      PROVE  [devices EXCEPT ![d] = [owner |-> u, active |-> TRUE]]
               \in [Devices -> DeviceToken]
  BY <1>2
<1> QED
  BY <1>3, <1>4

\* Marking a device keeps it.
LEMMA MarkStep ==
  ASSUME PushInv, NEW j \in PushJobs, MarkDevice(j)
  PROVE  PushInv'
<1>1. PICK p \in Push : p = pushes[j]
  BY DEF PushInv, PushTypeOK
<1>2. p.at = "marking" /\ UNCHANGED <<leaving, delivered, doubtful>>
  BY <1>1 DEF MarkDevice
<1>3. PICK ok \in BOOLEAN : ok = (p.ok \/ p.answer = "sent")
  OBVIOUS
<1>4. PICK bad \in BOOLEAN : Put(j, Marked(p, ok, bad))
  <2>1. /\ ((p.bad \/ p.answer # "sent") \/ FALSE) \in BOOLEAN
        /\ ((p.bad \/ p.answer # "sent") \/ TRUE) \in BOOLEAN
    OBVIOUS
  <2>2. \/ Put(j, Marked(p, ok, (p.bad \/ p.answer # "sent") \/ FALSE))
        \/ Put(j, Marked(p, ok, (p.bad \/ p.answer # "sent") \/ TRUE))
    BY <1>1, <1>3, Zenon DEF MarkDevice, Marked
  <2> QED
    BY <2>1, <2>2
<1>5. PICK row \in Push : row = Marked(p, ok, bad)
  BY MarkedRow
<1>6. /\ row.at = "sending" /\ row.todo = p.todo /\ row.tries = p.tries
      /\ row.ok = ok
  BY <1>5, MarkedRow
<1>7. RowToSend(row)
  BY <1>1, <1>2, <1>6 DEF PushInv, PushHolds, RowToSend
<1>8. devices' \in [Devices -> DeviceToken]
  BY DeviceTokens DEF MarkDevice, PushInv, PushTypeOK
<1>9. pushFaults' \in 0 .. MaxPushFaults
  BY PushAssumption DEF MarkDevice, PushFault, PushInv, PushTypeOK
<1>10. delivered \in [PushJobs -> [Devices -> 0 .. 2]]
  BY DEF PushInv, PushTypeOK
<1>11. ASSUME j \notin doubtful, NEW d \in Devices
       PROVE  /\ PushRowHolds(row, delivered[j][d])
              /\ d \in row.todo => delivered[j][d] = 0
  <2>1. /\ PushRowHolds(p, delivered[j][d])
        /\ d \in p.todo => delivered[j][d] = 0
    BY <1>1, <1>2, <1>11 DEF PushInv, PushHolds
  <2>2. delivered[j][d] > 0 => ok
    BY <1>2, <1>3, <2>1 DEF PushRowHolds
  <2>3. PICK n \in 0 .. 2 : n = delivered[j][d] /\ n <= 1 /\ (n > 0 => row.ok)
    BY <1>6, <1>10, <2>1, <2>2 DEF PushRowHolds
  <2>4. PushRowHolds(row, n)
    BY <1>6, <2>3 DEF PushRowHolds
  <2> QED
    BY <1>6, <2>1, <2>3, <2>4
<1> QED
  BY <1>2, <1>4, <1>5, <1>6, <1>7, <1>8, <1>9, <1>10, <1>11, JobPuts

\* Queueing, starting, finishing and losing a push keep it.
LEMMA PushJobSteps ==
  ASSUME PushInv, NEW j \in PushJobs,
         \/ StartPush(j) \/ FinishPush(j) \/ PushWorkerDies(j)
         \/ \E u \in PushUsers : QueuePush(j, u)
  PROVE  PushInv'
<1>1. PICK p \in Push : p = pushes[j]
  BY DEF PushInv, PushTypeOK
<1>2. /\ devices \in [Devices -> DeviceToken]
      /\ delivered \in [PushJobs -> [Devices -> 0 .. 2]]
      /\ pushFaults \in 0 .. MaxPushFaults /\ PushHolds(j)
      /\ PushAttempts \in Nat \ {0}
  BY PushAssumption DEF PushInv, PushTypeOK
<1>3. CASE StartPush(j)
  <2>1. PICK todo \in SUBSET Devices : todo = ActiveDevices(pushes[j].user)
    BY DEF ActiveDevices
  <2>2. PICK row \in Push : row = Started(p, todo)
    BY StartedRow
  <2>3. row.at = "sending" /\ row.todo = todo /\ row.tries = p.tries
    BY <2>2, StartedRow
  <2>4. Put(j, row) /\ p.at = "waiting"
        /\ UNCHANGED <<devices, leaving, delivered, doubtful, pushFaults>>
    BY <1>1, <1>3, <2>1, <2>2 DEF StartPush, Started
  <2>5. RowToSend(row)
    BY <1>1, <1>2, <2>3, <2>4 DEF PushHolds, RowToSend
  <2>6. ASSUME j \notin doubtful, NEW d \in Devices
        PROVE  /\ PushRowHolds(row, delivered[j][d])
               /\ d \in row.todo => delivered[j][d] = 0
    <3>1. delivered[j][d] = 0
      BY <1>1, <1>2, <2>4, <2>6 DEF PushHolds, PushRowHolds
    <3> QED
      BY <2>3, <3>1 DEF PushRowHolds
  <2> QED
    BY <1>2, <2>4, <2>5, <2>6, JobPuts
<1>4. ASSUME NEW u \in PushUsers, QueuePush(j, u) PROVE PushInv'
  <2>1. PICK row \in Push : row = Queued(u)
    BY QueuedRow
  <2>2. row.at = "waiting" /\ row.tries = 0
    BY <2>1, QueuedRow
  <2>3. Put(j, Queued(u))
    BY <1>4, Zenon DEF QueuePush, Queued
  <2>4. p.at = "none"
        /\ UNCHANGED <<devices, leaving, delivered, doubtful, pushFaults>>
    BY <1>1, <1>4, Zenon DEF QueuePush
  <2>7. Put(j, row)
    BY <2>1, <2>3
  <2>5. RowToSend(row)
    BY <1>2, <2>2 DEF RowToSend
  <2>6. ASSUME j \notin doubtful, NEW d \in Devices
        PROVE  PushRowHolds(row, delivered[j][d])
    <3>1. delivered[j][d] = 0
      BY <1>1, <1>2, <2>4, <2>6 DEF PushHolds, PushRowHolds
    <3> QED
      BY <2>2, <3>1 DEF PushRowHolds
  <2> QED
    BY <1>2, <2>2, <2>4, <2>5, <2>6, <2>7, JobPuts
<1>5. CASE PushWorkerDies(j)
  <2>1. p.user \in PushUsers \cup {Nobody} /\ p.tries \in 0 .. PushAttempts
    BY DEF Push
  <2>2. PICK row \in Push : row = Requeued(p.user, p.tries)
    BY <2>1, RequeuedRow
  <2>3. row.at = "waiting" /\ row.tries = p.tries
    BY <2>1, <2>2, RequeuedRow
  <2>4. /\ Put(j, row) /\ p.at \in {"sending", "marking"}
        /\ UNCHANGED <<devices, leaving, delivered>>
        /\ doubtful' = doubtful \cup {j} /\ PushFault
    BY <1>1, <1>5, <2>2 DEF PushWorkerDies, Requeued
  <2>5. RowToSend(row)
    BY <1>1, <1>2, <2>3, <2>4 DEF PushHolds, RowToSend
  <2>6. pushFaults' \in 0 .. MaxPushFaults
    BY <2>4, PushAssumption DEF PushFault, PushInv, PushTypeOK
  <2> QED
    BY <1>2, <2>4, <2>5, <2>6, JobPuts
<1>6. CASE FinishPush(j)
  <2>1. p.at = "sending" /\ UNCHANGED <<devices, leaving, delivered, doubtful,
                                        pushFaults>>
    BY <1>1, <1>6 DEF FinishPush
  <2>2. CASE ~NeedsRetry(p)
    <3>1. PICK row : row = [p EXCEPT !.at = "done"]
      OBVIOUS
    <3>2. row \in Push /\ row.at = "done" /\ Put(j, row)
      BY <1>1, <1>6, <2>2, <3>1 DEF FinishPush, Push
    <3>3. ASSUME j \notin doubtful, NEW d \in Devices
          PROVE  PushRowHolds(row, delivered[j][d])
      <4>1. PushRowHolds(p, delivered[j][d])
        BY <1>1, <1>2, <3>3 DEF PushHolds
      <4> QED
        BY <3>2, <4>1 DEF PushRowHolds
    <3>4. RowToSend(row)
      BY <3>2 DEF RowToSend
    <3> QED
      BY <1>2, <2>1, <3>2, <3>3, <3>4, JobPuts
  <2>3. CASE NeedsRetry(p)
    <3>1. p.tries < PushAttempts /\ p.tries \in 0 .. PushAttempts
      BY <1>1, <1>2, <2>1 DEF PushHolds, RowToSend, Push
    <3>2. PICK n \in 0 .. PushAttempts : n = p.tries + 1
      BY <1>2, <3>1
    <3>3. PICK at \in {"waiting", "dead"} :
            at = IF n < PushAttempts THEN "waiting" ELSE "dead"
      OBVIOUS
    <3>4. PICK row \in Push : row = PushEnded(p, n, at)
      BY EndedRow
    <3>5. row.at = at /\ row.tries = n
      BY <3>4, EndedRow
    <3>6. Put(j, row)
      BY <1>1, <1>6, <2>3, <3>2, <3>3, <3>4 DEF FinishPush, PushEnded
    <3>7. RowToSend(row)
      BY <3>3, <3>5 DEF RowToSend
    <3>8. ASSUME j \notin doubtful, NEW d \in Devices
          PROVE  PushRowHolds(row, delivered[j][d])
      <4>1. ~p.ok
        BY <2>3 DEF NeedsRetry
      <4>2. delivered[j][d] = 0
        BY <1>1, <1>2, <2>1, <3>8, <4>1 DEF PushHolds, PushRowHolds
      <4> QED
        BY <3>5, <4>2 DEF PushRowHolds
    <3> QED
      BY <1>2, <2>1, <3>3, <3>5, <3>6, <3>7, <3>8, JobPuts
  <2> QED
    BY <2>2, <2>3
<1> QED
  BY <1>3, <1>4, <1>5, <1>6

\* ... every step keeps it,
LEMMA PushStepHolds == PushInv /\ [PushNext]_pushVars => PushInv'
<1> SUFFICES ASSUME PushInv, [PushNext]_pushVars PROVE PushInv'
  OBVIOUS
<1>1. ASSUME devices' \in [Devices -> DeviceToken],
             leaving' \in [PushUsers -> Devices \cup {Nothing}],
             UNCHANGED <<pushes, delivered, doubtful, pushFaults>>
      PROVE  PushInv'
  <2>1. PushTypeOK'
    BY <1>1 DEF PushInv, PushTypeOK
  <2>2. \A j \in PushJobs : PushHolds(j)'
    BY <1>1 DEF PushInv, PushHolds
  <2> QED
    BY <2>1, <2>2 DEF PushInv
<1>2. /\ devices \in [Devices -> DeviceToken]
      /\ leaving \in [PushUsers -> Devices \cup {Nothing}]
  BY DEF PushInv, PushTypeOK
<1>3. ASSUME NEW u \in PushUsers, DeviceTokenRequest(u) PROVE PushInv'
  <2>1. UNCHANGED <<pushes, delivered, doubtful, pushFaults>>
    BY <1>3 DEF DeviceTokenRequest, RegisterToken, FindToken, UnregisterToken
  <2>2. devices' \in [Devices -> DeviceToken]
    BY <1>2, <1>3, DeviceTokens DEF DeviceTokenRequest, RegisterToken, FindToken,
       UnregisterToken
  <2>3. leaving' \in [PushUsers -> Devices \cup {Nothing}]
    BY <1>2, <1>3 DEF DeviceTokenRequest, RegisterToken, FindToken,
       UnregisterToken
  <2> QED
    BY <1>1, <2>1, <2>2, <2>3
<1>4. CASE UNCHANGED pushVars
  BY <1>1, <1>2, <1>4 DEF pushVars
<1> QED
  BY <1>3, <1>4, SendStep, MarkStep, PushJobSteps DEF PushNext

-----------------------------------------------------------------------------
(***************************************************************************)
(* The streams of notifications.                                           *)
(***************************************************************************)
\* every stream that is being opened, or is open, has one.
OpenStreams == {c \in Streams : streams[c] \in {"subscribing", "open"}}
StreamsHold ==
  /\ IsFiniteSet(slots) /\ Cardinality(slots) <= MaxStreams
  /\ OpenStreams \subseteq slots

NotesInv == NotesTypeOK /\ StreamsHold

\* ... and it implies what is to be shown of this part.
LEMMA NotesConclusion == NotesInv => StreamLimitHolds /\ NotesTypeOK
<1> SUFFICES ASSUME NotesInv PROVE StreamLimitHolds
  BY DEF NotesInv
<1>1. Cardinality(OpenStreams) <= Cardinality(slots)
      /\ Cardinality(OpenStreams) \in Nat /\ Cardinality(slots) \in Nat
  BY FS_Subset, FS_CardinalityType DEF NotesInv, StreamsHold
<1> QED
  BY <1>1, NotificationsAssumption
     DEF NotesInv, StreamsHold, StreamLimitHolds, OpenStreams

\* The invariant of this part holds at first,
LEMMA NotesInitially == NotesInit => NotesInv
<1> SUFFICES ASSUME NotesInit PROVE NotesInv
  OBVIOUS
<1>1. NoChoice \in [Recipients -> Choice]
  BY DEF NoChoice, Choice
<1>2. NoNoteBatch \in NoteBatch
  BY <1>1 DEF NoNoteBatch, NoteBatch
<1>3. NotesTypeOK
  BY <1>1, <1>2, NotificationsAssumption
     DEF NotesInit, NotesTypeOK, NoteRow, StreamState
<1>4. StreamsHold
  BY FS_EmptySet, NotificationsAssumption DEF NotesInit, StreamsHold, OpenStreams
<1> QED
  BY <1>3, <1>4 DEF NotesInv

\* A step of the batches, of the rows or of the preferences.
NotesMove ==
  \/ \E b \in Batches :
       \/ NotifyBatch(b) \/ ReadPreferences(b) \/ CachePreferences(b)
       \/ InsertBatch(b) \/ BatchDies(b)
  \/ \E k \in NoteKeys : MarkRead({k}) \/ DayPasses(k)
  \/ \E u \in Recipients :
       MarkRead(NotesOf(u)) \/ UpdatePreference(u) \/ CachedPreferenceExpires(u)

\* The steps of notes and choices leave the streams alone.
LEMMA NoteSteps ==
  ASSUME NotesInv, NotesMove
  PROVE  NotesInv'
<1>1. /\ notes \in [NoteKeys -> NoteRow] /\ dayOld \subseteq NoteKeys
      /\ prefs \in [Recipients -> Choice] /\ prefCache \in [Recipients -> Choice]
      /\ batches \in [Batches -> NoteBatch]
      /\ streams \in [Streams -> StreamState]
      /\ slots \subseteq Streams /\ noteFaults \in 0 .. MaxNoteFaults
      /\ RecipientOf \in [NoteKeys -> Recipients] /\ MaxNoteFaults \in Nat
  BY NotificationsAssumption DEF NotesInv, NotesTypeOK
<1>2. NoChoice \in [Recipients -> Choice] /\ {"none", "in", "out"} = Choice
  BY DEF NoChoice, Choice
<1>3. NoNoteBatch \in NoteBatch
  BY <1>2 DEF NoNoteBatch, NoteBatch
<1>4. ASSUME notes' \in [NoteKeys -> NoteRow], dayOld' \subseteq NoteKeys,
             prefs' \in [Recipients -> Choice],
             prefCache' \in [Recipients -> Choice],
             batches' \in [Batches -> NoteBatch],
             UNCHANGED <<streams, slots>>, noteFaults' \in 0 .. MaxNoteFaults
      PROVE  NotesInv'
  <2>1. NotesTypeOK'
    BY <1>1, <1>4 DEF NotesTypeOK
  <2>2. StreamsHold'
    BY <1>4 DEF NotesInv, StreamsHold, OpenStreams
  <2> QED
    BY <2>1, <2>2 DEF NotesInv
<1>5. ASSUME NEW b \in Batches, NEW held \in NoteBatch, Note(b, held)
      PROVE  batches' \in [Batches -> NoteBatch]
  BY <1>1, <1>5 DEF Note
<1>6. ASSUME NEW b \in Batches, NotifyBatch(b) PROVE NotesInv'
  <2>4. PICK asked \in SUBSET NoteKeys :
          Note(b, [NoNoteBatch EXCEPT !.at = "filter",
                                      !.keys = asked \ ExistingKeys])
    BY <1>6, Zenon DEF NotifyBatch
  <2>1. PICK keys \in SUBSET NoteKeys : keys = asked \ ExistingKeys
    OBVIOUS
  <2>5. Note(b, [NoNoteBatch EXCEPT !.at = "filter", !.keys = keys])
    BY <2>1, <2>4, Zenon
  <2>2. [NoNoteBatch EXCEPT !.at = "filter", !.keys = keys] \in NoteBatch
    BY <1>3 DEF NoteBatch
  <2>3. batches' \in [Batches -> NoteBatch]
    BY <1>5, <2>2, <2>5
  <2> QED
    BY <1>1, <1>4, <1>6, <2>3 DEF NotifyBatch
<1>7. ASSUME NEW b \in Batches, ReadPreferences(b) PROVE NotesInv'
  <2>1. PICK users : users = {RecipientOf[k] : k \in batches[b].keys}
    OBVIOUS
  <2>2. \A u \in Recipients : Found(u) \in Choice
    BY <1>1, <1>2 DEF Found
  <2>3. PICK found \in [Recipients -> Choice] :
          found = [u \in Recipients |-> IF u \in users THEN Found(u) ELSE "none"]
    BY <1>2, <2>2
  <2>4. PICK held \in NoteBatch : held = batches[b]
    BY <1>1
  <2>5. [held EXCEPT !.at = "cache", !.found = found] \in NoteBatch
    BY DEF NoteBatch
  <2>6. Note(b, [held EXCEPT !.at = "cache", !.found = found])
    BY <1>7, <2>1, <2>3, <2>4 DEF ReadPreferences
  <2>7. batches' \in [Batches -> NoteBatch]
    BY <1>5, <2>5, <2>6
  <2>8. prefs' \in [Recipients -> Choice]
    BY <1>1, <1>7, <2>1, <2>2 DEF ReadPreferences
  <2> QED
    BY <1>1, <1>4, <1>7, <2>7, <2>8 DEF ReadPreferences
<1>8. ASSUME NEW b \in Batches, CachePreferences(b) PROVE NotesInv'
  <2>1. PICK held \in NoteBatch : held = batches[b]
    BY <1>1
  <2>2. held.found \in [Recipients -> Choice] /\ held.keys \subseteq NoteKeys
    BY DEF NoteBatch
  <2>3. PICK allowed \in SUBSET NoteKeys :
          allowed = {k \in held.keys : held.found[RecipientOf[k]] = "in"}
    BY <2>2
  <2>4. [held EXCEPT !.at = "insert", !.keys = allowed] \in NoteBatch
    BY DEF NoteBatch
  <2>5. \/ Note(b, NoNoteBatch)
        \/ Note(b, [held EXCEPT !.at = "insert", !.keys = allowed])
    BY <1>8, <2>1, <2>3 DEF CachePreferences
  <2>6. batches' \in [Batches -> NoteBatch]
    BY <1>3, <1>5, <2>4, <2>5
  <2>7. prefCache' \in [Recipients -> Choice]
    BY <1>1, <1>8, <2>1, <2>2 DEF CachePreferences
  <2> QED
    BY <1>1, <1>4, <1>8, <2>6, <2>7 DEF CachePreferences
<1>9. ASSUME NEW b \in Batches, InsertBatch(b) PROVE NotesInv'
  <2>1. [count |-> 1, read |-> FALSE] \in NoteRow
    BY DEF NoteRow
  <2>2. notes' \in [NoteKeys -> NoteRow]
    BY <1>1, <1>9, <2>1 DEF InsertBatch
  <2>3. batches' \in [Batches -> NoteBatch]
    BY <1>3, <1>5, <1>9 DEF InsertBatch
  <2> QED
    BY <1>1, <1>4, <1>9, <2>2, <2>3 DEF InsertBatch
<1>10. ASSUME NEW b \in Batches, BatchDies(b) PROVE NotesInv'
  <2>1. batches' \in [Batches -> NoteBatch] /\ noteFaults' \in 0 .. MaxNoteFaults
    BY <1>1, <1>3, <1>5, <1>10 DEF BatchDies, NoteFault
  <2> QED
    BY <1>1, <1>4, <1>10, <2>1 DEF BatchDies
<1>11. ASSUME NEW keys \in SUBSET NoteKeys, MarkRead(keys) PROVE NotesInv'
  <2>1. \A row \in NoteRow : [row EXCEPT !.read = TRUE] \in NoteRow
    BY DEF NoteRow
  <2>2. notes' \in [NoteKeys -> NoteRow]
    BY <1>1, <1>11, <2>1 DEF MarkRead
  <2> QED
    BY <1>1, <1>4, <1>11, <2>2 DEF MarkRead
<1>12. ASSUME NEW k \in NoteKeys, DayPasses(k) PROVE NotesInv'
  BY <1>1, <1>4, <1>12 DEF DayPasses
<1>13. ASSUME NEW u \in Recipients, UpdatePreference(u) PROVE NotesInv'
  <2>1. prefs' \in [Recipients -> Choice] /\ prefCache' \in [Recipients -> Choice]
    BY <1>1, <1>2, <1>13 DEF UpdatePreference
  <2> QED
    BY <1>1, <1>4, <1>13, <2>1 DEF UpdatePreference
<1>14. ASSUME NEW u \in Recipients, CachedPreferenceExpires(u) PROVE NotesInv'
  <2>1. prefCache' \in [Recipients -> Choice]
    BY <1>1, <1>2, <1>14 DEF CachedPreferenceExpires
  <2> QED
    BY <1>1, <1>4, <1>14, <2>1 DEF CachedPreferenceExpires
<1>15. \A u : NotesOf(u) \in SUBSET NoteKeys
  BY DEF NotesOf
<1> QED
  <2>1. CASE \E b \in Batches :
               \/ NotifyBatch(b) \/ ReadPreferences(b) \/ CachePreferences(b)
               \/ InsertBatch(b) \/ BatchDies(b)
    BY <1>6, <1>7, <1>8, <1>9, <1>10, <2>1, Zenon
  <2>2. ASSUME NEW k \in NoteKeys, MarkRead({k}) \/ DayPasses(k) PROVE NotesInv'
    BY <1>11, <1>12, <2>2
  <2>3. ASSUME NEW u \in Recipients, \/ MarkRead(NotesOf(u)) \/ UpdatePreference(u)
                                     \/ CachedPreferenceExpires(u)
        PROVE  NotesInv'
    BY <1>11, <1>13, <1>14, <1>15, <2>3
  <2> QED
    BY <2>1, <2>2, <2>3, Zenon DEF NotesMove

\* A step of the streams.
StreamsMove ==
  \/ \E c \in Streams :
       OpenStream(c) \/ Subscribed(c) \/ GivesUpEarly(c) \/ CloseStream(c)
  \/ ServerStops

\* The steps of streams keep the slots within their limit.
LEMMA StreamSteps ==
  ASSUME NotesInv, StreamsMove
  PROVE  NotesInv'
<1>1. /\ streams \in [Streams -> StreamState] /\ slots \subseteq Streams
      /\ noteFaults \in 0 .. MaxNoteFaults /\ MaxNoteFaults \in Nat
      /\ IsFiniteSet(slots) /\ Cardinality(slots) <= MaxStreams
      /\ OpenStreams \subseteq slots /\ Cardinality(slots) \in Nat
      /\ MaxStreams \in Nat
  BY NotificationsAssumption, FS_CardinalityType
     DEF NotesInv, NotesTypeOK, StreamsHold
<1>2. {"none", "subscribing", "open", "ended"} = StreamState
  BY DEF StreamState
<1>3. ASSUME streams' \in [Streams -> StreamState], slots' \subseteq Streams,
             noteFaults' \in 0 .. MaxNoteFaults, RestUnchanged, StreamsHold'
      PROVE  NotesInv'
  <2>1. NotesTypeOK'
    BY <1>3 DEF NotesInv, NotesTypeOK, RestUnchanged
  <2> QED
    BY <1>3, <2>1 DEF NotesInv
<1>4. ASSUME NEW c \in Streams, NEW state \in StreamState, Becomes(c, state)
      PROVE  /\ streams' \in [Streams -> StreamState]
             /\ OpenStreams' \subseteq OpenStreams \cup {c}
             /\ state = "ended" => OpenStreams' = OpenStreams \ {c}
  BY <1>1, <1>4 DEF Becomes, OpenStreams
<1>5. ASSUME NEW c \in Streams, OpenStream(c) PROVE NotesInv'
  <2>1. IsFiniteSet(slots') /\ Cardinality(slots') <= Cardinality(slots) + 1
    <3>1. slots' = slots \cup {c}
      BY <1>5 DEF OpenStream
    <3>2. CASE c \in slots
      <4>1. slots' = slots
        BY <3>1, <3>2
      <4> QED
        BY <1>1, <4>1
    <3>3. CASE c \notin slots
      <4>1. Cardinality(slots') = Cardinality(slots) + 1 /\ IsFiniteSet(slots')
        BY <1>1, <3>1, <3>3, FS_AddElement
      <4> QED
        BY <1>1, <4>1
    <3> QED
      BY <3>2, <3>3
  <2>2. streams' \in [Streams -> StreamState]
        /\ OpenStreams' \subseteq OpenStreams \cup {c}
    BY <1>2, <1>4, <1>5 DEF OpenStream
  <2>3. Cardinality(slots') <= MaxStreams
    BY <1>1, <1>5, <2>1, FS_CardinalityType DEF OpenStream
  <2>4. StreamsHold'
    BY <1>1, <1>5, <2>1, <2>2, <2>3 DEF StreamsHold, OpenStream
  <2> QED
    BY <1>1, <1>3, <1>5, <2>2, <2>4 DEF OpenStream
<1>6. ASSUME NEW c \in Streams, Subscribed(c) PROVE NotesInv'
  <2>1. slots' = slots
    BY <1>1, <1>6 DEF Subscribed, OpenStreams
  <2>2. streams' \in [Streams -> StreamState]
        /\ OpenStreams' \subseteq OpenStreams \cup {c} /\ c \in slots
    BY <1>1, <1>2, <1>4, <1>6 DEF Subscribed, OpenStreams
  <2>3. StreamsHold'
    BY <1>1, <2>1, <2>2 DEF StreamsHold
  <2> QED
    BY <1>1, <1>3, <1>6, <2>1, <2>2, <2>3 DEF Subscribed
<1>7. ASSUME NEW c \in Streams, GivesUpEarly(c) PROVE NotesInv'
  <2>1. streams' \in [Streams -> StreamState]
        /\ OpenStreams' \subseteq OpenStreams /\ UNCHANGED slots
    BY <1>2, <1>4, <1>7 DEF GivesUpEarly
  <2>2. noteFaults' \in 0 .. MaxNoteFaults
    BY <1>1, <1>7 DEF GivesUpEarly, NoteFault
  <2>3. StreamsHold'
    BY <1>1, <2>1 DEF StreamsHold
  <2> QED
    BY <1>1, <1>3, <1>7, <2>1, <2>2, <2>3 DEF GivesUpEarly
<1>8. ASSUME NEW c \in Streams, CloseStream(c) PROVE NotesInv'
  <2>1. streams' \in [Streams -> StreamState] /\ OpenStreams' = OpenStreams \ {c}
    BY <1>2, <1>4, <1>8 DEF CloseStream
  <2>2. slots' = slots \ {c}
    BY <1>8 DEF CloseStream
  <2>3. IsFiniteSet(slots') /\ Cardinality(slots') <= Cardinality(slots)
        /\ Cardinality(slots') \in Nat
    BY <1>1, <2>2, FS_Subset, FS_CardinalityType
  <2>4. Cardinality(slots') <= MaxStreams
    BY <1>1, <2>3
  <2>5. StreamsHold'
    BY <1>1, <2>1, <2>2, <2>3, <2>4 DEF StreamsHold
  <2> QED
    BY <1>1, <1>3, <1>8, <2>1, <2>2, <2>5 DEF CloseStream
<1>9. CASE ServerStops
  <2>1. streams' \in [Streams -> StreamState] /\ OpenStreams' = {}
    BY <1>1, <1>2, <1>9 DEF ServerStops, OpenStreams
  <2>2. slots' = {} /\ noteFaults' \in 0 .. MaxNoteFaults
    BY <1>1, <1>9 DEF ServerStops, NoteFault
  <2>3. StreamsHold'
    BY <1>1, <2>1, <2>2, FS_EmptySet DEF StreamsHold
  <2> QED
    BY <1>3, <1>9, <2>1, <2>2, <2>3 DEF ServerStops
<1> QED
  BY <1>5, <1>6, <1>7, <1>8, <1>9 DEF StreamsMove

\* ... every step keeps it,
LEMMA NotesStepHolds == NotesInv /\ [NotesNext]_notesVars => NotesInv'
<1> SUFFICES ASSUME NotesInv, [NotesNext]_notesVars PROVE NotesInv'
  OBVIOUS
<1>1. CASE UNCHANGED notesVars
  BY <1>1 DEF notesVars, NotesInv, NotesTypeOK, StreamsHold, OpenStreams
<1> QED
  BY <1>1, NoteSteps, StreamSteps, Zenon DEF NotesNext, NotesMove, StreamsMove

-----------------------------------------------------------------------------
(***************************************************************************)
(* The files.                                                              *)
(***************************************************************************)
UploadRow == [at : {"none", "refused", "image", "main", "thumb", "row", "saved",
                    "failed"},
              input : Offered \cup {NoInput}]
DeletionRow == [at : {"none", "main", "thumb", "row", "done", "failed"},
                file : Uploads \cup {NoFile}]
Complete(f) == f \in mains /\ (HasThumbnail(f) => f \in thumbs)

UploadHolds(f) ==
  /\ f \in mains => uploads[f].at \in {"thumb", "row", "saved", "failed"}
  /\ f \in thumbs =>
       HasThumbnail(f) /\ uploads[f].at \in {"row", "saved", "failed"}
  /\ uploads[f].at = "thumb" => f \in mains /\ HasThumbnail(f)
  /\ uploads[f].at = "row" => Complete(f)
  /\ f \in rows => uploads[f].at \in {"saved", "failed"}

\* ... and by how far a deletion has come.
DeletionHolds(d) ==
  LET f == deletions[d].file IN
  deletions[d].at # "none" =>
    /\ f \in Uploads /\ uploads[f].at \in {"saved", "failed"}
    /\ deletions[d].at \in {"thumb", "row", "done"} => f \notin mains
    /\ deletions[d].at \in {"row", "done"} => f \notin thumbs

Begun(f) ==
  \E d \in Deletions : deletions[d].at # "none" /\ deletions[d].file = f

FilesInv ==
  /\ UploadTypeOK
  /\ \A f \in Uploads : UploadHolds(f)
  /\ \A d \in Deletions : DeletionHolds(d)
  /\ \A f \in rows : Complete(f) \/ Begun(f)
  /\ DeletedLeavesNothing

\* The invariant of this part holds at first,
LEMMA FilesInitially == UploadInit => FilesInv
<1> SUFFICES ASSUME UploadInit PROVE FilesInv
  OBVIOUS
<1>1. UploadTypeOK
  BY UploadAssumption DEF UploadInit, UploadTypeOK
<1>2. ASSUME NEW f \in Uploads PROVE UploadHolds(f)
  <2>1. uploads[f] = [at |-> "none", input |-> NoInput]
    BY DEF UploadInit
  <2>2. uploads[f].at = "none"
    BY <2>1
  <2>3. f \notin mains /\ f \notin thumbs /\ f \notin rows
    BY DEF UploadInit
  <2> QED
    BY <2>2, <2>3 DEF UploadHolds
<1>3. \A d \in Deletions : DeletionHolds(d)
  BY DEF UploadInit, DeletionHolds
<1> QED
  BY <1>1, <1>2, <1>3 DEF UploadInit, FilesInv, DeletedLeavesNothing

\* ... and it implies what is to be shown of this part.
LEMMA FilesConclusion ==
  FilesInv => DeletedLeavesNothing /\ RowsHaveTheirObjects /\ UploadTypeOK
  BY DEF FilesInv, RowsHaveTheirObjects, Complete, Begun

\* An upload's row changes, its input and the others' rows do not.
LEMMA UploadAdvances ==
  ASSUME UploadTypeOK, NEW f \in Uploads,
         NEW at \in {"none", "refused", "image", "main", "thumb", "row", "saved",
                     "failed"},
         Reach(f, at)
  PROVE  /\ uploads' \in [Uploads -> UploadRow]
         /\ uploads'[f].at = at
         /\ \A g \in Uploads : g # f => uploads'[g] = uploads[g]
         /\ \A g \in Uploads : HasThumbnail(g)' = HasThumbnail(g)
  BY DEF UploadTypeOK, Reach, UploadRow, HasThumbnail

\* A step of an upload that has not reached its end, and deletes nothing.
LEMMA UploadReaches ==
  ASSUME FilesInv, NEW f \in Uploads, 
         NEW at \in {"main", "thumb", "row", "saved", "failed"},
         uploads[f].at \in {"image", "main", "thumb", "row"},
         Reach(f, at),
         UNCHANGED <<adapter, deletions, links>>,
         uploadFaults' \in 0 .. MaxUploadFaults,
         mains' \in {mains, mains \cup {f}}, thumbs' \in {thumbs, thumbs \cup {f}},
         rows' \in {rows, rows \cup {f}},
         f \in mains' => at \in {"thumb", "row", "saved", "failed"},
         f \in thumbs' => HasThumbnail(f) /\ at \in {"row", "saved", "failed"},
         at = "thumb" => f \in mains' /\ HasThumbnail(f),
         at = "row" => f \in mains' /\ (HasThumbnail(f) => f \in thumbs'),
         f \in rows' => at \in {"saved", "failed"} /\ Complete(f),
         at = "saved" => f \in rows'
  PROVE  FilesInv'
<1>1. /\ uploads' \in [Uploads -> UploadRow]
      /\ uploads'[f].at = at
      /\ \A g \in Uploads : g # f => uploads'[g] = uploads[g]
      /\ \A g \in Uploads : HasThumbnail(g)' = HasThumbnail(g)
  BY UploadAdvances DEF FilesInv
<1>2. UploadTypeOK'
  BY <1>1 DEF FilesInv, UploadTypeOK, UploadRow
<1>3. \A g \in Uploads : g # f => /\ g \in mains' <=> g \in mains
                                  /\ g \in thumbs' <=> g \in thumbs
                                  /\ g \in rows' <=> g \in rows
  OBVIOUS
<1>4. ASSUME NEW g \in Uploads PROVE UploadHolds(g)'
  <2>1. CASE g = f
    BY <1>1, <2>1 DEF UploadHolds, Complete
  <2>2. CASE g # f
    BY <1>1, <1>3, <2>2 DEF FilesInv, UploadHolds, Complete
  <2> QED
    BY <2>1, <2>2
<1>5. ASSUME NEW d \in Deletions PROVE DeletionHolds(d)'
  <2>1. deletions[d].at # "none" =>
          deletions[d].file # f /\ deletions[d].file \in Uploads
    BY DEF FilesInv, DeletionHolds
  <2> QED
    BY <1>1, <1>3, <2>1 DEF FilesInv, DeletionHolds
<1>6. \A g \in rows' : Complete(g)' \/ Begun(g)'
  <2>1. ASSUME NEW g \in rows' PROVE Complete(g)' \/ Begun(g)'
    <3>1. g \in Uploads
      BY <1>2 DEF UploadTypeOK
    <3>2. Complete(g) \/ Begun(g)
      BY <2>1 DEF FilesInv
    <3>3. Complete(g) => Complete(g)'
      BY <1>1, <3>1 DEF Complete
    <3>4. Begun(g) => Begun(g)'
      BY DEF Begun
    <3> QED
      BY <3>2, <3>3, <3>4
  <2> QED
    BY <2>1
<1>7. DeletedLeavesNothing'
  <2>1. \A g \in mains' \cup thumbs' : g \in Uploads
    BY <1>2 DEF UploadTypeOK
  <2> QED
    BY <1>1, <1>3, <2>1 DEF FilesInv, DeletedLeavesNothing
<1> QED
  BY <1>2, <1>4, <1>5, <1>6, <1>7 DEF FilesInv

\* A step of a deletion: what it takes away is of its own file.
LEMMA DeletionReaches ==
  ASSUME FilesInv, NEW d \in Deletions, NEW at \in {"thumb", "row", "done", "failed"},
         deletions[d].at # "none", Deleting(d, at),
         UNCHANGED <<adapter, uploads, links>>,
         uploadFaults' \in 0 .. MaxUploadFaults,
         mains' \in {mains, mains \ {deletions[d].file}},
         thumbs' \in {thumbs, thumbs \ {deletions[d].file}},
         rows' \in {rows, rows \ {deletions[d].file}},
         at \in {"thumb", "row", "done"} => deletions[d].file \notin mains',
         at \in {"row", "done"} => deletions[d].file \notin thumbs',
         rows' # rows =>
           deletions[d].file \notin mains /\ deletions[d].file \notin thumbs
  PROVE  FilesInv'
<1>1. PICK f \in Uploads : f = deletions[d].file
  BY DEF FilesInv, DeletionHolds
<1>2. uploads[f].at \in {"saved", "failed"}
  BY <1>1 DEF FilesInv, DeletionHolds
<1>3. deletions \in [Deletions -> DeletionRow]
  BY DEF FilesInv, UploadTypeOK, DeletionRow
<1>4. /\ deletions' \in [Deletions -> DeletionRow]
      /\ deletions'[d].at = at /\ deletions'[d].file = f
      /\ \A e \in Deletions : e # d => deletions'[e] = deletions[e]
  BY <1>1, <1>3 DEF Deleting, DeletionRow
<1>5. mains' \in {mains, mains \ {f}} /\ thumbs' \in {thumbs, thumbs \ {f}}
      /\ rows' \in {rows, rows \ {f}}
  BY <1>1
<1>6. UploadTypeOK'
  BY <1>4, <1>5 DEF FilesInv, UploadTypeOK, DeletionRow
<1>7. \A g \in Uploads : HasThumbnail(g)' = HasThumbnail(g)
  BY DEF HasThumbnail
<1>8. ASSUME NEW g \in Uploads PROVE UploadHolds(g)'
  <2>1. CASE g = f
    BY <1>2, <1>5, <1>7, <2>1 DEF FilesInv, UploadHolds, Complete
  <2>2. CASE g # f
    BY <1>5, <1>7, <2>2 DEF FilesInv, UploadHolds, Complete
  <2> QED
    BY <2>1, <2>2
<1>9. ASSUME NEW e \in Deletions PROVE DeletionHolds(e)'
  <2>1. CASE e = d
    BY <1>1, <1>2, <1>4, <2>1 DEF DeletionHolds
  <2>2. CASE e # d
    <3>1. DeletionHolds(e) /\ deletions'[e] = deletions[e]
      BY <1>4, <2>2 DEF FilesInv
    <3> QED
      BY <1>5, <3>1 DEF DeletionHolds
  <2> QED
    BY <2>1, <2>2
<1>10. ASSUME NEW g \in rows' PROVE Complete(g)' \/ Begun(g)'
  <2>1. g \in rows /\ g \in Uploads
    BY <1>5, <1>6, <1>10 DEF UploadTypeOK
  <2>2. Begun(f)' /\ (Begun(g) => Begun(g)')
    BY <1>1, <1>4 DEF Begun
  <2>3. g # f /\ Complete(g) => Complete(g)'
    BY <1>5, <1>7, <2>1 DEF Complete
  <2> QED
    BY <2>1, <2>2, <2>3 DEF FilesInv
<1>11. DeletedLeavesNothing'
  BY <1>1, <1>5 DEF FilesInv, DeletedLeavesNothing
<1> QED
  BY <1>6, <1>8, <1>9, <1>10, <1>11 DEF FilesInv

\* The steps of an upload keep the invariant.
LEMMA UploadActs ==
  ASSUME FilesInv, NEW f \in Uploads,
         \/ ProcessImage(f) \/ StoreMain(f) \/ StoreThumbnail(f)
         \/ SaveMetadata(f) \/ UploadFails(f)
  PROVE  FilesInv'
<1>1. /\ uploadFaults \in 0 .. MaxUploadFaults /\ UploadHolds(f)
      /\ UploadFault => uploadFaults' \in 0 .. MaxUploadFaults
  BY UploadAssumption DEF FilesInv, UploadTypeOK, UploadFault
<1>2. CASE ProcessImage(f)
  BY <1>1, <1>2, UploadReaches DEF ProcessImage, UploadHolds
<1>3. CASE StoreMain(f)
  <2>1. f \notin rows /\ f \notin thumbs
    BY <1>1, <1>3 DEF StoreMain, UploadHolds
  <2>2. CASE HasThumbnail(f)
    <3>1. Reach(f, "thumb")
      BY <1>3, <2>2 DEF StoreMain
    <3> QED
      BY <1>1, <1>3, <2>1, <3>1, UploadReaches DEF StoreMain
  <2>3. CASE ~HasThumbnail(f)
    <3>1. Reach(f, "row")
      BY <1>3, <2>3 DEF StoreMain
    <3> QED
      BY <1>1, <1>3, <2>1, <2>3, <3>1, UploadReaches DEF StoreMain
  <2> QED
    BY <2>2, <2>3
<1>4. CASE StoreThumbnail(f)
  <2>1. HasThumbnail(f) /\ f \in mains /\ f \notin rows
    BY <1>1, <1>4 DEF StoreThumbnail, UploadHolds
  <2> QED
    BY <1>1, <1>4, <2>1, UploadReaches DEF StoreThumbnail
<1>5. CASE SaveMetadata(f)
  BY <1>1, <1>5, UploadReaches DEF SaveMetadata, UploadHolds, Complete
<1>6. CASE UploadFails(f)
  <2>1. /\ mains' \in {mains, mains \cup {f}}
        /\ thumbs' \in {thumbs, thumbs \cup {f}}
        /\ rows' \in {rows, rows \cup {f}}
    BY <1>6 DEF UploadFails
  <2>2. /\ thumbs' = thumbs \/ uploads[f].at = "thumb"
        /\ rows' = rows \/ uploads[f].at = "row"
    BY <1>6 DEF UploadFails
  <2>3. f \in thumbs' => HasThumbnail(f)
    BY <1>1, <2>2 DEF UploadHolds
  <2>4. uploads[f].at \in {"image", "main", "thumb", "row"} /\ Reach(f, "failed")
    BY <1>6 DEF UploadFails
  <2>5. f \in rows' => Complete(f)
    BY <1>1, <2>2, <2>4 DEF UploadHolds
  <2> QED
    BY <1>1, <1>6, <2>1, <2>3, <2>4, <2>5, UploadReaches DEF UploadFails
<1> QED
  BY <1>2, <1>3, <1>4, <1>5, <1>6

\* The steps of a deletion keep it.
LEMMA DeletionActs ==
  ASSUME FilesInv, NEW d \in Deletions,
         \/ DeleteObject(d) \/ DeleteThumbnail(d) \/ RemoveMetadata(d)
         \/ DeletionFails(d)
  PROVE  FilesInv'
<1>1. /\ uploadFaults \in 0 .. MaxUploadFaults /\ DeletionHolds(d)
      /\ UploadFault => uploadFaults' \in 0 .. MaxUploadFaults
  BY UploadAssumption DEF FilesInv, UploadTypeOK, UploadFault
<1>2. CASE DeleteObject(d)
  <2>1. deletions[d].file \in Uploads /\ UploadHolds(deletions[d].file)
    BY <1>1, <1>2 DEF DeleteObject, DeletionHolds, FilesInv
  <2>2. CASE HasThumbnail(deletions[d].file)
    <3>1. Deleting(d, "thumb")
      BY <1>2, <2>2 DEF DeleteObject
    <3> QED
      BY <1>1, <1>2, <3>1, DeletionReaches DEF DeleteObject
  <2>3. CASE ~HasThumbnail(deletions[d].file)
    <3>1. Deleting(d, "row") /\ deletions[d].file \notin thumbs
      BY <1>2, <2>1, <2>3 DEF DeleteObject, UploadHolds
    <3> QED
      BY <1>1, <1>2, <3>1, DeletionReaches DEF DeleteObject
  <2> QED
    BY <2>2, <2>3
<1>3. CASE DeleteThumbnail(d)
  BY <1>1, <1>3, DeletionReaches DEF DeleteThumbnail, DeletionHolds
<1>4. CASE RemoveMetadata(d)
  BY <1>1, <1>4, DeletionReaches DEF RemoveMetadata, DeletionHolds
<1>5. CASE DeletionFails(d)
  <2>1. /\ mains' \in {mains, mains \ {deletions[d].file}}
        /\ thumbs' \in {thumbs, thumbs \ {deletions[d].file}}
        /\ rows' \in {rows, rows \ {deletions[d].file}}
        /\ rows' # rows => deletions[d].at = "row"
        /\ deletions[d].at # "none" /\ Deleting(d, "failed")
    BY <1>5 DEF DeletionFails
  <2> QED
    BY <1>1, <1>5, <2>1, DeletionReaches DEF DeletionFails, DeletionHolds
<1> QED
  BY <1>2, <1>3, <1>4, <1>5

\* A step of a link, or nothing, leaves the files as they are.
LEMMA LinksAside ==
  ASSUME FilesInv, UploadTypeOK',
         UNCHANGED <<uploads, mains, thumbs, rows, deletions>>
  PROVE  FilesInv'
<1>1. \A f : /\ HasThumbnail(f)' = HasThumbnail(f)
             /\ Complete(f)' = Complete(f) /\ Begun(f)' = Begun(f)
  BY DEF HasThumbnail, Complete, Begun
<1>2. \A f \in Uploads : UploadHolds(f)'
  BY <1>1 DEF FilesInv, UploadHolds
<1>3. \A d \in Deletions : DeletionHolds(d)'
  BY DEF FilesInv, DeletionHolds
<1> QED
  BY <1>1, <1>2, <1>3 DEF FilesInv, DeletedLeavesNothing

\* ... every step keeps it,
LEMMA FilesStepHolds == FilesInv /\ [UploadNext]_uploadVars => FilesInv'
<1> SUFFICES ASSUME FilesInv, [UploadNext]_uploadVars PROVE FilesInv'
  OBVIOUS
<1>1. ASSUME NEW f \in Uploads, NEW i \in Offered, ReceiveUpload(f, i)
      PROVE  FilesInv'
  <2>1. PICK at \in {"refused", "image", "main"} :
          uploads' = [uploads EXCEPT ![f] = [at |-> at, input |-> i]]
    BY <1>1 DEF ReceiveUpload
  <2>2. /\ uploads \in [Uploads -> UploadRow]
        /\ [at |-> at, input |-> i] \in UploadRow
    BY DEF FilesInv, UploadTypeOK, UploadRow
  <2>3. /\ uploads' \in [Uploads -> UploadRow] /\ uploads'[f].at = at
        /\ \A g \in Uploads : g # f => uploads'[g] = uploads[g]
    BY <2>1, <2>2
  <2>4. /\ UNCHANGED <<adapter, mains, thumbs, rows, deletions, links, uploadFaults>>
        /\ uploads[f].at = "none"
    BY <1>1 DEF ReceiveUpload
  <2>5. f \notin mains /\ f \notin thumbs /\ f \notin rows
    BY <2>4 DEF FilesInv, UploadHolds
  <2>6. UploadTypeOK'
    BY <2>3, <2>4 DEF FilesInv, UploadTypeOK, UploadRow
  <2>7. \A g \in Uploads : g # f => HasThumbnail(g)' = HasThumbnail(g)
    BY <2>3 DEF HasThumbnail
  <2>8. ASSUME NEW g \in Uploads PROVE UploadHolds(g)'
    <3>1. CASE g = f
      BY <2>3, <2>4, <2>5, <3>1 DEF UploadHolds
    <3>2. CASE g # f
      BY <2>3, <2>4, <2>7, <3>2 DEF FilesInv, UploadHolds, Complete
    <3> QED
      BY <3>1, <3>2
  <2>9. \A d \in Deletions : DeletionHolds(d)'
    BY <2>3, <2>4 DEF FilesInv, DeletionHolds
  <2>10. ASSUME NEW g \in rows' PROVE Complete(g)' \/ Begun(g)'
    <3>1. g \in Uploads /\ g # f /\ g \in rows
      BY <2>4, <2>5, <2>6, <2>10 DEF UploadTypeOK
    <3>2. Complete(g) => Complete(g)'
      BY <2>4, <2>7, <3>1 DEF Complete
    <3>3. Begun(g) => Begun(g)'
      BY <2>4 DEF Begun
    <3> QED
      BY <3>1, <3>2, <3>3 DEF FilesInv
  <2>11. DeletedLeavesNothing'
    BY <2>3, <2>4, <2>5, <2>6 DEF FilesInv, DeletedLeavesNothing, UploadTypeOK
  <2> QED
    BY <2>6, <2>8, <2>9, <2>10, <2>11 DEF FilesInv
<1>2. ASSUME NEW d \in Deletions, NEW f \in Uploads, FindMetadata(d, f)
      PROVE  FilesInv'
  <2>1. PICK row : row = [at |-> "main", file |-> f]
    OBVIOUS
  <2>2. /\ deletions' = [deletions EXCEPT ![d] = row] /\ f \in rows
        /\ UNCHANGED <<adapter, uploads, mains, thumbs, rows, links, uploadFaults>>
        /\ deletions[d].at = "none"
    BY <1>2, <2>1 DEF FindMetadata
  <2>3. deletions \in [Deletions -> DeletionRow] /\ row \in DeletionRow
    BY <2>1 DEF FilesInv, UploadTypeOK, DeletionRow
  <2>4. /\ deletions' \in [Deletions -> DeletionRow] /\ deletions'[d] = row
        /\ \A e \in Deletions : e # d => deletions'[e] = deletions[e]
    BY <2>2, <2>3
  <2>5. UploadTypeOK'
    BY <2>2, <2>4 DEF FilesInv, UploadTypeOK, DeletionRow
  <2>6. \A g \in Uploads : UploadHolds(g)'
    BY <2>2 DEF FilesInv, UploadHolds, Complete, HasThumbnail
  <2>7. ASSUME NEW e \in Deletions PROVE DeletionHolds(e)'
    <3>1. CASE e = d
      BY <2>1, <2>2, <2>4, <3>1 DEF FilesInv, DeletionHolds, UploadHolds
    <3>2. CASE e # d
      BY <2>2, <2>4, <3>2 DEF FilesInv, DeletionHolds
    <3> QED
      BY <3>1, <3>2
  <2>8. ASSUME NEW g \in rows' PROVE Complete(g)' \/ Begun(g)'
    <3>1. Complete(g) => Complete(g)'
      BY <2>2 DEF Complete, HasThumbnail
    <3>2. Begun(g) => Begun(g)'
      BY <2>2, <2>4 DEF Begun
    <3> QED
      BY <2>2, <2>8, <3>1, <3>2 DEF FilesInv
  <2>9. DeletedLeavesNothing'
    BY <2>2 DEF FilesInv, DeletedLeavesNothing
  <2> QED
    BY <2>5, <2>6, <2>7, <2>8, <2>9 DEF FilesInv
<1>3. ASSUME UNCHANGED <<adapter, uploads, mains, thumbs, rows, deletions,
                         uploadFaults>>,
             NEW r \in LinkReaders,
             NEW row \in [at : {"none", "fresh", "expired", "served", "refused",
                                "missing"}, file : Uploads \cup {NoFile}],
             links' = [links EXCEPT ![r] = row]
      PROVE  FilesInv'
  <2>1. UploadTypeOK'
    BY <1>3 DEF FilesInv, UploadTypeOK
  <2> QED
    BY <1>3, <2>1, LinksAside
<1>4. ASSUME NEW r \in LinkReaders,
             (\E f \in Uploads : SignUrl(r, f)) \/ LinkExpires(r)
               \/ FollowS3Url(r) \/ ServeFile(r)
      PROVE  FilesInv'
  <2>1. links[r] \in [at : {"none", "fresh", "expired", "served", "refused",
                            "missing"}, file : Uploads \cup {NoFile}]
        /\ links \in [LinkReaders -> [at : {"none", "fresh", "expired", "served",
                            "refused", "missing"}, file : Uploads \cup {NoFile}]]
    BY DEF FilesInv, UploadTypeOK
  <2>2. UNCHANGED <<adapter, uploads, mains, thumbs, rows, deletions, uploadFaults>>
    BY <1>4 DEF SignUrl, LinkExpires, FollowS3Url, ServeFile
  <2>3. ASSUME NEW f \in Uploads, SignUrl(r, f)
        PROVE  FilesInv'
    <3>1. PICK row : row = [at |-> "fresh", file |-> f]
      OBVIOUS
    <3>2. links' = [links EXCEPT ![r] = row]
      BY <2>3, <3>1 DEF SignUrl
    <3>3. row \in [at : {"none", "fresh", "expired", "served", "refused",
                         "missing"}, file : Uploads \cup {NoFile}]
      BY <3>1
    <3> QED
      BY <1>3, <2>2, <3>2, <3>3
  <2>4. ASSUME LinkExpires(r) \/ FollowS3Url(r) \/ ServeFile(r)
        PROVE  FilesInv'
    <3>1. PICK at \in {"expired", "served", "refused", "missing"} : Link(r, at)
      BY <2>4 DEF LinkExpires, FollowS3Url, ServeFile
    <3>2. links' = [links EXCEPT ![r] = [links[r] EXCEPT !.at = at]]
      BY <2>1, <3>1 DEF Link
    <3>3. [links[r] EXCEPT !.at = at]
            \in [at : {"none", "fresh", "expired", "served", "refused", "missing"},
                 file : Uploads \cup {NoFile}]
      BY <2>1
    <3> QED
      BY <1>3, <2>2, <3>2, <3>3
  <2> QED
    BY <1>4, <2>3, <2>4
<1>5. CASE UNCHANGED uploadVars
  <2>1. UploadTypeOK'
    BY <1>5 DEF uploadVars, FilesInv, UploadTypeOK
  <2> QED
    BY <1>5, <2>1, LinksAside DEF uploadVars
<1> QED
  BY <1>1, <1>2, <1>4, <1>5, UploadActs, DeletionActs DEF UploadNext

-----------------------------------------------------------------------------
(***************************************************************************)
(* The announcements.                                                      *)
(***************************************************************************)
\* that overlaps another has brought slack for it; the one request that did not,
\* if it is still under way, owes one when it is to save what it has made room
\* for, or is to bring back or to drop what has been deleted meanwhile.
Busy == {p \in Posters : poster[p].at # "none"}
PinnedLive == {n \in Live : posted[n].pinned}
Owes(p) ==
  \/ poster[p].at = "save"
  \/ poster[p].at = "edit" /\ poster[p].row \notin Live
  \/ poster[p].at = "drop" /\ poster[p].row # 0 /\ poster[p].row \notin Live
Owed(A) == IF \E p \in A : Owes(p) THEN 1 ELSE 0

CapHolds(A) ==
  /\ \A p, q \in A : p = q
  /\ Cardinality(Busy \ A) + Cardinality(PinnedLive) <= slack
  /\ Cardinality(Live) + Cardinality(Busy \ A) + Owed(A) <= AnnouncementCap + slack

PosterHolds(p) ==
  /\ poster[p].at = "count" => poster[p].row = 0
  /\ poster[p].at = "edit" => ~poster[p].was.deleted

BoardInv ==
  /\ BoardTypeOK
  /\ \A p \in Posters : PosterHolds(p)
  /\ slack = MaxPosted \/ \E A \in SUBSET Posters : CapHolds(A)

-----------------------------------------------------------------------------
\* What is posted: a few of the numbers.
LEMMA BoardSets ==
  ASSUME BoardTypeOK
  PROVE  /\ \E n \in 0 .. MaxPosted :
              posted \in [1 .. n -> BoardRows] /\ NumPosted = n
         /\ IsFiniteSet(Live) /\ Cardinality(Live) \in 0 .. MaxPosted
         /\ IsFiniteSet(PinnedLive) /\ Cardinality(PinnedLive) \in Nat
         /\ \A A : IsFiniteSet(Busy \ A) /\ Cardinality(Busy \ A) \in Nat
<1>1. PICK n \in 0 .. MaxPosted : posted \in [1 .. n -> BoardRows]
  BY DEF BoardTypeOK
<1>2. MaxPosted \in Nat /\ n \in Nat /\ DOMAIN posted = 1 .. n
  BY <1>1, AnnouncementAssumption
<1>3. IsFiniteSet(1 .. n) /\ Cardinality(1 .. n) = n
  BY <1>2, FS_Interval
<1>4. Live \subseteq 1 .. n /\ PinnedLive \subseteq Live
  BY <1>2 DEF Live, PinnedLive
<1>5. IsFiniteSet(Live) /\ Cardinality(Live) <= n /\ Cardinality(Live) \in Nat
  BY <1>3, <1>4, FS_Subset, FS_CardinalityType
<1>6. IsFiniteSet(PinnedLive) /\ Cardinality(PinnedLive) \in Nat
  BY <1>4, <1>5, FS_Subset, FS_CardinalityType
<1>7. ASSUME NEW A PROVE IsFiniteSet(Busy \ A) /\ Cardinality(Busy \ A) \in Nat
  <2>1. Busy \ A \subseteq Posters
    BY DEF Busy
  <2> QED
    BY <2>1, AnnouncementAssumption, FS_Subset, FS_CardinalityType
<1>8. Cardinality(Live) \in 0 .. MaxPosted
  BY <1>1, <1>2, <1>5
<1> QED
  BY <1>1, <1>2, <1>3, <1>5, <1>6, <1>7, <1>8 DEF NumPosted

\* The sets of announcements are finite after a step as well.
LEMMA BoardSetsAfter ==
  ASSUME BoardTypeOK'
  PROVE  /\ IsFiniteSet(Live') /\ Cardinality(Live') \in 0 .. MaxPosted
         /\ IsFiniteSet(PinnedLive') /\ Cardinality(PinnedLive') \in Nat
<1>1. PICK n \in 0 .. MaxPosted : posted' \in [1 .. n -> BoardRows]
  BY DEF BoardTypeOK
<1>2. MaxPosted \in Nat /\ n \in Nat /\ DOMAIN posted' = 1 .. n
  BY <1>1, AnnouncementAssumption
<1>3. IsFiniteSet(1 .. n) /\ Cardinality(1 .. n) = n
  BY <1>2, FS_Interval
<1>4. Live' \subseteq 1 .. n /\ PinnedLive' \subseteq Live'
  BY <1>2 DEF Live, PinnedLive
<1>5. IsFiniteSet(Live') /\ Cardinality(Live') <= n /\ Cardinality(Live') \in Nat
  BY <1>3, <1>4, FS_Subset, FS_CardinalityType
<1>6. IsFiniteSet(PinnedLive') /\ Cardinality(PinnedLive') \in Nat
  BY <1>4, <1>5, FS_Subset, FS_CardinalityType
<1> QED
  BY <1>1, <1>2, <1>5, <1>6

\* A set that gains, keeps or loses one.
LEMMA SizeChanges ==
  ASSUME NEW X, NEW Y, NEW a, IsFiniteSet(X), IsFiniteSet(Y),
         Y \subseteq X \cup {a}
  PROVE  /\ Cardinality(X) \in Nat /\ Cardinality(Y) \in Nat
         /\ Cardinality(Y) <= Cardinality(X) + 1
         /\ Y \subseteq X => Cardinality(Y) <= Cardinality(X)
         /\ Y \subseteq X /\ a \in X /\ a \notin Y =>
              Cardinality(Y) + 1 <= Cardinality(X)
<1>1. Cardinality(X) \in Nat /\ Cardinality(Y) \in Nat
  BY FS_CardinalityType
<1>2. Y \subseteq X => Cardinality(Y) <= Cardinality(X)
  BY FS_Subset
<1>3. ASSUME NEW Z, IsFiniteSet(Z), a \notin Z
      PROVE  /\ IsFiniteSet(Z \cup {a})
             /\ Cardinality(Z \cup {a}) = Cardinality(Z) + 1
  BY <1>3, FS_AddElement
<1>4. Cardinality(Y) <= Cardinality(X) + 1
  <2>1. CASE a \in X
    BY <1>1, <1>2, <2>1
  <2>2. CASE a \notin X
    <3>1. IsFiniteSet(X \cup {a}) /\ Cardinality(X \cup {a}) = Cardinality(X) + 1
      BY <1>3, <2>2
    <3> QED
      BY <3>1, FS_Subset
  <2> QED
    BY <2>1, <2>2
<1>5. ASSUME Y \subseteq X, a \in X, a \notin Y
      PROVE  Cardinality(Y) + 1 <= Cardinality(X)
  <2>1. IsFiniteSet(Y \cup {a}) /\ Cardinality(Y \cup {a}) = Cardinality(Y) + 1
    BY <1>3, <1>5
  <2>2. Y \cup {a} \subseteq X
    BY <1>5
  <2> QED
    BY <2>1, <2>2, FS_Subset
<1> QED
  BY <1>1, <1>2, <1>4, <1>5

\* A post owes at most one place.
LEMMA OwedIsOne == \A A : Owed(A) \in 0 .. 1
  BY DEF Owed

\* ... and it implies what is to be shown of this part.
LEMMA BoardConclusion == BoardInv => CapSlipsByRacesOnly /\ BoardTypeOK
<1> SUFFICES ASSUME BoardInv PROVE CapSlipsByRacesOnly
  BY DEF BoardInv
<1>1. /\ AnnouncementCap \in Nat /\ MaxPosted \in Nat /\ slack \in 0 .. MaxPosted
      /\ Cardinality(Live) \in 0 .. MaxPosted
  BY BoardSets, AnnouncementAssumption DEF BoardInv, BoardTypeOK
<1>2. CASE slack = MaxPosted
  BY <1>1, <1>2 DEF CapSlipsByRacesOnly
<1>3. ASSUME NEW A \in SUBSET Posters, CapHolds(A) PROVE CapSlipsByRacesOnly
  <2>1. Cardinality(Busy \ A) \in Nat /\ Owed(A) \in 0 .. 1
    BY BoardSets, OwedIsOne DEF BoardInv
  <2> QED
    BY <1>1, <1>3, <2>1 DEF CapHolds, CapSlipsByRacesOnly
<1> QED
  BY <1>2, <1>3 DEF BoardInv

\* What the states of a request hold.
LEMMA PosterKinds ==
  ASSUME BoardTypeOK, NEW p \in Posters
  PROVE  /\ p \in Busy <=> poster[p] # NotPosting
         /\ poster[p].at \in {"count", "drop", "save"} =>
              poster[p] \in [at : {"count", "drop", "save"},
                             row : Numbers \cup {0}, pinned : BOOLEAN]
         /\ poster[p].at = "edit" =>
              poster[p] \in [at : {"edit"}, row : Numbers, was : BoardRows]
         /\ poster[p].at = "delete" => poster[p] \in [at : {"delete"}, row : Numbers]
<1>1. poster[p] \in Posting \cup {NotPosting}
  BY DEF BoardTypeOK
<1>2. CASE poster[p] = NotPosting
  BY <1>2 DEF NotPosting, Busy
<1>3. CASE poster[p] \in [at : {"count", "drop", "save"},
                          row : Numbers \cup {0}, pinned : BOOLEAN]
  <2>1. poster[p].at \in {"count", "drop", "save"}
    BY <1>3
  <2> QED
    BY <1>3, <2>1 DEF NotPosting, Busy
<1>4. CASE poster[p] \in [at : {"edit"}, row : Numbers, was : BoardRows]
  <2>1. poster[p].at = "edit"
    BY <1>4
  <2> QED
    BY <1>4, <2>1 DEF NotPosting, Busy
<1>5. CASE poster[p] \in [at : {"delete"}, row : Numbers]
  <2>1. poster[p].at = "delete"
    BY <1>5
  <2> QED
    BY <1>5, <2>1 DEF NotPosting, Busy
<1> QED
  BY <1>1, <1>2, <1>3, <1>4, <1>5 DEF Posting

\* The invariant of this part holds at first,
LEMMA BoardInitially == BoardInit => BoardInv
<1> SUFFICES ASSUME BoardInit PROVE BoardInv
  OBVIOUS
<1>1. MaxPosted \in Nat /\ AnnouncementCap \in Nat
  BY AnnouncementAssumption
<1>2. posted \in [1 .. 0 -> BoardRows] /\ 0 \in 0 .. MaxPosted
  BY <1>1 DEF BoardInit
<1>3. BoardTypeOK
  BY <1>1, <1>2 DEF BoardInit, BoardTypeOK
<1>4. Live = {} /\ PinnedLive = {} /\ Busy = {}
  BY DEF BoardInit, Live, PinnedLive, Busy, NotPosting
<1>5. \A p \in Posters : PosterHolds(p)
  BY DEF BoardInit, PosterHolds, NotPosting
<1>6. CapHolds({})
  <2>1. Owed({}) = 0 /\ Busy \ {} = {}
    BY <1>4 DEF Owed
  <2> QED
    BY <1>1, <1>4, <2>1, FS_EmptySet DEF CapHolds, BoardInit
<1> QED
  BY <1>3, <1>5, <1>6 DEF BoardInv

-----------------------------------------------------------------------------
\* The requests: one changes, to a state that is not its last ...
LEMMA PosterMoves ==
  ASSUME BoardInv, NEW p \in Posters, NEW state \in Posting, PosterAt(p, state),
         state.at = "count" => state.row = 0,
         state.at = "edit" => ~state.was.deleted
  PROVE  /\ poster' \in [Posters -> Posting \cup {NotPosting}]
         /\ poster'[p] = state
         /\ \A q \in Posters \ {p} : poster'[q] = poster[q]
         /\ Busy' = Busy \cup {p}
         /\ \A q \in Posters : PosterHolds(q)'
<1>1. /\ poster' \in [Posters -> Posting \cup {NotPosting}]
      /\ poster'[p] = state
      /\ \A q \in Posters \ {p} : poster'[q] = poster[q]
  BY DEF BoardInv, BoardTypeOK, PosterAt
<1>2. state.at # "none"
  BY DEF Posting
<1>3. Busy' = Busy \cup {p}
  BY <1>1, <1>2 DEF Busy
<1>4. ASSUME NEW q \in Posters PROVE PosterHolds(q)'
  <2>1. CASE q = p
    BY <1>1, <2>1 DEF PosterHolds
  <2>2. CASE q # p
    BY <1>1, <2>2 DEF BoardInv, PosterHolds
  <2> QED
    BY <2>1, <2>2
<1> QED
  BY <1>1, <1>3, <1>4

\* ... or is over.
LEMMA PosterEnds ==
  ASSUME BoardInv, NEW p \in Posters, PosterAt(p, NotPosting)
  PROVE  /\ poster' \in [Posters -> Posting \cup {NotPosting}]
         /\ \A q \in Posters \ {p} : poster'[q] = poster[q]
         /\ Busy' = Busy \ {p}
         /\ \A q \in Posters : PosterHolds(q)'
<1>1. /\ poster' \in [Posters -> Posting \cup {NotPosting}]
      /\ poster'[p] = NotPosting
      /\ \A q \in Posters \ {p} : poster'[q] = poster[q]
  BY DEF BoardInv, BoardTypeOK, PosterAt
<1>2. NotPosting.at = "none"
  BY DEF NotPosting
<1>3. Busy' = Busy \ {p}
  BY <1>1, <1>2 DEF Busy
<1>4. ASSUME NEW q \in Posters PROVE PosterHolds(q)'
  <2>1. CASE q = p
    BY <1>1, <1>2, <2>1 DEF PosterHolds
  <2>2. CASE q # p
    BY <1>1, <2>2 DEF BoardInv, PosterHolds
  <2> QED
    BY <2>1, <2>2
<1> QED
  BY <1>1, <1>3, <1>4

\* Slack is brought, unless as much has been as is ever posted.
LEMMA SlackGrows ==
  ASSUME BoardInv, NEW more \in BOOLEAN, SlackIf(more)
  PROVE  /\ slack' \in 0 .. MaxPosted
         /\ slack = MaxPosted => slack' = MaxPosted
         /\ slack # MaxPosted => slack' = slack + (IF more THEN 1 ELSE 0)
<1>1. MaxPosted \in Nat /\ slack \in 0 .. MaxPosted
  BY AnnouncementAssumption DEF BoardInv, BoardTypeOK
<1>2. CASE more /\ slack < MaxPosted
  BY <1>1, <1>2 DEF SlackIf
<1>3. CASE ~(more /\ slack < MaxPosted)
  BY <1>1, <1>3 DEF SlackIf
<1> QED
  BY <1>2, <1>3

\* A request that is over: what it leaves live is what it owed, or what its
\* slack was for.
LEMMA RequestEnds ==
  ASSUME BoardInv, NEW p \in Posters, p \in Busy, PosterAt(p, NotPosting),
         NEW k \in 0 .. 1,
         BoardTypeOK', slack = MaxPosted => slack' = MaxPosted,
         slack # MaxPosted => slack' = slack + k,
         Cardinality(PinnedLive') <= Cardinality(PinnedLive) + k,
         Cardinality(Live') <= Cardinality(Live) + Owed({p}),
         \A A \in SUBSET (Posters \ {p}) :
           Cardinality(Live') + Owed(A)' <= Cardinality(Live) + 1 + Owed(A)
  PROVE  BoardInv'
<1>1. /\ \A q \in Posters : PosterHolds(q)'
      /\ Busy' = Busy \ {p}
  BY PosterEnds
<1> SUFFICES ASSUME slack # MaxPosted, NEW A \in SUBSET Posters, CapHolds(A)
             PROVE  \E B \in SUBSET Posters : CapHolds(B)'
  BY <1>1 DEF BoardInv
<1>2. /\ Cardinality(Live) \in Nat /\ Cardinality(PinnedLive) \in Nat
      /\ IsFiniteSet(Busy \ A) /\ Cardinality(Busy \ A) \in Nat
      /\ Cardinality(Live') \in Nat /\ Cardinality(PinnedLive') \in Nat
      /\ slack \in Nat /\ AnnouncementCap \in Nat /\ slack' = slack + k
  <2>1. BoardTypeOK
    BY DEF BoardInv
  <2>2. /\ Cardinality(Live) \in 0 .. MaxPosted /\ Cardinality(PinnedLive) \in Nat
        /\ IsFiniteSet(Busy \ A) /\ Cardinality(Busy \ A) \in Nat
    BY <2>1, BoardSets
  <2>3. Cardinality(Live') \in 0 .. MaxPosted /\ Cardinality(PinnedLive') \in Nat
    BY BoardSetsAfter
  <2> QED
    BY <2>1, <2>2, <2>3, AnnouncementAssumption DEF BoardTypeOK
<1>3. CASE p \in A
  <2>1. A = {p}
    BY <1>3 DEF CapHolds
  <2>2. Busy' \ {} = Busy \ A
    BY <1>1, <2>1
  <2>3. Owed({})' = 0
    BY DEF Owed
  <2>4. Owed(A) \in 0 .. 1 /\ Owed({p}) = Owed(A)
    BY <2>1, OwedIsOne
  <2>5. Cardinality(Busy \ A) + Cardinality(PinnedLive') <= slack'
    BY <1>2 DEF CapHolds
  <2>6. Cardinality(Live') + Cardinality(Busy \ A) <= AnnouncementCap + slack'
    BY <1>2, <2>4 DEF CapHolds
  <2>7. CapHolds({})'
    BY <1>2, <2>2, <2>3, <2>5, <2>6 DEF CapHolds
  <2> QED
    BY <2>7
<1>4. CASE p \notin A
  <2>1. PICK n \in Nat : n = Cardinality(Busy' \ A) /\ n + 1 <= Cardinality(Busy \ A)
    <3>1. IsFiniteSet(Busy' \ A)
      BY <1>1, <1>2, FS_Subset
    <3>2. /\ Busy' \ A \subseteq (Busy \ A) \cup {p} /\ Busy' \ A \subseteq Busy \ A
          /\ p \in Busy \ A /\ p \notin Busy' \ A
      BY <1>1, <1>4
    <3> QED
      BY <1>2, <3>1, <3>2, SizeChanges
  <2>2. PICK o \in 0 .. 1 : o = Owed(A)'
    BY DEF Owed
  <2>3. Cardinality(Live') + o <= Cardinality(Live) + 1 + Owed(A)
        /\ Owed(A) \in 0 .. 1
    BY <1>4, <2>2, OwedIsOne
  <2>4. n + Cardinality(PinnedLive') <= slack'
    BY <1>2, <2>1 DEF CapHolds
  <2>5. Cardinality(Live') + n + o <= AnnouncementCap + slack'
    BY <1>2, <2>1, <2>3 DEF CapHolds
  <2>6. CapHolds(A)'
    BY <2>1, <2>2, <2>4, <2>5 DEF CapHolds
  <2> QED
    BY <2>6
<1> QED
  BY <1>3, <1>4

\* A request that goes on: one that has brought slack moves nothing, and one
\* that has not owes no more than there is room for.
LEMMA RequestGoesOn ==
  ASSUME BoardInv, NEW p \in Posters, p \in Busy, NEW state \in Posting,
         PosterAt(p, state), state.at # "count", state.at # "edit",
         BoardTypeOK', UNCHANGED slack,
         Cardinality(PinnedLive') <= Cardinality(PinnedLive),
         \A A \in SUBSET (Posters \ {p}) :
           Cardinality(Live') + Owed(A)' <= Cardinality(Live) + Owed(A),
         \A b \in Nat :
           /\ b + Cardinality(PinnedLive) <= slack
           /\ Cardinality(Live) + b + Owed({p}) <= AnnouncementCap + slack
           => Cardinality(Live') + b + Owed({p})' <= AnnouncementCap + slack
  PROVE  BoardInv'
<1>7. (\A q \in Posters : PosterHolds(q)') /\ Busy' = Busy \cup {p}
  BY PosterMoves
<1>1. (\A q \in Posters : PosterHolds(q)') /\ Busy' = Busy
  BY <1>7
<1> SUFFICES ASSUME NEW A \in SUBSET Posters, CapHolds(A)
             PROVE  CapHolds(A)'
  BY <1>1 DEF BoardInv
<1>2. /\ Cardinality(Live) \in Nat /\ Cardinality(PinnedLive) \in Nat
      /\ Cardinality(Busy \ A) \in Nat
      /\ Cardinality(Live') \in Nat /\ Cardinality(PinnedLive') \in Nat
      /\ slack \in Nat /\ AnnouncementCap \in Nat
  <2>1. BoardTypeOK
    BY DEF BoardInv
  <2>2. /\ Cardinality(Live) \in 0 .. MaxPosted /\ Cardinality(PinnedLive) \in Nat
        /\ Cardinality(Busy \ A) \in Nat
    BY <2>1, BoardSets
  <2>3. Cardinality(Live') \in 0 .. MaxPosted /\ Cardinality(PinnedLive') \in Nat
    BY BoardSetsAfter
  <2> QED
    BY <2>1, <2>2, <2>3, AnnouncementAssumption DEF BoardTypeOK
<1>3. Busy' \ A = Busy \ A
  BY <1>1
<1>4. PICK b \in Nat : b = Cardinality(Busy \ A)
  BY <1>2
<1>5. b + Cardinality(PinnedLive') <= slack
  BY <1>2, <1>4 DEF CapHolds
<1>6. Cardinality(Live') + b + Owed(A)' <= AnnouncementCap + slack
  <2>1. CASE p \in A
    <3>1. A = {p}
      BY <2>1 DEF CapHolds
    <3> QED
      BY <1>4, <3>1 DEF CapHolds
  <2>2. CASE p \notin A
    <3>1. PICK o \in 0 .. 1 : o = Owed(A)'
      BY DEF Owed
    <3>2. Cardinality(Live') + o <= Cardinality(Live) + Owed(A) /\ Owed(A) \in 0 .. 1
      BY <2>2, <3>1, OwedIsOne
    <3> QED
      BY <1>2, <1>4, <3>1, <3>2 DEF CapHolds
  <2> QED
    BY <2>1, <2>2
<1> QED
  BY <1>3, <1>4, <1>5, <1>6 DEF CapHolds

\* What is posted changes in one row, ...
LEMMA RowChanges ==
  ASSUME BoardTypeOK, NEW r \in Numbers, NEW row \in BoardRows,
         posted' = [posted EXCEPT ![r] = row]
  PROVE  /\ \E n \in 0 .. MaxPosted : posted' \in [1 .. n -> BoardRows]
         /\ Live' \ {r} = Live \ {r} /\ PinnedLive' \ {r} = PinnedLive \ {r}
         /\ row.deleted => r \notin Live' /\ r \notin PinnedLive'
         /\ ~row.deleted /\ r \in DOMAIN posted => r \in Live'
         /\ r \in DOMAIN posted /\ r \in PinnedLive' => row.pinned
         /\ r \notin DOMAIN posted => posted' = posted
<1>1. PICK n \in 0 .. MaxPosted : posted \in [1 .. n -> BoardRows]
  BY DEF BoardTypeOK
<1>2. posted' \in [1 .. n -> BoardRows]
  BY <1>1
<1>3. DOMAIN posted' = DOMAIN posted
      /\ \A k \in DOMAIN posted \ {r} : posted'[k] = posted[k]
  BY <1>1
<1>4. r \in DOMAIN posted => posted'[r] = row
  BY <1>1
<1>5. r \notin DOMAIN posted => posted' = posted
  BY <1>1
<1>6. Live' \ {r} = Live \ {r} /\ PinnedLive' \ {r} = PinnedLive \ {r}
  BY <1>3 DEF Live, PinnedLive
<1>7. row.deleted => r \notin Live' /\ r \notin PinnedLive'
  BY <1>3, <1>4 DEF Live, PinnedLive
<1>8. ~row.deleted /\ r \in DOMAIN posted => r \in Live'
  BY <1>3, <1>4 DEF Live
<1>9. r \in DOMAIN posted /\ r \in PinnedLive' => row.pinned
  BY <1>4 DEF PinnedLive
<1> QED
  BY <1>1, <1>2, <1>5, <1>6, <1>7, <1>8, <1>9

\* ... by a deletion ...
LEMMA Deletes ==
  ASSUME BoardInv, NEW r \in Numbers, BoardTypeOK',
         posted' = [posted EXCEPT ![r].deleted = TRUE]
  PROVE  /\ Live' = Live \ {r} /\ PinnedLive' \subseteq PinnedLive
         /\ Cardinality(PinnedLive') <= Cardinality(PinnedLive)
         /\ Cardinality(Live') <= Cardinality(Live)
         /\ r \in Live => Cardinality(Live') + 1 <= Cardinality(Live)
<1>1. PICK n \in 0 .. MaxPosted : posted \in [1 .. n -> BoardRows]
  BY DEF BoardInv, BoardTypeOK
<1>2. Live' = Live \ {r} /\ PinnedLive' \subseteq PinnedLive
  <2>1. CASE r \in DOMAIN posted
    <3>1. PICK row \in BoardRows : row = [posted[r] EXCEPT !.deleted = TRUE]
      BY <1>1, <2>1 DEF BoardRows
    <3>2. row.deleted /\ posted' = [posted EXCEPT ![r] = row]
      BY <3>1 DEF BoardRows
    <3>3. /\ Live' \ {r} = Live \ {r} /\ PinnedLive' \ {r} = PinnedLive \ {r}
          /\ r \notin Live' /\ r \notin PinnedLive'
      BY <3>2, RowChanges DEF BoardInv
    <3> QED
      BY <3>3
  <2>2. CASE r \notin DOMAIN posted
    <3>1. posted' = posted
      BY <1>1, <2>2
    <3> QED
      BY <2>2, <3>1 DEF Live, PinnedLive
  <2> QED
    BY <2>1, <2>2
<1>3. IsFiniteSet(Live) /\ IsFiniteSet(PinnedLive)
  BY BoardSets DEF BoardInv
<1>4. IsFiniteSet(Live') /\ IsFiniteSet(PinnedLive')
  BY BoardSetsAfter
<1>5. Cardinality(PinnedLive') <= Cardinality(PinnedLive)
  BY <1>2, <1>3, FS_Subset
<1>6. Cardinality(Live') <= Cardinality(Live)
  BY <1>2, <1>3, FS_Subset
<1>7. r \in Live => Cardinality(Live') + 1 <= Cardinality(Live)
  BY <1>2, <1>3, <1>4, SizeChanges
<1> QED
  BY <1>2, <1>5, <1>6, <1>7

\* ... after which the others owe one more only if it was live.
LEMMA DeletionIsOwed ==
  ASSUME BoardInv, NEW p \in Posters, NEW r \in Numbers, BoardTypeOK',
         posted' = [posted EXCEPT ![r].deleted = TRUE],
         \A q \in Posters \ {p} : poster'[q] = poster[q],
         NEW A \in SUBSET (Posters \ {p})
  PROVE  Cardinality(Live') + Owed(A)' <= Cardinality(Live) + Owed(A)
<1>1. /\ Live' = Live \ {r}
      /\ Cardinality(Live') <= Cardinality(Live)
      /\ r \in Live => Cardinality(Live') + 1 <= Cardinality(Live)
  BY Deletes
<1>2. Cardinality(Live) \in Nat /\ Cardinality(Live') \in Nat
  BY BoardSets, BoardSetsAfter DEF BoardInv
<1>3. Owed(A) \in 0 .. 1
  BY OwedIsOne
<1>4. PICK o \in 0 .. 1 : o = Owed(A)'
  BY DEF Owed
<1>5. CASE r \in Live
  BY <1>1, <1>2, <1>3, <1>4, <1>5
<1>6. CASE r \notin Live
  <2>1. Live' = Live
    BY <1>1, <1>6
  <2>2. \A q \in A : Owes(q)' <=> Owes(q)
    BY <2>1 DEF Owes
  <2>3. Owed(A)' = Owed(A)
    BY <2>2 DEF Owed
  <2> QED
    BY <1>1, <1>2, <1>3, <2>3
<1> QED
  BY <1>5, <1>6

\* A request starts: it brings slack unless it is alone.
LEMMA StartHolds ==
  ASSUME BoardInv, NEW p \in Posters, NEW state \in Posting,
         StartRequest(p, state), state.at \in {"count", "edit", "delete"},
         state.at = "count" => state.row = 0,
         state.at = "edit" => ~state.was.deleted /\ state.row \in Live
  PROVE  BoardInv'
<1>1. PICK more \in BOOLEAN : more = (\E q \in Posters : poster[q] # NotPosting)
  OBVIOUS
<1>2. /\ poster[p] = NotPosting /\ PosterAt(p, state) /\ SlackIf(more)
      /\ UNCHANGED posted
  BY <1>1 DEF StartRequest
<1>3. /\ poster' \in [Posters -> Posting \cup {NotPosting}]
      /\ poster'[p] = state
      /\ \A q \in Posters \ {p} : poster'[q] = poster[q]
      /\ Busy' = Busy \cup {p}
      /\ \A q \in Posters : PosterHolds(q)'
  BY <1>2, PosterMoves
<1>4. p \notin Busy /\ (more <=> Busy # {})
  <2>1. \A q \in Posters : q \in Busy <=> poster[q] # NotPosting
    BY PosterKinds DEF BoardInv
  <2>2. Busy \subseteq Posters
    BY DEF Busy
  <2> QED
    BY <1>1, <1>2, <2>1, <2>2
<1>5. /\ slack' \in 0 .. MaxPosted
      /\ slack = MaxPosted => slack' = MaxPosted
      /\ slack # MaxPosted => slack' = slack + (IF more THEN 1 ELSE 0)
  BY <1>2, SlackGrows
<1>6. BoardTypeOK'
  BY <1>2, <1>3, <1>5 DEF BoardInv, BoardTypeOK
<1>7. Live' = Live /\ PinnedLive' = PinnedLive
  BY <1>2 DEF Live, PinnedLive
<1>8. ~Owes(p)'
  BY <1>3, <1>7 DEF Owes
<1> SUFFICES ASSUME slack # MaxPosted, NEW A \in SUBSET Posters, CapHolds(A)
             PROVE  \E B \in SUBSET Posters : CapHolds(B)'
  BY <1>3, <1>5, <1>6 DEF BoardInv
<1>9. /\ Cardinality(Live) \in Nat /\ Cardinality(PinnedLive) \in Nat
      /\ IsFiniteSet(Busy \ A) /\ Cardinality(Busy \ A) \in Nat
      /\ slack \in Nat /\ AnnouncementCap \in Nat /\ Owed(A) \in 0 .. 1
  <2>1. BoardTypeOK /\ slack \in 0 .. MaxPosted
    BY DEF BoardInv, BoardTypeOK
  <2>2. /\ Cardinality(Live) \in 0 .. MaxPosted /\ Cardinality(PinnedLive) \in Nat
        /\ IsFiniteSet(Busy \ A) /\ Cardinality(Busy \ A) \in Nat
    BY <2>1, BoardSets
  <2> QED
    BY <2>1, <2>2, OwedIsOne, AnnouncementAssumption
<1>10. CASE Busy = {}
  <2>1. slack' = slack
    BY <1>4, <1>5, <1>9, <1>10
  <2>2. Busy' \ {p} = {} /\ Owed({p})' = 0
    BY <1>3, <1>8, <1>10 DEF Owed
  <2>3. Busy \ A = {} /\ Cardinality({}) = 0
    BY <1>10, FS_EmptySet
  <2>4. Cardinality(PinnedLive) <= slack
    BY <1>9, <2>3 DEF CapHolds
  <2>5. Cardinality(Live) <= AnnouncementCap + slack
    BY <1>9, <2>3 DEF CapHolds
  <2>6. Cardinality(Busy' \ {p}) = 0 /\ \A q, r \in {p} : q = r
    BY <2>2, <2>3
  <2>7. /\ Cardinality(Busy' \ {p}) + Cardinality(PinnedLive') <= slack'
        /\ Cardinality(Live') + Cardinality(Busy' \ {p}) + Owed({p})'
             <= AnnouncementCap + slack'
    BY <1>7, <1>9, <2>1, <2>2, <2>4, <2>5, <2>6
  <2>8. CapHolds({p})'
    BY <2>6, <2>7 DEF CapHolds
  <2> QED
    BY <2>8
<1>11. CASE Busy # {}
  <2>1. slack' = slack + 1
    BY <1>4, <1>5, <1>11
  <2>2. Busy' \ (A \ {p}) = (Busy \ A) \cup {p} /\ p \notin Busy \ A
    BY <1>3, <1>4
  <2>3. PICK n \in Nat : n = Cardinality(Busy' \ (A \ {p}))
                         /\ n = Cardinality(Busy \ A) + 1
    BY <1>9, <2>2, FS_AddElement
  <2>4. \A q \in A \ {p} : Owes(q)' <=> Owes(q)
    BY <1>3, <1>7 DEF Owes
  <2>5. PICK o \in 0 .. 1 : o = Owed(A \ {p})'
    BY DEF Owed
  <2>6. o <= Owed(A)
    BY <2>4, <2>5 DEF Owed
  <2>7. n + Cardinality(PinnedLive) <= slack'
    BY <1>9, <2>1, <2>3 DEF CapHolds
  <2>8. Cardinality(Live) + n + o <= AnnouncementCap + slack'
    BY <1>9, <2>1, <2>3, <2>6 DEF CapHolds
  <2>9. \A q, r \in A \ {p} : q = r
    BY DEF CapHolds
  <2>10. CapHolds(A \ {p})'
    BY <1>7, <2>3, <2>5, <2>7, <2>8, <2>9 DEF CapHolds
  <2> QED
    BY <2>10
<1> QED
  BY <1>10, <1>11

\* Beginning to post, to edit or to delete keeps the invariant.
LEMMA StartSteps ==
  ASSUME BoardInv, NEW p \in Posters,
         \/ StartPost(p) \/ FindAnnouncementForEdit(p)
         \/ FindAnnouncementForDelete(p)
  PROVE  BoardInv'
<1>1. /\ Live \subseteq Numbers
      /\ \A n \in Live : posted[n] \in BoardRows /\ ~posted[n].deleted
  <2>1. PICK n \in 0 .. MaxPosted : posted \in [1 .. n -> BoardRows]
    BY DEF BoardInv, BoardTypeOK
  <2>2. 1 .. n \subseteq Numbers
    BY AnnouncementAssumption DEF Numbers
  <2> QED
    BY <2>1, <2>2 DEF Live
<1>2. CASE StartPost(p)
  <2>1. PICK pinned \in BOOLEAN :
          StartRequest(p, [at |-> "count", row |-> 0, pinned |-> pinned])
    BY <1>2 DEF StartPost
  <2>2. PICK state : state = [at |-> "count", row |-> 0, pinned |-> pinned]
    OBVIOUS
  <2>3. state \in Posting /\ state.at = "count" /\ state.row = 0
    BY <2>2 DEF Posting
  <2> QED
    BY <2>1, <2>2, <2>3, StartHolds
<1>3. CASE FindAnnouncementForEdit(p)
  <2>1. PICK n \in Live, pinned \in BOOLEAN :
          StartRequest(p, [at |-> "edit", row |-> n,
                           was |-> [posted[n] EXCEPT !.pinned = pinned]])
    BY <1>3 DEF FindAnnouncementForEdit
  <2>2. PICK was \in BoardRows : was = [posted[n] EXCEPT !.pinned = pinned]
    BY <1>1 DEF BoardRows
  <2>3. ~was.deleted
    BY <1>1, <2>2 DEF BoardRows
  <2>4. PICK state : state = [at |-> "edit", row |-> n, was |-> was]
    OBVIOUS
  <2>5. n \in Numbers
    BY <1>1
  <2>6. state \in Posting /\ state.at = "edit" /\ state.row = n /\ state.was = was
    BY <2>4, <2>5 DEF Posting
  <2>7. StartRequest(p, state)
    BY <2>1, <2>2, <2>4
  <2> QED
    BY <2>3, <2>6, <2>7, StartHolds
<1>4. CASE FindAnnouncementForDelete(p)
  <2>1. PICK n \in Live : StartRequest(p, [at |-> "delete", row |-> n])
    BY <1>4 DEF FindAnnouncementForDelete
  <2>2. PICK state : state = [at |-> "delete", row |-> n]
    OBVIOUS
  <2>3. n \in Numbers
    BY <1>1
  <2>4. state \in Posting /\ state.at = "delete"
    BY <2>2, <2>3 DEF Posting
  <2> QED
    BY <2>1, <2>2, <2>4, StartHolds
<1> QED
  BY <1>2, <1>3, <1>4

\* Nothing posted changes: what is owed does not either, but by the request.
LEMMA NothingPosted ==
  ASSUME BoardInv, NEW p \in Posters, UNCHANGED <<posted, slack>>,
         \A q \in Posters \ {p} : poster'[q] = poster[q],
         poster' \in [Posters -> Posting \cup {NotPosting}]
  PROVE  /\ BoardTypeOK' /\ Live' = Live
         /\ Cardinality(PinnedLive') <= Cardinality(PinnedLive)
         /\ \A A \in SUBSET (Posters \ {p}) :
              Cardinality(Live') + Owed(A)' <= Cardinality(Live) + Owed(A)
<1>1. BoardTypeOK'
  BY DEF BoardInv, BoardTypeOK
<1>2. Live' = Live /\ PinnedLive' = PinnedLive
  BY DEF Live, PinnedLive
<1>3. /\ Cardinality(PinnedLive) \in Nat /\ Cardinality(Live) \in Nat
  BY BoardSets DEF BoardInv
<1>4. ASSUME NEW A \in SUBSET (Posters \ {p}) PROVE Owed(A)' = Owed(A)
  <2>1. \A q \in A : Owes(q)' <=> Owes(q)
    BY <1>2 DEF Owes
  <2> QED
    BY <2>1 DEF Owed
<1>5. \A A : Owed(A) \in 0 .. 1
  BY OwedIsOne
<1> QED
  BY <1>1, <1>2, <1>3, <1>4, <1>5

\* Counting the announcements, or looking for the oldest, keeps it.
LEMMA CountSteps ==
  ASSUME BoardInv, NEW p \in Posters, CountAnnouncements(p) \/ FindOldest(p)
  PROVE  BoardInv'
<1>1. /\ poster[p].at \in {"count", "drop"} /\ UNCHANGED <<posted, slack>>
      /\ poster[p].row = 0
  BY DEF CountAnnouncements, FindOldest, BoardInv, PosterHolds
<1>2. PICK r : r = poster[p]
  OBVIOUS
<1>3. /\ p \in Busy
      /\ r \in [at : {"count", "drop", "save"}, row : Numbers \cup {0},
                pinned : BOOLEAN]
  BY <1>1, <1>2, PosterKinds DEF BoardInv, Busy
<1>4. /\ Cardinality(Live) \in Nat /\ Cardinality(PinnedLive) \in Nat
      /\ slack \in Nat /\ AnnouncementCap \in Nat \ {0}
  <2>1. BoardTypeOK /\ slack \in 0 .. MaxPosted
    BY DEF BoardInv, BoardTypeOK
  <2>2. Cardinality(Live) \in 0 .. MaxPosted /\ Cardinality(PinnedLive) \in Nat
    BY <2>1, BoardSets
  <2> QED
    BY <2>1, <2>2, AnnouncementAssumption
<1>5. ASSUME NEW state \in Posting, PosterAt(p, state),
             state.at # "count", state.at # "edit",
             \/ Owed({p})' = 0
             \/ \A b \in Nat : b + Cardinality(PinnedLive) <= slack
                  => Cardinality(Live) + b + 1 <= AnnouncementCap + slack
      PROVE  BoardInv'
  <2>1. /\ poster' \in [Posters -> Posting \cup {NotPosting}]
        /\ \A q \in Posters \ {p} : poster'[q] = poster[q]
    BY <1>5, PosterMoves
  <2>2. /\ BoardTypeOK' /\ Live' = Live
        /\ Cardinality(PinnedLive') <= Cardinality(PinnedLive)
        /\ \A A \in SUBSET (Posters \ {p}) :
             Cardinality(Live') + Owed(A)' <= Cardinality(Live) + Owed(A)
    BY <1>1, <2>1, NothingPosted
  <2>3. PICK o \in 0 .. 1 : o = Owed({p})'
    BY DEF Owed
  <2>4. ASSUME NEW b \in Nat, b + Cardinality(PinnedLive) <= slack,
               Cardinality(Live) + b + Owed({p}) <= AnnouncementCap + slack
        PROVE  Cardinality(Live') + b + Owed({p})' <= AnnouncementCap + slack
    <3>1. Owed({p}) \in 0 .. 1
      BY OwedIsOne
    <3>2. CASE o = 0
      BY <1>4, <2>2, <2>3, <2>4, <3>1, <3>2
    <3>3. CASE o = 1
      BY <1>4, <1>5, <2>2, <2>3, <2>4, <3>3
    <3> QED
      BY <2>3, <3>2, <3>3
  <2> QED
    BY <1>1, <1>3, <1>5, <2>2, <2>4, RequestGoesOn
<1>6. CASE CountAnnouncements(p)
  <2>1. PICK at \in {"drop", "save"} :
          at = IF Cardinality(Live) >= AnnouncementCap THEN "drop" ELSE "save"
    OBVIOUS
  <2>2. PICK state : state = [r EXCEPT !.at = at]
    OBVIOUS
  <2>3. state \in Posting /\ state.at = at /\ state.row = 0
    BY <1>1, <1>2, <1>3, <2>2 DEF Posting
  <2>4. PosterAt(p, state)
    BY <1>2, <1>6, <2>1, <2>2 DEF CountAnnouncements
  <2>5. poster'[p] = state
    BY <2>4 DEF PosterAt, BoardInv, BoardTypeOK
  <2>6. CASE Cardinality(Live) >= AnnouncementCap
    <3>1. ~Owes(p)'
      BY <2>1, <2>3, <2>5, <2>6 DEF Owes
    <3>2. Owed({p})' = 0
      BY <3>1 DEF Owed
    <3> QED
      BY <1>5, <2>1, <2>3, <2>4, <3>2
  <2>7. CASE ~(Cardinality(Live) >= AnnouncementCap)
    <3>1. \A b \in Nat : b + Cardinality(PinnedLive) <= slack
            => Cardinality(Live) + b + 1 <= AnnouncementCap + slack
      BY <1>4, <2>7
    <3> QED
      BY <1>5, <2>1, <2>3, <2>4, <3>1
  <2> QED
    BY <2>6, <2>7
<1>7. CASE FindOldest(p)
  <2>1. CASE Droppable = {}
    <3>1. PICK state : state = [r EXCEPT !.at = "save"]
      OBVIOUS
    <3>2. state \in Posting /\ state.at = "save"
      BY <1>3, <3>1 DEF Posting
    <3>3. PosterAt(p, state)
      BY <1>2, <1>7, <2>1, <3>1 DEF FindOldest
    <3>4. Live = PinnedLive
      BY <2>1 DEF Droppable, PinnedLive
    <3>5. \A b \in Nat : b + Cardinality(PinnedLive) <= slack
            => Cardinality(Live) + b + 1 <= AnnouncementCap + slack
      BY <1>4, <3>4
    <3> QED
      BY <1>5, <3>2, <3>3, <3>5
  <2>2. CASE Droppable # {}
    <3>1. PICK n \in Droppable : PosterAt(p, [r EXCEPT !.row = n])
      BY <1>2, <1>7, <2>2 DEF FindOldest
    <3>2. n \in Live /\ n \in Numbers
      <4>1. PICK m \in 0 .. MaxPosted : posted \in [1 .. m -> BoardRows]
        BY DEF BoardInv, BoardTypeOK
      <4>2. 1 .. m \subseteq Numbers
        BY AnnouncementAssumption DEF Numbers
      <4> QED
        BY <4>1, <4>2 DEF Droppable, Live
    <3>3. PICK state : state = [r EXCEPT !.row = n]
      OBVIOUS
    <3>4. state \in Posting /\ state.at = "drop" /\ state.row = n
      BY <1>2, <1>3, <1>7, <3>2, <3>3 DEF Posting, FindOldest
    <3>5. poster'[p] = state /\ Live' = Live
      BY <1>1, <3>1, <3>3 DEF PosterAt, BoardInv, BoardTypeOK, Live
    <3>6. ~Owes(p)'
      BY <3>2, <3>4, <3>5 DEF Owes
    <3>7. Owed({p})' = 0
      BY <3>6 DEF Owed
    <3> QED
      BY <1>5, <3>1, <3>3, <3>4, <3>7
  <2> QED
    BY <2>1, <2>2
<1> QED
  BY <1>6, <1>7

\* The rows a request deletes.
LEMMA DeletionTypes ==
  ASSUME BoardTypeOK, NEW r \in Numbers,
         posted' = [posted EXCEPT ![r].deleted = TRUE],
         poster' \in [Posters -> Posting \cup {NotPosting}], UNCHANGED slack
  PROVE  BoardTypeOK'
<1>1. PICK n \in 0 .. MaxPosted : posted \in [1 .. n -> BoardRows]
  BY DEF BoardTypeOK
<1>2. \A row \in BoardRows : [row EXCEPT !.deleted = TRUE] \in BoardRows
  BY DEF BoardRows
<1>3. posted' \in [1 .. n -> BoardRows]
  BY <1>1, <1>2
<1> QED
  BY <1>3 DEF BoardTypeOK

\* Dropping the oldest makes the room the post owes.
LEMMA DropStep ==
  ASSUME BoardInv, NEW p \in Posters, DropOldest(p)
  PROVE  BoardInv'
<1>1. PICK r : r = poster[p]
  OBVIOUS
<1>2. r.at = "drop" /\ r.row # 0 /\ UNCHANGED slack
  BY <1>1 DEF DropOldest
<1>3. /\ p \in Busy
      /\ r \in [at : {"count", "drop", "save"}, row : Numbers \cup {0},
                pinned : BOOLEAN]
  BY <1>1, <1>2, PosterKinds DEF BoardInv, Busy
<1>4. PICK k \in Numbers : k = r.row
  BY <1>2, <1>3
<1>5. posted' = [posted EXCEPT ![k].deleted = TRUE]
  BY <1>1, <1>4 DEF DropOldest
<1>6. PICK state : state = [r EXCEPT !.at = "save"]
  OBVIOUS
<1>7. state \in Posting /\ state.at = "save"
  BY <1>3, <1>6 DEF Posting
<1>8. PosterAt(p, state)
  BY <1>1, <1>6 DEF DropOldest
<1>9. /\ poster' \in [Posters -> Posting \cup {NotPosting}]
      /\ \A q \in Posters \ {p} : poster'[q] = poster[q]
  BY <1>7, <1>8, PosterMoves
<1>10. BoardTypeOK'
  BY <1>2, <1>5, <1>9, DeletionTypes DEF BoardInv
<1>11. /\ Cardinality(PinnedLive') <= Cardinality(PinnedLive)
       /\ Cardinality(Live') <= Cardinality(Live)
       /\ k \in Live => Cardinality(Live') + 1 <= Cardinality(Live)
  BY <1>5, <1>10, Deletes
<1>12. \A A \in SUBSET (Posters \ {p}) :
         Cardinality(Live') + Owed(A)' <= Cardinality(Live) + Owed(A)
  BY <1>5, <1>9, <1>10, DeletionIsOwed
<1>13. Cardinality(Live) \in Nat /\ Cardinality(Live') \in Nat
       /\ AnnouncementCap \in Nat /\ slack \in Nat
  BY <1>10, BoardSets, BoardSetsAfter, AnnouncementAssumption
     DEF BoardInv, BoardTypeOK
<1>14. k \notin Live => Owed({p}) = 1
  BY <1>1, <1>2, <1>4 DEF Owed, Owes
<1>15. PICK o \in 0 .. 1 : o = Owed({p})'
  BY DEF Owed
<1>16. ASSUME NEW b \in Nat,
              Cardinality(Live) + b + Owed({p}) <= AnnouncementCap + slack
       PROVE  Cardinality(Live') + b + Owed({p})' <= AnnouncementCap + slack
  <2>1. Owed({p}) \in 0 .. 1
    BY OwedIsOne
  <2>2. CASE k \in Live
    BY <1>11, <1>13, <1>15, <1>16, <2>1, <2>2
  <2>3. CASE k \notin Live
    BY <1>11, <1>13, <1>14, <1>15, <1>16, <2>3
  <2> QED
    BY <2>2, <2>3
<1> QED
  BY <1>2, <1>3, <1>7, <1>8, <1>10, <1>11, <1>12, <1>16, RequestGoesOn

\* A deletion makes room for one.
LEMMA DeleteStep ==
  ASSUME BoardInv, NEW p \in Posters, DeleteAnnouncement(p)
  PROVE  BoardInv'
<1>1. poster[p].at = "delete" /\ UNCHANGED slack /\ PosterAt(p, NotPosting)
  BY DEF DeleteAnnouncement
<1>2. p \in Busy /\ poster[p].row \in Numbers
  BY <1>1, PosterKinds DEF BoardInv, Busy
<1>3. PICK k \in Numbers : k = poster[p].row
  BY <1>2
<1>4. posted' = [posted EXCEPT ![k].deleted = TRUE]
  BY <1>3 DEF DeleteAnnouncement
<1>5. /\ poster' \in [Posters -> Posting \cup {NotPosting}]
      /\ \A q \in Posters \ {p} : poster'[q] = poster[q]
  BY <1>1, PosterEnds
<1>6. BoardTypeOK'
  BY <1>1, <1>4, <1>5, DeletionTypes DEF BoardInv
<1>7. /\ Cardinality(PinnedLive') <= Cardinality(PinnedLive)
      /\ Cardinality(Live') <= Cardinality(Live)
  BY <1>4, <1>6, Deletes
<1>8. \A A \in SUBSET (Posters \ {p}) :
        Cardinality(Live') + Owed(A)' <= Cardinality(Live) + Owed(A)
  BY <1>4, <1>5, <1>6, DeletionIsOwed
<1>9. /\ Cardinality(Live) \in Nat /\ Cardinality(Live') \in Nat
      /\ Cardinality(PinnedLive) \in Nat /\ Cardinality(PinnedLive') \in Nat
      /\ slack \in Nat
  BY <1>6, BoardSets, BoardSetsAfter, AnnouncementAssumption
     DEF BoardInv, BoardTypeOK
<1>10. Cardinality(Live') <= Cardinality(Live) + Owed({p})
  <2>1. Owed({p}) \in 0 .. 1
    BY OwedIsOne
  <2> QED
    BY <1>7, <1>9, <2>1
<1>11. ASSUME NEW A \in SUBSET (Posters \ {p})
       PROVE  Cardinality(Live') + Owed(A)' <= Cardinality(Live) + 1 + Owed(A)
  <2>1. PICK o \in 0 .. 1 : o = Owed(A)'
    BY DEF Owed
  <2>2. Owed(A) \in 0 .. 1
    BY OwedIsOne
  <2> QED
    BY <1>8, <1>9, <2>1, <2>2
<1>12. /\ slack = MaxPosted => slack' = MaxPosted
       /\ slack # MaxPosted => slack' = slack + 0
       /\ Cardinality(PinnedLive') <= Cardinality(PinnedLive) + 0
  BY <1>1, <1>7, <1>9
<1> QED
  BY <1>1, <1>2, <1>6, <1>10, <1>11, <1>12, RequestEnds

\* Nothing live goes: the others owe no more than before.
LEMMA NothingOwed ==
  ASSUME BoardInv, NEW p \in Posters, BoardTypeOK', Live \subseteq Live',
         Cardinality(Live') <= Cardinality(Live) + 1,
         \A q \in Posters \ {p} : poster'[q] = poster[q],
         NEW A \in SUBSET (Posters \ {p})
  PROVE  Cardinality(Live') + Owed(A)' <= Cardinality(Live) + 1 + Owed(A)
<1>1. Cardinality(Live) \in Nat /\ Cardinality(Live') \in Nat
  BY BoardSets, BoardSetsAfter DEF BoardInv
<1>2. Owed(A) \in 0 .. 1
  BY OwedIsOne
<1>3. \A q \in A : Owes(q)' => Owes(q)
  BY DEF Owes
<1>4. PICK o \in 0 .. 1 : o = Owed(A)' /\ o <= Owed(A)
  BY <1>3 DEF Owed
<1> QED
  BY <1>1, <1>2, <1>4

\* An update may pin or unpin what it read, which another post may not have counted.
LEMMA UpdateStep ==
  ASSUME BoardInv, NEW p \in Posters, UpdateAnnouncement(p)
  PROVE  BoardInv'
<1>1. poster[p].at = "edit" /\ PosterAt(p, NotPosting)
  BY DEF UpdateAnnouncement
<1>2. p \in Busy /\ poster[p].row \in Numbers /\ poster[p].was \in BoardRows
  BY <1>1, PosterKinds DEF BoardInv, Busy
<1>3. PICK k \in Numbers, was \in BoardRows :
        k = poster[p].row /\ was = poster[p].was
  BY <1>2
<1>4. ~was.deleted /\ was.pinned \in BOOLEAN
  BY <1>1, <1>3 DEF BoardInv, PosterHolds, BoardRows
<1>5. posted' = [posted EXCEPT ![k] = was] /\ SlackIf(was.pinned)
  BY <1>3 DEF UpdateAnnouncement
<1>6. /\ poster' \in [Posters -> Posting \cup {NotPosting}]
      /\ \A q \in Posters \ {p} : poster'[q] = poster[q]
  BY <1>1, PosterEnds
<1>7. /\ slack' \in 0 .. MaxPosted
      /\ slack = MaxPosted => slack' = MaxPosted
      /\ slack # MaxPosted => slack' = slack + (IF was.pinned THEN 1 ELSE 0)
  BY <1>4, <1>5, SlackGrows
<1>8. /\ \E n \in 0 .. MaxPosted : posted' \in [1 .. n -> BoardRows]
      /\ Live' \ {k} = Live \ {k} /\ PinnedLive' \ {k} = PinnedLive \ {k}
      /\ k \in DOMAIN posted => k \in Live'
      /\ k \in DOMAIN posted /\ k \in PinnedLive' => was.pinned
      /\ k \notin DOMAIN posted => posted' = posted
  BY <1>4, <1>5, RowChanges DEF BoardInv
<1>9. BoardTypeOK'
  BY <1>6, <1>7, <1>8 DEF BoardTypeOK
<1>10. /\ Live \subseteq Live' /\ Live' \subseteq Live \cup {k}
       /\ PinnedLive' \subseteq PinnedLive \cup {k}
       /\ ~was.pinned => PinnedLive' \subseteq PinnedLive
  <2>1. CASE k \in DOMAIN posted
    BY <1>8, <2>1
  <2>2. CASE k \notin DOMAIN posted
    <3>1. Live' = Live /\ PinnedLive' = PinnedLive
      BY <1>8, <2>2 DEF Live, PinnedLive
    <3> QED
      BY <3>1
  <2> QED
    BY <2>1, <2>2
<1>11. /\ IsFiniteSet(Live) /\ IsFiniteSet(PinnedLive)
       /\ IsFiniteSet(Live') /\ IsFiniteSet(PinnedLive')
  BY <1>9, BoardSets, BoardSetsAfter DEF BoardInv
<1>12. /\ Cardinality(Live) \in Nat /\ Cardinality(Live') \in Nat
       /\ Cardinality(Live') <= Cardinality(Live) + 1
       /\ Live' \subseteq Live => Cardinality(Live') <= Cardinality(Live)
  BY <1>10, <1>11, SizeChanges
<1>13. /\ Cardinality(PinnedLive) \in Nat /\ Cardinality(PinnedLive') \in Nat
       /\ Cardinality(PinnedLive') <= Cardinality(PinnedLive) + 1
       /\ ~was.pinned => Cardinality(PinnedLive') <= Cardinality(PinnedLive)
  BY <1>10, <1>11, SizeChanges
<1>14. PICK m \in 0 .. 1 : m = IF was.pinned THEN 1 ELSE 0
  OBVIOUS
<1>15. /\ Cardinality(PinnedLive') <= Cardinality(PinnedLive) + m
       /\ slack # MaxPosted => slack' = slack + m
  BY <1>7, <1>13, <1>14
<1>16. Cardinality(Live') <= Cardinality(Live) + Owed({p})
  <2>1. CASE k \in Live
    <3>1. Cardinality(Live') <= Cardinality(Live) /\ Owed({p}) \in 0 .. 1
      BY <1>10, <1>12, <2>1, OwedIsOne
    <3> QED
      BY <1>12, <3>1
  <2>2. CASE k \notin Live
    <3>1. Owed({p}) = 1
      BY <1>1, <1>3, <2>2 DEF Owed, Owes
    <3> QED
      BY <1>12, <3>1
  <2> QED
    BY <2>1, <2>2
<1>17. \A A \in SUBSET (Posters \ {p}) :
         Cardinality(Live') + Owed(A)' <= Cardinality(Live) + 1 + Owed(A)
  BY <1>6, <1>9, <1>10, <1>12, NothingOwed
<1> QED
  BY <1>1, <1>2, <1>7, <1>9, <1>15, <1>16, <1>17, RequestEnds

\* A post takes the room that was counted for it.
LEMMA SaveStep ==
  ASSUME BoardInv, NEW p \in Posters, SaveAnnouncement(p)
  PROVE  BoardInv'
<1>1. poster[p].at = "save" /\ PosterAt(p, NotPosting) /\ NumPosted < MaxPosted
  BY DEF SaveAnnouncement
<1>2. p \in Busy /\ poster[p].pinned \in BOOLEAN
  BY <1>1, PosterKinds DEF BoardInv, Busy
<1>3. PICK pinned \in BOOLEAN : pinned = poster[p].pinned
  BY <1>2
<1>4. PICK n \in 0 .. MaxPosted : posted \in [1 .. n -> BoardRows] /\ NumPosted = n
  BY BoardSets DEF BoardInv
<1>5. MaxPosted \in Nat /\ n < MaxPosted /\ n \in Nat
  BY <1>1, <1>4, AnnouncementAssumption
<1>6. PICK row \in BoardRows : row = [pinned |-> pinned, deleted |-> FALSE]
  BY DEF BoardRows
<1>7. row.pinned = pinned /\ ~row.deleted
  BY <1>6
<1>8. posted' = [i \in 1 .. n + 1 |-> IF i <= n THEN posted[i] ELSE row]
      /\ SlackIf(pinned)
  BY <1>3, <1>4, <1>6 DEF SaveAnnouncement
<1>9. /\ poster' \in [Posters -> Posting \cup {NotPosting}]
      /\ \A q \in Posters \ {p} : poster'[q] = poster[q]
  BY <1>1, PosterEnds
<1>10. /\ slack' \in 0 .. MaxPosted
       /\ slack = MaxPosted => slack' = MaxPosted
       /\ slack # MaxPosted => slack' = slack + (IF pinned THEN 1 ELSE 0)
  BY <1>8, SlackGrows
<1>11. /\ \A i \in 1 .. n : i \in 1 .. n + 1 /\ i <= n
       /\ \A i \in 1 .. n + 1 : i \in 1 .. n \/ (i = n + 1 /\ ~(i <= n))
       /\ n + 1 \in 0 .. MaxPosted
  BY <1>5
<1>12. posted' \in [1 .. n + 1 -> BoardRows]
  BY <1>4, <1>8, <1>11
<1>13. BoardTypeOK'
  BY <1>9, <1>10, <1>11, <1>12 DEF BoardTypeOK
<1>14. /\ \A i \in 1 .. n : posted'[i] = posted[i]
       /\ posted'[n + 1] = row
       /\ DOMAIN posted = 1 .. n /\ DOMAIN posted' = 1 .. n + 1
  BY <1>4, <1>5, <1>8, <1>11
<1>15. PICK k : k = n + 1
  OBVIOUS
<1>16. /\ Live \subseteq Live' /\ Live' \subseteq Live \cup {k}
       /\ PinnedLive' \subseteq PinnedLive \cup {k}
       /\ ~pinned => PinnedLive' \subseteq PinnedLive
  <2>1. Live \subseteq Live' /\ Live' \subseteq Live \cup {k}
    BY <1>11, <1>14, <1>15 DEF Live
  <2>2. PinnedLive' \subseteq PinnedLive \cup {k}
    BY <1>11, <1>14, <1>15 DEF Live, PinnedLive
  <2>3. ~pinned => PinnedLive' \subseteq PinnedLive
    BY <1>7, <1>11, <1>14, <1>15 DEF Live, PinnedLive
  <2> QED
    BY <2>1, <2>2, <2>3
<1>17. /\ IsFiniteSet(Live) /\ IsFiniteSet(PinnedLive)
       /\ IsFiniteSet(Live') /\ IsFiniteSet(PinnedLive')
  BY <1>13, BoardSets, BoardSetsAfter DEF BoardInv
<1>18. Cardinality(Live') <= Cardinality(Live) + 1
  BY <1>16, <1>17, SizeChanges
<1>19. /\ Cardinality(PinnedLive) \in Nat /\ Cardinality(PinnedLive') \in Nat
       /\ Cardinality(PinnedLive') <= Cardinality(PinnedLive) + 1
       /\ ~pinned => Cardinality(PinnedLive') <= Cardinality(PinnedLive)
  BY <1>16, <1>17, SizeChanges
<1>20. PICK m \in 0 .. 1 : m = IF pinned THEN 1 ELSE 0
  OBVIOUS
<1>21. /\ Cardinality(PinnedLive') <= Cardinality(PinnedLive) + m
       /\ slack # MaxPosted => slack' = slack + m
  BY <1>10, <1>19, <1>20
<1>22. Owed({p}) = 1
  BY <1>1 DEF Owed, Owes
<1>23. \A A \in SUBSET (Posters \ {p}) :
         Cardinality(Live') + Owed(A)' <= Cardinality(Live) + 1 + Owed(A)
  BY <1>9, <1>13, <1>16, <1>18, NothingOwed
<1> QED
  BY <1>1, <1>2, <1>10, <1>13, <1>18, <1>21, <1>22, <1>23, RequestEnds

\* ... every step keeps it,
LEMMA BoardStepHolds == BoardInv /\ [BoardNext]_boardVars => BoardInv'
<1> SUFFICES ASSUME BoardInv, [BoardNext]_boardVars PROVE BoardInv'
  OBVIOUS
<1>1. CASE UNCHANGED boardVars
  <2>1. BoardTypeOK' /\ \A p \in Posters : PosterHolds(p)'
    BY <1>1 DEF boardVars, BoardInv, BoardTypeOK, PosterHolds
  <2>2. Live' = Live /\ PinnedLive' = PinnedLive /\ Busy' = Busy /\ slack' = slack
    BY <1>1 DEF boardVars, Live, PinnedLive, Busy
  <2>3. \A q : Owes(q)' <=> Owes(q)
    BY <1>1, <2>2 DEF boardVars, Owes
  <2>4. \A A : Owed(A)' = Owed(A)
    BY <2>3 DEF Owed
  <2>5. \A A : CapHolds(A) => CapHolds(A)'
    BY <2>2, <2>4 DEF CapHolds
  <2> QED
    BY <2>1, <2>2, <2>5 DEF BoardInv
<1>2. ASSUME NEW p \in Posters, BoardRequest(p) PROVE BoardInv'
  BY <1>2, StartSteps, CountSteps, DropStep, SaveStep, UpdateStep, DeleteStep
     DEF BoardRequest, CreateAnnouncement
<1> QED
  BY <1>1, <1>2 DEF BoardNext

-----------------------------------------------------------------------------
(***************************************************************************)
(* The whole.                                                              *)
(***************************************************************************)
\* What holds of all components.
PlatformInv ==
  /\ subject \in Subjects
  /\ JobsInv /\ HooksInv /\ SessionInv /\ GdprInv /\ RateInv /\ CachingInv
  /\ RotationInv /\ BackfillInv /\ FlagsHold /\ PushInv /\ NotesInv
  /\ FilesInv /\ BoardInv

\* The invariants of all components hold at first.
LEMMA PlatformInitially == PlatformInit => PlatformInv
BY JobsInitially, HooksInitially, SessionInitially, GdprInitially, RateInitially,
   CachingInitially, RotationInitially, BackfillInitially, FlagsInitially,
   PushInitially, NotesInitially, FilesInitially, BoardInitially
DEF PlatformInit, PlatformInv

\* The steps of the components, and of none.
AllStep ==
  /\ [JobsNext]_jobsVars /\ [HooksNext]_hookVars /\ [SessionNext]_sessionVars
  /\ [GdprNext]_gdprVars /\ [RateNext]_rateVars /\ [CachingNext]_cachingVars
  /\ [RotationNext]_rotationVars /\ [BackfillNext]_backfillVars
  /\ [FlagsNext]_flagVars /\ [PushNext]_pushVars /\ [NotesNext]_notesVars
  /\ [UploadNext]_uploadVars /\ [BoardNext]_boardVars

\* A step of the platform is one of each component, or leaves it alone.
LEMMA PlatformSteps ==
  [PlatformNext]_platformVars => AllStep /\ UNCHANGED subject
<1> SUFFICES ASSUME [PlatformNext]_platformVars PROVE AllStep /\ UNCHANGED subject
  OBVIOUS
<1>1. CASE UNCHANGED platformVars
  BY <1>1 DEF platformVars, AllStep
<1>2. CASE JobsStep
  BY <1>2 DEF JobsStep, OthersStay, AllStep
<1>3. CASE HooksStep
  BY <1>3 DEF HooksStep, OthersStay, AllStep
<1>4. CASE SessionStep
  BY <1>4 DEF SessionStep, OthersStay, AllStep
<1>5. CASE GdprStep
  BY <1>5 DEF GdprStep, OthersStay, AllStep
<1>6. CASE RateStep
  BY <1>6 DEF RateStep, OthersStay, AllStep
<1>7. CASE CachingStep
  BY <1>7 DEF CachingStep, OthersStay, AllStep
<1>8. CASE RotationStep
  BY <1>8 DEF RotationStep, OthersStay, AllStep
<1>9. CASE BackfillStep
  BY <1>9 DEF BackfillStep, OthersStay, AllStep
<1>10. CASE FlagsStep
  BY <1>10 DEF FlagsStep, OthersStay, AllStep
<1>11. CASE PushStep
  BY <1>11 DEF PushStep, OthersStay, AllStep
<1>12. CASE NotesStep
  BY <1>12 DEF NotesStep, OthersStay, AllStep
<1>13. CASE UploadStep
  BY <1>13 DEF UploadStep, OthersStay, AllStep
<1>14. CASE BoardStep
  BY <1>14 DEF BoardStep, OthersStay, AllStep
<1> QED
  BY <1>1, <1>2, <1>3, <1>4, <1>5, <1>6, <1>7, <1>8, <1>9, <1>10, <1>11,
     <1>12, <1>13, <1>14 DEF PlatformNext

\* Every step of the platform keeps the invariants of all components.
LEMMA PlatformKeeps ==
  PlatformInv /\ [PlatformNext]_platformVars => PlatformInv'
BY PlatformSteps, JobsStepHolds, HooksStepHolds, SessionStepHolds,
   GdprStepHolds, RateStepHolds, CachingStepHolds, RotationStepHolds,
   BackfillStepHolds, FlagsStepHolds, PushStepHolds, NotesStepHolds,
   FilesStepHolds, BoardStepHolds
DEF PlatformInv, AllStep

\* So they hold of every behaviour of the platform.
LEMMA PlatformInvariant == PlatformSpec => []PlatformInv
BY PlatformInitially, PlatformKeeps, PTL DEF PlatformSpec

\* Whatever the numbers, the variables of every component keep the types its
\* module gives them, of the subject and of the others.
THEOREM PlatformTypeTheorem == PlatformSpec => []PlatformTypeOK
<1>1. PlatformInv => PlatformTypeOK
  BY JobsConclusion, HooksConclusion, SessionConclusion, GdprConclusion,
     RateConclusion, CachingConclusion, BackfillConclusion, FlagsConclusion,
     PushConclusion, NotesConclusion, FilesConclusion, BoardConclusion
  DEF PlatformInv, PlatformTypeOK, RotationInv
<1> QED
  BY <1>1, PlatformInvariant, PTL

\* Whatever the jobs, the administrators and the webhooks: a dead letter marked
\* as retried has its payload in the queue (QueueService.retryDeadLetterJob), and
\* a delivery is called successful when its endpoint has answered so
\* (WebhookDeliveryProcessor).
THEOREM DeliveriesTheorem == PlatformSpec => []DeliveriesAreHonest
<1>1. PlatformInv => DeliveriesAreHonest
  BY JobsConclusion, HooksConclusion DEF PlatformInv, DeliveriesAreHonest
<1> QED
  BY <1>1, PlatformInvariant, PTL

\* Whatever the requests, the writers and the instances: a cached version of the
\* session is the row's unless it is about to be dropped or came late
\* (JwtStrategy), a cached response is outdated by no more than its lifetime and
\* the time a request may take (CacheInterceptor), and a cached flag by no more
\* than its lifetime (FeatureFlagService).
THEOREM CachesTheorem == PlatformSpec => []CachesAreCurrent
<1>1. PlatformInv => CachesAreCurrent
  BY SessionConclusion, CachingConclusion, FlagsConclusion
  DEF PlatformInv, CachesAreCurrent
<1> QED
  BY <1>1, PlatformInvariant, PTL

\* Whatever the pushes, the devices and the rows: no device gets a push twice,
\* save where a worker died with the answer, no ciphertext that is known as one,
\* without a version, is encrypted again, and without a ring of keys nothing is
\* (PushNotificationProcessor, the backfill script).
THEOREM RetriesTheorem == PlatformSpec => []RetriesRepeatNothing
<1>1. PlatformInv => RetriesRepeatNothing
  BY PushConclusion, BackfillConclusion DEF PlatformInv, RetriesRepeatNothing
<1> QED
  BY <1>1, PlatformInvariant, PTL

\* Whatever the callers, the requests, the streams and the posts: limits hold
\* however requests interleave, who waits a limit out finds room, and posts
\* exceed the cap of announcements by no more than races let slip
\* (RedisThrottlerStorage, NotificationsController, AnnouncementsService).
THEOREM LimitsTheorem == PlatformSpec => LimitsHold
<1>1. PlatformInv => LimitHolds /\ StreamLimitHolds /\ CapSlipsByRacesOnly
  BY RateConclusion, NotesConclusion, BoardConclusion DEF PlatformInv
<1>2. PlatformInv /\ [PlatformNext]_platformVars =>
        [\A b \in Buckets : closed[b] > 0 /\ closed'[b] = 0 =>
           Len(hits'[b]) < Cardinality(Visits)]_rateVars
  BY PlatformSteps, RateStepHolds DEF PlatformInv, AllStep
<1> QED
  BY <1>1, <1>2, PlatformInvariant, PTL DEF PlatformSpec, LimitsHold, WaitPaysOff

\* Whatever the rows, the instances and the batches: in the platform too, what
\* lies behind the checkpoint of a rotation is under the new key
\* (KeyRotationProcessor).
THEOREM RotationTheorem == PlatformSpec => []BehindCheckpointRotated
<1>1. PlatformInv => BehindCheckpointRotated
  BY DEF PlatformInv, RotationInv
<1> QED
  BY <1>1, PlatformInvariant, PTL

\* ... and unless edits overlapped or Redis failed one, every flag is as it was
\* last edited (FeatureFlagService).
THEOREM FlagsTheorem == PlatformSpec => []FlagsAreKept
<1>1. PlatformInv => FlagsAreKept
  BY FlagsConclusion DEF PlatformInv
<1> QED
  BY <1>1, PlatformInvariant, PTL

\* Whatever the requests, the jobs and the servers: where an erasure is logged as
\* completed, the account is anonymized, and the KYC rows, exports and live tokens
\* left are those that came too late for it or that S3 has refused to delete; a
\* file that is deleted leaves no object, and the files that are listed are there
\* (GdprProcessor, StorageService).
THEOREM ErasureTheorem == PlatformSpec => []ErasureIsReal
<1>1. PlatformInv => ErasureIsReal
  BY GdprConclusion, FilesConclusion DEF PlatformInv, ErasureIsReal
<1> QED
  BY <1>1, PlatformInvariant, PTL
=============================================================================
