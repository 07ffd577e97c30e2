------------------------------- MODULE Backup -------------------------------
(***************************************************************************)
(* Backups: service/backup_core.go with the tables of model/backup_run.go  *)
(* and model/backup_retry.go.  A handler that changes the configuration    *)
(* marks the database dirty afterwards.  Every minute of the ticker an     *)
(* evaluation starts a backup (because of the mark, or because the cron    *)
(* expression matches) or the retry queue, each in a goroutine of its own; *)
(* an administrator starts a backup too.  A backup takes a snapshot, packs *)
(* it, and uploads the package; what could not be uploaded stays on the    *)
(* disk under a row of the retry queue.                                    *)
(*                                                                         *)
(* Abstracted: the content of the database is the number of its marked     *)
(* changes; the due time of a retry row is left open, as is the minute     *)
(* the cron expression matches.  The option BackupEnabled is on and stays  *)
(* on; a backup asked for by hand keeps the trigger name "manual".  Rows   *)
(* of runs and retries are numbered by the run they belong to;             *)
(* the queue's limit of ten rows is above MaxRuns.  What the retention     *)
(* deletes on the server is left out.                                      *)
(***************************************************************************)
EXTENDS Integers, FiniteSets

CONSTANTS Mode,         \* the option BackupTriggerMode
          Passes,       \* goroutines over the retry queue at one time
          MinTicks,     \* minutes of BackupMinIntervalSeconds
          MaxRetries,   \* the option BackupMaxRetries
          MaxChanges,   \* bound on the changes of the database
          MaxAsks,      \* bound on the backups by schedule and by hand
          MaxFaults,    \* bound on failing calls, statements and restarts
          MaxTogether   \* bound on the backups asked for and the faults together

ASSUME BackupAssumption ==
  /\ Mode \in {"event", "schedule", "hybrid"}
  /\ {MinTicks, MaxRetries, MaxChanges, MaxAsks, MaxFaults, MaxTogether} \subseteq Nat

VARIABLES
  changes,     \* the committed changes, numbered from 1
  unmarked,    \* those whose handler has not yet marked the database
  dirty,       \* backupState.dirty
  fresh,       \* lastDirtyAt is younger than the debounce time
  cool,        \* minutes until lastRunAt is MinTicks old
  ranNow,      \* lastScheduleMinute is the current minute
  running,     \* backupState.running
  look,        \* EvaluateBackupScheduleIfNeeded: none, called, past its first lock
  job,         \* job[t]: where the goroutine with trigger t is, and its run
  runs,        \* the rows of backup runs
  retry,       \* retry[n]: the row for the package of run n
  files,       \* runs whose package is on the disk
  stored,      \* runs whose package is on the server
  unsaved,     \* history: runs whose row could not be marked "done"
  pass,        \* pass[w]: a goroutine over the retry queue with its copies
  excused,     \* changes no backup is promised for, see Mark and Restart
  asks,        \* backups asked for by schedule or by hand so far
  faults       \* failing calls, statements and restarts so far

state == <<dirty, fresh, cool, ranNow, running>>
tables == <<runs, retry>>
world == <<files, stored, unsaved>>
counts == <<asks, faults>>
vars == <<changes, unmarked, state, look, job, tables, world, pass, excused, counts>>

Triggers == {"event", "schedule", "manual"}
\* No more runs than that: a backup is asked for, or its mark is taken away by a
\* success and comes back with a change, or it comes to nothing by a fault.
MaxRuns  == MaxChanges + MaxTogether
Numbers  == 1 .. MaxRuns
Changes  == 1 .. MaxChanges

Events    == Mode \in {"event", "hybrid"}      \* shouldAllowEventTrigger
Schedules == Mode \in {"schedule", "hybrid"}   \* shouldAllowScheduleTrigger

Jobs == [at : {"idle", "asked", "begun", "recorded", "packed", "unpacked", "sent", "unsent",
               "queued", "ended"},
         run : 0 .. MaxRuns]
RunRows == [status : {"none", "running", "success", "failed"}, version : 0 .. MaxChanges]
RetryRows == [status : {"none", "pending", "done", "failed"}, count : 0 .. MaxRetries + 1]
PassLocals == [at : {"idle", "asked", "send", "sent", "unsent", "saved"},
               count : [Numbers -> 0 .. MaxRetries], rows : SUBSET Numbers]

Idle   == [at |-> "idle", run |-> 0]
NoRow  == [status |-> "none", version |-> 0]
NoPass == [at |-> "idle", count |-> [n \in Numbers |-> 0], rows |-> {}]

\* Package of run n and what it holds, once taken.
Version(n) == runs[n].version

\* The backups between their snapshot and the end of their run.
Snapped == {t \in Triggers : job[t].at \in {"packed", "sent", "unsent", "queued"}}

Faulty == faults < MaxFaults /\ asks + faults < MaxTogether /\ faults' = faults + 1
Asking == asks < MaxAsks /\ asks + faults < MaxTogether /\ asks' = asks + 1

Init ==
  /\ changes = 0 /\ unmarked = {}
  /\ dirty = FALSE /\ fresh = FALSE /\ cool = 0 /\ ranNow = FALSE /\ running = FALSE
  /\ look = "called"
  /\ job = [t \in Triggers |-> Idle]
  /\ runs = [n \in Numbers |-> NoRow]
  /\ retry = [n \in Numbers |-> [status |-> "none", count |-> 0]]
  /\ files = {} /\ stored = {} /\ unsaved = {}
  /\ pass = [w \in Passes |-> NoPass]
  /\ excused = {} /\ asks = 0 /\ faults = 0

-----------------------------------------------------------------------------
(***************************************************************************)
(* Changes.  The handlers commit, then call MarkBackupDirty.               *)
(***************************************************************************)
Commit ==
  /\ changes < MaxChanges
  /\ changes' = changes + 1
  /\ unmarked' = unmarked \cup {changes + 1}
  /\ UNCHANGED <<state, look, job, tables, world, pass, excused, counts>>

\* In "schedule" mode the mark is not taken.  A mark that comes while a
\* backup is past its snapshot is cleared with that backup's success.
Mark(c) ==
  /\ c \in unmarked
  /\ unmarked' = unmarked \ {c}
  /\ dirty' = (dirty \/ Events)
  /\ fresh' = (fresh \/ Events)
  /\ excused' = IF \E t \in Snapped : Version(job[t].run) < c
                  THEN excused \cup {c} ELSE excused
  /\ UNCHANGED <<changes, cool, ranNow, running, look, job, tables, world, pass, counts>>

-----------------------------------------------------------------------------
(***************************************************************************)
(* The minutes and EvaluateBackupScheduleIfNeeded.                         *)
(***************************************************************************)
Minute ==
  /\ look = "none"
  /\ look' = "called"
  /\ fresh' = FALSE /\ ranNow' = FALSE
  /\ cool' = IF cool = 0 THEN 0 ELSE cool - 1
  /\ UNCHANGED <<changes, unmarked, dirty, running, job, tables, world, pass, excused, counts>>

\* It reads "running" under the lock, and goes on after releasing it.
Look ==
  /\ look = "called"
  /\ look' = IF running THEN "none" ELSE "open"
  /\ UNCHANGED <<changes, unmarked, state, job, tables, world, pass, excused, counts>>

Ask(t) ==
  /\ job[t] = Idle
  /\ job' = [job EXCEPT ![t].at = "asked"]

DueByDirty == Events /\ dirty /\ ~fresh /\ cool = 0   \* shouldRunBackupByDirty

\* A due event backup: the queue has to wait for another minute.
DecideEvent ==
  /\ look = "open" /\ DueByDirty
  /\ look' = "none"
  /\ Ask("event")
  /\ UNCHANGED <<changes, unmarked, state, tables, world, pass, excused, counts>>

StartPass == \E w \in Passes : /\ pass[w].at = "idle"
                               /\ pass' = [pass EXCEPT ![w].at = "asked"]

\* Mutant of DecideOther: the queue is started only beside a backup.
DecideOtherNoQueue ==
  /\ look = "open" /\ ~DueByDirty
  /\ look' = "none"
  /\ \/ Schedules /\ ~ranNow /\ cool = 0 /\ Ask("schedule") /\ Asking /\ StartPass
     \/ UNCHANGED <<job, asks, pass>>
  /\ UNCHANGED <<changes, unmarked, state, tables, world, excused, faults>>

\* Otherwise a backup by schedule, if the expression matches, and the queue.
DecideOther ==
  /\ look = "open" /\ ~DueByDirty
  /\ look' = "none"
  /\ \/ Schedules /\ ~ranNow /\ cool = 0 /\ Ask("schedule") /\ Asking
     \/ UNCHANGED <<job, asks>>
  /\ StartPass
  /\ UNCHANGED <<changes, unmarked, state, tables, world, excused, faults>>

\* POST /api/backup/trigger.
Demand ==
  /\ Ask("manual") /\ Asking
  /\ UNCHANGED <<changes, unmarked, state, look, tables, world, pass, excused, faults>>

-----------------------------------------------------------------------------
(***************************************************************************)
(* TriggerBackupNow.                                                       *)
(***************************************************************************)
Goto(t, label) == job' = [job EXCEPT ![t].at = label]

\* Mutant of Begin: a backup starts beside another one.
BeginUnguarded(t) ==
  /\ job[t].at = "asked"
  /\ Goto(t, "begun") /\ running' = TRUE
  /\ UNCHANGED <<changes, unmarked, dirty, fresh, cool, ranNow, look, tables, world,
                 pass, excused, counts>>

Begin(t) ==
  /\ job[t].at = "asked"
  /\ IF running THEN job' = [job EXCEPT ![t] = Idle] /\ UNCHANGED running
                ELSE Goto(t, "begun") /\ running' = TRUE
  /\ UNCHANGED <<changes, unmarked, dirty, fresh, cool, ranNow, look, tables, world,
                 pass, excused, counts>>

\* Mutant of RecordFails: the early return keeps the flag.
RecordFailsHeld(t) ==
  /\ job[t].at = "begun"
  /\ Faulty
  /\ job' = [job EXCEPT ![t] = Idle]
  /\ UNCHANGED <<changes, unmarked, dirty, fresh, cool, ranNow, running, look, tables, world,
                 pass, excused, asks>>

\* An error before the row is there returns without closing any run.
RecordFails(t) ==
  /\ job[t].at = "begun"
  /\ Faulty
  /\ job' = [job EXCEPT ![t] = Idle]
  /\ running' = FALSE
  /\ UNCHANGED <<changes, unmarked, dirty, fresh, cool, ranNow, look, tables, world,
                 pass, excused, asks>>

Record(t) ==
  /\ job[t].at = "begun"
  /\ \E n \in Numbers :
        /\ runs[n].status = "none"
        /\ \A m \in 1 .. n - 1 : runs[m].status # "none"
        /\ runs' = [runs EXCEPT ![n].status = "running"]
        /\ job' = [job EXCEPT ![t] = [at |-> "recorded", run |-> n]]
  /\ UNCHANGED <<changes, unmarked, state, look, retry, world, pass, excused, counts>>

\* CreateSnapshot and buildBackupArtifact.
Pack(t) ==
  /\ job[t].at = "recorded"
  /\ LET n == job[t].run IN
       \/ /\ Goto(t, "packed")
          /\ runs' = [runs EXCEPT ![n].version = changes]
          /\ files' = files \cup {n}
          /\ UNCHANGED faults
       \/ /\ Goto(t, "unpacked")
          /\ Faulty
          /\ UNCHANGED <<runs, files>>
  /\ UNCHANGED <<changes, unmarked, state, look, retry, stored, unsaved, pass, excused, asks>>

\* A PUT of run n's package: done, done without an answer, or not done.
Answered(n)   == stored' = stored \cup {n} /\ UNCHANGED faults
Unanswered(n) == stored' = stored \cup {n} /\ Faulty
Refused       == UNCHANGED stored /\ Faulty

\* Mutant of Upload: the status of the answer is not looked at.
UploadUnchecked(t) ==
  /\ job[t].at = "packed"
  /\ \/ (Answered(job[t].run) \/ Refused) /\ Goto(t, "sent")
     \/ (Unanswered(job[t].run) \/ Refused) /\ Goto(t, "unsent")
  /\ UNCHANGED <<changes, unmarked, state, look, tables, files, unsaved, pass, excused, asks>>

Upload(t) ==
  /\ job[t].at = "packed"
  /\ \/ Answered(job[t].run) /\ Goto(t, "sent")
     \/ (Unanswered(job[t].run) \/ Refused) /\ Goto(t, "unsent")
  /\ UNCHANGED <<changes, unmarked, state, look, tables, files, unsaved, pass, excused, asks>>

\* enqueueBackupRetry; its own error is dropped.
Enqueue(t) ==
  /\ job[t].at = "unsent"
  /\ Goto(t, "queued")
  /\ \/ /\ retry' = [retry EXCEPT ![job[t].run] = [status |-> "pending", count |-> 0]]
        /\ UNCHANGED faults
     \/ UNCHANGED retry /\ Faulty
  /\ UNCHANGED <<changes, unmarked, state, look, runs, world, pass, excused, asks>>

\* finishRun: "clears" says that the mark goes, "cleans" that the directory
\* does.  All of it is done whether the row of the run could be written or not.
FinishRun(t, clears, cleans) ==
  /\ job[t].at \in {"unpacked", "sent", "queued"}
  /\ LET n == job[t].run
         status == IF job[t].at = "sent" THEN "success" ELSE "failed" IN
       /\ \/ runs' = [runs EXCEPT ![n].status = status] /\ UNCHANGED faults
          \/ UNCHANGED runs /\ Faulty
       /\ files' = IF cleans THEN files \ {n} ELSE files
  /\ dirty' = (dirty /\ ~clears)
  /\ cool' = MinTicks
  /\ ranNow' = (ranNow \/ t = "schedule")
  /\ Goto(t, "ended")
  /\ UNCHANGED <<changes, unmarked, fresh, running, look, retry, stored, unsaved, pass,
                 excused, asks>>

\* Mutant of Finish: a failed backup clears the mark too.
FinishClears(t) == FinishRun(t, TRUE, job[t].at # "queued")

\* Mutant of Finish: the directory of a failed upload goes as well.
FinishCleans(t) == FinishRun(t, job[t].at = "sent", TRUE)

\* Only a package still to be uploaded keeps its directory.
Finish(t) == FinishRun(t, job[t].at = "sent", job[t].at # "queued")

\* The deferred function.
Release(t) ==
  /\ job[t].at = "ended"
  /\ running' = FALSE
  /\ job' = [job EXCEPT ![t] = Idle]
  /\ UNCHANGED <<changes, unmarked, dirty, fresh, cool, ranNow, look, tables, world,
                 pass, excused, counts>>

-----------------------------------------------------------------------------
(***************************************************************************)
(* ProcessBackupRetryQueue.  A pass works on copies of the rows it fetched *)
(* and writes them back whole.                                             *)
(***************************************************************************)
Pending == {n \in Numbers : retry[n].status = "pending"}
Row(w)  == CHOOSE n \in pass[w].rows : \A m \in pass[w].rows : n <= m
\* Rows left to the pass when it is done with row n.
Rest(w) == pass[w].rows \ {Row(w)}
Onwards(w) == IF Rest(w) = {} THEN NoPass
              ELSE [at    |-> "send",
                    count |-> [pass[w].count EXCEPT ![Row(w)] = 0],
                    rows  |-> Rest(w)]

\* Mutant of Fetch: the rows are fetched whatever their status.
FetchAll(w) ==
  /\ pass[w].at = "asked"
  /\ \/ \E due \in (SUBSET {n \in Numbers : retry[n].status # "none"}) \ {{}} :
           /\ pass' = [pass EXCEPT ![w] =
                         [at    |-> "send",
                          count |-> [n \in Numbers |->
                                       IF n \in due THEN retry[n].count ELSE 0],
                          rows  |-> due]]
           /\ UNCHANGED faults
     \/ pass' = [pass EXCEPT ![w] = NoPass] /\ UNCHANGED faults
     \/ pass' = [pass EXCEPT ![w] = NoPass] /\ Pending # {} /\ Faulty
  /\ UNCHANGED <<changes, unmarked, state, look, job, tables, world, excused, asks>>

\* The due rows; no row, or no collection on the server, ends the pass.
Fetch(w) ==
  /\ pass[w].at = "asked"
  /\ \/ \E due \in (SUBSET Pending) \ {{}} :
           /\ pass' = [pass EXCEPT ![w] =
                         [at    |-> "send",
                          count |-> [n \in Numbers |->
                                       IF n \in due THEN retry[n].count ELSE 0],
                          rows  |-> due]]
           /\ UNCHANGED faults
     \/ pass' = [pass EXCEPT ![w] = NoPass] /\ UNCHANGED faults
     \/ pass' = [pass EXCEPT ![w] = NoPass] /\ Pending # {} /\ Faulty
  /\ UNCHANGED <<changes, unmarked, state, look, job, tables, world, excused, asks>>

Send(w) ==
  /\ pass[w].at = "send"
  /\ \/ /\ Row(w) \in files
        /\ \/ Answered(Row(w)) /\ pass' = [pass EXCEPT ![w].at = "sent"]
           \/ (Unanswered(Row(w)) \/ Refused) /\ pass' = [pass EXCEPT ![w].at = "unsent"]
     \/ /\ Row(w) \notin files
        /\ pass' = [pass EXCEPT ![w].at = "unsent"]
        /\ UNCHANGED <<stored, faults>>
  /\ UNCHANGED <<changes, unmarked, state, look, job, tables, files, unsaved, excused, asks>>

\* row.Update() writes the fields of the copy that are not zero.  Its error is
\* dropped, here and in the two steps below: each goes on without its row.
SaveDone(w) ==
  /\ pass[w].at = "sent"
  /\ LET n == Row(w) IN
       \/ /\ retry' = [retry EXCEPT ![n] =
                         [status |-> "done",
                          count  |-> IF pass[w].count[n] = 0 THEN @.count
                                                             ELSE pass[w].count[n]]]
          /\ UNCHANGED <<unsaved, faults>>
       \/ unsaved' = unsaved \cup {n} /\ UNCHANGED retry /\ Faulty
  /\ pass' = [pass EXCEPT ![w].at = "saved"]
  /\ UNCHANGED <<changes, unmarked, state, look, job, runs, files, stored, excused, asks>>

\* The run becomes a success and the package leaves the disk.
Settle(w) ==
  /\ pass[w].at = "saved"
  /\ \/ runs' = [runs EXCEPT ![Row(w)].status = "success"] /\ UNCHANGED faults
     \/ UNCHANGED runs /\ Faulty
  /\ files' = files \ {Row(w)}
  /\ pass' = [pass EXCEPT ![w] = Onwards(w)]
  /\ UNCHANGED <<changes, unmarked, state, look, job, retry, stored, unsaved, excused, asks>>

SaveFailure(w) ==
  /\ pass[w].at = "unsent"
  /\ LET n     == Row(w)
         count == pass[w].count[n] + 1 IN
       \/ /\ retry' = [retry EXCEPT ![n] =
                         [status |-> IF count > MaxRetries THEN "failed" ELSE "pending",
                          count  |-> count]]
          /\ UNCHANGED faults
       \/ UNCHANGED retry /\ Faulty
  /\ pass' = [pass EXCEPT ![w] = Onwards(w)]
  /\ UNCHANGED <<changes, unmarked, state, look, job, runs, world, excused, asks>>

-----------------------------------------------------------------------------
\* The process stops and comes up again: its memory is gone, and with it the
\* marks; the rows, the disk and the server are as they were.
Restart ==
  /\ Faulty
  /\ unmarked' = {} /\ excused' = 1 .. changes
  /\ dirty' = FALSE /\ fresh' = FALSE /\ cool' = 0 /\ ranNow' = FALSE /\ running' = FALSE
  /\ look' = "called"
  /\ job' = [t \in Triggers |-> Idle]
  /\ pass' = [w \in Passes |-> NoPass]
  /\ UNCHANGED <<changes, tables, world, asks>>

Backup(t) ==
  \/ Begin(t) \/ RecordFails(t) \/ Record(t) \/ Pack(t) \/ Upload(t)
  \/ Enqueue(t) \/ Finish(t) \/ Release(t)

Pass(w) ==
  Fetch(w) \/ Send(w) \/ SaveDone(w) \/ Settle(w) \/ SaveFailure(w)

Next ==
  \/ Commit \/ (\E c \in Changes : Mark(c))
  \/ Minute \/ Look \/ DecideEvent \/ DecideOther \/ Demand
  \/ (\E t \in Triggers : Backup(t))
  \/ (\E w \in Passes : Pass(w))
  \/ Restart

SafeSpec == Init /\ [][Next]_vars

\* The ticker ticks, goroutines run on, a request ends; a pending row is due at
\* some time, and from then on a pass that queries the table finds it.
Fairness ==
  /\ WF_vars(\E c \in Changes : Mark(c))
  /\ WF_vars(Minute) /\ WF_vars(Look) /\ WF_vars(DecideEvent) /\ WF_vars(DecideOther)
  /\ \A t \in Triggers : WF_vars(Backup(t))
  /\ \A w \in Passes : WF_vars(Pass(w))
  /\ \A n \in Numbers : SF_vars(\E w \in Passes : Fetch(w) /\ n \in pass'[w].rows)

Spec == SafeSpec /\ Fairness

-----------------------------------------------------------------------------
(* Properties. *)

TypeOK ==
  /\ changes \in 0 .. MaxChanges /\ unmarked \subseteq 1 .. changes
  /\ {dirty, fresh, ranNow, running} \subseteq BOOLEAN
  /\ cool \in 0 .. MinTicks
  /\ look \in {"none", "called", "open"}
  /\ job \in [Triggers -> Jobs]
  /\ runs \in [Numbers -> RunRows]
  /\ retry \in [Numbers -> RetryRows]
  /\ files \subseteq Numbers /\ stored \subseteq Numbers /\ unsaved \subseteq Numbers
  /\ pass \in [Passes -> PassLocals]
  /\ excused \subseteq 1 .. changes
  /\ asks \in 0 .. MaxAsks /\ faults \in 0 .. MaxFaults

\* Backups exclude each other from the flag on, and the flag is up exactly
\* while there is one: no way out of a backup leaves it behind.
OneBackupAtATime ==
  LET active == {t \in Triggers : job[t].at \notin {"idle", "asked"}} IN
    /\ Cardinality(active) <= 1
    /\ running <=> active # {}

\* A committed change is about to be marked, or the mark stands for it, or a
\* package on the server holds it; but for the marks that come while a backup
\* that does not hold the change is past its snapshot, and restarts.
ChangesBackedUp ==
  Events => \A c \in 1 .. changes \ excused :
               c \in unmarked \/ dirty \/ \E n \in stored : Version(n) >= c

\* A run is a success only when its package is on the server, whether it was
\* put there by the run itself or by the retry queue.
SuccessIsStored ==
  \A n \in Numbers : runs[n].status = "success" => n \in stored

\* As long as passes do not overlap, a pending row has its package on the disk,
\* however backups, passes and their statements fail; but for the row whose
\* "done" could not be written: its package is removed all the same, and the row
\* is tried until it is given up.  Its package is on the server.
PackageKept == Pending \ files \subseteq unsaved \cap stored

\* As long as passes do not overlap, a row that is done stays done.
DoneStaysDone ==
  [][\A n \in Numbers : retry[n].status = "done" => retry'[n].status = "done"]_vars

\* Whatever passes overlap, a package that is queued, or was given up, is on
\* the disk or on the server.
QueuedNotLost ==
  \A n \in Numbers : retry[n].status \in {"pending", "failed"} => n \in files \cup stored

\* A pending row is uploaded or given up, although event backups have the
\* evaluation return before it starts the queue.
RowSettles ==
  \A n \in Numbers : retry[n].status = "pending" ~> retry[n].status # "pending"

\* A mark leads to a backup that succeeds, through failing calls and backups by
\* hand that are in the way.
DirtySettles == dirty ~> ~dirty

\* docs/CONFIGURATION.md:99: BackupMaxRetries is the largest number of retries
\* after a failed upload.
RetriesWithinLimit == \A n \in Numbers : retry[n].count <= MaxRetries
=============================================================================
