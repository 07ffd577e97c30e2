----------------------------- MODULE CheckinRun -----------------------------
(***************************************************************************)
(* Daily check-ins: service/checkin.go with the table of runs in           *)
(* model/checkin_run.go and the ticker of service/cron.go.  Every minute a *)
(* goroutine looks whether the scheduled time of the day is past and the   *)
(* day's "cron" run has not been done; an administrator may start a run    *)
(* over the providers that are still unchecked, or check one provider in.  *)
(* The runs over many providers exclude each other through a channel of    *)
(* capacity one; a run is a row that outlives the process.                 *)
(*                                                                         *)
(* Abstracted: time is the current day of the schedule's zone and whether  *)
(* the scheduled time is past; "enabled" are the providers that every      *)
(* filter lets through (status, check-in switch, usable for automation);   *)
(* the schedule is switched on and keeps its zone; the items of a run and  *)
(* the notifications about it change nothing here.                         *)
(***************************************************************************)
EXTENDS Integers, Sequences

CONSTANTS Providers,
          CronTasks,    \* goroutines the ticker starts
          AdminTasks,   \* goroutines of the administrator's requests
          MaxDay,       \* bound on the days
          MaxManual,    \* bound on the administrator's requests
          MaxFaults     \* bound on database errors and crashes together

ASSUME CheckinAssumption ==
  /\ CronTasks \cap AdminTasks = {}
  /\ MaxDay \in Nat \ {0}
  /\ MaxManual \in Nat
  /\ MaxFaults \in Nat

Tasks == CronTasks \cup AdminTasks

VARIABLES
  day, due,     \* today, and whether today's scheduled time is past
  guard,        \* checkinRunGuard is full
  lastRunDay,   \* scheduledCheckinState.lastRunDay, 0 for ""
  rows,         \* the table of runs
  enabled,      \* the providers that take part
  checkedIn,    \* checkedIn[p]: the day of last_checkin_at, 0 for never
  answers,      \* <<p, d, a>>: p was asked on day d, and a is "granted" or "refused"
  task,         \* task[g]: where the goroutine g is, and its locals
  manuals,      \* the administrator's requests so far
  faults        \* the database errors and crashes so far

clock  == <<day, due>>
table  == <<rows, enabled, checkedIn>>
memory == <<guard, lastRunDay>>
kvars  == <<clock, memory, table, answers, task, manuals, faults>>

Triggers == {"cron", "manual", "manual-provider"}
Days     == 0 .. MaxDay

\* The locals: "day" is the dayKey of the tick and "runDay" that of the run,
\* read anew when the run starts; "todo" are the providers still to be asked and
\* "granter" the one that has just granted; "row" is the place of the run's row;
\* "failed" says that FailureCount > 0.
Locals == [day : Days,
           pc : {"idle", "query", "acquire", "load", "insert", "ask", "stamp", "release", "note"},
           trigger : Triggers, runDay : Days, todo : SUBSET Providers,
           granter : SUBSET Providers, row : Nat, failed : BOOLEAN]

\* The rows: "targets" stands for the total count.
Runs == [day : Days, trigger : Triggers, targets : SUBSET Providers,
         status : {"running", "success", "partial", "failed"}]

TypeOK ==
  /\ day \in Days \ {0}
  /\ due \in BOOLEAN
  /\ guard \in BOOLEAN
  /\ lastRunDay \in Days
  /\ rows \in Seq(Runs)
  /\ enabled \subseteq Providers
  /\ checkedIn \in [Providers -> Days]
  /\ answers \subseteq Providers \X Days \X {"granted", "refused"}
  /\ task \in [Tasks -> Locals]
  /\ manuals \in 0 .. MaxManual
  /\ faults \in 0 .. MaxFaults

\* The locals of a goroutine at its beginning.
Fresh(kind, label, tickDay, itsRunDay, targets) ==
  [day |-> tickDay, pc |-> label, trigger |-> kind, runDay |-> itsRunDay, todo |-> targets,
   granter |-> {}, row |-> 0, failed |-> FALSE]

\* A goroutine that has not begun, or has returned.
Idle == Fresh("cron", "idle", 0, 0, {})

Init ==
  /\ day = 1 /\ due = FALSE
  /\ guard = FALSE
  /\ lastRunDay = 0
  /\ rows = <<>>
  /\ enabled \in SUBSET Providers
  /\ checkedIn = [p \in Providers |-> 0]
  /\ answers = {}
  /\ task = [g \in Tasks |-> Idle]
  /\ manuals = 0
  /\ faults = 0

At(g, label)   == task[g].pc = label
GoTo(g, label) == task' = [task EXCEPT ![g].pc = label]
Return(g)      == task' = [task EXCEPT ![g] = Idle]

\* Something the database is asked to do fails.
Fault == faults < MaxFaults /\ faults' = faults + 1

\* Single-provider requests do without the guard.
Guarded(g) == task[g].trigger # "manual-provider"

\* triggerCheckinRun returns through its deferred release.
Leave(g) == IF Guarded(g) THEN GoTo(g, "release") ELSE Return(g)

CronRunOf(d) == \E i \in 1 .. Len(rows) : rows[i].trigger = "cron" /\ rows[i].day = d

-----------------------------------------------------------------------------
(* The beginnings. *)

\* The ticker's goroutine has something to do.
RunScheduledCheckinIfNeeded(g) ==
  /\ g \in CronTasks /\ At(g, "idle")
  /\ due /\ lastRunDay # day
  /\ task' = [task EXCEPT ![g] = Fresh("cron", "query", day, 0, {})]
  /\ UNCHANGED <<clock, memory, table, answers, manuals, faults>>

\* Mutant of Query: only the memory of this process is asked.
QueryMemoryOnly(g) ==
  /\ At(g, "query")
  /\ GoTo(g, "acquire")
  /\ UNCHANGED <<clock, memory, table, answers, manuals, faults>>

\* Mutant of Query: a day whose rows cannot be queried is taken for done.
QueryFailureNoted(g) ==
  /\ At(g, "query")
  /\ \/ /\ Fault \/ (CronRunOf(task[g].day) /\ UNCHANGED faults)
        /\ lastRunDay' = task[g].day
        /\ Return(g)
     \/ /\ ~CronRunOf(task[g].day)
        /\ GoTo(g, "acquire")
        /\ UNCHANGED <<lastRunDay, faults>>
  /\ UNCHANGED <<clock, guard, table, answers, manuals>>

\* Has the day's run been done, by this process or by an earlier one?
Query(g) ==
  /\ At(g, "query")
  /\ \/ /\ Fault
        /\ Return(g)
        /\ UNCHANGED lastRunDay
     \/ /\ CronRunOf(task[g].day)
        /\ lastRunDay' = task[g].day
        /\ Return(g)
        /\ UNCHANGED faults
     \/ /\ ~CronRunOf(task[g].day)
        /\ GoTo(g, "acquire")
        /\ UNCHANGED <<lastRunDay, faults>>
  /\ UNCHANGED <<clock, guard, table, answers, manuals>>

\* An administrator's request begins.
Begin(g, locals) ==
  /\ g \in AdminTasks /\ At(g, "idle")
  /\ manuals < MaxManual
  /\ manuals' = manuals + 1
  /\ task' = [task EXCEPT ![g] = locals]
  /\ UNCHANGED <<clock, memory, table, answers, faults>>

TriggerUncheckedCheckinRun(g) ==
  Begin(g, Fresh("manual", "acquire", 0, 0, {}))

RunProviderCheckin(g, p) ==
  Begin(g, Fresh("manual-provider", "insert", 0, day, {p}))

-----------------------------------------------------------------------------
(* A run: triggerCheckinRun and executeCheckinRun. *)

\* Mutant of Acquire: who finds the guard taken releases it on leaving.
AcquireReleases(g) ==
  /\ At(g, "acquire")
  /\ \/ ~guard /\ guard' = TRUE  /\ GoTo(g, "load")
     \/ guard  /\ guard' = FALSE /\ Return(g)
  /\ UNCHANGED <<clock, lastRunDay, table, answers, manuals, faults>>

\* tryAcquireCheckinRun: nobody waits for the guard.
Acquire(g) ==
  /\ At(g, "acquire")
  /\ \/ ~guard /\ guard' = TRUE    /\ GoTo(g, "load")
     \/ guard  /\ UNCHANGED guard  /\ Return(g)
  /\ UNCHANGED <<clock, lastRunDay, table, answers, manuals, faults>>

\* The providers of a run started today.
Selected(g) ==
  IF task[g].trigger = "cron" THEN enabled ELSE {p \in enabled : checkedIn[p] < day}

\* Mutant of Load: the guard is not released on an error.
LoadKeepsGuard(g) ==
  /\ At(g, "load")
  /\ \/ /\ task' = [task EXCEPT ![g].pc = "insert", ![g].runDay = day, ![g].todo = Selected(g)]
        /\ UNCHANGED faults
     \/ Fault /\ Return(g)
  /\ UNCHANGED <<clock, memory, table, answers, manuals>>

Load(g) ==
  /\ At(g, "load")
  /\ \/ /\ task' = [task EXCEPT ![g].pc = "insert", ![g].runDay = day, ![g].todo = Selected(g)]
        /\ UNCHANGED faults
     \/ Fault /\ Leave(g)
  /\ UNCHANGED <<clock, memory, table, answers, manuals>>

\* The run's row is written before anyone is asked.
Insert(g) ==
  /\ At(g, "insert")
  /\ \/ /\ rows' = Append(rows, [day |-> task[g].runDay, trigger |-> task[g].trigger,
                                 targets |-> task[g].todo, status |-> "running"])
        /\ task' = [task EXCEPT ![g].pc = "ask", ![g].row = Len(rows) + 1]
        /\ UNCHANGED faults
     \/ Fault /\ Leave(g) /\ UNCHANGED rows
  /\ UNCHANGED <<clock, memory, enabled, checkedIn, answers, manuals>>

\* Mutant of Ask: a provider that fails is stamped like one that has granted.
AskStampsFailures(g, p) ==
  /\ At(g, "ask") /\ p \in task[g].todo
  /\ \E answer \in {"granted", "refused"} : answers' = answers \cup {<<p, day, answer>>}
  /\ task' = [task EXCEPT ![g].pc = "stamp", ![g].todo = @ \ {p}, ![g].granter = {p}]
  /\ UNCHANGED <<clock, memory, table, manuals, faults>>

\* checkinProviderWithResult: the upstream of p is asked.  "refused" is any
\* failure to get a check-in granted.  A granting answer may get lost, and one
\* that says that there is no check-in turns the provider's switch off, unless
\* that cannot be saved.
Ask(g, p) ==
  /\ At(g, "ask") /\ p \in task[g].todo
  /\ \E answer \in {"granted", "refused"} :
       /\ answers' = answers \cup {<<p, day, answer>>}
       /\ \/ /\ answer = "granted"
             /\ task' = [task EXCEPT ![g].pc = "stamp", ![g].todo = @ \ {p}, ![g].granter = {p}]
             /\ UNCHANGED enabled
          \/ /\ task' = [task EXCEPT ![g].todo = @ \ {p}, ![g].failed = TRUE]
             /\ \/ UNCHANGED enabled
                \/ answer = "refused" /\ enabled' = enabled \ {p}
  /\ UNCHANGED <<clock, memory, rows, checkedIn, manuals, faults>>

\* UpdateCheckinTime; nobody looks whether it is saved.
Stamp(g) ==
  /\ At(g, "stamp")
  /\ \/ /\ checkedIn' = [p \in Providers |-> IF p \in task[g].granter THEN day ELSE checkedIn[p]]
        /\ UNCHANGED faults
     \/ Fault /\ UNCHANGED checkedIn
  /\ task' = [task EXCEPT ![g].pc = "ask", ![g].granter = {}]
  /\ UNCHANGED <<clock, memory, rows, enabled, answers, manuals>>

\* Mutant of Outcome: failures are not looked at.
OutcomeIgnored(g) == "success"

Outcome(g) ==
  IF ~task[g].failed THEN "success" ELSE IF Guarded(g) THEN "partial" ELSE "failed"

Finish(g) ==
  /\ At(g, "ask") /\ task[g].todo = {}
  /\ \/ rows' = [rows EXCEPT ![task[g].row].status = Outcome(g)] /\ UNCHANGED faults
     \/ Fault /\ UNCHANGED rows
  /\ Leave(g)
  /\ UNCHANGED <<clock, memory, enabled, checkedIn, answers, manuals>>

\* The deferred releaseCheckinRun.
Release(g) ==
  /\ At(g, "release")
  /\ guard' = FALSE
  /\ IF task[g].trigger = "cron" /\ task[g].row # 0 THEN GoTo(g, "note") ELSE Return(g)
  /\ UNCHANGED <<clock, lastRunDay, table, answers, manuals, faults>>

\* The day of the tick is done.
Note(g) ==
  /\ At(g, "note")
  /\ lastRunDay' = task[g].day
  /\ Return(g)
  /\ UNCHANGED <<clock, guard, table, answers, manuals, faults>>

-----------------------------------------------------------------------------
(* The surroundings. *)

\* The process ends and starts again: its rows stay as they are.
Crash ==
  /\ Fault
  /\ guard' = FALSE
  /\ lastRunDay' = 0
  /\ task' = [g \in Tasks |-> Idle]
  /\ UNCHANGED <<clock, table, answers, manuals>>

\* The scheduled time comes, and midnight.
Due ==
  /\ ~due
  /\ due' = TRUE
  /\ UNCHANGED <<day, memory, table, answers, task, manuals, faults>>

NextDay ==
  /\ due /\ day < MaxDay
  /\ day' = day + 1
  /\ due' = FALSE
  /\ UNCHANGED <<memory, table, answers, task, manuals, faults>>

\* A provider is edited, or passes the filters again, or no longer.
Edit(p) ==
  /\ enabled' = IF p \in enabled THEN enabled \ {p} ELSE enabled \cup {p}
  /\ UNCHANGED <<clock, memory, rows, checkedIn, answers, task, manuals, faults>>

-----------------------------------------------------------------------------
Step(g) ==
  \/ RunScheduledCheckinIfNeeded(g) \/ Query(g) \/ Acquire(g) \/ Load(g) \/ Insert(g)
  \/ (\E p \in Providers : Ask(g, p)) \/ Stamp(g) \/ Finish(g) \/ Release(g) \/ Note(g)

Request(g) ==
  TriggerUncheckedCheckinRun(g) \/ \E p \in Providers : RunProviderCheckin(g, p)

Next ==
  \/ \E g \in Tasks : Step(g) \/ Request(g)
  \/ Crash \/ Due \/ NextDay
  \/ \E p \in Providers : Edit(p)

SafeSpec == Init /\ [][Next]_kvars

\* The ticker comes back every minute, goroutines run, and the upstream client
\* gives every request up after a while.
Spec == SafeSpec /\ \A g \in Tasks : WF_kvars(Step(g))

-----------------------------------------------------------------------------
(* Properties. *)

InRun(g) == Guarded(g) /\ task[g].pc \in {"load", "insert", "ask", "stamp", "release"}

\* The runs over many providers exclude each other, across errors, refusals and
\* restarts, and the guard is taken just while one of them is under way.
OneRunAtATime ==
  /\ \A g, h \in Tasks : InRun(g) /\ InRun(h) => g = h
  /\ guard <=> \E g \in Tasks : InRun(g)

\* A run recorded as a success is one: each provider it was started for has
\* granted a check-in since the run began.
SuccessMeansGranted ==
  \A i \in 1 .. Len(rows) : rows[i].status = "success" =>
     \A p \in rows[i].targets : \E d \in rows[i].day .. MaxDay : <<p, d, "granted">> \in answers

\* A provider that counts as checked in has granted a check-in, that day or (for
\* an answer just before midnight) earlier; else the unchecked run would pass it
\* over for nothing.
CheckedInWasGranted ==
  \A p \in Providers : checkedIn[p] # 0 =>
     \E d \in 1 .. checkedIn[p] : <<p, d, "granted">> \in answers

\* The scheduled run is done once a day, however often the process restarts and
\* whatever else is run meanwhile.
CronOncePerDay ==
  \A i, j \in 1 .. Len(rows) :
     rows[i].trigger = "cron" /\ rows[j].trigger = "cron" /\ rows[i].day = rows[j].day => i = j

\* Once the scheduled time is past the day gets its scheduled run, although
\* queries fail, other runs are in the way and the process restarts; unless the
\* day is over first.
CronRunHappens ==
  \A d \in 1 .. MaxDay :
     due /\ day = d ~> day # d \/ CronRunOf(d)

\* A run gives the guard back, however it ends.
GuardReleased == guard ~> ~guard

-----------------------------------------------------------------------------
(* The inductive invariant. *)

\* What the row of a run that has one says, and what is left to ask.
Asking(g) ==
  /\ task[g].pc \in {"query", "acquire", "load", "release", "note"} => Guarded(g)
  /\ task[g].pc \in {"query", "acquire", "load", "insert"} => task[g].row = 0
  /\ task[g].pc \in {"ask", "stamp"} =>
        LET run == rows[task[g].row]
        IN /\ task[g].row \in 1 .. Len(rows)
           /\ ~task[g].failed =>
                 \A p \in run.targets \ task[g].todo :
                    \E d \in run.day .. MaxDay : <<p, d, "granted">> \in answers
  /\ At(g, "stamp") =>
        \A p \in task[g].granter : \E d \in 1 .. day : <<p, d, "granted">> \in answers
  /\ task[g].runDay <= day

\* With a single tick at a time: the scheduled runs so far are of earlier days.
Ticking(g) ==
  /\ task[g].trigger = "cron" /\ ~At(g, "idle") => g \in CronTasks
  /\ g \in CronTasks =>
     /\ task[g].trigger = "cron"
     /\ task[g].day <= day
     /\ ~At(g, "idle") => \A i \in 1 .. Len(rows) : rows[i].trigger = "cron" =>
           \/ rows[i].day < task[g].day
           \/ At(g, "query") /\ rows[i].day = task[g].day
           \/ task[g].pc \notin {"query", "acquire", "load", "insert"}
     /\ At(g, "insert") => task[g].runDay >= task[g].day

CheckinInv ==
  /\ TypeOK
  /\ OneRunAtATime
  /\ \A g \in Tasks : Asking(g)
  /\ \A i \in 1 .. Len(rows) : rows[i].day <= day
  /\ SuccessMeansGranted
  /\ CheckedInWasGranted

OncePerDayInv == CheckinInv /\ CronOncePerDay /\ \A g \in Tasks : Ticking(g)

=============================================================================
