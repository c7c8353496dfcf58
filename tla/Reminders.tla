------------------------------ MODULE Reminders ------------------------------
(* A calendar event and its reminder: events.service.ts, its guard and       *)
(* repository, event-reminders.service.ts and event-reminders.processor.ts.  *)
(*                                                                           *)
(* A request works on the row its guard has read, updates the row, and only  *)
(* then takes the jobs of the event out of the queue and puts one in, call   *)
(* by call.  The job has one id per event, and one more id per moment quiet  *)
(* hours end.  The processor reads the event, then who is to be told, and    *)
(* sends.  Moments are minutes; DAY of them make a day.                      *)
EXTENDS Integers, FiniteSets

CONSTANTS
  Requests,
  Times,                  \* the moments requests name, some after LastMoment
  Leads,                  \* reminderMinutes
  DEFAULT_REMINDER_MINUTES,
  ATTEMPTS, DAY, QuietStart, QuietEnd,
  LastMoment,             \* bound on the clock
  MaxStarted,             \* bound on requests
  MaxChanges,             \* bound on changes of who can be told
  MaxFailures             \* bound on errors of Redis and Telegram, and deaths

RemindersAssumption ==
  /\ Times \subseteq Nat /\ Leads \subseteq Nat
  /\ DEFAULT_REMINDER_MINUTES \in Leads /\ LastMoment \in Nat
  /\ ATTEMPTS \in Nat \ {0} /\ DAY \in Nat \ {0}
  /\ {QuietStart, QuietEnd} \subseteq 0..(DAY - 1)
  /\ {MaxStarted, MaxChanges, MaxFailures} \subseteq Nat

VARIABLES
  now,
  event,       \* the row of calendar_events
  created,
  jobs,        \* the queue event-reminders: 0 is the job of the event, another
               \* number the one deferred to that moment
  worker,      \* what the processor has read
  reach,       \* the user: "off" if no member, without a chat or without
               \* reminders, "quiet" with quiet hours, else "on"
  run, started, changes, failures,
  \* History: messages since the event was last written, and what may have come
  \* between the event and its jobs, see Alone.
  sent, astray

counts == <<started, changes, failures>>
vars == <<now, event, created, jobs, worker, reach, run, counts, sent, astray>>

NoLead == -1
\* on stands for telegramReminder and reminderUserId, which change together.
NoEvent == [start |-> 0, end |-> 0, lead |-> NoLead, on |-> 0, done |-> 0]
\* Quiet hours end at most a day from now.
JobIds == 0..(LastMoment + DAY)
NoJob == [state |-> "none", at |-> 0, attempts |-> 0]
Patches ==
  ({"start", "end"} \X Times) \cup ({"lead"} \X (Leads \cup {NoLead}))
    \cup ({"on", "done"} \X {0, 1})
NoPatch == <<"none", 0>>
Idle == [pc |-> "idle", op |-> "create", patch |-> NoPatch, row |-> NoEvent,
         found |-> {}]
AtRest == [pc |-> "idle", job |-> 0, row |-> NoEvent, until |-> 0, found |-> {}]

Events == [start : Times \cup {0}, end : Times \cup {0}, lead : Leads \cup {NoLead},
           on : 0..1, done : 0..1]

TypeOK ==
  /\ now \in 0..LastMoment /\ event \in Events /\ created \in {"no", "yes", "deleted"}
  /\ jobs \in [JobIds -> [state : {"none", "delayed", "active", "failed"},
                          at : Nat, attempts : 0..ATTEMPTS]]
  /\ worker \in [pc : {"idle", "event", "reach", "send", "list", "remove", "defer"},
                 job : JobIds, row : Events, until : JobIds, found : SUBSET JobIds]
  /\ reach \in {"on", "quiet", "off"}
  /\ run \in [Requests -> [pc : {"idle", "write", "main", "list", "found", "add"},
                           op : {"create", "update", "delete"},
                           patch : Patches \cup {NoPatch}, row : Events,
                           found : SUBSET JobIds]]
  /\ started \in 0..MaxStarted /\ changes \in 0..MaxChanges
  /\ failures \in 0..MaxFailures /\ sent \in Nat /\ astray \in BOOLEAN

\* Nothing yet, or an event that asked for no reminder.
Init ==
  /\ now = 0 /\ reach = "on"
  /\ \/ created = "no" /\ event = NoEvent
     \/ /\ created = "yes"
        /\ event \in {e \in Events : /\ {e.start, e.end} \subseteq Times
                                   /\ e.start <= e.end /\ e.lead = NoLead
                                   /\ e.on = 0 /\ e.done = 0}
  /\ jobs = [j \in JobIds |-> NoJob] /\ worker = AtRest
  /\ run = [r \in Requests |-> Idle]
  /\ started = 0 /\ changes = 0 /\ failures = 0 /\ sent = 0 /\ astray = FALSE

At(r, pc) == run[r].pc = pc
Goes(r, pc) == run' = [run EXCEPT ![r].pc = pc]
Ends(r) == run' = [run EXCEPT ![r] = Idle]
Delayed == {j \in JobIds : jobs[j].state = "delayed"}
Without(gone) == [j \in JobIds |-> IF j \in gone THEN NoJob ELSE jobs[j]]

\* Nobody else is between a write of the event and the end of its call, and the
\* processor is idle.
Alone(r) ==
  /\ worker.pc = "idle"
  /\ \A q \in Requests \ {r} : At(q, "idle") \/ At(q, "write")

-----------------------------------------------------------------------------
(* Requests                                                                 *)

CreateAsked(r, s, e, lead, on) ==
  /\ At(r, "idle") /\ created = "no" /\ started < MaxStarted
  /\ \A q \in Requests : run[q].op = "create" => At(q, "idle")
  /\ s <= e /\ started' = started + 1
  /\ run' = [run EXCEPT ![r] = [Idle EXCEPT !.pc = "write",
       !.row = [start |-> s, end |-> e, on |-> on, done |-> 0,
                lead |-> IF lead = NoLead /\ on = 1 THEN DEFAULT_REMINDER_MINUTES
                         ELSE lead]]]
  /\ UNCHANGED <<now, event, created, jobs, worker, reach, changes, failures, sent, astray>>

\* The guard reads the event; an update with a range that ends before it starts
\* is refused with 400.  PATCH .../completion is the patch of done.
UpdateAsked(r, patch) ==
  /\ At(r, "idle") /\ created = "yes" /\ started < MaxStarted
  /\ patch[1] = "start" => patch[2] <= event.end
  /\ patch[1] = "end" => event.start <= patch[2]
  /\ started' = started + 1
  /\ run' = [run EXCEPT ![r] =
       [Idle EXCEPT !.pc = "write", !.op = "update", !.patch = patch, !.row = event]]
  /\ UNCHANGED <<now, event, created, jobs, worker, reach, changes, failures, sent, astray>>

DeleteAsked(r) ==
  /\ At(r, "idle") /\ created = "yes" /\ started < MaxStarted
  /\ started' = started + 1
  /\ run' = [run EXCEPT ![r] = [Idle EXCEPT !.pc = "write", !.op = "delete"]]
  /\ UNCHANGED <<now, event, created, jobs, worker, reach, changes, failures, sent, astray>>

\* The UPDATE writes both ends of the range if one is sent, the other as read,
\* and the default lead if the reminder is turned on and none was read.
Updated(r) ==
  LET p == run[r].patch
      read == run[r].row
  IN  IF p[1] \in {"start", "end"}
        THEN [[event EXCEPT !.start = read.start, !.end = read.end] EXCEPT ![p[1]] = p[2]]
      ELSE IF p = <<"on", 1>> /\ read.lead = NoLead
        THEN [event EXCEPT !.on = 1, !.lead = DEFAULT_REMINDER_MINUTES]
      ELSE [event EXCEPT ![p[1]] = p[2]]

\* The row as written is what the jobs are made from.
Writes(r) ==
  LET new == IF run[r].op = "create" THEN run[r].row ELSE Updated(r) IN
  /\ At(r, "write") /\ run[r].op # "delete"
  /\ IF run[r].op = "update" /\ created # "yes"
       THEN Ends(r) /\ UNCHANGED <<event, created, sent, astray>>
       ELSE /\ event' = new /\ created' = "yes" /\ sent' = 0
            /\ astray' = ~Alone(r)
            /\ run' = [run EXCEPT ![r].pc = "main", ![r].row = new]
  /\ UNCHANGED <<now, jobs, worker, reach, counts>>

Deletes(r) ==
  /\ At(r, "write") /\ run[r].op = "delete"
  /\ IF created # "yes" THEN Ends(r) /\ UNCHANGED <<event, created, sent, astray>>
     ELSE /\ event' = NoEvent /\ created' = "deleted" /\ sent' = 0
          /\ astray' = ~Alone(r)
          /\ run' = [run EXCEPT ![r].pc = "main", ![r].row = NoEvent]
  /\ UNCHANGED <<now, jobs, worker, reach, counts>>

\* The event goes with its project or workspace; its jobs stay.
Cascades ==
  /\ created = "yes" /\ created' = "deleted" /\ event' = NoEvent /\ sent' = 0
  /\ astray' = TRUE
  /\ UNCHANGED <<now, jobs, worker, reach, run, counts>>

-----------------------------------------------------------------------------
(* removeForEvent and scheduleForEvent                                      *)

\* queue.remove throws for a job that is active, which is swallowed.
RemovesMain(r) ==
  /\ At(r, "main") /\ Goes(r, "list")
  /\ jobs' = IF jobs[0].state = "active" THEN jobs ELSE Without({0})
  /\ UNCHANGED <<now, event, created, worker, reach, counts, sent, astray>>

\* Variant: the deferred jobs of the event are forgotten.
ListedMain(r) == {}

Listed(r) == Delayed

\* Without a job to be made (an update that completes, a delete) the list is the
\* last call.
ListsJobs(r) ==
  /\ At(r, "list")
  /\ run' = [run EXCEPT ![r].pc = "found", ![r].found = Listed(r)]
  /\ UNCHANGED <<now, event, created, jobs, worker, reach, counts, sent, astray>>

RemovesListed(r) ==
  /\ At(r, "found") /\ jobs' = Without(run[r].found \cap Delayed)
  /\ IF run[r].op = "delete" \/ run[r].patch = <<"done", 1>> THEN Ends(r)
     ELSE Goes(r, "add")
  /\ UNCHANGED <<now, event, created, worker, reach, counts, sent, astray>>

FireAt(row) == row.start - row.lead
Wanted(row) == row.on = 1 /\ row.lead # NoLead

\* queue.add of an id that exists does nothing.
Adds(r) ==
  LET row == run[r].row IN
  /\ At(r, "add") /\ Ends(r)
  /\ jobs' = IF Wanted(row) /\ FireAt(row) > now /\ jobs[0].state = "none"
               THEN [jobs EXCEPT ![0] = [state |-> "delayed", at |-> FireAt(row),
                                         attempts |-> 0]]
               ELSE jobs
  /\ UNCHANGED <<now, event, created, worker, reach, counts, sent, astray>>

\* Redis fails or the server dies: the row is written all the same.
RequestFails(r) ==
  /\ ~At(r, "idle") /\ ~At(r, "write")
  /\ failures < MaxFailures /\ failures' = failures + 1
  /\ astray' = TRUE /\ Ends(r)
  /\ UNCHANGED <<now, event, created, jobs, worker, reach, started, changes, sent>>

-----------------------------------------------------------------------------
(* The processor                                                            *)

JobStarts(j) ==
  /\ worker.pc = "idle" /\ jobs[j].state = "delayed" /\ jobs[j].at <= now
  /\ jobs' = [jobs EXCEPT ![j].state = "active", ![j].attempts = @ + 1]
  /\ worker' = [AtRest EXCEPT !.pc = "event", !.job = j]
  /\ astray' = (astray \/ \E r \in Requests : ~At(r, "idle") /\ ~At(r, "write"))
  /\ UNCHANGED <<now, event, created, reach, run, counts, sent>>

Completes == jobs' = Without({worker.job}) /\ worker' = AtRest

ReadsEvent ==
  /\ worker.pc = "event"
  /\ IF created = "yes" /\ Wanted(event) /\ event.done = 0
       THEN worker' = [worker EXCEPT !.pc = "reach", !.row = event] /\ UNCHANGED jobs
       ELSE Completes
  /\ UNCHANGED <<now, event, created, reach, run, counts, sent, astray>>

isWithinQuietHours(t) ==
  LET cur == t % DAY IN
  IF QuietStart <= QuietEnd THEN QuietStart <= cur /\ cur < QuietEnd
  ELSE QuietStart <= cur \/ cur < QuietEnd

\* At that hour today, or tomorrow if that is past.
nextQuietHoursEnd(t) ==
  LET target == t - (t % DAY) + QuietEnd
  IN  IF target <= t THEN target + DAY ELSE target

\* Membership, chat and settings are read one after the other, then the clock.
ReadsReach ==
  /\ worker.pc = "reach"
  /\ IF reach = "off" \/ worker.row.start <= now THEN Completes
     ELSE /\ worker' = IF reach = "quiet" /\ isWithinQuietHours(now)
               THEN [worker EXCEPT !.pc = "list", !.until = nextQuietHoursEnd(now)]
               ELSE [worker EXCEPT !.pc = "send"]
          /\ UNCHANGED jobs
  /\ UNCHANGED <<now, event, created, reach, run, counts, sent, astray>>

Sends ==
  /\ worker.pc = "send" /\ sent' = sent + 1 /\ Completes
  /\ UNCHANGED <<now, event, created, reach, run, counts, astray>>

DeferLists ==
  /\ worker.pc = "list"
  /\ worker' = [worker EXCEPT !.pc = "remove", !.found = Delayed]
  /\ UNCHANGED <<now, event, created, jobs, reach, run, counts, sent, astray>>

DeferRemoves ==
  /\ worker.pc = "remove" /\ jobs' = Without(worker.found \cap Delayed)
  /\ worker' = [worker EXCEPT !.pc = "defer"]
  /\ UNCHANGED <<now, event, created, reach, run, counts, sent, astray>>

\* Variant: the processor goes on and sends as well.
DeferAddsAndGoesOn ==
  /\ worker.pc = "defer" /\ worker' = [worker EXCEPT !.pc = "send"]
  /\ jobs' = [jobs EXCEPT ![worker.until] =
       IF @.state = "none"
         THEN [state |-> "delayed", at |-> worker.until, attempts |-> 0] ELSE @]
  /\ UNCHANGED <<now, event, created, reach, run, counts, sent, astray>>

\* The job that defers is done with; the one it adds has an id of its own.
DeferAdds ==
  /\ worker.pc = "defer" /\ worker' = AtRest
  /\ jobs' = [Without({worker.job}) EXCEPT ![worker.until] =
       IF jobs[worker.until].state = "none"
         THEN [state |-> "delayed", at |-> worker.until, attempts |-> 0] ELSE @]
  /\ UNCHANGED <<now, event, created, reach, run, counts, sent, astray>>

\* An error of PostgreSQL, Redis or Telegram, which may have passed the message
\* on, or the end of the process: another attempt, after the last one a failed job.
JobFails(delivered) ==
  /\ worker.pc # "idle" /\ failures < MaxFailures /\ failures' = failures + 1
  /\ delivered => worker.pc = "send"
  /\ sent' = IF delivered THEN sent + 1 ELSE sent
  /\ worker' = AtRest /\ astray' = TRUE
  /\ jobs' = [jobs EXCEPT ![worker.job] =
       IF @.attempts < ATTEMPTS THEN [@ EXCEPT !.state = "delayed", !.at = now]
       ELSE [@ EXCEPT !.state = "failed"]]
  /\ UNCHANGED <<now, event, created, reach, run, started, changes>>

ReachChanges(to) ==
  /\ reach # to /\ changes < MaxChanges /\ changes' = changes + 1 /\ reach' = to
  /\ UNCHANGED <<now, event, created, jobs, worker, run, started, failures, sent, astray>>

Tick ==
  /\ now < LastMoment /\ now' = now + 1
  /\ UNCHANGED <<event, created, jobs, worker, reach, run, counts, sent, astray>>

Next ==
  \/ \E r \in Requests :
       \/ \E s, e \in Times, lead \in Leads \cup {NoLead}, on \in 0..1 :
            CreateAsked(r, s, e, lead, on)
       \/ \E p \in Patches : UpdateAsked(r, p)
       \/ DeleteAsked(r) \/ Writes(r) \/ Deletes(r)
       \/ RemovesMain(r) \/ ListsJobs(r) \/ RemovesListed(r) \/ Adds(r)
       \/ RequestFails(r)
  \/ Cascades
  \/ \E j \in JobIds : JobStarts(j)
  \/ ReadsEvent \/ ReadsReach \/ Sends
  \/ DeferLists \/ DeferRemoves \/ DeferAdds
  \/ \E d \in BOOLEAN : JobFails(d)
  \/ \E to \in {"on", "quiet", "off"} : ReachChanges(to)
  \/ Tick

Spec == Init /\ [][Next]_vars

-----------------------------------------------------------------------------

\* However two updates of the ends of an event overlap, it does not end before
\* it starts.
RangeIsValid == event.start <= event.end

Settled == worker.pc = "idle" /\ \A r \in Requests : At(r, "idle") \/ At(r, "write")

\* Between the calls the queue holds what the event asks for: its job at its time
\* while that is to come, no job of an event that is gone or wants none, and never
\* two.  Calls that overlapped, on the event or with the processor, and calls
\* that failed half way may leave something else.
PlanFitsEvent ==
  Settled /\ ~astray =>
    IF ~Wanted(event) THEN Delayed = {}
    ELSE IF FireAt(event) > now
      THEN event.done = 1 \/ (Delayed = {0} /\ jobs[0].at = FireAt(event))
    ELSE Cardinality(Delayed) <= 1

\* Nobody is told twice of an event as it stands, deferred jobs included, but for
\* the same reasons.
ToldOnce == sent <= 1 \/ astray
=============================================================================
