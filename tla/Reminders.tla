----------------------------- MODULE Reminders -----------------------------
(***************************************************************************)
(* Reminders, from the commit of a booking to the message: on_confirm and  *)
(* schedule_reminder in the bot, the Taskiq scheduler, the Redis queue,    *)
(* and the workers that run send_booking_reminder and retry it.            *)
(*                                                                         *)
(* Three processes and Telegram fail on their own.  The schedule and the   *)
(* queue are in Redis and outlive them; a task a worker has taken off the  *)
(* queue (BRPOP) and what a process was about to do do not.                *)
(***************************************************************************)
EXTENDS Integers

CONSTANTS
    Bookings,     \* bookings, by id
    StartsAt,     \* starts_at of each
    Offset,       \* reminder_offset
    Workers,      \* tasks the worker processes run at once
    NoTask,       \* a worker that runs none
    MaxRetries,   \* max_retries
    Moments,      \* readings of the clock
    MaxRestarts   \* bound: the scheduler dies at most so often

ASSUME BookingsAssumption == StartsAt \in [Bookings -> Int]
ASSUME MaxRetriesAssumption == MaxRetries \in Nat \ {0}
ASSUME MomentsAssumption == Moments \subseteq Int /\ Offset \in Int

VARIABLES
    status,      \* "none" before the commit, then as in the table
    bot,         \* where on_confirm stands with a booking
    schedule,    \* bookings in the ListRedisScheduleSource
    sending,     \* ... the scheduler has sent and not yet deleted
    queue,       \* messages of the ListQueueBroker
    wpc, task,   \* each worker, and the message it handles
    sent,        \* messages that made Telegram deliver a reminder
    now,
    kicks,       \* how often the scheduler sent a booking to the queue
    restarts,
    lost,        \* bookings of which a failure took a reminder away
    troubled     \* bookings a failure may have doubled the reminder of

bvars == <<status, bot>>
svars == <<schedule, sending, kicks, restarts>>
wvars == <<queue, wpc, task, sent>>
vars == <<bvars, svars, wvars, now, lost, troubled>>

\* A message of the queue: the arguments of the task, which sending of the
\* schedule it stems from, and the label _retries.
Message == [booking : Bookings, kick : Nat, retries : 0 .. MaxRetries - 1]

TypeOK ==
    /\ status \in [Bookings -> {"none", "confirmed", "cancelled"}]
    /\ bot \in [Bookings -> {"idle", "schedule", "done"}]
    /\ schedule \subseteq Bookings
    /\ sending \subseteq Bookings
    /\ queue \subseteq Message
    /\ wpc \in [Workers -> {"idle", "read", "send", "failed"}]
    /\ task \in [Workers -> Message \cup {NoTask}]
    /\ \A w \in Workers : wpc[w] # "idle" => task[w] \in Message
    /\ sent \subseteq Message
    /\ now \in Int
    /\ kicks \in [Bookings -> Nat]
    /\ restarts \in Nat
    /\ lost \subseteq Bookings
    /\ troubled \subseteq Bookings

Init ==
    /\ status = [b \in Bookings |-> "none"]
    /\ bot = [b \in Bookings |-> "idle"]
    /\ schedule = {}
    /\ sending = {}
    /\ queue = {}
    /\ wpc = [w \in Workers |-> "idle"]
    /\ task = [w \in Workers |-> NoTask]
    /\ sent = {}
    /\ now \in Moments
    /\ kicks = [b \in Bookings |-> 0]
    /\ restarts = 0
    /\ lost = {}
    /\ troubled = {}

-----------------------------------------------------------------------------
(* The bot                                                                 *)

FireAt(b) == StartsAt[b] - Offset

\* session.commit() of on_confirm.
Commit(b) ==
    /\ status[b] = "none"
    /\ status' = [status EXCEPT ![b] = "confirmed"]
    /\ bot' = [bot EXCEPT ![b] = "schedule"]
    /\ UNCHANGED <<svars, wvars, now, lost, troubled>>

\* schedule_reminder: schedule_by_time, whether or not Redis is heard to have
\* done it; on_confirm logs an error and goes on.
ScheduleReminder(b) ==
    /\ bot[b] = "schedule"
    /\ FireAt(b) > now
    /\ schedule' = schedule \cup {b}
    /\ bot' = [bot EXCEPT ![b] = "done"]
    /\ UNCHANGED <<status, sending, kicks, restarts, wvars, now, lost, troubled>>

\* "Booking is too soon, reminder not scheduled."
TooSoon(b) ==
    /\ bot[b] = "schedule"
    /\ FireAt(b) <= now
    /\ bot' = [bot EXCEPT ![b] = "done"]
    /\ UNCHANGED <<status, svars, wvars, now, lost, troubled>>

\* schedule_by_time raises, or the bot dies first: no reminder.
NotScheduled(b) ==
    /\ bot[b] = "schedule"
    /\ bot' = [bot EXCEPT ![b] = "done"]
    /\ lost' = lost \cup {b}
    /\ UNCHANGED <<status, svars, wvars, now, troubled>>

\* cancel_booking, committed; the reminder stays in the schedule.
CancelBooking(b) ==
    /\ status[b] = "confirmed"
    /\ status' = [status EXCEPT ![b] = "cancelled"]
    /\ UNCHANGED <<bot, svars, wvars, now, lost, troubled>>

-----------------------------------------------------------------------------
(* The scheduler                                                           *)

\* Mutant: a scheduler that skips what is past.
KickOnTime(b) ==
    /\ b \in schedule \ sending
    /\ FireAt(b) = now
    /\ sending' = sending \cup {b}
    /\ kicks' = [kicks EXCEPT ![b] = @ + 1]
    /\ queue' = queue \cup {[booking |-> b, kick |-> kicks[b] + 1, retries |-> 0]}
    /\ UNCHANGED <<bvars, schedule, restarts, wpc, task, sent, now, lost, troubled>>

\* A time has come, perhaps long ago: the task is sent to the queue.
Kick(b) ==
    /\ b \in schedule \ sending
    /\ FireAt(b) <= now
    /\ sending' = sending \cup {b}
    /\ kicks' = [kicks EXCEPT ![b] = @ + 1]
    /\ queue' = queue \cup {[booking |-> b, kick |-> kicks[b] + 1, retries |-> 0]}
    /\ UNCHANGED <<bvars, schedule, restarts, wpc, task, sent, now, lost, troubled>>

\* Mutant: what was sent stays in the schedule.
DeleteScheduleKept(b) ==
    /\ b \in sending
    /\ sending' = sending \ {b}
    /\ UNCHANGED <<bvars, schedule, kicks, restarts, wvars, now, lost, troubled>>

\* post_send: the schedule is deleted.
DeleteSchedule(b) ==
    /\ b \in sending
    /\ schedule' = schedule \ {b}
    /\ sending' = sending \ {b}
    /\ UNCHANGED <<bvars, kicks, restarts, wvars, now, lost, troubled>>

\* The scheduler dies between the two, and will send again.
SchedulerRestart ==
    /\ sending # {}
    /\ restarts < MaxRestarts
    /\ sending' = {}
    /\ restarts' = restarts + 1
    /\ troubled' = troubled \cup sending
    /\ UNCHANGED <<bvars, schedule, kicks, wvars, now, lost>>

-----------------------------------------------------------------------------
(* The worker: send_booking_reminder                                       *)

\* BRPOP: the message leaves Redis before it is handled.
Pop(w, m) ==
    /\ wpc[w] = "idle"
    /\ m \in queue
    /\ queue' = queue \ {m}
    /\ wpc' = [wpc EXCEPT ![w] = "read"]
    /\ task' = [task EXCEPT ![w] = m]
    /\ UNCHANGED <<bvars, svars, sent, now, lost, troubled>>

\* The worker moves on, or is free again, with nothing else changed.
GoTo(w, place) ==
    /\ wpc' = [wpc EXCEPT ![w] = place]
    /\ UNCHANGED <<bvars, svars, queue, task, now>>

\* Mutant: the booking is missing, or there it is.
ReadActiveMissingOnly(w) ==
    /\ wpc[w] = "read"
    /\ status[task[w].booking] # "none"
    /\ GoTo(w, "send")
    /\ UNCHANGED <<sent, lost, troubled>>

\* get_booking finds an active booking.
ReadActive(w) ==
    /\ wpc[w] = "read"
    /\ status[task[w].booking] = "confirmed"
    /\ GoTo(w, "send")
    /\ UNCHANGED <<sent, lost, troubled>>

\* "Reminder skipped: booking missing/inactive."
Skip(w) ==
    /\ wpc[w] = "read"
    /\ status[task[w].booking] # "confirmed"
    /\ GoTo(w, "idle")
    /\ UNCHANGED <<sent, lost, troubled>>

\* bot.send_message
Send(w) ==
    /\ wpc[w] = "send"
    /\ sent' = sent \cup {task[w]}
    /\ GoTo(w, "idle")
    /\ UNCHANGED <<lost, troubled>>

\* TelegramNetworkError although the message was delivered.
SendUnheard(w) ==
    /\ wpc[w] = "send"
    /\ sent' = sent \cup {task[w]}
    /\ GoTo(w, "failed")
    /\ troubled' = troubled \cup {task[w].booking}
    /\ UNCHANGED lost

\* Mutant: the error is caught and logged, and no one retries.
TaskFailsQuietly(w) ==
    /\ wpc[w] \in {"read", "send"}
    /\ GoTo(w, "idle")
    /\ UNCHANGED <<sent, lost, troubled>>

\* An error of the database or of Telegram, nothing delivered.
TaskFails(w) ==
    /\ wpc[w] \in {"read", "send"}
    /\ GoTo(w, "failed")
    /\ UNCHANGED <<sent, lost, troubled>>

\* Mutant: the count of retries is not handed on.
RetryUncounted(w) ==
    /\ wpc[w] = "failed"
    /\ queue' = queue \cup {[task[w] EXCEPT !.retries = 0]}
    /\ wpc' = [wpc EXCEPT ![w] = "idle"]
    /\ UNCHANGED <<bvars, svars, task, sent, now, lost, troubled>>

\* Mutant: there is always one more retry.
RetryAlways(w) ==
    /\ wpc[w] = "failed"
    /\ queue' = queue \cup {[task[w] EXCEPT !.retries = @ + 1]}
    /\ wpc' = [wpc EXCEPT ![w] = "idle"]
    /\ UNCHANGED <<bvars, svars, task, sent, now, lost, troubled>>

\* SimpleRetryMiddleware: the task is sent again, as long as there are
\* retries left.
Retry(w) ==
    /\ wpc[w] = "failed"
    /\ task[w].retries + 1 < MaxRetries
    /\ queue' = queue \cup {[task[w] EXCEPT !.retries = @ + 1]}
    /\ wpc' = [wpc EXCEPT ![w] = "idle"]
    /\ UNCHANGED <<bvars, svars, task, sent, now, lost, troubled>>

\* ... and then no more.
GiveUp(w) ==
    /\ wpc[w] = "failed"
    /\ task[w].retries + 1 >= MaxRetries
    /\ GoTo(w, "idle")
    /\ lost' = lost \cup {task[w].booking}
    /\ UNCHANGED <<sent, troubled>>

\* The worker process dies with the tasks it runs.
WorkerRestart ==
    /\ \E w \in Workers : wpc[w] # "idle"
    /\ wpc' = [w \in Workers |-> "idle"]
    /\ lost' = lost \cup {task[w].booking : w \in {x \in Workers : wpc[x] # "idle"}}
    /\ UNCHANGED <<bvars, svars, queue, task, sent, now, troubled>>

Tick ==
    /\ \E t \in Moments : t > now /\ now' = t
    /\ UNCHANGED <<bvars, svars, wvars, lost, troubled>>

-----------------------------------------------------------------------------
OnConfirm(b) == ScheduleReminder(b) \/ TooSoon(b) \/ NotScheduled(b)

Scheduler(b) == Kick(b) \/ DeleteSchedule(b)

Attempt(w) ==
    \/ ReadActive(w) \/ Skip(w)
    \/ Send(w) \/ SendUnheard(w) \/ TaskFails(w)
    \/ Retry(w) \/ GiveUp(w)

Next ==
    \/ \E b \in Bookings : Commit(b) \/ OnConfirm(b) \/ CancelBooking(b) \/ Scheduler(b)
    \/ \E w \in Workers, m \in queue : Pop(w, m)
    \/ \E w \in Workers : Attempt(w)
    \/ SchedulerRestart \/ WorkerRestart \/ Tick

Spec == Init /\ [][Next]_vars

\* The clock goes on; the scheduler looks at its schedule every minute; no
\* message is passed over for ever (the queue is a list, first in first out);
\* and a task that runs ends.  No failure is assumed to stay away: those that
\* take a reminder away are in `lost'.
Fairness ==
    /\ WF_vars(Tick)
    /\ \A b \in Bookings : WF_vars(Scheduler(b))
    /\ \A b \in Bookings, k \in 1 .. MaxRestarts + 1, r \in 0 .. MaxRetries - 1 :
           LET m == [booking |-> b, kick |-> k, retries |-> r]
           IN  WF_vars(\E w \in Workers : Pop(w, m))
    /\ \A w \in Workers : WF_vars(Attempt(w))

FairSpec == Spec /\ Fairness

-----------------------------------------------------------------------------
(* Properties                                                              *)

\* Messages that may still lead to an attempt, and those of an attempt that
\* has not ended.
Live == queue \cup {task[w] : w \in {x \in Workers : wpc[x] # "idle"}}
Pending == queue \cup {task[w] : w \in {x \in Workers : wpc[x] \in {"read", "send"}}}

SameTask(m, n) == m.booking = n.booking /\ m.kick = n.kick

\* However the scheduler, the workers and Telegram fail, one sending of the
\* schedule is one task: its message is never in two places, and every attempt
\* has a number of its own, so that it reminds the client at most max_retries
\* times.
OneTaskPerKick ==
    /\ \A m, n \in Live : SameTask(m, n) => m = n
    /\ \A w, x \in Workers :
           /\ w # x
           /\ wpc[w] # "idle" /\ wpc[x] # "idle"
           => task[w] # task[x]
    /\ \A w \in Workers : wpc[w] # "idle" => task[w] \notin queue
    /\ \A m \in Pending, n \in sent : SameTask(m, n) => n.retries < m.retries

\* A client is reminded of a booking twice only if the scheduler died before it
\* deleted what it had sent, or Telegram delivered what it reported as failed.
NoSecondReminder ==
    \A m, n \in sent :
        m.booking = n.booking /\ m.booking \notin troubled => m = n

\* No worker is about to remind a client of the cancelled booking b.
Quiet(b) ==
    /\ status[b] = "cancelled"
    /\ \A w \in Workers : wpc[w] = "send" => task[w].booking # b

\* "Reminders are kept in Redis and outlive restarts", at every moment: as long
\* as its time has not come, a reminder that the bot has stored is in the
\* schedule; and of every sending of the schedule, however late or repeated,
\* the task is in the queue, with a worker, or has delivered, unless the
\* booking was cancelled or a failure took the task away.
NeverForgotten ==
    \A b \in Bookings \ lost :
        /\ bot[b] = "done" /\ now < FireAt(b) => b \in schedule
        /\ status[b] # "cancelled" =>
               \A k \in 1 .. kicks[b] :
                   \E m \in Live \cup sent : m.booking = b /\ m.kick = k

\* "Cancelled bookings are skipped": once a booking is cancelled, and no worker
\* has read it before, no reminder of it is ever delivered again, whatever is
\* in the schedule, in the queue or being retried.
CancelledStaysQuiet ==
    [][\A b \in Bookings :
           Quiet(b) => Quiet(b)' /\ \A m \in sent' \ sent : m.booking # b]_vars

\* "Reminders are kept in Redis and outlive restarts": a booking whose reminder
\* is in the schedule is reminded of, or cancelled, unless a worker died with
\* the task or max_retries attempts failed.
ReminderComes ==
    \A b \in Bookings :
        b \in schedule ~> \/ \E m \in sent : m.booking = b
                          \/ status[b] = "cancelled"
                          \/ b \in lost

\* Whoever is about to send a reminder has found the booking active.
InHand == {task[w].booking : w \in {x \in Workers : wpc[x] = "send"}}

Promise == INSTANCE ReminderPromise WITH in_hand <- InHand, excused <- troubled

\* Schedule, queue, retries and restarts come to what is promised: every
\* reminder is of a booking found active, and is the only one, unless the
\* scheduler died before it deleted what it had sent, or Telegram delivered
\* what it reported as failed.
PromiseSpec == Promise!Spec

=============================================================================
