-------------------------- MODULE RemindersProofs --------------------------
(***************************************************************************)
(* Theorems about Reminders, for any number of bookings, workers, retries  *)
(* and restarts.                                                           *)
(*                                                                         *)
(* The invariant follows a booking from the schedule to the client: it is  *)
(* scheduled once and sent to the queue once as long as the scheduler      *)
(* lives (Scheduled), what is in the queue or with a worker stems from     *)
(* such a sending (Kicked), each sending is one task (OneTaskPerKick,      *)
(* Tried), and a task that has delivered is over (Delivered).  That none   *)
(* is dropped on the way is NeverForgotten itself, with DueWhenSent.       *)
(***************************************************************************)
EXTENDS Reminders, TLAPS

Scheduled ==
    /\ sending \subseteq schedule
    /\ \A b \in Bookings :
           /\ status[b] = "none" => bot[b] = "idle"
           /\ bot[b] # "done" => b \notin schedule /\ kicks[b] = 0
    /\ \A b \in Bookings \ troubled :
           /\ kicks[b] \in {0, 1}
           /\ b \in schedule \ sending => kicks[b] = 0

Kicked == \A m \in Live \cup sent : m.kick \in 1 .. kicks[m.booking]

Tried ==
    \A w \in Workers, n \in sent :
        wpc[w] = "failed" /\ SameTask(task[w], n) => n.retries <= task[w].retries

Delivered ==
    \A m \in sent :
        m.booking \notin troubled =>
            /\ \A n \in Live : n.booking # m.booking
            /\ \A n \in sent : n.booking = m.booking => n = m

TaskInv == TypeOK /\ Kicked /\ OneTaskPerKick /\ Tried

RemindersInv == TaskInv /\ Scheduled /\ Delivered

-----------------------------------------------------------------------------
(* Messages                                                                *)

LEMMA LiveMembers ==
    /\ \A m : m \in Live <=> m \in queue \/ \E w \in Workers : wpc[w] # "idle" /\ m = task[w]
    /\ \A m : m \in Live' <=> m \in queue' \/ \E w \in Workers : wpc'[w] # "idle" /\ m = task'[w]
BY DEF Live

LEMMA PendingMembers ==
    /\ \A m : m \in Pending <=>
           m \in queue \/ \E w \in Workers : wpc[w] \in {"read", "send"} /\ m = task[w]
    /\ \A m : m \in Pending' <=>
           m \in queue' \/ \E w \in Workers : wpc'[w] \in {"read", "send"} /\ m = task'[w]
BY DEF Pending

\* The message of a retry: the same task, one attempt further.
LEMMA NextAttempt ==
    ASSUME NEW m \in Message, m.retries + 1 < MaxRetries
    PROVE  LET n == [m EXCEPT !.retries = @ + 1]
           IN  /\ n \in Message
               /\ n.booking = m.booking /\ n.kick = m.kick
               /\ n.retries = m.retries + 1
BY MaxRetriesAssumption DEF Message

\* What the steps of the three processes do, with their failures.
LEMMA TypeStep ==
    ASSUME TypeOK, [Next]_vars
    PROVE  TypeOK'
<1> USE DEF TypeOK
<1>1. ASSUME NEW b \in Bookings,
             \/ Commit(b) \/ OnConfirm(b) \/ CancelBooking(b) \/ DeleteSchedule(b)
      PROVE  TypeOK'
  BY <1>1 DEF Commit, OnConfirm, ScheduleReminder, TooSoon, NotScheduled,
              CancelBooking, DeleteSchedule, bvars, svars, wvars
<1>2. ASSUME NEW b \in Bookings, Kick(b)
      PROVE  TypeOK'
  <2>1. [booking |-> b, kick |-> kicks[b] + 1, retries |-> 0] \in Message
    BY MaxRetriesAssumption DEF Message
  <2> QED
    BY <1>2, <2>1 DEF Kick, bvars
<1>3. ASSUME NEW w \in Workers, NEW m \in queue, Pop(w, m)
      PROVE  TypeOK'
  BY <1>3 DEF Pop, bvars, svars
<1>4. ASSUME NEW w \in Workers, Retry(w)
      PROVE  TypeOK'
  BY <1>4, NextAttempt DEF Retry, bvars, svars
<1>5. ASSUME NEW w \in Workers,
             \/ ReadActive(w) \/ Skip(w) \/ Send(w) \/ SendUnheard(w)
             \/ TaskFails(w) \/ GiveUp(w)
      PROVE  TypeOK'
  <2>1. task[w].booking \in Bookings
    BY <1>5 DEF ReadActive, Skip, Send, SendUnheard, TaskFails, GiveUp, Message
  <2> QED
    BY <1>5, <2>1 DEF ReadActive, Skip, Send, SendUnheard, TaskFails, GiveUp,
                      GoTo, bvars, svars
<1>6. CASE WorkerRestart
  <2>1. \A w \in Workers : wpc[w] # "idle" => task[w].booking \in Bookings
    BY DEF Message
  <2> QED
    BY <1>6, <2>1 DEF WorkerRestart, bvars, svars
<1>7. CASE SchedulerRestart \/ Tick \/ UNCHANGED vars
  BY <1>7, MomentsAssumption
  DEF SchedulerRestart, Tick, vars, bvars, svars, wvars
<1> QED
  BY <1>1, <1>2, <1>3, <1>4, <1>5, <1>6, <1>7 DEF Next, Scheduler, Attempt

-----------------------------------------------------------------------------
(* One sending, one task                                                   *)

\* The parts of TaskInv that say where messages are, in terms of the places.
LEMMA KickTask ==
    ASSUME TaskInv, NEW b \in Bookings, Kick(b)
    PROVE  Kicked' /\ OneTaskPerKick' /\ Tried'
<1> DEFINE k == [booking |-> b, kick |-> kicks[b] + 1, retries |-> 0]
<1>1. /\ queue' = queue \cup {k}
      /\ UNCHANGED <<wpc, task, sent>>
      /\ kicks' = [kicks EXCEPT ![b] = @ + 1]
  BY DEF Kick
<1>2. /\ k \in Message
      /\ k.booking = b /\ k.kick = kicks[b] + 1
  BY MaxRetriesAssumption DEF Message, TaskInv, TypeOK
<1> HIDE DEF k
<1>3. \A m : m \in Live' <=> m \in Live \/ m = k
  BY <1>1, LiveMembers
<1>4. \A m : m \in Pending' <=> m \in Pending \/ m = k
  BY <1>1, PendingMembers
<1>5. Live \cup sent \subseteq Message /\ Pending \subseteq Live
  BY LiveMembers, PendingMembers DEF TaskInv, TypeOK
<1>6. \A m \in Live \cup sent : ~SameTask(m, k) /\ ~SameTask(k, m)
  BY <1>2, <1>5 DEF TaskInv, Kicked, SameTask, Message, TypeOK
<1>7. Kicked'
  BY <1>1, <1>2, <1>3, <1>5 DEF TaskInv, Kicked, TypeOK, Message
<1>8. \A w \in Workers : wpc[w] # "idle" => task[w] # k
  BY <1>6, LiveMembers DEF SameTask
<1>9. OneTaskPerKick'
  BY <1>1, <1>3, <1>4, <1>5, <1>6, <1>8 DEF TaskInv, OneTaskPerKick
<1>10. Tried'
  BY <1>1 DEF TaskInv, Tried
<1> QED
  BY <1>7, <1>9, <1>10

LEMMA PopTask ==
    ASSUME TaskInv, NEW w \in Workers, NEW m \in queue, Pop(w, m)
    PROVE  Kicked' /\ OneTaskPerKick' /\ Tried'
<1>1. /\ wpc[w] = "idle" /\ queue' = queue \ {m}
      /\ wpc'[w] = "read" /\ task'[w] = m
      /\ \A x \in Workers \ {w} : wpc'[x] = wpc[x] /\ task'[x] = task[x]
      /\ UNCHANGED <<sent, kicks>>
  BY DEF Pop, TaskInv, TypeOK, svars
<1>2. \A n : n \in Live' <=> n \in Live
  BY <1>1, LiveMembers
<1>3. \A n : n \in Pending' <=> n \in Pending
  BY <1>1, PendingMembers
<1>4. Kicked'
  BY <1>1, <1>2 DEF TaskInv, Kicked
<1>5. OneTaskPerKick'
  BY <1>1, <1>2, <1>3 DEF TaskInv, OneTaskPerKick
<1>6. Tried'
  BY <1>1 DEF TaskInv, Tried
<1> QED
  BY <1>4, <1>5, <1>6

\* A worker moves on without delivering.
LEMMA MoveTask ==
    ASSUME TaskInv, NEW w \in Workers,
           ReadActive(w) \/ Skip(w) \/ TaskFails(w) \/ GiveUp(w)
    PROVE  Kicked' /\ OneTaskPerKick' /\ Tried'
<1>1. /\ wpc[w] # "idle"
      /\ \A x \in Workers \ {w} : wpc'[x] = wpc[x]
      /\ UNCHANGED <<queue, task, sent, kicks>>
      /\ wpc'[w] \in {"read", "send"} => wpc[w] \in {"read", "send"}
      /\ wpc'[w] = "failed" => wpc[w] \in {"read", "send"}
  BY DEF ReadActive, Skip, TaskFails, GiveUp, GoTo, TaskInv, TypeOK, svars
<1>2. \A n \in Live' : n \in Live
  BY <1>1, LiveMembers
<1>3. \A n \in Pending' : n \in Pending
  BY <1>1, PendingMembers
<1>4. wpc[w] \in {"read", "send"} => task[w] \in Pending
  BY PendingMembers
<1>5. Kicked'
  BY <1>1, <1>2 DEF TaskInv, Kicked
<1>6. OneTaskPerKick'
  BY <1>1, <1>2, <1>3 DEF TaskInv, OneTaskPerKick
<1>7. task[w] \in Message \/ wpc[w] = "idle"
  BY DEF TaskInv, TypeOK
<1>8. Tried'
  BY <1>1, <1>4, <1>7 DEF TaskInv, Tried, OneTaskPerKick, Message, TypeOK
<1> QED
  BY <1>5, <1>6, <1>8

\* A worker delivers, and the task is over or has failed.
LEMMA SendTask ==
    ASSUME TaskInv, NEW w \in Workers, Send(w) \/ SendUnheard(w)
    PROVE  Kicked' /\ OneTaskPerKick' /\ Tried'
<1>1. /\ wpc[w] = "send" /\ wpc'[w] \in {"idle", "failed"}
      /\ \A x \in Workers \ {w} : wpc'[x] = wpc[x]
      /\ sent' = sent \cup {task[w]}
      /\ UNCHANGED <<queue, task, kicks>>
  BY DEF Send, SendUnheard, GoTo, TaskInv, TypeOK, svars
<1>2. task[w] \in Live /\ task[w] \in Pending /\ task[w] \in Message
  BY <1>1, LiveMembers, PendingMembers DEF TaskInv, TypeOK
<1>3. \A n \in Live' : n \in Live
  BY <1>1, LiveMembers
<1>4. \A n \in Pending' : n \in Pending /\ n \in Live
  BY <1>1, PendingMembers, LiveMembers
<1>5. task[w] \notin queue /\ \A x \in Workers \ {w} : wpc[x] # "idle" => task[x] # task[w]
  BY <1>1 DEF TaskInv, OneTaskPerKick
<1>6. task[w] \notin Pending'
  BY <1>1, <1>5, PendingMembers
<1>7. \A n \in Pending' : ~SameTask(n, task[w])
  BY <1>2, <1>4, <1>6 DEF TaskInv, OneTaskPerKick
<1>8. Kicked'
  BY <1>1, <1>2, <1>3 DEF TaskInv, Kicked
<1>9. OneTaskPerKick'
  BY <1>1, <1>3, <1>4, <1>7 DEF TaskInv, OneTaskPerKick
<1>10. \A x \in Workers \ {w} : wpc[x] = "failed" => ~SameTask(task[x], task[w])
  <2>1. \A x \in Workers \ {w} : wpc[x] = "failed" => task[x] \in Live
    BY LiveMembers
  <2> QED
    BY <1>2, <1>5, <2>1 DEF TaskInv, OneTaskPerKick
<1>11. ASSUME NEW x \in Workers, NEW n \in sent', wpc'[x] = "failed",
              SameTask(task[x], n)
       PROVE  n.retries <= task[x].retries
  <2>1. CASE x = w /\ n = task[w]
    BY <1>2, <2>1 DEF Message
  <2>2. CASE x = w /\ n \in sent
    <3>1. n.retries < task[w].retries
      BY <1>2, <1>11, <2>2 DEF TaskInv, OneTaskPerKick
    <3> QED
      BY <1>2, <2>2, <3>1 DEF Message, TaskInv, TypeOK
  <2>3. CASE x # w
    BY <1>1, <1>10, <1>11, <2>3 DEF TaskInv, Tried
  <2> QED
    BY <1>1, <2>1, <2>2, <2>3
<1>12. Tried'
  BY <1>1, <1>11 DEF Tried
<1> QED
  BY <1>8, <1>9, <1>12

LEMMA RetryTask ==
    ASSUME TaskInv, NEW w \in Workers, Retry(w)
    PROVE  Kicked' /\ OneTaskPerKick' /\ Tried'
<1> DEFINE n == [task[w] EXCEPT !.retries = @ + 1]
<1>1. /\ wpc[w] = "failed" /\ wpc'[w] = "idle"
      /\ \A x \in Workers \ {w} : wpc'[x] = wpc[x]
      /\ queue' = queue \cup {n}
      /\ UNCHANGED <<task, sent, kicks>>
  BY DEF Retry, TaskInv, TypeOK, svars
<1>2. /\ task[w] \in Message /\ task[w] \in Live
      /\ n \in Message
      /\ n.booking = task[w].booking /\ n.kick = task[w].kick
      /\ n.retries = task[w].retries + 1
  BY <1>1, LiveMembers, NextAttempt DEF Retry, TaskInv, TypeOK
<1> HIDE DEF n
<1>3. \A m \in Live' : m \in Live \/ m = n
  BY <1>1, LiveMembers
<1>4. \A m \in Pending' : m \in Pending \/ m = n
  BY <1>1, PendingMembers
<1>5. task[w] \notin queue /\ \A x \in Workers \ {w} : wpc[x] # "idle" => task[x] # task[w]
  BY <1>1 DEF TaskInv, OneTaskPerKick
<1>6. n # task[w]
  BY <1>2 DEF Message
<1>7. task[w] \notin Live'
  BY <1>1, <1>5, <1>6, LiveMembers
<1>8. \A m \in Live : SameTask(m, n) \/ SameTask(n, m) => m = task[w]
  BY <1>2 DEF TaskInv, OneTaskPerKick, SameTask
<1>9. \A m \in Live' : SameTask(m, n) \/ SameTask(n, m) => m = n
  BY <1>3, <1>7, <1>8
<1>10. Kicked'
  BY <1>1, <1>2, <1>3 DEF TaskInv, Kicked
<1>11. ASSUME NEW m \in sent, SameTask(n, m)
       PROVE  m.retries < n.retries
  <2>1. SameTask(task[w], m)
    BY <1>2, <1>11 DEF SameTask
  <2>2. m.retries <= task[w].retries
    BY <1>1, <2>1 DEF TaskInv, Tried
  <2>3. m.retries \in Int /\ task[w].retries \in Int
    BY <1>2 DEF TaskInv, TypeOK, Message
  <2> QED
    BY <1>2, <2>2, <2>3
<1>12. n \notin Live
  BY <1>2, <1>6, <1>8 DEF SameTask
<1>13. /\ \A x \in Workers : wpc'[x] # "idle" => task[x] \notin queue'
       /\ \A x, y \in Workers :
              x # y /\ wpc'[x] # "idle" /\ wpc'[y] # "idle" => task[x] # task[y]
  BY <1>1, <1>12, LiveMembers DEF TaskInv, OneTaskPerKick
<1>14. OneTaskPerKick'
  BY <1>1, <1>3, <1>4, <1>9, <1>11, <1>13 DEF TaskInv, OneTaskPerKick
<1>15. Tried'
  BY <1>1 DEF TaskInv, Tried
<1> QED
  BY <1>10, <1>14, <1>15

LEMMA TaskStep ==
    ASSUME TaskInv, [Next]_vars
    PROVE  TaskInv'
<1>1. ASSUME UNCHANGED <<wvars, kicks>>
      PROVE  Kicked' /\ OneTaskPerKick' /\ Tried'
  <2>1. Live' = Live /\ Pending' = Pending
    BY <1>1 DEF Live, Pending, wvars
  <2> QED
    BY <1>1, <2>1 DEF TaskInv, Kicked, OneTaskPerKick, Tried, wvars
<1>2. ASSUME WorkerRestart
      PROVE  Kicked' /\ OneTaskPerKick' /\ Tried'
  <2>1. /\ \A w \in Workers : wpc'[w] = "idle"
        /\ UNCHANGED <<queue, task, sent, kicks>>
    BY <1>2 DEF WorkerRestart, svars
  <2>2. Live' \subseteq Live /\ Pending' \subseteq Pending
    BY <2>1, LiveMembers, PendingMembers
  <2> QED
    BY <2>1, <2>2 DEF TaskInv, Kicked, OneTaskPerKick, Tried
<1>3. Kicked' /\ OneTaskPerKick' /\ Tried'
  <2>1. ASSUME NEW b \in Bookings,
               \/ Commit(b) \/ OnConfirm(b) \/ CancelBooking(b) \/ DeleteSchedule(b)
        PROVE  UNCHANGED <<wvars, kicks>>
    BY <2>1 DEF Commit, OnConfirm, ScheduleReminder, TooSoon, NotScheduled,
                CancelBooking, DeleteSchedule, svars
  <2>2. SchedulerRestart \/ Tick \/ UNCHANGED vars => UNCHANGED <<wvars, kicks>>
    BY DEF SchedulerRestart, Tick, vars, svars
  <2> QED
    BY <1>1, <1>2, <2>1, <2>2, KickTask, PopTask, MoveTask, SendTask, RetryTask
    DEF Next, Scheduler, Attempt
<1>4. TypeOK'
  BY TypeStep DEF TaskInv
<1> QED
  BY <1>3, <1>4 DEF TaskInv

LEMMA TaskInit == Init => TaskInv
<1> SUFFICES ASSUME Init
             PROVE  TaskInv
  OBVIOUS
<1>1. Live = {} /\ Pending = {}
  BY DEF Init, Live, Pending
<1>2. TypeOK
  BY BookingsAssumption, MomentsAssumption DEF Init, TypeOK, Message
<1>3. Kicked
  BY <1>1 DEF Init, Kicked
<1>4. OneTaskPerKick
  BY <1>1 DEF Init, OneTaskPerKick
<1>5. Tried
  BY <1>1 DEF Init, Tried
<1> QED
  BY <1>2, <1>3, <1>4, <1>5 DEF TaskInv

\* Every reachable state of the reminders has its type; in particular no
\* message is ever on a retry that max_retries does not allow.
THEOREM RemindersTypeCorrect == Spec => []TypeOK
<1>1. TaskInv => TypeOK
  BY DEF TaskInv
<1> QED
  BY <1>1, TaskInit, TaskStep, PTL DEF Spec

\* One sending of the schedule is one task, whatever fails: never in two
\* places, never two attempts with one number.
THEOREM TasksAreSingle == Spec => []OneTaskPerKick
<1>1. TaskInv => OneTaskPerKick
  BY DEF TaskInv
<1> QED
  BY <1>1, TaskInit, TaskStep, PTL DEF Spec

-----------------------------------------------------------------------------
(* No second reminder                                                      *)

\* The bot schedules a booking once, and the scheduler, as long as it lives,
\* sends what is scheduled once.
LEMMA ScheduledStep ==
    ASSUME TypeOK, Scheduled, [Next]_vars
    PROVE  Scheduled'
<1> USE DEF TypeOK, Scheduled
<1>1. ASSUME NEW b \in Bookings, Commit(b) \/ OnConfirm(b) \/ CancelBooking(b)
      PROVE  Scheduled'
  BY <1>1 DEF Commit, OnConfirm, ScheduleReminder, TooSoon, NotScheduled,
              CancelBooking, svars
<1>2. ASSUME NEW b \in Bookings, Kick(b)
      PROVE  Scheduled'
  BY <1>2 DEF Kick, bvars
<1>3. ASSUME NEW b \in Bookings, DeleteSchedule(b)
      PROVE  Scheduled'
  BY <1>3 DEF DeleteSchedule, bvars
<1>4. CASE SchedulerRestart
  BY <1>4 DEF SchedulerRestart, bvars
<1>5. ASSUME UNCHANGED <<bvars, svars>>, troubled \subseteq troubled'
      PROVE  Scheduled'
  BY <1>5 DEF bvars, svars
<1>6. ASSUME NEW w \in Workers, Attempt(w) \/ \E m \in queue : Pop(w, m)
      PROVE  UNCHANGED <<bvars, svars>> /\ troubled \subseteq troubled'
  BY <1>6 DEF Attempt, ReadActive, Skip, Send, SendUnheard, TaskFails, Retry,
              GiveUp, GoTo, Pop
<1>7. WorkerRestart \/ Tick \/ UNCHANGED vars =>
          UNCHANGED <<bvars, svars>> /\ troubled \subseteq troubled'
  BY DEF WorkerRestart, Tick, vars
<1> QED
  BY <1>1, <1>2, <1>3, <1>4, <1>5, <1>6, <1>7 DEF Next, Scheduler

\* A task that has delivered is over, and was the only one.
LEMMA DeliveredStep ==
    ASSUME RemindersInv, [Next]_vars
    PROVE  Delivered'
<1> USE DEF RemindersInv, TaskInv
<1>1. ASSUME NEW b \in Bookings, Kick(b)
      PROVE  Delivered'
  <2>1. /\ \A n \in Live' : n \in Live \/ n.booking = b
        /\ UNCHANGED <<sent, troubled>>
    BY <1>1, LiveMembers DEF Kick
  <2>2. b \notin troubled => \A m \in sent : m.booking # b
    <3>1. b \notin troubled => kicks[b] = 0
      BY <1>1 DEF Kick, Scheduled
    <3>2. \A m \in sent : m.kick \in 1 .. kicks[m.booking]
      BY DEF Kicked
    <3> QED
      BY <3>1, <3>2
  <2> QED
    BY <2>1, <2>2 DEF Delivered
<1>2. ASSUME Live' \subseteq Live, sent' = sent, troubled \subseteq troubled'
      PROVE  Delivered'
  BY <1>2 DEF Delivered
<1>3. ASSUME NEW w \in Workers, NEW m \in queue, Pop(w, m)
      PROVE  Live' \subseteq Live /\ UNCHANGED <<sent, troubled>>
  BY <1>3, LiveMembers DEF Pop, TypeOK
<1>4. ASSUME NEW w \in Workers,
             ReadActive(w) \/ Skip(w) \/ TaskFails(w) \/ GiveUp(w)
      PROVE  Live' \subseteq Live /\ UNCHANGED <<sent, troubled>>
  BY <1>4, LiveMembers DEF ReadActive, Skip, TaskFails, GiveUp, GoTo, TypeOK
<1>5. ASSUME NEW w \in Workers, Retry(w)
      PROVE  Delivered'
  <2> DEFINE n == [task[w] EXCEPT !.retries = @ + 1]
  <2>1. task[w] \in Live /\ task[w] \in Message
    BY <1>5, LiveMembers DEF Retry, TypeOK
  <2>2. n.booking = task[w].booking
    BY <1>5, <2>1, NextAttempt DEF Retry
  <2>3. /\ queue' = queue \cup {n}
        /\ \A x \in Workers : wpc'[x] # "idle" => wpc[x] # "idle"
        /\ UNCHANGED <<task, sent, troubled>>
    BY <1>5 DEF Retry, TypeOK
  <2> HIDE DEF n
  <2>4. \A m \in Live' : m \in Live \/ m = n
    BY <2>3, LiveMembers
  <2> QED
    BY <2>1, <2>2, <2>3, <2>4 DEF Delivered
<1>6. ASSUME NEW w \in Workers, Send(w) \/ SendUnheard(w)
      PROVE  Delivered'
  <2>1. /\ wpc[w] = "send" /\ wpc'[w] \in {"idle", "failed"}
        /\ \A x \in Workers \ {w} : wpc'[x] = wpc[x]
        /\ sent' = sent \cup {task[w]}
        /\ UNCHANGED <<queue, task>>
        /\ troubled \subseteq troubled'
        /\ wpc'[w] = "failed" => task[w].booking \in troubled'
    BY <1>6 DEF Send, SendUnheard, GoTo, TypeOK
  <2>2. task[w] \in Live /\ task[w] \in Message
    BY <2>1, LiveMembers DEF TypeOK
  <2>3. Live' \subseteq Live
    BY <2>1, LiveMembers
  <2>4. task[w].booking \notin troubled' => task[w] \notin Live'
    BY <2>1, LiveMembers DEF OneTaskPerKick
  <2>5. ASSUME NEW n \in Live, n.booking = task[w].booking,
               task[w].booking \notin troubled'
        PROVE  n = task[w]
    <3>1. kicks[task[w].booking] \in {0, 1}
      BY <2>1, <2>2, <2>5 DEF Scheduled, Message
    <3>2. n.kick \in 1 .. kicks[n.booking] /\ task[w].kick \in 1 .. kicks[n.booking]
      BY <2>2, <2>5 DEF Kicked
    <3>3. n.kick = task[w].kick
      BY <2>5, <3>1, <3>2
    <3> QED
      BY <2>2, <2>5, <3>3 DEF OneTaskPerKick, SameTask
  <2>6. task[w].booking \notin troubled =>
            \A n \in sent : n.booking # task[w].booking
    BY <2>2 DEF Delivered
  <2> QED
    BY <2>1, <2>2, <2>3, <2>4, <2>5, <2>6 DEF Delivered
<1>7. ASSUME WorkerRestart
      PROVE  Live' \subseteq Live /\ UNCHANGED <<sent, troubled>>
  BY <1>7, LiveMembers DEF WorkerRestart
<1>8. ASSUME NEW b \in Bookings,
             \/ Commit(b) \/ OnConfirm(b) \/ CancelBooking(b) \/ DeleteSchedule(b)
      PROVE  UNCHANGED <<wvars, troubled>>
  BY <1>8 DEF Commit, OnConfirm, ScheduleReminder, TooSoon, NotScheduled,
              CancelBooking, DeleteSchedule
<1>9. SchedulerRestart \/ Tick \/ UNCHANGED vars =>
          UNCHANGED wvars /\ troubled \subseteq troubled'
  BY DEF SchedulerRestart, Tick, vars
<1>10. UNCHANGED wvars => Live' = Live /\ sent' = sent
  BY DEF wvars, Live
<1> QED
  BY <1>1, <1>2, <1>3, <1>4, <1>5, <1>6, <1>7, <1>8, <1>9, <1>10
  DEF Next, Scheduler, Attempt

\* A client is reminded of a booking at most once, unless the scheduler died
\* between sending and deleting, or Telegram delivered what it reported as
\* failed: retries, restarts of the bot and of the workers, and a scheduler
\* that is late, double nothing.
THEOREM RemindedOnce == Spec => []NoSecondReminder
<1>1. Init => RemindersInv
  BY TaskInit, BookingsAssumption DEF Init, RemindersInv, Scheduled, Delivered
<1>2. RemindersInv /\ [Next]_vars => RemindersInv'
  BY TaskStep, ScheduledStep, DeliveredStep DEF RemindersInv, TaskInv
<1>3. RemindersInv => NoSecondReminder
  BY DEF RemindersInv, Delivered, NoSecondReminder
<1> QED
  BY <1>1, <1>2, <1>3, PTL DEF Spec

-----------------------------------------------------------------------------
(* Nothing is forgotten                                                    *)

\* What is being sent is due: nobody deletes a reminder whose time has not
\* come.  With NeverForgotten this is inductive.
DueWhenSent == \A b \in sending : FireAt(b) <= now

\* The task of the k-th sending of booking b has not been dropped.
Kept(b, k) == \E m \in Live \cup sent : m.booking = b /\ m.kick = k

LEMMA FireAtInt == \A b \in Bookings : FireAt(b) \in Int
BY BookingsAssumption, MomentsAssumption DEF FireAt

\* The part of NeverForgotten about the schedule.
Stored(b) == bot[b] = "done" /\ now < FireAt(b) => b \in schedule

\* ... and the one about the tasks.
TasksKept(b) == status[b] # "cancelled" => \A k \in 1 .. kicks[b] : Kept(b, k)

LEMMA ForgottenParts ==
    /\ NeverForgotten <=> \A b \in Bookings \ lost : Stored(b) /\ TasksKept(b)
    /\ NeverForgotten' <=> \A b \in Bookings \ lost' : Stored(b)' /\ TasksKept(b)'
BY DEF NeverForgotten, Stored, TasksKept, Kept

LEMMA StoredStep ==
    ASSUME TypeOK, DueWhenSent, [Next]_vars, NEW b \in Bookings \ lost',
           b \notin lost, Stored(b)
    PROVE  Stored(b)'
<1> USE FireAtInt DEF TypeOK, Stored
<1>1. FireAt(b)' = FireAt(b) /\ FireAt(b) \in Int
  BY DEF FireAt
<1>2. ASSUME NEW c \in Bookings,
             Commit(c) \/ OnConfirm(c) \/ CancelBooking(c) \/ Kick(c)
      PROVE  Stored(b)'
  BY <1>1, <1>2 DEF Commit, OnConfirm, ScheduleReminder, TooSoon, NotScheduled,
                    CancelBooking, Kick, svars, bvars
<1>3. ASSUME NEW c \in Bookings, DeleteSchedule(c)
      PROVE  Stored(b)'
  BY <1>1, <1>3 DEF DeleteSchedule, bvars, DueWhenSent
<1>4. ASSUME Tick
      PROVE  Stored(b)'
  <2>1. now' > now /\ now' \in Int /\ UNCHANGED <<bot, schedule>>
    BY <1>4, MomentsAssumption DEF Tick, bvars, svars
  <2> QED
    BY <1>1, <2>1
<1>5. ASSUME UNCHANGED <<bvars, schedule, now>>
      PROVE  Stored(b)'
  BY <1>1, <1>5 DEF bvars
<1>6. ASSUME NEW w \in Workers, Attempt(w) \/ \E m \in queue : Pop(w, m)
      PROVE  UNCHANGED <<bvars, schedule, now>>
  BY <1>6 DEF Attempt, ReadActive, Skip, Send, SendUnheard, TaskFails, Retry,
              GiveUp, GoTo, Pop, svars
<1>7. SchedulerRestart \/ WorkerRestart \/ UNCHANGED vars =>
          UNCHANGED <<bvars, schedule, now>>
  BY DEF SchedulerRestart, WorkerRestart, vars, svars
<1> QED
  BY <1>2, <1>3, <1>4, <1>5, <1>6, <1>7 DEF Next, Scheduler

LEMMA DueStep ==
    ASSUME TypeOK, DueWhenSent, [Next]_vars
    PROVE  DueWhenSent'
<1> USE FireAtInt DEF TypeOK, DueWhenSent
<1>1. \A b \in Bookings : FireAt(b)' = FireAt(b)
  BY DEF FireAt
<1>2. ASSUME NEW c \in Bookings, Kick(c) \/ DeleteSchedule(c)
      PROVE  DueWhenSent'
  BY <1>1, <1>2 DEF Kick, DeleteSchedule
<1>3. ASSUME sending' \subseteq sending, now' = now \/ Tick
      PROVE  DueWhenSent'
  <2>1. now' \in Int /\ now' >= now
    BY <1>3, MomentsAssumption DEF Tick
  <2> QED
    BY <1>1, <1>3, <2>1
<1>4. ASSUME NEW c \in Bookings, Commit(c) \/ OnConfirm(c) \/ CancelBooking(c)
      PROVE  sending' = sending /\ now' = now
  BY <1>4 DEF Commit, OnConfirm, ScheduleReminder, TooSoon, NotScheduled,
              CancelBooking, svars
<1>5. ASSUME NEW w \in Workers, Attempt(w) \/ \E m \in queue : Pop(w, m)
      PROVE  sending' = sending /\ now' = now
  BY <1>5 DEF Attempt, ReadActive, Skip, Send, SendUnheard, TaskFails, Retry,
              GiveUp, GoTo, Pop, svars
<1>6. SchedulerRestart \/ WorkerRestart \/ Tick \/ UNCHANGED vars =>
          sending' \subseteq sending /\ (now' = now \/ Tick)
  BY DEF SchedulerRestart, WorkerRestart, Tick, vars, svars
<1> QED
  BY <1>2, <1>3, <1>4, <1>5, <1>6 DEF Next, Scheduler

\* A task leaves the queue and the workers only when it has delivered, when
\* its booking was cancelled, or lost.
LEMMA KeptStep ==
    ASSUME TaskInv, Scheduled, [Next]_vars, NEW b \in Bookings \ lost',
           b \notin lost, TasksKept(b)
    PROVE  TasksKept(b)'
<1> USE DEF TaskInv, TypeOK
<1>1. ASSUME Live \cup sent \subseteq Live' \cup sent', kicks' = kicks,
             status'[b] # "cancelled" => status[b] # "cancelled"
      PROVE  TasksKept(b)'
  BY <1>1 DEF TasksKept, Kept
<1>2. ASSUME NEW c \in Bookings, Kick(c)
      PROVE  TasksKept(b)'
  <2> DEFINE n == [booking |-> c, kick |-> kicks[c] + 1, retries |-> 0]
  <2>1. /\ n.booking = c /\ n.kick = kicks[c] + 1 /\ queue' = queue \cup {n}
        /\ kicks' = [kicks EXCEPT ![c] = @ + 1]
        /\ UNCHANGED <<wpc, task, sent, status>>
    BY <1>2 DEF Kick, bvars
  <2> HIDE DEF n
  <2>2. \A m : m \in Live' <=> m \in Live \/ m = n
    BY <2>1, LiveMembers
  <2>3. ASSUME NEW k \in 1 .. kicks'[b], status'[b] # "cancelled"
        PROVE  Kept(b, k)'
    <3>1. CASE k \in 1 .. kicks[b]
      BY <2>1, <2>2, <2>3, <3>1 DEF TasksKept, Kept
    <3>2. CASE k \notin 1 .. kicks[b]
      <4>1. b = c /\ k = kicks[c] + 1
        BY <2>1, <2>3, <3>2
      <4> QED
        BY <2>1, <2>2, <4>1 DEF Kept
    <3> QED
      BY <3>1, <3>2
  <2> QED
    BY <2>3 DEF TasksKept
<1>3. ASSUME NEW c \in Bookings,
             \/ Commit(c) \/ OnConfirm(c) \/ CancelBooking(c) \/ DeleteSchedule(c)
      PROVE  TasksKept(b)'
  <2>1. UNCHANGED <<kicks, wvars>>
    BY <1>3 DEF Commit, OnConfirm, ScheduleReminder, TooSoon, NotScheduled,
                CancelBooking, DeleteSchedule, svars
  <2>2. Live' = Live /\ sent' = sent
    BY <2>1 DEF Live, wvars
  <2>3. status'[b] # "cancelled" => status[b] # "cancelled"
    BY <1>3 DEF Commit, OnConfirm, ScheduleReminder, TooSoon, NotScheduled,
                CancelBooking, DeleteSchedule, bvars
  <2> QED
    BY <1>1, <2>1, <2>2, <2>3
<1>4. ASSUME NEW w \in Workers, NEW m \in queue, Pop(w, m)
      PROVE  TasksKept(b)'
  <2>1. \A n : n \in Live' <=> n \in Live
    BY <1>4, LiveMembers DEF Pop
  <2> QED
    BY <1>1, <1>4, <2>1 DEF Pop, bvars, svars
<1>5. ASSUME NEW w \in Workers, ReadActive(w) \/ TaskFails(w) \/ SendUnheard(w)
      PROVE  TasksKept(b)'
  <2>1. /\ wpc[w] # "idle" /\ wpc'[w] # "idle"
        /\ \A x \in Workers \ {w} : wpc'[x] = wpc[x]
        /\ sent \subseteq sent'
        /\ UNCHANGED <<queue, task, kicks, status>>
    BY <1>5 DEF ReadActive, TaskFails, SendUnheard, GoTo, bvars, svars
  <2>2. \A n : n \in Live' <=> n \in Live
    BY <2>1, LiveMembers
  <2> QED
    BY <1>1, <2>1, <2>2
<1>6. ASSUME NEW w \in Workers, Send(w)
      PROVE  TasksKept(b)'
  <2>1. /\ \A x \in Workers \ {w} : wpc'[x] = wpc[x]
        /\ sent' = sent \cup {task[w]}
        /\ UNCHANGED <<queue, task, kicks, status>>
    BY <1>6 DEF Send, GoTo, bvars, svars
  <2>2. \A n \in Live : n \in Live' \/ n = task[w]
    BY <2>1, LiveMembers
  <2> QED
    BY <1>1, <2>1, <2>2
<1>7. ASSUME NEW w \in Workers, Retry(w)
      PROVE  TasksKept(b)'
  <2> DEFINE n == [task[w] EXCEPT !.retries = @ + 1]
  <2>1. /\ wpc[w] = "failed" /\ wpc'[w] = "idle"
        /\ \A x \in Workers \ {w} : wpc'[x] = wpc[x]
        /\ queue' = queue \cup {n}
        /\ UNCHANGED <<task, sent, kicks, status>>
    BY <1>7 DEF Retry, bvars, svars
  <2>2. n.booking = task[w].booking /\ n.kick = task[w].kick
    BY <1>7, NextAttempt DEF Retry
  <2> HIDE DEF n
  <2>3. n \in Live' /\ \A m \in Live : m \in Live' \/ m = task[w]
    BY <2>1, LiveMembers
  <2> QED
    BY <2>1, <2>2, <2>3 DEF TasksKept, Kept
\* The worker is done with a task that may be dropped.
<1>8. ASSUME NEW w \in Workers, Skip(w) \/ GiveUp(w)
      PROVE  TasksKept(b)'
  <2>1. /\ wpc[w] # "idle"
        /\ \A x \in Workers \ {w} : wpc'[x] = wpc[x]
        /\ UNCHANGED <<queue, task, sent, kicks, bvars>>
    BY <1>8 DEF Skip, GiveUp, GoTo, svars
  <2>2. \A n \in Live : n \in Live' \/ n = task[w]
    BY <2>1, LiveMembers
  <2>3. GiveUp(w) => task[w].booking # b
    BY DEF GiveUp
  <2>4. Skip(w) /\ task[w].booking = b => status[b] = "cancelled"
    <3>1. task[w] \in Live
      BY <2>1, LiveMembers
    <3>2. kicks[b] # 0 => status[b] # "none"
      BY DEF Scheduled
    <3>3. task[w].booking = b => kicks[b] # 0
      BY <3>1 DEF Kicked
    <3> QED
      BY <3>2, <3>3 DEF Skip
  <2> QED
    BY <1>8, <2>1, <2>2, <2>3, <2>4 DEF TasksKept, Kept, bvars
<1>9. ASSUME WorkerRestart
      PROVE  TasksKept(b)'
  <2>1. \A n \in Live : n \in Live' \/ n.booking # b
    BY <1>9, LiveMembers DEF WorkerRestart
  <2> QED
    BY <1>9, <2>1 DEF WorkerRestart, TasksKept, Kept, bvars, svars
<1>10. CASE SchedulerRestart \/ Tick \/ UNCHANGED vars
  <2>1. UNCHANGED <<kicks, wvars, bvars>>
    BY <1>10 DEF SchedulerRestart, Tick, vars, svars
  <2>2. Live' = Live /\ sent' = sent
    BY <2>1 DEF Live, wvars
  <2> QED
    BY <1>1, <2>1, <2>2 DEF bvars
<1> QED
  BY <1>2, <1>3, <1>4, <1>5, <1>6, <1>7, <1>8, <1>9, <1>10
  DEF Next, Scheduler, Attempt

\* What is lost stays lost.
LEMMA LostStep == [Next]_vars => lost \subseteq lost'
BY DEF Next, OnConfirm, Scheduler, Attempt, Commit, ScheduleReminder, TooSoon,
       NotScheduled, CancelBooking, Kick, DeleteSchedule, Pop, ReadActive, Skip,
       Send, SendUnheard, TaskFails, Retry, GiveUp, SchedulerRestart,
       WorkerRestart, Tick, vars

\* No reminder the bot has stored is dropped silently, for any number of
\* workers, restarts and retries: it waits in the schedule for its time, and
\* from then on in the queue or with a worker, until it has delivered, unless
\* the booking was cancelled or a failure that is on record took it away.
THEOREM NothingForgotten == Spec => []NeverForgotten
<1> DEFINE Inv == RemindersInv /\ DueWhenSent /\ NeverForgotten
<1>1. Init => Inv
  <2>1. Init => DueWhenSent
    BY DEF Init, DueWhenSent
  <2>2. ASSUME Init, NEW b \in Bookings
        PROVE  Stored(b) /\ TasksKept(b)
    <3>1. bot[b] = "idle" /\ kicks[b] = 0
      BY <2>2 DEF Init
    <3>2. 1 .. 0 = {}
      OBVIOUS
    <3> QED
      BY <3>1, <3>2 DEF Stored, TasksKept
  <2> QED
    BY <2>1, <2>2, ForgottenParts, TaskInit, BookingsAssumption
    DEF Init, RemindersInv, Scheduled, Delivered
<1>2. Inv /\ [Next]_vars => Inv'
  <2> SUFFICES ASSUME Inv, [Next]_vars
               PROVE  Inv'
    OBVIOUS
  <2>1. RemindersInv'
    BY TaskStep, ScheduledStep, DeliveredStep DEF RemindersInv, TaskInv
  <2>2. DueWhenSent'
    BY DueStep DEF RemindersInv, TaskInv
  <2>3. ASSUME NEW b \in Bookings \ lost'
        PROVE  Stored(b)' /\ TasksKept(b)'
    <3>1. b \in Bookings \ lost
      BY LostStep
    <3>2. Stored(b) /\ TasksKept(b)
      BY <3>1, ForgottenParts
    <3> QED
      BY <3>1, <3>2, StoredStep, KeptStep DEF RemindersInv, TaskInv
  <2> QED
    BY <2>1, <2>2, <2>3, ForgottenParts
<1>3. Inv => NeverForgotten
  OBVIOUS
<1> QED
  BY <1>1, <1>2, <1>3, PTL DEF Spec

-----------------------------------------------------------------------------
(* Cancelled bookings                                                      *)

\* Once a booking is cancelled and no worker has it in hand as active, nothing
\* that is left in Redis reminds the client of it.
THEOREM NoReminderOnceCancelled == Spec => CancelledStaysQuiet
<1> DEFINE Silent ==
        \A b \in Bookings :
            Quiet(b) => Quiet(b)' /\ \A m \in sent' \ sent : m.booking # b
<1>1. ASSUME TypeOK, [Next]_vars, NEW b \in Bookings, Quiet(b)
      PROVE  Quiet(b)' /\ \A m \in sent' \ sent : m.booking # b
  <2> USE <1>1 DEF TypeOK, Quiet
  <2>1. ASSUME NEW c \in Bookings,
               \/ Commit(c) \/ OnConfirm(c) \/ CancelBooking(c) \/ Scheduler(c)
        PROVE  status'[b] = "cancelled" /\ UNCHANGED <<wpc, task, sent>>
    BY <2>1 DEF Commit, OnConfirm, ScheduleReminder, TooSoon, NotScheduled,
                CancelBooking, Scheduler, Kick, DeleteSchedule, bvars, wvars
  <2>2. ASSUME NEW w \in Workers, NEW m \in queue, Pop(w, m)
        PROVE  Quiet(b)' /\ sent' = sent
    BY <2>2 DEF Pop, bvars
  <2>3. ASSUME NEW w \in Workers, Attempt(w)
        PROVE  Quiet(b)' /\ \A m \in sent' \ sent : m.booking # b
    <3>1. CASE Send(w) \/ SendUnheard(w)
      BY <3>1 DEF Send, SendUnheard, GoTo, bvars
    <3>2. CASE ReadActive(w)
      BY <3>2 DEF ReadActive, GoTo, bvars
    <3>3. CASE Skip(w) \/ TaskFails(w) \/ Retry(w) \/ GiveUp(w)
      BY <3>3 DEF Skip, TaskFails, Retry, GiveUp, GoTo, bvars
    <3> QED
      BY <2>3, <3>1, <3>2, <3>3 DEF Attempt
  <2>4. CASE SchedulerRestart \/ WorkerRestart \/ Tick \/ UNCHANGED vars
    BY <2>4 DEF SchedulerRestart, WorkerRestart, Tick, vars, bvars, wvars
  <2> QED
    BY <2>1, <2>2, <2>3, <2>4 DEF Next
<1>2. TypeOK /\ [Next]_vars => [Silent]_vars
  BY <1>1
<1>3. TaskInv => TypeOK
  BY DEF TaskInv
<1> QED
  BY <1>2, <1>3, TaskInit, TaskStep, PTL DEF Spec, CancelledStaysQuiet

-----------------------------------------------------------------------------
(* The promise                                                             *)

LEMMA InHandMembers ==
    /\ \A b : b \in InHand <=> \E w \in Workers : wpc[w] = "send" /\ b = task[w].booking
    /\ \A b : b \in InHand' <=> \E w \in Workers : wpc'[w] = "send" /\ b = task'[w].booking
BY DEF InHand

\* A delivery: the booking is in hand, and the reminder is a new one and the
\* first, if the booking is not in trouble.
LEMMA SendReminds ==
    ASSUME RemindersInv, RemindersInv', NEW w \in Workers, Send(w) \/ SendUnheard(w)
    PROVE  Promise!Next
<1> DEFINE b == task[w].booking
<1>1. /\ wpc[w] = "send" /\ wpc'[w] # "send"
      /\ \A x \in Workers \ {w} : wpc'[x] = wpc[x]
      /\ sent' = sent \cup {task[w]}
      /\ troubled' \in {troubled, troubled \cup {b}}
      /\ UNCHANGED <<status, queue, task>>
  BY DEF Send, SendUnheard, GoTo, bvars, RemindersInv, TaskInv, TypeOK
<1>2. b \in Bookings /\ task[w] \in Pending
  BY <1>1, PendingMembers DEF RemindersInv, TaskInv, TypeOK, Message
<1>3. task[w] \notin sent
  BY <1>2 DEF RemindersInv, TaskInv, TypeOK, OneTaskPerKick, SameTask, Message
<1>4. b \in InHand /\ InHand' \subseteq InHand
  BY <1>1, InHandMembers
<1>5. ASSUME b \notin troubled', NEW r \in sent, r.booking = b
      PROVE  FALSE
  <2>1. r = task[w]
    BY <1>1, <1>5 DEF RemindersInv, Delivered
  <2> QED
    BY <1>3, <2>1
<1>6. Promise!Remind(b)
  BY <1>1, <1>3, <1>4, <1>5 DEF Promise!Remind
<1> QED
  BY <1>2, <1>6 DEF Promise!Next

\* Every step of the bot, the scheduler, the workers and their failures is a
\* step of the promise, or none.
THEOREM PromiseKept == Spec => PromiseSpec
<1>1. Init => Promise!Init /\ RemindersInv
  BY TaskInit, BookingsAssumption
  DEF Init, Promise!Init, InHand, RemindersInv, Scheduled, Delivered
<1>2. RemindersInv /\ [Next]_vars => RemindersInv'
  BY TaskStep, ScheduledStep, DeliveredStep DEF RemindersInv, TaskInv
<1>3. ASSUME RemindersInv, RemindersInv', [Next]_vars
      PROVE  [Promise!Next]_(Promise!vars)
  <2> USE <1>3
  <2>0. TypeOK
    BY DEF RemindersInv, TaskInv
  <2>1. ASSUME NEW b \in Bookings, Commit(b) \/ CancelBooking(b)
        PROVE  Promise!Next
    <3>1. UNCHANGED <<InHand, sent, troubled>>
      BY <2>1 DEF Commit, CancelBooking, wvars, InHand
    <3>2. Promise!Become(b, "none", "confirmed") \/ Promise!Become(b, "confirmed", "cancelled")
      BY <2>1, <3>1 DEF Commit, CancelBooking, wvars, Promise!Become
    <3> QED
      BY <3>2 DEF Promise!Next
  <2>2. ASSUME NEW b \in Bookings, OnConfirm(b) \/ Scheduler(b)
        PROVE  UNCHANGED Promise!vars
    BY <2>2
    DEF OnConfirm, ScheduleReminder, TooSoon, NotScheduled, Scheduler, Kick,
        DeleteSchedule, bvars, wvars, InHand, Promise!vars
  <2>3. ASSUME SchedulerRestart \/ Tick \/ UNCHANGED vars
        PROVE  Promise!Excuse \/ UNCHANGED Promise!vars
    BY <2>3 DEF SchedulerRestart, Tick, vars, bvars, wvars, InHand, Promise!vars,
                Promise!Excuse
  <2>4. ASSUME NEW w \in Workers, NEW m \in queue, Pop(w, m)
        PROVE  Promise!LetGo
    <3>1. InHand' \subseteq InHand
      BY <2>0, <2>4, InHandMembers DEF Pop, TypeOK
    <3> QED
      BY <2>4, <3>1 DEF Pop, bvars, Promise!LetGo
  <2>5. ASSUME NEW w \in Workers, ReadActive(w)
        PROVE  Promise!Next
    <3>1. task[w].booking \in Bookings
      BY <2>0, <2>5 DEF ReadActive, TypeOK, Message
    <3>2. InHand' = InHand \cup {task[w].booking}
      BY <2>0, <2>5, InHandMembers DEF ReadActive, GoTo, TypeOK
    <3>3. Promise!Look(task[w].booking)
      BY <2>5, <3>2 DEF ReadActive, GoTo, bvars, Promise!Look
    <3> QED
      BY <3>1, <3>3 DEF Promise!Next
  <2>6. ASSUME NEW w \in Workers, Skip(w) \/ TaskFails(w) \/ Retry(w) \/ GiveUp(w)
        PROVE  Promise!LetGo
    <3>1. InHand' \subseteq InHand
      BY <2>0, <2>6, InHandMembers DEF Skip, TaskFails, Retry, GiveUp, GoTo, TypeOK
    <3> QED
      BY <2>6, <3>1 DEF Skip, TaskFails, Retry, GiveUp, GoTo, bvars, Promise!LetGo
  <2>7. ASSUME WorkerRestart
        PROVE  Promise!LetGo
    <3>1. InHand' \subseteq InHand
      BY <2>7, InHandMembers DEF WorkerRestart
    <3> QED
      BY <2>7, <3>1 DEF WorkerRestart, bvars, Promise!LetGo
  <2> QED
    BY <2>1, <2>2, <2>3, <2>4, <2>5, <2>6, <2>7, SendReminds
    DEF Next, Attempt, Promise!Next
<1> QED
  BY <1>1, <1>2, <1>3, PTL DEF Spec, PromiseSpec, Promise!Spec

Facts == INSTANCE ReminderPromiseProofs WITH in_hand <- InHand, excused <- troubled

\* What the promise comes to, for the tasks of Redis: whoever is reminded has
\* booked, and of two reminders of a booking the second has its excuse.
THEOREM RemindersAreAccountedFor == Spec => []Facts!Told
<1>1. /\ Promise!Init <=> Facts!Init
      /\ [Promise!Next]_(Promise!vars) <=> [Facts!Next]_(Facts!vars)
  BY DEF Promise!Init, Facts!Init, Promise!Next, Facts!Next, Promise!vars, Facts!vars,
         Promise!Become, Facts!Become, Promise!Look, Facts!Look,
         Promise!Remind, Facts!Remind, Promise!LetGo, Facts!LetGo,
         Promise!Excuse, Facts!Excuse
<1>2. Facts!Spec => []Facts!Told
  BY Facts!PromiseConsistent
<1> QED
  BY PromiseKept, <1>1, <1>2, PTL DEF PromiseSpec, Promise!Spec, Facts!Spec

=============================================================================
