------------------------- MODULE BookingRepository -------------------------
(***************************************************************************)
(* Concurrent booking and cancelling: the transactions that                *)
(* BookingRepository.create_booking and cancel_booking run, each in the    *)
(* AsyncSession of one Telegram update, between the statements at which    *)
(* the handler awaits PostgreSQL (READ COMMITTED).                         *)
(*                                                                         *)
(* `bookings' is the committed table, which is all that other sessions     *)
(* read.  What a transaction has written and not committed is in `row' of  *)
(* its session: only the EXCLUDE constraint and the row locks see it.      *)
(* `Writers' are transactions that insert rows without this repository     *)
(* (the case the constraint is kept for): they take no advisory lock.      *)
(*                                                                         *)
(* A session can wait in three places, each a value of `pc': for the       *)
(* advisory lock of a master, for the row of its client in `users' (which  *)
(* the flush of create_booking writes, as set_role and the middleware do), *)
(* and for the booking a cancellation selects FOR UPDATE.  The row locks   *)
(* are those of the transactions that wrote or selected the row and have   *)
(* not ended.                                                              *)
(***************************************************************************)
EXTENDS BookingRows, FiniteSets

CONSTANTS
    Sessions,     \* updates handled at once, one AsyncSession each
    Writers,      \* transactions from outside the repository
    Nobody,       \* no session has the lock of a master; no users row to write
    NoRow,        \* a session that has no row in hand
    OutsideStatuses, \* statuses of the rows the writers insert
    MaxBookings   \* bound: no request begins after this many ids were drawn

ASSUME ProcessesAssumption ==
    /\ Sessions \cap Writers = {}
    /\ Nobody \notin Sessions \cup Users

ASSUME NoRowAssumption == NoRow \notin Row

ASSUME OutsideStatusesAssumption == OutsideStatuses \subseteq BookingStatus

VARIABLES
    bookings,      \* committed rows
    nextId,        \* bookings_id_seq: never gives a value twice
    advisoryLock,  \* pg_advisory_xact_lock: master -> session or Nobody
    pc,            \* where the transaction of a process stands
    row,           \* the row a process inserts or cancels
    userRow,       \* the row of `users' a session has to write, or Nobody
    reply          \* what the last request of a session was answered

vars == <<bookings, nextId, advisoryLock, pc, row, userRow, reply>>

Processes == Sessions \cup Writers

\* Transactions with an uncommitted row, and those that hold the row lock of
\* SELECT ... FOR UPDATE (before and after the UPDATE is flushed).
Inserting(p) == pc[p] = "insert_done"
Cancelling(p) == pc[p] \in {"cancel", "cancel_done"}

\* A session between pg_advisory_xact_lock and the end of its transaction.
HoldsLock(s) == pc[s] \in {"check", "users", "insert", "insert_done"}

\* A session whose UPDATE of a row of `users' is not yet committed.
HoldsUser(s) ==
    userRow[s] # Nobody /\ pc[s] \in {"insert", "insert_done", "edit_done"}

TypeOK ==
    /\ bookings \subseteq Row
    /\ nextId \in Nat \ {0}
    /\ advisoryLock \in [Masters -> Sessions \cup {Nobody}]
    /\ pc \in [Processes ->
                {"idle", "lock", "check", "users", "insert", "insert_done",
                 "select", "cancel", "cancel_done", "edit", "edit_done"}]
    /\ row \in [Processes -> Row \cup {NoRow}]
    /\ userRow \in [Sessions -> Users \cup {Nobody}]
    /\ reply \in [Sessions -> {"none", "booked", "slot_occupied", "not_saved",
                               "cancelled", "not_found", "db_error"}]

Init ==
    /\ bookings = {}
    /\ nextId = 1
    /\ advisoryLock = [m \in Masters |-> Nobody]
    /\ pc = [p \in Processes |-> "idle"]
    /\ row = [p \in Processes |-> NoRow]
    /\ userRow = [s \in Sessions |-> Nobody]
    /\ reply = [s \in Sessions |-> "none"]

-----------------------------------------------------------------------------
(* The row locks.                                                          *)

\* No other session holds the row of `users' that s has to write.
UserFree(s) ==
    ~\E q \in Sessions \ {s} : HoldsUser(q) /\ userRow[q] = userRow[s]

\* No session holds the booking that s selects FOR UPDATE.
BookingFree(s) ==
    ~\E q \in Sessions \ {s} : Cancelling(q) /\ row[q].id = row[s].id

-----------------------------------------------------------------------------
(* The EXCLUDE constraint, as an INSERT of row r by process p meets it:     *)
(* where it neither admits nor refuses the row, it makes the INSERT wait    *)
(* for the transaction that decides the fate of the conflicting row.        *)

\* No row of the table, and none another transaction has inserted, conflicts.
Admitted(p, r) ==
    /\ \A b \in bookings : ~Excludes(r, b)
    /\ \A q \in Processes \ {p} : Inserting(q) => ~Excludes(r, row[q])

\* A committed row conflicts and no cancellation of it is under way.
Refused(r) ==
    \E b \in bookings :
        /\ Excludes(r, b)
        /\ ~\E q \in Processes : pc[q] = "cancel_done" /\ row[q] = b

\* Mutant: a lock of the session, not of the transaction (pg_advisory_lock).
ReleasedNever(s) == advisoryLock

\* The end of a transaction, however it ends, frees its advisory lock (and
\* its row locks, which `pc' and `userRow' stand for).
Released(s) ==
    [m \in Masters |-> IF advisoryLock[m] = s THEN Nobody ELSE advisoryLock[m]]

\* The session's transaction is over and the update is answered with `text'.
Finish(s, text) ==
    /\ advisoryLock' = Released(s)
    /\ pc' = [pc EXCEPT ![s] = "idle"]
    /\ userRow' = [userRow EXCEPT ![s] = Nobody]
    /\ reply' = [reply EXCEPT ![s] = text]

-----------------------------------------------------------------------------
(* create_booking, called by on_confirm                                    *)

\* on_confirm: the client confirms; the service is read and the advisory
\* lock of the master is asked for.  The name, phone or username given differ
\* from the client's row of `users', so that the flush writes it, or do not.
Confirm(s, u, m, sv, t) ==
    /\ pc[s] = "idle"
    /\ nextId <= MaxBookings
    /\ pc' = [pc EXCEPT ![s] = "lock"]
    /\ row' = [row EXCEPT ![s] = NewRow(u, m, sv, t)]
    /\ \E x \in {u, Nobody} : userRow' = [userRow EXCEPT ![s] = x]
    /\ reply' = [reply EXCEPT ![s] = "none"]
    /\ UNCHANGED <<bookings, nextId, advisoryLock>>

\* Mutant: bookings of one master are not serialized.
AcquireLockAnyway(s) ==
    /\ pc[s] = "lock"
    /\ advisoryLock' = [advisoryLock EXCEPT ![row[s].master] = s]
    /\ pc' = [pc EXCEPT ![s] = "check"]
    /\ UNCHANGED <<bookings, nextId, row, userRow, reply>>

\* pg_advisory_xact_lock(master_id) is granted.
AcquireLock(s) ==
    /\ pc[s] = "lock"
    /\ advisoryLock[row[s].master] = Nobody
    /\ advisoryLock' = [advisoryLock EXCEPT ![row[s].master] = s]
    /\ pc' = [pc EXCEPT ![s] = "check"]
    /\ UNCHANGED <<bookings, nextId, row, userRow, reply>>

\* The overlap test on the committed rows: the slot is free.  The flush sends
\* the UPDATE of the client's row, if it has one, before the INSERT.
CheckFree(s) ==
    /\ pc[s] = "check"
    /\ ~SlotTaken(bookings, row[s].master, row[s].starts_at, row[s].ends_at)
    /\ pc' = [pc EXCEPT ![s] = IF userRow[s] = Nobody THEN "insert" ELSE "users"]
    /\ UNCHANGED <<bookings, nextId, advisoryLock, row, userRow, reply>>

\* The overlap test fails: SlotOccupiedError, rollback.
CheckTaken(s) ==
    /\ pc[s] = "check"
    /\ SlotTaken(bookings, row[s].master, row[s].starts_at, row[s].ends_at)
    /\ Finish(s, "slot_occupied")
    /\ row' = [row EXCEPT ![s] = NoRow]
    /\ UNCHANGED <<bookings, nextId>>

\* flush: the UPDATE of the client's row, by create_booking or by another
\* handler, once no other transaction holds the row.
LockUser(s) ==
    /\ \/ pc[s] = "users" /\ pc' = [pc EXCEPT ![s] = "insert"]
       \/ pc[s] = "edit" /\ pc' = [pc EXCEPT ![s] = "edit_done"]
    /\ UserFree(s)
    /\ UNCHANGED <<bookings, nextId, advisoryLock, row, userRow, reply>>

\* flush: the INSERT draws an id and passes the constraint.
InsertBooking(s) ==
    /\ pc[s] = "insert"
    /\ Admitted(s, row[s])
    /\ row' = [row EXCEPT ![s].id = nextId]
    /\ nextId' = nextId + 1
    /\ pc' = [pc EXCEPT ![s] = "insert_done"]
    /\ UNCHANGED <<bookings, advisoryLock, userRow, reply>>

\* flush: IntegrityError becomes SlotOccupiedError, rollback.  The id is lost.
InsertRefused(s) ==
    /\ pc[s] = "insert"
    /\ Refused(row[s])
    /\ Finish(s, "slot_occupied")
    /\ row' = [row EXCEPT ![s] = NoRow]
    /\ nextId' = nextId + 1
    /\ UNCHANGED bookings

\* Mutant: the handler answers without session.commit().
CommitBookingForgotten(s) ==
    /\ pc[s] = "insert_done"
    /\ Finish(s, "booked")
    /\ UNCHANGED <<bookings, nextId, row>>

\* session.commit() in on_confirm.
CommitBooking(s) ==
    /\ pc[s] = "insert_done"
    /\ bookings' = bookings \cup {row[s]}
    /\ Finish(s, "booked")
    /\ UNCHANGED <<nextId, row>>

-----------------------------------------------------------------------------
(* cancel_booking, called by on_cancel_booking                             *)

\* The rows the SELECT of cancel_booking matches.
OwnActive(u, id) == {b \in bookings : b.id = id /\ b.user = u /\ IsActive(b)}

\* Mutant: a cancelled booking is deleted.
AfterCancelDeletes(b) == bookings \ {b}

\* The table once `booking.status = CANCELLED' of row b is committed.
AfterCancel(b) == (bookings \ {b}) \cup {[b EXCEPT !.status = "cancelled"]}

\* SELECT ... FOR UPDATE finds the row and asks for its lock.
CancelSelect(s, u, id) ==
    /\ pc[s] = "idle"
    /\ \E b \in OwnActive(u, id) : row' = [row EXCEPT ![s] = b]
    /\ pc' = [pc EXCEPT ![s] = "select"]
    /\ reply' = [reply EXCEPT ![s] = "none"]
    /\ UNCHANGED <<bookings, nextId, advisoryLock, userRow>>

\* No such row, not the caller's (anyone in a group chat may press the
\* button), or no longer active.
CancelNothing(s, u, id) ==
    /\ pc[s] = "idle"
    /\ OwnActive(u, id) = {}
    /\ row' = [row EXCEPT ![s] = NoRow]
    /\ reply' = [reply EXCEPT ![s] = "not_found"]
    /\ UNCHANGED <<bookings, nextId, advisoryLock, pc, userRow>>

\* Mutant: SELECT without FOR UPDATE.
LockBookingAtOnce(s) ==
    /\ pc[s] = "select"
    /\ pc' = [pc EXCEPT ![s] = "cancel"]
    /\ UNCHANGED <<bookings, nextId, advisoryLock, row, userRow, reply>>

\* The row lock is granted, and the row committed by then is still the one
\* found.
LockBooking(s) ==
    /\ pc[s] = "select"
    /\ BookingFree(s)
    /\ row[s] \in bookings
    /\ pc' = [pc EXCEPT ![s] = "cancel"]
    /\ UNCHANGED <<bookings, nextId, advisoryLock, row, userRow, reply>>

\* Another session cancelled the row meanwhile: PostgreSQL judges the version
\* it committed, and the SELECT returns nothing.
CancelTooLate(s) ==
    /\ pc[s] = "select"
    /\ BookingFree(s)
    /\ row[s] \notin bookings
    /\ Finish(s, "not_found")
    /\ row' = [row EXCEPT ![s] = NoRow]
    /\ UNCHANGED <<bookings, nextId>>

\* booking.status = CANCELLED; flush: the UPDATE.
UpdateStatus(s) ==
    /\ pc[s] = "cancel"
    /\ pc' = [pc EXCEPT ![s] = "cancel_done"]
    /\ UNCHANGED <<bookings, nextId, advisoryLock, row, userRow, reply>>

\* session.commit() in on_cancel_booking.
CommitCancel(s) ==
    /\ pc[s] = "cancel_done"
    /\ bookings' = AfterCancel(row[s])
    /\ Finish(s, "cancelled")
    /\ UNCHANGED <<nextId, row>>

-----------------------------------------------------------------------------
(* The other writers of a row of `users': the middleware that notes a      *)
(* changed username, and set_role                                          *)

\* The row is loaded and changed in memory.
EditUser(s, u) ==
    /\ pc[s] = "idle"
    /\ pc' = [pc EXCEPT ![s] = "edit"]
    /\ row' = [row EXCEPT ![s] = NoRow]
    /\ userRow' = [userRow EXCEPT ![s] = u]
    /\ reply' = [reply EXCEPT ![s] = "none"]
    /\ UNCHANGED <<bookings, nextId, advisoryLock>>

\* session.commit() of the handler or the middleware.
CommitEdit(s) ==
    /\ pc[s] = "edit_done"
    /\ Finish(s, "none")
    /\ UNCHANGED <<bookings, nextId, row>>

-----------------------------------------------------------------------------
(* Failures                                                                *)

\* What the except branches tell: DB_ERROR_TEXT of on_confirm says that the
\* booking was not saved, the others only that something went wrong.
ErrorText(s) ==
    IF pc[s] = "lock" \/ HoldsLock(s) THEN "not_saved" ELSE "db_error"

\* SQLAlchemyError in any statement (a lost connection, a deadlock broken by
\* PostgreSQL): rollback.
DbError(s) ==
    /\ pc[s] # "idle"
    /\ Finish(s, ErrorText(s))
    /\ row' = [row EXCEPT ![s] = NoRow]
    /\ UNCHANGED <<bookings, nextId>>

\* The connection is lost after PostgreSQL committed and before it said so:
\* commit() raises, and the handlers take the same path as for any error.
CommitAckLost(s) ==
    /\ \/ /\ pc[s] = "insert_done"
          /\ bookings' = bookings \cup {row[s]}
       \/ /\ pc[s] = "cancel_done"
          /\ bookings' = AfterCancel(row[s])
    /\ Finish(s, ErrorText(s))
    /\ UNCHANGED <<nextId, row>>

\* The bot process dies: its connections close and PostgreSQL rolls back.
BotRestart ==
    /\ \E s \in Sessions : pc[s] # "idle"
    /\ pc' = [p \in Processes |-> IF p \in Sessions THEN "idle" ELSE pc[p]]
    /\ row' = [p \in Processes |-> IF p \in Sessions THEN NoRow ELSE row[p]]
    /\ advisoryLock' = [m \in Masters |-> Nobody]
    /\ userRow' = [s \in Sessions |-> Nobody]
    /\ reply' = [s \in Sessions |-> "none"]
    /\ UNCHANGED <<bookings, nextId>>

-----------------------------------------------------------------------------
(* Rows written without the repository                                     *)

OutsideInsert(w, u, m, sv, t, st) ==
    LET r == [NewRow(u, m, sv, t) EXCEPT !.id = nextId, !.status = st]
    IN  /\ pc[w] = "idle"
        /\ nextId <= MaxBookings
        /\ Admitted(w, r)
        /\ nextId' = nextId + 1
        /\ row' = [row EXCEPT ![w] = r]
        /\ pc' = [pc EXCEPT ![w] = "insert_done"]
        /\ UNCHANGED <<bookings, advisoryLock, userRow, reply>>

OutsideCommit(w) ==
    /\ pc[w] = "insert_done"
    /\ bookings' = bookings \cup {row[w]}
    /\ pc' = [pc EXCEPT ![w] = "idle"]
    /\ row' = [row EXCEPT ![w] = NoRow]
    /\ UNCHANGED <<nextId, advisoryLock, userRow, reply>>

OutsideRollback(w) ==
    /\ pc[w] = "insert_done"
    /\ pc' = [pc EXCEPT ![w] = "idle"]
    /\ row' = [row EXCEPT ![w] = NoRow]
    /\ UNCHANGED <<bookings, nextId, advisoryLock, userRow, reply>>

-----------------------------------------------------------------------------
Request(s) ==
    \/ \E u \in Users, m \in Masters, sv \in Services, t \in StartTimes :
           Confirm(s, u, m, sv, t)
    \/ \E u \in Users, id \in 1 .. nextId - 1 :
           CancelSelect(s, u, id) \/ CancelNothing(s, u, id)
    \/ \E u \in Users : EditUser(s, u)

\* The lock a session asks for is granted.
Granted(s) ==
    AcquireLock(s) \/ LockUser(s) \/ LockBooking(s) \/ CancelTooLate(s)

\* The statements of a session after its first: what the event loop and
\* PostgreSQL keep moving.
Proceed(s) ==
    \/ Granted(s)
    \/ CheckFree(s) \/ CheckTaken(s)
    \/ InsertBooking(s) \/ InsertRefused(s) \/ CommitBooking(s)
    \/ UpdateStatus(s) \/ CommitCancel(s)
    \/ CommitEdit(s)

Outside(w) ==
    \/ \E u \in Users, m \in Masters, sv \in Services, t \in StartTimes,
          st \in OutsideStatuses : OutsideInsert(w, u, m, sv, t, st)
    \/ OutsideCommit(w)
    \/ OutsideRollback(w)

Next ==
    \/ \E s \in Sessions :
           Request(s) \/ Proceed(s) \/ DbError(s) \/ CommitAckLost(s)
    \/ \E w \in Writers : Outside(w)
    \/ BotRestart

Spec == Init /\ [][Next]_vars

\* Every handler goes on until its update is answered: asyncio resumes it and
\* each statement returns.  The grant of each lock is strongly fair because
\* PostgreSQL queues the waiters, so no session is passed over for ever.
\* Nothing is assumed of clients, of failures or of the writers outside.
Fairness ==
    \A s \in Sessions : WF_vars(Proceed(s)) /\ SF_vars(Granted(s))

FairSpec == Spec /\ Fairness

-----------------------------------------------------------------------------
(* Properties                                                              *)

\* "Double booking is physically impossible": no two committed active
\* bookings of a master overlap, whoever wrote them and whatever failed.
NoOverlap == NoOverlapIn(bookings)

\* The advisory lock of a master is held by exactly the session that is
\* between taking it and the end of its transaction: it is never shared, and
\* no error path, refusal or restart leaks it.
LockExactlyHeld ==
    \A m \in Masters, s \in Sessions :
        advisoryLock[m] = s <=> HoldsLock(s) /\ row[s].master = m

\* When every booking is made by the repository, the advisory lock is enough
\* by itself: what the overlap check saw is still true when the INSERT runs,
\* however long the flush waited for the row of the client before it, so the
\* constraint neither refuses the INSERT nor makes it wait.
CheckStaysTrue ==
    Writers = {} =>
        \A s \in Sessions : pc[s] \in {"users", "insert"} => Admitted(s, row[s])

\* The next statement of session s returns without another session's help.
GoesOn(s) ==
    \/ pc[s] \in {"check", "insert_done", "cancel", "cancel_done", "edit_done"}
    \/ pc[s] = "lock" /\ advisoryLock[row[s].master] = Nobody
    \/ pc[s] \in {"users", "edit"} /\ UserFree(s)
    \/ pc[s] = "insert" /\ (Admitted(s, row[s]) \/ Refused(row[s]))
    \/ pc[s] = "select" /\ BookingFree(s)

\* Session s asks for a lock that the open transaction of q holds.
WaitsFor(s, q) ==
    /\ s # q
    /\ pc[q] # "idle"
    /\ \/ pc[s] = "lock" /\ advisoryLock[row[s].master] = q
       \/ pc[s] \in {"users", "edit"} /\ HoldsUser(q) /\ userRow[q] = userRow[s]
       \/ pc[s] = "select" /\ Cancelling(q) /\ row[q].id = row[s].id

\* A session stands still only behind a transaction that is open, and no two
\* sessions stand still behind each other: the one chain there is leads from a
\* client who waits for the master's advisory lock to its holder, who waits
\* for the row of its client in `users', and ends at that row's writer, who
\* goes on.  A holder of a row lock, of either kind, waits for nobody.
WaitEnds ==
    Writers = {} =>
        /\ \A s \in Sessions :
               pc[s] # "idle" /\ ~GoesOn(s) => \E q \in Sessions : WaitsFor(s, q)
        /\ \A s, q, r \in Sessions :
               WaitsFor(s, q) /\ WaitsFor(q, r) =>
                   pc[s] = "lock" /\ pc[q] = "users" /\ GoesOn(r)

\* What a client was told of a success is in the table for as long as the
\* session lives: a booking made (later cancelled or not), a booking
\* cancelled (and never active again).
ReplyIsTrue ==
    \A s \in Sessions :
        /\ reply[s] = "booked" =>
               \/ row[s] \in bookings
               \/ [row[s] EXCEPT !.status = "cancelled"] \in bookings
        /\ reply[s] = "cancelled" =>
               [row[s] EXCEPT !.status = "cancelled"] \in bookings

\* Two presses of a cancel button never both succeed on one booking, so the
\* staff is never told twice of one cancellation.
NoDoubleCancel ==
    \A s, t \in Sessions :
        /\ s # t
        /\ reply[s] = "cancelled"
        /\ reply[t] = "cancelled"
        => row[s].id # row[t].id

\* Why NoOverlap and LedgerSpec hold.  No id is used twice, an uncommitted row
\* conflicts with no row that is or may come into the table, and a row being
\* cancelled stays in the table, active, until its one canceller commits.
InFlight ==
    /\ UniqueIds(bookings)
    /\ \A b \in bookings : b.id < nextId
    /\ \A p \in Processes : Inserting(p) =>
           /\ row[p].id < nextId
           /\ \A b \in bookings : b.id # row[p].id
           /\ \A q \in Processes \ {p} : Inserting(q) => row[q].id # row[p].id
           /\ Admitted(p, row[p])
    /\ \A p \in Processes : Cancelling(p) =>
           /\ row[p] \in bookings
           /\ IsActive(row[p])
           /\ \A q \in Processes \ {p} : Cancelling(q) => row[q] # row[p]

\* The committed table behaves as the abstract ledger: each booking appears
\* in one step against a table it does not overlap, an active booking may
\* become cancelled, and nothing else ever happens to it.
Ledger == INSTANCE BookingLedger WITH bookings <- bookings

LedgerSpec == Ledger!Spec

\* Every update that reached the database is answered.
EveryUpdateAnswered ==
    \A s \in Sessions : pc[s] # "idle" ~> pc[s] = "idle"

\* DB_ERROR_TEXT, "could not save the booking because of a technical error":
\* the booking a client was told of in these words is not in the table.
NotSavedIsTrue ==
    \A s \in Sessions : reply[s] = "not_saved" => row[s] \notin bookings

=============================================================================
