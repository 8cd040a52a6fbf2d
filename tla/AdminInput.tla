----------------------------- MODULE AdminInput -----------------------------
(***************************************************************************)
(* The text prompts of /admin: a button asks for the hours of a weekday or *)
(* for the dates of a time off, the next text of the administrator is the  *)
(* answer.  What was asked waits in Redis (FSMContext), the answer goes to *)
(* `master_schedules' and `master_time_off'.                               *)
(*                                                                         *)
(* A session is one update.  Updates are handled at once; aiogram reads    *)
(* the FSM state of an update when it arrives, before the middlewares of   *)
(* the bot, and StateFilter goes by that reading.  The handlers of one     *)
(* chat then run one after the other (aiogram-dialog locks it), those of   *)
(* two administrators do not.                                              *)
(***************************************************************************)
EXTENDS ParseInput, FiniteSets

CONSTANTS
    Admins,       \* users with the role ADMIN, each in a chat of his own
    Masters,
    Weekdays,
    Updates,      \* what each of them presses and types
    Today,        \* date.today()
    Sessions,     \* updates handled at once
    MaxTimeOff,   \* bound: rows of `master_time_off'
    InitHours,    \* `master_schedules' as create_default_week leaves it
    DayOff,       \* no row for a weekday
    Unset,        \* no such key, no such thing
    Keep, Delete  \* a column not written, a row deleted

ASSUME TodayAssumption == Today \in Date
ASSUME BoundAssumption == MaxTimeOff \in Nat

Hours == [start : Nat, end : Nat]
Days == Masters \X Weekdays

ASSUME InitHoursAssumption ==
    InitHours \in Hours /\ InitHours.start < InitHours.end
ASSUME MarkersAssumption ==
    /\ DayOff \notin Hours
    /\ Unset \notin Masters \cup Weekdays
    /\ Keep \notin Nat /\ Delete # Keep
    /\ {Keep, Delete} \cap [start : Nat \cup {Keep}, end : Nat \cup {Keep}] = {}

\* Buttons with their callback data (a weekday, "time off", or a way back),
\* and texts.
Button == [kind : {"mday"}, master : Masters, weekday : Weekdays, text : {Unset}]
          \cup [kind : {"tadd"}, master : Masters, weekday : {Unset}, text : {Unset}]
          \cup [kind : {"menu"}, master : {Unset}, weekday : {Unset}, text : {Unset}]
Typed == [kind : {"text"}, master : {Unset}, weekday : {Unset}, text : Text]
Update == Button \cup Typed

ASSUME UpdatesAssumption == Updates \in [Admins -> SUBSET Update]

\* What a prompt asks for.
Asked == [state : {"day_hours"}, master : Masters, weekday : Weekdays]
         \cup [state : {"time_off"}, master : Masters, weekday : {Unset}]

\* Columns a session has written and not committed, or the row deleted.
Write == [start : Nat \cup {Keep}, end : Nat \cup {Keep}] \cup {Keep, Delete}

TimeOff == [id : 1 .. MaxTimeOff, master : Masters, date_from : Date, date_to : Date]

VARIABLES
    week,       \* master_schedules: the hours of a master's weekday, or DayOff
    time_off,   \* master_time_off
    state,      \* FSM state of each chat, in Redis
    data,       \* ... and its data
    pc,         \* where the handler of a session stands
    by, update, \* whose update it is, and which
    raw_state,  \* the state read on arrival
    place,      \* master_id and weekday read from the data
    loaded,     \* the row set_day has loaded
    gone,       \* sessions whose loaded row, known by its id, is deleted since
    write,
    asked,      \* history: the question on the screen, while Redis holds the same
    meant,      \* ... when the text of a session was sent on its own
    outdated,   \* history: sessions that wrote to a row changed since they loaded it
    stale       \* history: days whose row was last written so

redis == <<state, data>>
tables == <<week, time_off>>
session == <<by, update, raw_state, gone, meant, outdated>>
scratch == <<place, loaded, write>>
vars == <<tables, redis, pc, session, scratch, asked, stale>>

TypeOK ==
    /\ week \in [Days -> Hours \cup {DayOff}]
    /\ time_off \subseteq TimeOff
    /\ state \in [Admins -> {"none", "day_hours", "time_off"}]
    /\ data \in [Admins -> [master : Masters \cup {Unset},
                            weekday : Weekdays \cup {Unset}]]
    /\ pc \in [Sessions -> {"idle", "filter", "update_data", "prompt", "select_row",
                            "flush", "delete_day", "commit", "insert", "clear"}]
    /\ by \in [Sessions -> Admins \cup {Unset}]
    /\ update \in [Sessions -> Update \cup {Unset}]
    /\ raw_state \in [Sessions -> {"none", "day_hours", "time_off"}]
    /\ place \in [Sessions -> Asked \cup {Unset}]
    /\ loaded \in [Sessions -> Hours \cup {DayOff}]
    /\ gone \subseteq Sessions
    /\ write \in [Sessions -> Write]
    /\ asked \in [Admins -> Asked \cup {Unset}]
    /\ meant \in [Sessions -> Asked \cup {Unset}]
    /\ outdated \subseteq Sessions
    /\ stale \subseteq Days

NoData == [master |-> Unset, weekday |-> Unset]

Init ==
    /\ week = [k \in Days |-> InitHours]
    /\ time_off = {}
    /\ state = [a \in Admins |-> "none"]
    /\ data = [a \in Admins |-> NoData]
    /\ pc = [s \in Sessions |-> "idle"]
    /\ by = [s \in Sessions |-> Unset]
    /\ update = [s \in Sessions |-> Unset]
    /\ raw_state = [s \in Sessions |-> "none"]
    /\ place = [s \in Sessions |-> Unset]
    /\ loaded = [s \in Sessions |-> DayOff]
    /\ gone = {}
    /\ write = [s \in Sessions |-> Keep]
    /\ asked = [a \in Admins |-> Unset]
    /\ meant = [s \in Sessions |-> Unset]
    /\ outdated = {}
    /\ stale = {}

-----------------------------------------------------------------------------
(* Updates                                                                 *)

InFlight(s) == pc[s] # "idle"
Handled(s) == pc[s] \notin {"idle", "filter"}

Day(s) == <<place[s].master, place[s].weekday>>

GoTo(s, step) == pc' = [pc EXCEPT ![s] = step]

\* The session of s is closed; what it has not committed is rolled back.
Close(s) ==
    /\ pc' = [pc EXCEPT ![s] = "idle"]
    /\ by' = [by EXCEPT ![s] = Unset]
    /\ update' = [update EXCEPT ![s] = Unset]
    /\ raw_state' = [raw_state EXCEPT ![s] = "none"]
    /\ place' = [place EXCEPT ![s] = Unset]
    /\ loaded' = [loaded EXCEPT ![s] = DayOff]
    /\ gone' = gone \ {s}
    /\ write' = [write EXCEPT ![s] = Keep]
    /\ meant' = [meant EXCEPT ![s] = Unset]
    /\ outdated' = outdated \ {s}

\* Bound: dates are typed only while the table has room for every session.
Room ==
    Cardinality(time_off) + Cardinality({q \in Sessions : InFlight(q)}) < MaxTimeOff

\* An update arrives, and its FSM state is read (the filters of the buttons do
\* not look at it).  A text outside a prompt is
\* not for these handlers.
Arrive(s, a, u) ==
    LET others == {q \in Sessions : InFlight(q) /\ by[q] = a}
    IN  /\ pc[s] = "idle"
        /\ u.kind = "text" => state[a] # "none"
        /\ u.kind = "text" /\ Dates(u.text) # {} => Room
        /\ GoTo(s, "filter")
        /\ by' = [by EXCEPT ![s] = a]
        /\ update' = [update EXCEPT ![s] = u]
        /\ raw_state' = [raw_state EXCEPT ![s] = IF u.kind = "text" THEN state[a] ELSE @]
        /\ meant' = [q \in Sessions |->
               CASE q \in others -> Unset
                 [] q = s /\ u.kind = "text" /\ others = {} -> asked[a]
                 [] OTHER -> meant[q]]
        /\ UNCHANGED <<tables, redis, scratch, gone, outdated, asked, stale>>

\* No handler of the chat runs: the router calls the one for the update of s.
Turn(s) ==
    /\ pc[s] = "filter"
    /\ \A q \in Sessions : Handled(q) => by[q] # by[s]

-----------------------------------------------------------------------------
(* cb_edit_day, cb_add_time_off                                            *)

\* state.set_state
SetState(s) ==
    /\ Turn(s) /\ update[s].kind \in {"mday", "tadd"}
    /\ state' = [state EXCEPT ![by[s]] =
           IF update[s].kind = "mday" THEN "day_hours" ELSE "time_off"]
    /\ asked' = [asked EXCEPT ![by[s]] = Unset]
    /\ GoTo(s, "update_data")
    /\ UNCHANGED <<tables, data, session, scratch, stale>>

\* Mutant: keys that are there already are kept.
UpdateDataKept(s) ==
    /\ pc[s] = "update_data"
    /\ data' = [data EXCEPT ![by[s]] =
           [master  |-> IF @.master = Unset THEN update[s].master ELSE @.master,
            weekday |-> IF update[s].kind = "mday" THEN update[s].weekday ELSE @.weekday]]
    /\ GoTo(s, "prompt")
    /\ UNCHANGED <<tables, state, session, scratch, asked, stale>>

\* state.update_data: keys that are not given stay as they were.
UpdateData(s) ==
    /\ pc[s] = "update_data"
    /\ data' = [data EXCEPT ![by[s]] =
           [master  |-> update[s].master,
            weekday |-> IF update[s].kind = "mday" THEN update[s].weekday ELSE @.weekday]]
    /\ GoTo(s, "prompt")
    /\ UNCHANGED <<tables, state, session, scratch, asked, stale>>

\* The question appears on the screen.
Prompt(s) ==
    /\ pc[s] = "prompt"
    /\ asked' = [asked EXCEPT ![by[s]] =
           [state |-> IF update[s].kind = "mday" THEN "day_hours" ELSE "time_off",
            master |-> update[s].master, weekday |-> update[s].weekday]]
    /\ Close(s)
    /\ UNCHANGED <<tables, redis, stale>>

-----------------------------------------------------------------------------
(* msg_day_hours                                                           *)

IsText(s) == update[s].kind = "text"

ForHours(s) == Turn(s) /\ IsText(s) /\ raw_state[s] = "day_hours"
ForTimeOff(s) == Turn(s) /\ IsText(s) /\ raw_state[s] = "time_off"

\* data["master_id"], data["weekday"]
ReadPlace(s, what) ==
    place' = [place EXCEPT ![s] =
        [state |-> what, master |-> data[by[s]].master,
         weekday |-> IF what = "day_hours" THEN data[by[s]].weekday ELSE Unset]]

\* KeyError: the administrator gets no answer.
KeyMissing(s) ==
    /\ \/ ForHours(s) /\ Unset \in {data[by[s]].master, data[by[s]].weekday}
       \/ ForTimeOff(s) /\ data[by[s]].master = Unset
    /\ Close(s)
    /\ UNCHANGED <<tables, redis, asked, stale>>

\* Mutant: data.get, which lets a missing key pass.
ReadHoursUnchecked(s) ==
    /\ ForHours(s)
    /\ \/ IsDayOff(update[s].text) /\ GoTo(s, "delete_day")
       \/ ~IsDayOff(update[s].text) /\ IsHours(update[s].text) /\ GoTo(s, "select_row")
    /\ ReadPlace(s, "day_hours")
    /\ UNCHANGED <<tables, redis, session, loaded, write, asked, stale>>

ReadHours(s) ==
    /\ ForHours(s)
    /\ Unset \notin {data[by[s]].master, data[by[s]].weekday}
    /\ \/ IsDayOff(update[s].text) /\ GoTo(s, "delete_day")
       \/ ~IsDayOff(update[s].text) /\ IsHours(update[s].text) /\ GoTo(s, "select_row")
    /\ ReadPlace(s, "day_hours")
    /\ UNCHANGED <<tables, redis, session, loaded, write, asked, stale>>

\* "Did not understand": the state stays, and so does the question.
NotUnderstood(s) ==
    /\ \/ /\ ForHours(s)
          /\ ~IsDayOff(update[s].text) /\ ~IsHours(update[s].text)
       \/ /\ ForTimeOff(s)
          /\ ~Unparsable(update[s].text, Today)
          /\ ParseDateRange(update[s].text, Today) = {}
    /\ data[by[s]].master # Unset
    /\ raw_state[s] = "day_hours" => data[by[s]].weekday # Unset
    /\ Close(s)
    /\ UNCHANGED <<tables, redis, asked, stale>>

\* No other session has written to the row, nor a new row with its key.
RowFree(s) ==
    \A q \in Sessions \ {s} : write[q] # Keep => Day(q) # Day(s)

\* clear_day: DELETE, which sees and locks a committed row only.
ClearDay(s) ==
    /\ pc[s] = "delete_day"
    /\ week[Day(s)] # DayOff => RowFree(s)
    /\ write' = [write EXCEPT ![s] = IF week[Day(s)] # DayOff THEN Delete ELSE Keep]
    /\ GoTo(s, "commit")
    /\ UNCHANGED <<tables, redis, session, place, loaded, asked, stale>>

\* set_day: SELECT
SelectRow(s) ==
    /\ pc[s] = "select_row"
    /\ loaded' = [loaded EXCEPT ![s] = week[Day(s)]]
    /\ GoTo(s, "flush")
    /\ UNCHANGED <<tables, redis, session, place, write, asked, stale>>

\* The columns that differ from the loaded row: an UPDATE has no others.
Changed(old, new) ==
    [start |-> IF old.start = new.start THEN Keep ELSE new.start,
     end   |-> IF old.end = new.end THEN Keep ELSE new.end]

\* set_day: INSERT; a row of the same key that is not committed makes it wait.
InsertRow(s) ==
    /\ pc[s] = "flush"
    /\ loaded[s] = DayOff
    /\ RowFree(s) /\ week[Day(s)] = DayOff
    /\ write' = [write EXCEPT ![s] = HoursOf(update[s].text)]
    /\ GoTo(s, "commit")
    /\ UNCHANGED <<tables, redis, session, place, loaded, asked, stale>>

\* Mutant: the UPDATE waits for a DELETE of the row, but for no other UPDATE.
UpdateRowAtOnce(s) ==
    /\ pc[s] = "flush"
    /\ loaded[s] # DayOff /\ loaded[s] # HoursOf(update[s].text)
    /\ \A q \in Sessions \ {s} : write[q] = Delete => Day(q) # Day(s)
    /\ s \notin gone /\ week[Day(s)] # DayOff
    /\ write' = [write EXCEPT ![s] = Changed(loaded[s], HoursOf(update[s].text))]
    /\ outdated' = IF loaded[s] = week[Day(s)] THEN outdated ELSE outdated \cup {s}
    /\ GoTo(s, "commit")
    /\ UNCHANGED <<tables, redis, by, update, raw_state, gone, meant, place, loaded,
                   asked, stale>>

\* set_day: UPDATE of the row loaded, by its id.
UpdateRow(s) ==
    /\ pc[s] = "flush"
    /\ loaded[s] # DayOff /\ loaded[s] # HoursOf(update[s].text)
    /\ RowFree(s)
    /\ s \notin gone /\ week[Day(s)] # DayOff
    /\ write' = [write EXCEPT ![s] = Changed(loaded[s], HoursOf(update[s].text))]
    /\ outdated' = IF loaded[s] = week[Day(s)] THEN outdated ELSE outdated \cup {s}
    /\ GoTo(s, "commit")
    /\ UNCHANGED <<tables, redis, by, update, raw_state, gone, meant, place, loaded,
                   asked, stale>>

\* set_day: the hours are those loaded, and nothing is sent.
NothingToFlush(s) ==
    /\ pc[s] = "flush"
    /\ loaded[s] = HoursOf(update[s].text)
    /\ GoTo(s, "commit")
    /\ UNCHANGED <<tables, redis, session, scratch, asked, stale>>

\* IntegrityError of the unique key, StaleDataError of a row that is gone (a
\* new row with its key has another id): rollback, and an answer; the state
\* stays.
FlushRefused(s) ==
    /\ pc[s] = "flush"
    /\ loaded[s] # HoursOf(update[s].text)
    /\ \/ loaded[s] = DayOff /\ RowFree(s) /\ week[Day(s)] # DayOff
       \/ s \in gone
    /\ Close(s)
    /\ UNCHANGED <<tables, redis, asked, stale>>

\* The row after a write.
Written(old, w) ==
    CASE w = Keep -> old
      [] w = Delete -> DayOff
      [] OTHER -> [start |-> IF w.start = Keep THEN old.start ELSE w.start,
                   end   |-> IF w.end = Keep THEN old.end ELSE w.end]

\* The sessions that have loaded the row of day k and not yet flushed.
Holders(k) ==
    {q \in Sessions : pc[q] = "flush" /\ loaded[q] # DayOff /\ Day(q) = k}

Commit(s) ==
    /\ pc[s] = "commit"
    /\ week' = [week EXCEPT ![Day(s)] = Written(@, write[s])]
    /\ stale' = CASE write[s] = Keep -> stale
                  [] write[s] # Keep /\ s \in outdated -> stale \cup {Day(s)}
                  [] OTHER -> stale \ {Day(s)}
    /\ gone' = IF write[s] = Delete THEN gone \cup Holders(Day(s)) ELSE gone
    /\ write' = [write EXCEPT ![s] = Keep]
    /\ GoTo(s, "clear")
    /\ UNCHANGED <<time_off, redis, by, update, raw_state, meant, outdated,
                   place, loaded, asked>>

-----------------------------------------------------------------------------
(* msg_time_off, cb_del_time_off                                           *)

ReadTimeOff(s) ==
    /\ ForTimeOff(s)
    /\ data[by[s]].master # Unset
    /\ ~Unparsable(update[s].text, Today)
    /\ ParseDateRange(update[s].text, Today) # {}
    /\ ReadPlace(s, "time_off")
    /\ GoTo(s, "insert")
    /\ UNCHANGED <<tables, redis, session, loaded, write, asked, stale>>

\* parse_date_range raises: nobody catches it, and no answer is sent.
ParseFails(s) ==
    /\ ForTimeOff(s)
    /\ data[by[s]].master # Unset
    /\ Unparsable(update[s].text, Today)
    /\ Close(s)
    /\ UNCHANGED <<tables, redis, asked, stale>>

Row(i, s, r) ==
    [id |-> i, master |-> place[s].master,
     date_from |-> r.date_from, date_to |-> r.date_to]

\* add_time_off, committed, under an id no row has.
AddTimeOff(s) ==
    /\ pc[s] = "insert"
    /\ \E i \in 1 .. MaxTimeOff \ {t.id : t \in time_off},
           r \in ParseDateRange(update[s].text, Today) :
           time_off' = time_off \cup {Row(i, s, r)}
    /\ GoTo(s, "clear")
    /\ UNCHANGED <<week, redis, session, scratch, asked, stale>>

\* cb_del_time_off, committed: the button of a row still there, or not.
DeleteTimeOff(t) ==
    /\ time_off' = time_off \ {t}
    /\ UNCHANGED <<week, redis, pc, session, scratch, asked, stale>>

-----------------------------------------------------------------------------
(* state.clear(), at the end of both handlers, and of /admin, the menu and *)
(* the list of masters                                                     *)

\* The state, then the data, which nobody reads once there is no state; and
\* the answer.
Clear(s) ==
    /\ pc[s] = "clear" \/ (Turn(s) /\ update[s].kind = "menu")
    /\ state' = [state EXCEPT ![by[s]] = "none"]
    /\ data' = [data EXCEPT ![by[s]] = NoData]
    /\ asked' = [asked EXCEPT ![by[s]] = Unset]
    /\ Close(s)
    /\ UNCHANGED <<tables, stale>>

-----------------------------------------------------------------------------
(* Failures                                                                *)

\* An error of PostgreSQL (answered), or of Redis or Telegram (not answered).
Fail(s) ==
    /\ InFlight(s)
    /\ Close(s)
    /\ UNCHANGED <<tables, redis, asked, stale>>

\* The bot dies with all its updates; Redis and PostgreSQL keep the rest.
BotRestart ==
    /\ \E s \in Sessions : InFlight(s)
    /\ pc' = [s \in Sessions |-> "idle"]
    /\ by' = [s \in Sessions |-> Unset]
    /\ update' = [s \in Sessions |-> Unset]
    /\ raw_state' = [s \in Sessions |-> "none"]
    /\ place' = [s \in Sessions |-> Unset]
    /\ loaded' = [s \in Sessions |-> DayOff]
    /\ gone' = {}
    /\ write' = [s \in Sessions |-> Keep]
    /\ meant' = [s \in Sessions |-> Unset]
    /\ outdated' = {}
    /\ UNCHANGED <<tables, redis, asked, stale>>

-----------------------------------------------------------------------------
SetDay(s) ==
    SelectRow(s) \/ InsertRow(s) \/ UpdateRow(s) \/ NothingToFlush(s) \/ FlushRefused(s)

Proceed(s) ==
    \/ SetState(s) \/ UpdateData(s) \/ Prompt(s)
    \/ KeyMissing(s) \/ NotUnderstood(s)
    \/ ReadHours(s) \/ ClearDay(s) \/ SetDay(s) \/ Commit(s)
    \/ ReadTimeOff(s) \/ ParseFails(s) \/ AddTimeOff(s)
    \/ Clear(s)

Next ==
    \/ \E s \in Sessions, a \in Admins : \E u \in Updates[a] : Arrive(s, a, u)
    \/ \E s \in Sessions : Proceed(s) \/ Fail(s)
    \/ \E t \in time_off : DeleteTimeOff(t)
    \/ BotRestart

Spec == Init /\ [][Next]_vars

-----------------------------------------------------------------------------
(* Properties                                                              *)

SetsDay(s) == Commit(s) /\ ~IsDayOff(update[s].text)

\* parse_hours refuses hours that end before they start, and the search for
\* slots counts on it.  set_day writes the columns that differ from the row
\* it has loaded, so that a row may be put together from the hours of two
\* administrators; unless the row had changed since it was loaded, the hours
\* of a day are in order.
HoursInOrder ==
    \A k \in Days \ stale :
        week[k] # DayOff => week[k].start < week[k].end

\* A commit of set_day that has written anything leaves exactly the hours
\* typed, if the loaded row was the committed one at the UPDATE: from there
\* on the row is locked, and the columns left out cannot change.
FreshHoursApply ==
    [][\A s \in Sessions :
           SetsDay(s) /\ write[s] # Keep /\ s \notin outdated
           => week'[Day(s)] = HoursOf(update[s].text)]_vars

\* set_day, "sets the working hours of a weekday (creates or updates)", and
\* the answer of msg_day_hours: the hours announced are the hours stored.
SetDayIsTrue ==
    [][\A s \in Sessions :
           SetsDay(s) => week'[Day(s)] = HoursOf(update[s].text)]_vars

\* A text is applied to the master and the weekday of the question that was
\* on the screen when it was sent, although the state, the data and the
\* question are written one after the other and the state is read long before
\* the data: unless another update of the chat was in flight with it, or a
\* handler of the chat had died between the writes.
AppliedAsAsked ==
    \A s \in Sessions : Unset \notin {place[s], meant[s]} => place[s] = meant[s]

\* A row added to master_time_off is for the master of the prompt, and its
\* dates are the ones the administrator means: in order, and on the first
\* occurrence from today where no year was typed.
RangeIsMeant ==
    [][\A t \in time_off' \ time_off :
           \E s \in Sessions :
               LET x == update[s].text IN
               /\ pc[s] = "insert"
               /\ t.master = place[s].master
               /\ ~Before(t.date_to, t.date_from)
               /\ Means(x.first, t.date_from, Today)
               /\ Means(IF x.kind = "pair" THEN x.second ELSE x.first,
                        t.date_to, Today)]_vars

=============================================================================
