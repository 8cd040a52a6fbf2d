---------------------------- MODULE BookingDialog ----------------------------
(***************************************************************************)
(* The booking dialog of each client: the windows, what was selected in    *)
(* them (dialog_data, kept in Redis), what the message on the screen       *)
(* offers, and on_confirm from the transaction to the end of the dialog.   *)
(*                                                                         *)
(* The updates of one client are handled one at a time (aiogram-dialog     *)
(* locks the stack of the chat); those of several clients interleave, and  *)
(* only on_confirm, which goes on after its commit, is more than one step. *)
(* The transaction of on_confirm is one step of the ledger, as             *)
(* BookingRepository shows it to be; a list of slots is what               *)
(* AvailableSlots shows get_available_slots to return.  A message keeps    *)
(* the buttons it was sent with, whatever becomes true later.              *)
(***************************************************************************)
EXTENDS SlotRules, Sequences

CONSTANTS
    Others,        \* clients whose dialogs are not followed, only their bookings
    Schedules,     \* contents of `master_schedules'
    Days,          \* dates a calendar shows, past ones included
    TimeOffDays,   \* days an administrator may enter as time off
    Moments,       \* readings of the clock
    MaxBookings,   \* bound: no booking is made after this many
    Unset          \* a key that is not in dialog_data

ASSUME DialogAssumption ==
    /\ Others \subseteq Users
    /\ Schedules \subseteq ScheduleRow
    /\ OneRowPerWeekday(Schedules)
    /\ Days \subseteq Nat
    /\ TimeOffDays \subseteq Nat
    /\ Moments \subseteq Nat
    /\ MaxBookings \in Nat
    /\ Unset \notin Services \cup Masters \cup Nat \cup {"entered"}

VARIABLES
    bookings, nextId,  \* the committed table and its sequence
    active,            \* masters with is_active
    time_off,          \* rows of `master_time_off'
    now,               \* the clock
    window,            \* state of the dialog on the stack of a client
    dialog_data,       \* what the client has selected
    screen,            \* the items the last message of the dialog offers
    pc,                \* where on_confirm stands
    made,              \* ids of the bookings this pass through the dialog made
    troubled           \* the client was told of an error, or got no answer

world == <<active, time_off, now>>
dialog == <<window, dialog_data, screen>>
vars == <<bookings, nextId, world, dialog, pc, made, troubled>>

Clients == Users \ Others

\* BookingSG, in the order of the windows of booking_dialog.
BookingSG == <<"service", "seats", "master", "calendar",
               "time_slot", "name", "phone", "confirm">>

Entered == "entered"  \* a number of seats, a name, a phone

DialogData ==
    [service_id : Services \cup {Unset}, seats : {Entered, Unset},
     master_id : Masters \cup {Unset}, date : Nat \cup {Unset},
     slot : Nat \cup {Unset}, name : {Entered, Unset}, phone : {Entered, Unset}]

NoData == [service_id |-> Unset, seats |-> Unset, master_id |-> Unset,
           date |-> Unset, slot |-> Unset, name |-> Unset, phone |-> Unset]

Windows == {"service", "seats", "master", "calendar",
            "time_slot", "name", "phone", "confirm", "none"}

\* What a window may offer.
Kind(w) == CASE w = "service"   -> Services
             [] w = "master"    -> Masters
             [] w = "time_slot" -> Nat
             [] OTHER           -> {}

TypeOK ==
    /\ bookings \subseteq Row
    /\ nextId \in Nat \ {0}
    /\ active \subseteq Masters
    /\ time_off \subseteq TimeOffRow
    /\ now \in Nat
    /\ window \in [Clients -> Windows]
    /\ dialog_data \in [Clients -> DialogData]
    /\ screen \in [Clients -> SUBSET (Services \cup Masters \cup Nat)]
    /\ \A c \in Clients : screen[c] \subseteq Kind(window[c])
    /\ pc \in [Clients -> {"idle", "create", "occupied", "notify", "done"}]
    /\ made \in [Clients -> SUBSET Nat]
    /\ troubled \in [Clients -> BOOLEAN]

Init ==
    /\ bookings = {}
    /\ nextId = 1
    /\ active = Masters
    /\ time_off = {}
    /\ now \in Moments
    /\ window = [c \in Clients |-> "none"]
    /\ dialog_data = [c \in Clients |-> NoData]
    /\ screen = [c \in Clients |-> {}]
    /\ pc = [c \in Clients |-> "idle"]
    /\ made = [c \in Clients |-> {}]
    /\ troubled = [c \in Clients |-> FALSE]

-----------------------------------------------------------------------------
(* Windows and their getters                                               *)

\* slots_getter
Slots(d) ==
    LET query == [master   |-> d.master_id, day |-> d.date,
                  duration |-> Duration[d.service_id], now |-> now]
    IN  {t \in 0 .. (d.date + 1) * DayLength :
             IsBookable(bookings, Schedules, time_off, query, t)}

\* services_getter, masters_getter, slots_getter; the other windows offer
\* what does not depend on the database.
Items(w, d) ==
    CASE w = "service"   -> Services
      [] w = "master"    -> active
      [] w = "time_slot" -> Slots(d)
      [] OTHER           -> {}

\* The dialog of c moves to window w with the data d, and shows it.
Show(c, w, d) ==
    /\ window' = [window EXCEPT ![c] = w]
    /\ dialog_data' = [dialog_data EXCEPT ![c] = d]
    /\ screen' = [screen EXCEPT ![c] = Items(w, d)]

\* The client acts on the window w of its dialog.
At(c, w) == pc[c] = "idle" /\ window[c] = w

\* manager.dialog_data[key] = value; await manager.next()
Save(c, i, key, value) ==
    /\ At(c, BookingSG[i])
    /\ Show(c, BookingSG[i + 1], [dialog_data[c] EXCEPT ![key] = value])
    /\ UNCHANGED <<bookings, nextId, world, pc, made, troubled>>

\* cmd_start: a new dialog replaces whatever was on the stack.
Start(c) ==
    /\ pc[c] = "idle"
    /\ Show(c, "service", NoData)
    /\ made' = [made EXCEPT ![c] = {}]
    /\ troubled' = [troubled EXCEPT ![c] = FALSE]
    /\ UNCHANGED <<bookings, nextId, world, pc>>

\* Mutant: who comes back to change the service need not choose again what
\* was chosen already.
SelectServiceAgain(c) ==
    \E sv \in screen[c] :
        LET d == [dialog_data[c] EXCEPT !.service_id = sv]
        IN  /\ At(c, "service")
            /\ Show(c, IF d.phone = Unset THEN "seats" ELSE "confirm", d)
            /\ UNCHANGED <<bookings, nextId, world, pc, made, troubled>>

\* on_service_selected
SelectService(c) == \E sv \in screen[c] : Save(c, 1, "service_id", sv)

\* on_seats_selected
SelectSeats(c) == Save(c, 2, "seats", Entered)

\* on_master_selected: any master the message offers, blocked since or not.
SelectMaster(c) == \E m \in screen[c] : Save(c, 3, "master_id", m)

\* on_date_selected; a past date is refused and changes nothing.
SelectDate(c) ==
    \E day \in Days : day >= now \div DayLength /\ Save(c, 4, "date", day)

\* on_slot_selected: any slot the message offers, taken since or not.
SelectSlot(c) == \E t \in screen[c] : Save(c, 5, "slot", t)

\* Mutant: the name is checked, and not kept.
EnterNameUnsaved(c) ==
    /\ At(c, "name")
    /\ Show(c, "phone", dialog_data[c])
    /\ UNCHANGED <<bookings, nextId, world, pc, made, troubled>>

\* on_name_success and on_phone_success; what is refused changes nothing.
EnterName(c) == Save(c, 6, "name", Entered)
EnterPhone(c) == Save(c, 7, "phone", Entered)

\* The Back button of every window but the first.
Back(c) ==
    \E i \in 2 .. 8 :
        /\ At(c, BookingSG[i])
        /\ Show(c, BookingSG[i - 1], dialog_data[c])
        /\ UNCHANGED <<bookings, nextId, world, pc, made, troubled>>

\* Mutant: the message of a dialog that is over keeps its buttons.
CloseDialogButtonsLeft(c) ==
    /\ window' = [window EXCEPT ![c] = "none"]
    /\ dialog_data' = [dialog_data EXCEPT ![c] = NoData]
    /\ UNCHANGED screen

\* The dialog of c is over, its data and the buttons of its message gone.
CloseDialog(c) == Show(c, "none", NoData)

\* The Cancel button of the first window and of the last.
Cancel(c) ==
    /\ At(c, "service") \/ At(c, "confirm")
    /\ CloseDialog(c)
    /\ UNCHANGED <<bookings, nextId, world, pc, made, troubled>>

-----------------------------------------------------------------------------
(* on_confirm                                                              *)

Confirm(c) ==
    /\ At(c, "confirm")
    /\ nextId <= MaxBookings
    /\ pc' = [pc EXCEPT ![c] = "create"]
    /\ UNCHANGED <<bookings, nextId, world, dialog, made, troubled>>

\* The row create_booking makes of the selections of c.
Wanted(c) ==
    LET d == dialog_data[c]
    IN  [NewRow(c, d.master_id, d.service_id, d.slot) EXCEPT !.id = nextId]

Taken(r) == SlotTaken(bookings, r.master, r.starts_at, r.ends_at)

Insert(r) ==
    /\ bookings' = bookings \cup {r}
    /\ nextId' = nextId + 1

\* Mutant: create_booking trusts the list of slots.
BookedUnchecked(c) ==
    /\ pc[c] = "create"
    /\ Insert(Wanted(c))
    /\ made' = [made EXCEPT ![c] = @ \cup {nextId}]
    /\ pc' = [pc EXCEPT ![c] = "notify"]
    /\ UNCHANGED <<world, dialog, troubled>>

\* create_booking and session.commit()
Booked(c) ==
    /\ pc[c] = "create"
    /\ ~Taken(Wanted(c))
    /\ Insert(Wanted(c))
    /\ made' = [made EXCEPT ![c] = @ \cup {nextId}]
    /\ pc' = [pc EXCEPT ![c] = "notify"]
    /\ UNCHANGED <<world, dialog, troubled>>

\* SlotOccupiedError: rollback, and the client reads that the slot is taken.
Occupied(c) ==
    /\ pc[c] = "create"
    /\ Taken(Wanted(c))
    /\ pc' = [pc EXCEPT ![c] = "occupied"]
    /\ UNCHANGED <<bookings, nextId, world, dialog, made, troubled>>

\* manager.switch_to(BookingSG.time_slot): a fresh list of slots.
ChooseAgain(c) ==
    /\ pc[c] = "occupied"
    /\ Show(c, "time_slot", dialog_data[c])
    /\ pc' = [pc EXCEPT ![c] = "idle"]
    /\ UNCHANGED <<bookings, nextId, world, made, troubled>>

\* SQLAlchemyError: DB_ERROR_TEXT, the dialog stays where it is.
NotSaved(c) ==
    /\ pc[c] = "create"
    /\ pc' = [pc EXCEPT ![c] = "idle"]
    /\ troubled' = [troubled EXCEPT ![c] = TRUE]
    /\ UNCHANGED <<bookings, nextId, world, dialog, made>>

\* ... raised by session.commit() although PostgreSQL committed.
CommitAckLost(c) ==
    /\ pc[c] = "create"
    /\ ~Taken(Wanted(c))
    /\ Insert(Wanted(c))
    /\ made' = [made EXCEPT ![c] = @ \cup {nextId}]
    /\ pc' = [pc EXCEPT ![c] = "idle"]
    /\ troubled' = [troubled EXCEPT ![c] = TRUE]
    /\ UNCHANGED <<world, dialog>>

\* The reminder is scheduled or the failure logged, the staff is told, and
\* the client reads that he is expected.
Notify(c) ==
    /\ pc[c] = "notify"
    /\ pc' = [pc EXCEPT ![c] = "done"]
    /\ UNCHANGED <<bookings, nextId, world, dialog, made, troubled>>

\* Mutant: on_confirm ends without manager.done().
DoneForgotten(c) ==
    /\ pc[c] = "done"
    /\ pc' = [pc EXCEPT ![c] = "idle"]
    /\ UNCHANGED <<bookings, nextId, world, dialog, made, troubled>>

\* manager.done()
Done(c) ==
    /\ pc[c] = "done"
    /\ CloseDialog(c)
    /\ pc' = [pc EXCEPT ![c] = "idle"]
    /\ UNCHANGED <<bookings, nextId, world, made, troubled>>

\* Anything else raised before the commit or after it (a query for the names
\* of the master and the service, a message to the client):
\* on_unhandled_error, and the dialog is as it was stored before the update.
UnhandledError(c) ==
    /\ pc[c] # "idle"
    /\ pc' = [pc EXCEPT ![c] = "idle"]
    /\ troubled' = [troubled EXCEPT ![c] = TRUE]
    /\ UNCHANGED <<bookings, nextId, world, dialog, made>>

\* The bot process dies.  What is in Redis stays; an update under way is lost
\* (or delivered again, which is as if the button were pressed again).
BotRestart ==
    /\ \E c \in Clients : pc[c] # "idle"
    /\ pc' = [c \in Clients |-> "idle"]
    /\ troubled' = [c \in Clients |-> troubled[c] \/ pc[c] # "idle"]
    /\ UNCHANGED <<bookings, nextId, world, dialog, made>>

-----------------------------------------------------------------------------
(* What happens beside the dialogs                                         *)

\* Another client confirms.
OthersBook(u, m, sv, t) ==
    LET r == [NewRow(u, m, sv, t) EXCEPT !.id = nextId]
    IN  /\ nextId <= MaxBookings
        /\ ~Taken(r)
        /\ Insert(r)
        /\ UNCHANGED <<world, dialog, pc, made, troubled>>

\* A client presses the cancel button of /my.
CancelBooking(b) ==
    /\ IsActive(b)
    /\ bookings' = (bookings \ {b}) \cup {[b EXCEPT !.status = "cancelled"]}
    /\ UNCHANGED <<nextId, world, dialog, pc, made, troubled>>

\* cb_toggle_master
ToggleMaster(m) ==
    /\ active' = IF m \in active THEN active \ {m} ELSE active \cup {m}
    /\ UNCHANGED <<bookings, nextId, time_off, now, dialog, pc, made, troubled>>

\* msg_time_off
AddTimeOff(m, from, to) ==
    /\ from <= to
    /\ time_off' = time_off \cup {[master |-> m, date_from |-> from, date_to |-> to]}
    /\ UNCHANGED <<bookings, nextId, active, now, dialog, pc, made, troubled>>

\* cb_del_time_off
DeleteTimeOff(r) ==
    /\ time_off' = time_off \ {r}
    /\ UNCHANGED <<bookings, nextId, active, now, dialog, pc, made, troubled>>

Tick ==
    /\ \E t \in Moments : t > now /\ now' = t
    /\ UNCHANGED <<bookings, nextId, active, time_off, dialog, pc, made, troubled>>

-----------------------------------------------------------------------------
Press(c) ==
    \/ Start(c)
    \/ SelectService(c) \/ SelectSeats(c) \/ SelectMaster(c) \/ SelectDate(c)
    \/ SelectSlot(c) \/ EnterName(c) \/ EnterPhone(c)
    \/ Back(c) \/ Cancel(c)
    \/ Confirm(c)

OnConfirm(c) ==
    \/ Booked(c) \/ Occupied(c) \/ NotSaved(c) \/ CommitAckLost(c)
    \/ ChooseAgain(c) \/ Notify(c) \/ Done(c)
    \/ UnhandledError(c)

Elsewhere ==
    \/ \E u \in Others, m \in Masters, sv \in Services, t \in StartTimes :
           OthersBook(u, m, sv, t)
    \/ \E b \in bookings : CancelBooking(b)
    \/ \E m \in Masters : ToggleMaster(m)
    \/ \E m \in Masters, from, to \in TimeOffDays : AddTimeOff(m, from, to)
    \/ \E r \in time_off : DeleteTimeOff(r)
    \/ Tick

Next ==
    \/ \E c \in Clients : Press(c) \/ OnConfirm(c)
    \/ BotRestart
    \/ Elsewhere

Spec == Init /\ [][Next]_vars

-----------------------------------------------------------------------------
(* Properties                                                              *)

\* The keys the getter of a window and the handlers of its buttons read.
KeysRead(w) ==
    CASE w = "time_slot" -> {"service_id", "master_id", "date"}
      [] w = "confirm"   -> {"service_id", "seats", "master_id", "slot", "name", "phone"}
      [] OTHER           -> {}

\* Whatever the client does with Back and Cancel, and wherever the bot is
\* restarted, no window is reached whose getter or handlers would raise a
\* KeyError.
KeysPresent ==
    \A c \in Clients : \A key \in KeysRead(window[c]) : dialog_data[c][key] # Unset

\* From the name on, the slot is one of the chosen master, of the chosen day,
\* and leaves room for the chosen service before the end of the hours: going
\* back to choose another service, master or day never carries the old slot
\* past the list of slots.  (The hours do not change in this module; a time
\* off and the clock do, and on_confirm asks after neither.)
SlotFitsSelections ==
    \A c \in Clients :
        window[c] \in {"name", "phone", "confirm"} =>
            LET d == dialog_data[c]
            IN  InHours(Schedules, d.master_id, d.date, Duration[d.service_id], d.slot)

\* One pass through the dialog books twice only if the client was told of an
\* error, or got no answer, on the way.
NoSecondBooking ==
    \A c \in Clients :
        ~troubled[c] => \A i, j \in made[c] : i = j

\* Whoever returns to the choice of a time because the slot is taken finds
\* the slot on the new list only if it has become free meanwhile: the check
\* of create_booking and the list of get_available_slots agree, also for a
\* booking that started before the slot or ends after it.
RefusedSlotIsGone ==
    [][\A c \in Clients :
           /\ window[c] = "confirm" /\ window'[c] = "time_slot"
           /\ dialog_data[c].slot \in screen'[c]
           => ~Taken(Wanted(c))]_vars

\* All dialogs together change the committed table as the ledger allows: no
\* window, error or restart adds an overlapping booking or takes one away.
Ledger == INSTANCE BookingLedger WITH bookings <- bookings

LedgerSpec == Ledger!Spec

\* on_date_selected, "one cannot book a past date": a booking the dialog makes
\* is for today or later.
NoPastDate ==
    [][\A b \in bookings' \ bookings :
           b.user \in Clients /\ b.status = "confirmed"
           => b.starts_at \div DayLength >= now \div DayLength]_vars

=============================================================================
