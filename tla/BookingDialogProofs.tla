------------------------ MODULE BookingDialogProofs ------------------------
(***************************************************************************)
(* Theorems about BookingDialog, for any number of clients, masters and    *)
(* services, any grid, hours, clock and number of restarts.                *)
(*                                                                         *)
(* The invariant says of each dialog which selections it holds in the      *)
(* window it stands in (Selected), and that the list of times on the       *)
(* screen fits them (ListsFit).  A step that shows a window has then only  *)
(* to say what is selected in it: ShowStep does the rest.                  *)
(***************************************************************************)
EXTENDS BookingDialog, TLAPS

Fits(d, t) == InHours(Schedules, d.master_id, d.date, Duration[d.service_id], t)

\* Every window follows the choices of those before it.
Chosen(w, d) ==
    /\ w \notin {"service", "none"} => d.service_id # Unset
    /\ w \notin {"service", "none", "seats"} => d.seats # Unset
    /\ w \in {"calendar", "time_slot", "name", "phone", "confirm"} => d.master_id # Unset
    /\ w \in {"time_slot", "name", "phone", "confirm"} => d.date # Unset
    /\ w \in {"name", "phone", "confirm"} => d.slot # Unset
    /\ w \in {"phone", "confirm"} => d.name # Unset
    /\ w = "confirm" => d.phone # Unset

Selected(w, d) ==
    /\ w \in Windows
    /\ d \in DialogData
    /\ Chosen(w, d)
    /\ w \in {"name", "phone", "confirm"} => Fits(d, d.slot)

AllSelected == \A c \in Clients : Selected(window[c], dialog_data[c])

ListsFit ==
    \A c \in Clients :
        window[c] = "time_slot" => \A t \in screen[c] : Fits(dialog_data[c], t)

\* on_confirm runs in the last window only.
Confirming == \A c \in Clients : pc[c] # "idle" => window[c] = "confirm"

DialogInv == TypeOK /\ AllSelected /\ ListsFit /\ Confirming

-----------------------------------------------------------------------------
(* Windows                                                                 *)

\* What a window shows is of its kind, and a list of times fits the
\* selections it was made for.
LEMMA ItemsFit ==
    ASSUME TypeOK, NEW w, NEW d, Selected(w, d)
    PROVE  /\ Items(w, d) \subseteq Kind(w)
           /\ w = "time_slot" => \A t \in Items(w, d) : Fits(d, t)
<1>1. CASE w = "time_slot"
  <2>1. d.date \in Nat /\ (d.date + 1) * DayLength \in Nat
    BY <1>1, DayLengthAssumption DEF Selected, Chosen, DialogData
  <2>2. Items(w, d) = Slots(d) /\ Kind(w) = Nat
    BY <1>1 DEF Items, Kind
  <2>3. Slots(d) \subseteq Nat
    BY <2>1 DEF Slots
  <2>4. \A t \in Slots(d) : Fits(d, t)
    BY DEF Slots, IsBookable, Fits
  <2> QED
    BY <2>2, <2>3, <2>4
<1>2. CASE w # "time_slot"
  BY <1>2 DEF TypeOK, Items, Kind
<1> QED
  BY <1>1, <1>2

\* Showing a window keeps everything known of the dialogs if the window
\* follows the selections made.
LEMMA ShowStep ==
    ASSUME DialogInv, NEW c \in Clients, NEW w, NEW d,
           Show(c, w, d), Selected(w, d)
    PROVE  /\ window' \in [Clients -> Windows]
           /\ dialog_data' \in [Clients -> DialogData]
           /\ screen' \in [Clients -> SUBSET (Services \cup Masters \cup Nat)]
           /\ \A x \in Clients : screen'[x] \subseteq Kind(window'[x])
           /\ AllSelected' /\ ListsFit'
<1>1. /\ Items(w, d) \subseteq Kind(w)
      /\ w = "time_slot" => \A t \in Items(w, d) : Fits(d, t)
  BY ItemsFit DEF DialogInv
<1>2. Kind(w) \subseteq Services \cup Masters \cup Nat
  BY DEF Kind
<1>3. /\ window' \in [Clients -> Windows]
      /\ dialog_data' \in [Clients -> DialogData]
      /\ screen' \in [Clients -> SUBSET (Services \cup Masters \cup Nat)]
  BY <1>1, <1>2 DEF DialogInv, TypeOK, Show, Selected
<1>4. /\ window'[c] = w /\ dialog_data'[c] = d /\ screen'[c] = Items(w, d)
      /\ \A x \in Clients \ {c} : /\ window'[x] = window[x]
                                  /\ dialog_data'[x] = dialog_data[x]
                                  /\ screen'[x] = screen[x]
  BY DEF DialogInv, TypeOK, Show
<1>5. \A x \in Clients : screen'[x] \subseteq Kind(window'[x])
  BY <1>1, <1>4 DEF DialogInv, TypeOK
<1>6. AllSelected'
  BY <1>4 DEF DialogInv, AllSelected
<1>7. ListsFit'
  BY <1>1, <1>4 DEF DialogInv, ListsFit
<1> QED
  BY <1>3, <1>5, <1>6, <1>7

\* Each choice leads to a window that follows it.
LEMMA SaveStep ==
    ASSUME DialogInv, NEW c \in Clients,
           \/ SelectService(c) \/ SelectSeats(c) \/ SelectMaster(c) \/ SelectDate(c)
           \/ SelectSlot(c) \/ EnterName(c) \/ EnterPhone(c)
    PROVE  DialogInv'
<1> USE DEF BookingSG, At, Save
<1>1. Selected(window[c], dialog_data[c])
  BY DEF DialogInv, AllSelected
<1>2. screen[c] \subseteq Kind(window[c])
  BY DEF DialogInv, TypeOK
<1>3. ASSUME NEW w, NEW d, Show(c, w, d), Selected(w, d), pc[c] = "idle",
             UNCHANGED <<bookings, nextId, world, pc, made, troubled>>
      PROVE  DialogInv'
  <2>1. TypeOK'
    BY <1>3, ShowStep DEF DialogInv, TypeOK, world
  <2>2. Confirming'
    BY <1>3 DEF DialogInv, Confirming, Show, TypeOK
  <2> QED
    BY <1>3, <2>1, <2>2, ShowStep DEF DialogInv
<1>4. CASE SelectService(c)
  <2>1. PICK sv \in screen[c] : Save(c, 1, "service_id", sv)
    BY <1>4 DEF SelectService
  <2>2. sv \in Services /\ sv # Unset
    BY <1>2, <2>1, DialogAssumption DEF Kind
  <2>3. Selected("seats", [dialog_data[c] EXCEPT !["service_id"] = sv])
    BY <1>1, <2>1, <2>2 DEF Selected, Chosen, DialogData, Windows
  <2> QED
    BY <1>3, <2>1, <2>3
<1>5. CASE SelectSeats(c)
  <2>1. Save(c, 2, "seats", Entered)
    BY <1>5 DEF SelectSeats
  <2>2. Selected("master", [dialog_data[c] EXCEPT !["seats"] = Entered])
    BY <1>1, <2>1, DialogAssumption
    DEF Selected, Chosen, DialogData, Windows, Entered
  <2> QED
    BY <1>3, <2>1, <2>2
<1>6. CASE SelectMaster(c)
  <2>1. PICK m \in screen[c] : Save(c, 3, "master_id", m)
    BY <1>6 DEF SelectMaster
  <2>2. m \in Masters /\ m # Unset
    BY <1>2, <2>1, DialogAssumption DEF Kind
  <2>3. Selected("calendar", [dialog_data[c] EXCEPT !["master_id"] = m])
    BY <1>1, <2>1, <2>2 DEF Selected, Chosen, DialogData, Windows
  <2> QED
    BY <1>3, <2>1, <2>3
<1>7. CASE SelectDate(c)
  <2>1. PICK day \in Days : Save(c, 4, "date", day)
    BY <1>7 DEF SelectDate
  <2>2. day \in Nat /\ day # Unset
    BY <2>1, DialogAssumption
  <2>3. Selected("time_slot", [dialog_data[c] EXCEPT !["date"] = day])
    BY <1>1, <2>1, <2>2 DEF Selected, Chosen, DialogData, Windows
  <2> QED
    BY <1>3, <2>1, <2>3
<1>8. CASE SelectSlot(c)
  <2>1. PICK t \in screen[c] : Save(c, 5, "slot", t)
    BY <1>8 DEF SelectSlot
  <2>2. t \in Nat /\ t # Unset
    BY <1>2, <2>1, DialogAssumption DEF Kind
  <2>3. Fits(dialog_data[c], t)
    BY <2>1 DEF DialogInv, ListsFit
  <2> DEFINE d == [dialog_data[c] EXCEPT !["slot"] = t]
  <2>4. d \in DialogData /\ Chosen("name", d)
    BY <1>1, <2>1, <2>2 DEF Selected, Chosen, DialogData
  <2>5. Fits(d, d.slot)
    BY <1>1, <2>3 DEF Selected, DialogData, Fits
  <2>6. Selected("name", d)
    BY <2>4, <2>5 DEF Selected, Windows
  <2> QED
    BY <1>3, <2>1, <2>6
<1>9. CASE EnterName(c)
  <2>1. Save(c, 6, "name", Entered)
    BY <1>9 DEF EnterName
  <2> DEFINE d == [dialog_data[c] EXCEPT !["name"] = Entered]
  <2>2. d \in DialogData /\ Chosen("phone", d)
    BY <1>1, <2>1, DialogAssumption DEF Selected, Chosen, DialogData, Entered
  <2>3. Fits(d, d.slot)
    BY <1>1, <2>1 DEF Selected, DialogData, Fits
  <2>4. Selected("phone", d)
    BY <2>2, <2>3 DEF Selected, Windows
  <2> QED
    BY <1>3, <2>1, <2>4
<1>10. CASE EnterPhone(c)
  <2>1. Save(c, 7, "phone", Entered)
    BY <1>10 DEF EnterPhone
  <2> DEFINE d == [dialog_data[c] EXCEPT !["phone"] = Entered]
  <2>2. d \in DialogData /\ Chosen("confirm", d)
    BY <1>1, <2>1, DialogAssumption DEF Selected, Chosen, DialogData, Entered
  <2>3. Fits(d, d.slot)
    BY <1>1, <2>1 DEF Selected, DialogData, Fits
  <2>4. Selected("confirm", d)
    BY <2>2, <2>3 DEF Selected, Windows
  <2> QED
    BY <1>3, <2>1, <2>4
<1> QED
  BY <1>4, <1>5, <1>6, <1>7, <1>8, <1>9, <1>10

\* A window follows what the one after it follows.
LEMMA BackStep ==
    ASSUME DialogInv, NEW c \in Clients, Back(c)
    PROVE  DialogInv'
<1> USE DEF BookingSG, At
<1>1. PICK i \in 2 .. 8 :
          /\ window[c] = BookingSG[i] /\ pc[c] = "idle"
          /\ Show(c, BookingSG[i - 1], dialog_data[c])
          /\ UNCHANGED <<bookings, nextId, world, pc, made, troubled>>
  BY DEF Back
<1>2. Selected(window[c], dialog_data[c])
  BY DEF DialogInv, AllSelected
<1>3. Selected(BookingSG[i - 1], dialog_data[c])
  BY <1>1, <1>2 DEF Selected, Chosen, Windows
<1>4. TypeOK'
  BY <1>1, <1>3, ShowStep DEF DialogInv, TypeOK, world
<1>5. Confirming'
  BY <1>1 DEF DialogInv, Confirming, Show, TypeOK
<1> QED
  BY <1>1, <1>3, <1>4, <1>5, ShowStep DEF DialogInv

\* A dialog that starts or is over has nothing selected.
LEMMA ResetStep ==
    ASSUME DialogInv, NEW c \in Clients, Start(c) \/ Cancel(c) \/ Done(c)
    PROVE  DialogInv'
<1>1. NoData \in DialogData
  BY DialogAssumption DEF NoData, DialogData
<1>2. PICK w \in {"service", "none"} : Show(c, w, NoData)
  BY DEF Start, Cancel, Done, CloseDialog
<1>3. Selected(w, NoData)
  BY <1>1 DEF Selected, Chosen, Windows
<1>4. /\ UNCHANGED <<bookings, nextId, world>>
      /\ pc' = [pc EXCEPT ![c] = "idle"]
      /\ made' \in [Clients -> SUBSET Nat]
      /\ troubled' \in [Clients -> BOOLEAN]
  BY DEF Start, Cancel, Done, At, DialogInv, TypeOK
<1>5. TypeOK'
  BY <1>2, <1>3, <1>4, ShowStep DEF DialogInv, TypeOK, world
<1>6. Confirming'
  BY <1>2, <1>4 DEF DialogInv, Confirming, Show, TypeOK
<1> QED
  BY <1>2, <1>3, <1>5, <1>6, ShowStep DEF DialogInv

\* The slot is taken: the client chooses again, for what was selected.
LEMMA ChooseAgainStep ==
    ASSUME DialogInv, NEW c \in Clients, ChooseAgain(c)
    PROVE  DialogInv'
<1>1. window[c] = "confirm" /\ Selected(window[c], dialog_data[c])
  BY DEF ChooseAgain, DialogInv, Confirming, AllSelected
<1>2. Selected("time_slot", dialog_data[c])
  BY <1>1 DEF Selected, Chosen, Windows
<1>3. TypeOK'
  BY <1>2, ShowStep DEF ChooseAgain, DialogInv, TypeOK, world
<1>4. Confirming'
  BY DEF ChooseAgain, DialogInv, Confirming, Show, TypeOK
<1> QED
  BY <1>2, <1>3, <1>4, ShowStep DEF ChooseAgain, DialogInv

\* What is booked is a row of the table, by a client for what was selected.
LEMMA WantedIsRow ==
    ASSUME DialogInv, NEW c \in Clients, pc[c] # "idle"
    PROVE  /\ Wanted(c) \in Row
           /\ Wanted(c).id = nextId
           /\ Wanted(c).master = dialog_data[c].master_id
           /\ Wanted(c).starts_at = dialog_data[c].slot
           /\ Wanted(c).ends_at =
                  dialog_data[c].slot + Duration[dialog_data[c].service_id]
<1> DEFINE d == dialog_data[c]
<1>1. d \in DialogData /\ Chosen("confirm", d)
  BY DEF DialogInv, Confirming, AllSelected, Selected
<1>2. d.service_id \in Services /\ d.master_id \in Masters /\ d.slot \in Nat
  BY <1>1 DEF DialogData, Chosen
<1>3. Duration[d.service_id] \in Nat \ {0}
  BY <1>2, DurationAssumption
<1> HIDE DEF d
<1>4. nextId \in Nat /\ c \in Users
  BY DEF DialogInv, TypeOK, Clients
<1>5. Wanted(c) = [NewRow(c, d.master_id, d.service_id, d.slot) EXCEPT !.id = nextId]
  BY DEF Wanted, d
<1>6. NewRow(c, d.master_id, d.service_id, d.slot) \in Row
  BY <1>2, <1>3, <1>4 DEF NewRow, Row, BookingStatus
<1> QED
  BY <1>2, <1>3, <1>4, <1>5, <1>6 DEF NewRow, Row, d

\* The steps of on_confirm that show no window, and a restart.
LEMMA OnConfirmStep ==
    ASSUME DialogInv,
           \/ \E c \in Clients : \/ Confirm(c) \/ Booked(c) \/ Occupied(c)
                                \/ NotSaved(c) \/ CommitAckLost(c)
                                \/ Notify(c) \/ UnhandledError(c)
           \/ BotRestart
    PROVE  DialogInv'
<1>1. /\ bookings' \subseteq Row
      /\ nextId' \in Nat \ {0}
      /\ made' \in [Clients -> SUBSET Nat]
  <2>1. ASSUME NEW c \in Clients, Booked(c) \/ CommitAckLost(c)
        PROVE  /\ bookings' \subseteq Row
               /\ nextId' \in Nat \ {0}
               /\ made' \in [Clients -> SUBSET Nat]
    BY <2>1, WantedIsRow DEF Booked, CommitAckLost, Insert, DialogInv, TypeOK
  <2>2. CASE UNCHANGED <<bookings, nextId, made>>
    BY <2>2 DEF DialogInv, TypeOK
  <2> QED
    BY <2>1, <2>2
    DEF Confirm, Occupied, NotSaved, Notify, UnhandledError, BotRestart
<1>2. UNCHANGED <<world, dialog>>
  BY DEF Confirm, Booked, Occupied, NotSaved, CommitAckLost, Notify,
         UnhandledError, BotRestart
<1>3. /\ pc' \in [Clients -> {"idle", "create", "occupied", "notify", "done"}]
      /\ troubled' \in [Clients -> BOOLEAN]
  BY DEF Confirm, Booked, Occupied, NotSaved, CommitAckLost, Notify,
         UnhandledError, BotRestart, DialogInv, TypeOK
<1>4. Confirming'
  BY <1>2 DEF Confirm, Booked, Occupied, NotSaved, CommitAckLost, Notify,
         UnhandledError, BotRestart, DialogInv, TypeOK, Confirming, At, dialog
<1>5. TypeOK'
  BY <1>1, <1>2, <1>3 DEF DialogInv, TypeOK, world, dialog
<1> QED
  BY <1>2, <1>4, <1>5 DEF DialogInv, AllSelected, ListsFit, dialog

\* What happens beside the dialogs disturbs none of them.
LEMMA ElsewhereStep ==
    ASSUME DialogInv, Elsewhere
    PROVE  DialogInv'
<1>1. /\ bookings' \subseteq Row
      /\ nextId' \in Nat \ {0}
  <2>1. ASSUME NEW u \in Others, NEW m \in Masters, NEW sv \in Services,
               NEW t \in StartTimes, OthersBook(u, m, sv, t)
        PROVE  bookings' \subseteq Row /\ nextId' \in Nat \ {0}
    <3>1. NewRow(u, m, sv, t) \in Row
      BY DialogAssumption, DurationAssumption, StartTimesAssumption
      DEF NewRow, Row, BookingStatus
    <3>2. [NewRow(u, m, sv, t) EXCEPT !.id = nextId] \in Row
      BY <3>1 DEF DialogInv, TypeOK, Row
    <3> QED
      BY <2>1, <3>2 DEF OthersBook, Insert, DialogInv, TypeOK
  <2>2. ASSUME NEW b \in bookings, CancelBooking(b)
        PROVE  bookings' \subseteq Row /\ nextId' \in Nat \ {0}
    <3>1. [b EXCEPT !.status = "cancelled"] \in Row
      BY DEF DialogInv, TypeOK, Row, BookingStatus
    <3> QED
      BY <2>2, <3>1 DEF CancelBooking, DialogInv, TypeOK
  <2> QED
    BY <2>1, <2>2
    DEF Elsewhere, ToggleMaster, AddTimeOff, DeleteTimeOff, Tick, DialogInv, TypeOK
<1>2. /\ active' \subseteq Masters
      /\ time_off' \subseteq TimeOffRow
      /\ now' \in Nat
  <2>1. ASSUME NEW m \in Masters, NEW from \in TimeOffDays, NEW to \in TimeOffDays,
               AddTimeOff(m, from, to)
        PROVE  time_off' \subseteq TimeOffRow /\ UNCHANGED <<active, now>>
    <3>1. [master |-> m, date_from |-> from, date_to |-> to] \in TimeOffRow
      BY DialogAssumption DEF TimeOffRow
    <3> QED
      BY <2>1, <3>1 DEF AddTimeOff, DialogInv, TypeOK
  <2>2. ASSUME NEW t \in Moments, now' = t
        PROVE  now' \in Nat
    BY <2>2, DialogAssumption
  <2>3. ASSUME NEW m \in Masters, ToggleMaster(m)
        PROVE  active' \subseteq Masters /\ UNCHANGED <<time_off, now>>
    BY <2>3 DEF ToggleMaster, DialogInv, TypeOK
  <2> QED
    BY <2>1, <2>2, <2>3
    DEF Elsewhere, OthersBook, CancelBooking, DeleteTimeOff, Tick, world,
        DialogInv, TypeOK
<1>3. UNCHANGED <<dialog, pc, made, troubled>>
  BY DEF Elsewhere, OthersBook, CancelBooking, ToggleMaster, AddTimeOff,
         DeleteTimeOff, Tick
<1>4. TypeOK'
  BY <1>1, <1>2, <1>3 DEF DialogInv, TypeOK, dialog
<1> QED
  BY <1>3, <1>4 DEF DialogInv, AllSelected, ListsFit, Confirming, dialog

-----------------------------------------------------------------------------
LEMMA DialogInit == Init => DialogInv
<1>1. NoData \in DialogData
  BY DialogAssumption DEF NoData, DialogData
<1> QED
  BY <1>1, DialogAssumption
  DEF Init, DialogInv, TypeOK, AllSelected, Selected, Chosen, ListsFit,
      Confirming, Windows, TimeOffRow, Row, Kind

LEMMA DialogStep ==
    ASSUME DialogInv, [Next]_vars
    PROVE  DialogInv'
<1>1. CASE UNCHANGED vars
  BY <1>1 DEF DialogInv, TypeOK, AllSelected, ListsFit, Confirming, vars,
              world, dialog
<1>2. ASSUME NEW c \in Clients, Press(c)
      PROVE  DialogInv'
  BY <1>2, SaveStep, BackStep, ResetStep, OnConfirmStep DEF Press
<1>3. ASSUME NEW c \in Clients, OnConfirm(c)
      PROVE  DialogInv'
  BY <1>3, ResetStep, ChooseAgainStep, OnConfirmStep DEF OnConfirm
<1> QED
  BY <1>1, <1>2, <1>3, OnConfirmStep, ElsewhereStep DEF Next

\* Every reachable state of the dialogs has its type; in particular a message
\* offers services, masters or times only where a handler reads them so.
THEOREM DialogTypeCorrect == Spec => []TypeOK
<1>1. DialogInv => TypeOK
  BY DEF DialogInv
<1> QED
  BY <1>1, DialogInit, DialogStep, PTL DEF Spec

\* No window is ever shown, and no handler runs, without the selections it
\* reads, however the clients go back, start again, or are interrupted.
THEOREM NoKeyError == Spec => []KeysPresent
<1>1. DialogInv => KeysPresent
  BY DEF DialogInv, AllSelected, Selected, Chosen, KeysPresent, KeysRead
<1> QED
  BY <1>1, DialogInit, DialogStep, PTL DEF Spec

\* The slot carried to the confirmation is one of the hours of the selected
\* master on the selected day, with room for the selected service.
THEOREM SlotMatchesSelections == Spec => []SlotFitsSelections
<1>1. DialogInv => SlotFitsSelections
  BY DEF DialogInv, AllSelected, Selected, SlotFitsSelections, Fits
<1> QED
  BY <1>1, DialogInit, DialogStep, PTL DEF Spec

-----------------------------------------------------------------------------
(* One booking in one pass                                                 *)

\* As long as nothing went wrong, a pass that has booked is telling the staff
\* and the client about it, or is over.
OnePass ==
    \A c \in Clients :
        ~troubled[c] =>
            /\ made[c] # {} => window[c] = "none" \/ pc[c] \in {"notify", "done"}
            /\ \A i, j \in made[c] : i = j

\* What a step does to one dialog, as far as OnePass is concerned.
LEMMA OnePassStep ==
    ASSUME DialogInv, OnePass, [Next]_vars
    PROVE  OnePass'
<1> USE DEF DialogInv, TypeOK, OnePass
<1>1. ASSUME NEW c \in Clients,
             \/ SelectService(c) \/ SelectSeats(c) \/ SelectMaster(c) \/ SelectDate(c)
             \/ SelectSlot(c) \/ EnterName(c) \/ EnterPhone(c) \/ Back(c)
      PROVE  OnePass'
  <2>1. ASSUME NEW i \in 1 .. 8, At(c, BookingSG[i])
        PROVE  pc[c] = "idle" /\ window[c] # "none"
    <3>1. BookingSG[i] \in {"service", "seats", "master", "calendar",
                            "time_slot", "name", "phone", "confirm"}
      BY DEF BookingSG
    <3> QED
      BY <2>1, <3>1 DEF At
  <2>3. \E i \in 1 .. 8 : At(c, BookingSG[i]) /\ UNCHANGED <<pc, made, troubled>>
    <3>1. CASE Back(c)
      BY <3>1 DEF Back
    <3>2. ASSUME NEW i \in 1 .. 7, NEW key, NEW value, Save(c, i, key, value)
          PROVE  \E k \in 1 .. 8 : At(c, BookingSG[k]) /\ UNCHANGED <<pc, made, troubled>>
      BY <3>2 DEF Save
    <3> QED
      BY <1>1, <3>1, <3>2
      DEF SelectService, SelectSeats, SelectMaster, SelectDate, SelectSlot,
          EnterName, EnterPhone
  <2>2. \A x \in Clients \ {c} : window'[x] = window[x]
    <3>1. ASSUME NEW w, NEW d, Show(c, w, d)
          PROVE  \A x \in Clients \ {c} : window'[x] = window[x]
      BY <3>1 DEF Show
    <3>2. CASE Back(c)
      BY <3>1, <3>2 DEF Back
    <3>3. ASSUME NEW i \in 1 .. 7, NEW key, NEW value, Save(c, i, key, value)
          PROVE  \A x \in Clients \ {c} : window'[x] = window[x]
      BY <3>1, <3>3 DEF Save
    <3> QED
      BY <1>1, <3>2, <3>3
      DEF SelectService, SelectSeats, SelectMaster, SelectDate, SelectSlot,
          EnterName, EnterPhone
  <2> QED
    BY <2>1, <2>2, <2>3
<1>2. ASSUME NEW c \in Clients, Start(c)
      PROVE  OnePass'
  BY <1>2 DEF Start, Show
<1>3. ASSUME NEW c \in Clients, Cancel(c) \/ Done(c)
      PROVE  OnePass'
  BY <1>3 DEF Cancel, Done, CloseDialog, Show
<1>4. ASSUME NEW c \in Clients, ChooseAgain(c)
      PROVE  OnePass'
  <2>1. pc[c] = "occupied" /\ window[c] # "none" /\ UNCHANGED <<made, troubled>>
    BY <1>4 DEF ChooseAgain, Confirming
  <2>2. \A x \in Clients \ {c} : window'[x] = window[x] /\ pc'[x] = pc[x]
    BY <1>4 DEF ChooseAgain, Show
  <2> QED
    BY <2>1, <2>2
<1>5. ASSUME NEW c \in Clients, Booked(c)
      PROVE  OnePass'
  <2>1. window[c] = "confirm" /\ pc[c] = "create"
    BY <1>5 DEF Booked, Confirming
  <2>2. ~troubled[c] => made[c] = {}
    BY <2>1
  <2> QED
    BY <1>5, <2>2 DEF Booked, dialog
<1>6. ASSUME NEW c \in Clients, Confirm(c) \/ Occupied(c) \/ Notify(c)
      PROVE  OnePass'
  BY <1>6 DEF Confirm, At, Occupied, Notify, dialog, Confirming
<1>7. ASSUME NEW c \in Clients, NotSaved(c) \/ CommitAckLost(c) \/ UnhandledError(c)
      PROVE  OnePass'
  BY <1>7 DEF NotSaved, CommitAckLost, UnhandledError, dialog
<1>8. CASE BotRestart
  BY <1>8 DEF BotRestart, dialog
<1>9. CASE Elsewhere
  BY <1>9
  DEF Elsewhere, OthersBook, CancelBooking, ToggleMaster, AddTimeOff,
      DeleteTimeOff, Tick, dialog
<1>10. CASE UNCHANGED vars
  BY <1>10 DEF vars, dialog
<1> QED
  BY <1>1, <1>2, <1>3, <1>4, <1>5, <1>6, <1>7, <1>8, <1>9, <1>10
  DEF Next, Press, OnConfirm

\* A pass through the dialog in which nothing went wrong books at most once:
\* the confirmation cannot be pressed again while the staff is told, and the
\* dialog is over afterwards.
THEOREM OneBookingPerPass == Spec => []NoSecondBooking
<1>1. Init => OnePass
  BY DEF Init, OnePass
<1>2. OnePass => NoSecondBooking
  BY DEF OnePass, NoSecondBooking
<1> QED
  BY <1>1, <1>2, DialogInit, DialogStep, OnePassStep, PTL DEF Spec

-----------------------------------------------------------------------------
(* The list and the check                                                  *)

\* Only a refused confirmation leads from the last window to the times.
LEMMA BackToTimes ==
    ASSUME DialogInv, [Next]_vars, NEW c \in Clients,
           window[c] = "confirm", window'[c] = "time_slot"
    PROVE  ChooseAgain(c)
<1> USE DEF DialogInv, TypeOK
<1>1. ASSUME NEW x \in Clients, Press(x)
      PROVE  FALSE
  <2>1. CASE x = c
    BY <1>1, <2>1
    DEF Press, Start, SelectService, SelectSeats, SelectMaster, SelectDate,
        SelectSlot, EnterName, EnterPhone, Back, Cancel, Confirm, Save, At, Show,
        CloseDialog, BookingSG, dialog
  <2>2. CASE x # c
    BY <1>1, <2>2
    DEF Press, Start, SelectService, SelectSeats, SelectMaster, SelectDate,
        SelectSlot, EnterName, EnterPhone, Back, Cancel, Confirm, Save, Show,
        CloseDialog, dialog
  <2> QED
    BY <2>1, <2>2
<1>2. ASSUME NEW x \in Clients, OnConfirm(x)
      PROVE  x = c /\ ChooseAgain(x)
  BY <1>2
  DEF OnConfirm, Booked, Occupied, NotSaved, CommitAckLost, ChooseAgain, Notify,
      Done, UnhandledError, CloseDialog, Show, dialog
<1>3. ~BotRestart /\ ~Elsewhere /\ ~UNCHANGED vars
  BY DEF BotRestart, Elsewhere, OthersBook, CancelBooking, ToggleMaster,
         AddTimeOff, DeleteTimeOff, Tick, vars, dialog
<1> QED
  BY <1>1, <1>2, <1>3 DEF Next

\* A time on a fresh list is one that create_booking would accept.
LEMMA ListedIsFree ==
    ASSUME DialogInv, NEW c \in Clients, pc[c] # "idle",
           dialog_data[c].slot \in Slots(dialog_data[c])
    PROVE  ~Taken(Wanted(c))
<1> DEFINE d == dialog_data[c]
<1>1. \A b \in bookings :
          b.master = d.master_id /\ b.status \in {"pending", "confirmed"}
          => d.slot + Duration[d.service_id] <= b.starts_at \/ b.ends_at <= d.slot
  BY DEF Slots, IsBookable
<1>2. /\ Wanted(c) \in Row
      /\ Wanted(c).master = d.master_id
      /\ Wanted(c).starts_at = d.slot
      /\ Wanted(c).ends_at = d.slot + Duration[d.service_id]
  BY WantedIsRow
<1> HIDE DEF d
<1>3. bookings \subseteq Row
  BY DEF DialogInv, TypeOK
<1> QED
  BY <1>1, <1>2, <1>3
  DEF Taken, SlotTaken, BusyRows, Overlaps, IsActive, ACTIVE_STATUSES, Row

\* The list of get_available_slots and the check of create_booking agree: who
\* is sent back because the slot is taken does not find it on the list while
\* it is.
THEOREM RefusedSlotNotListed == Spec => RefusedSlotIsGone
<1> DEFINE Agree ==
        \A c \in Clients :
            /\ window[c] = "confirm" /\ window'[c] = "time_slot"
            /\ dialog_data[c].slot \in screen'[c]
            => ~Taken(Wanted(c))
<1>1. ASSUME DialogInv, [Next]_vars, NEW c \in Clients,
             window[c] = "confirm", window'[c] = "time_slot",
             dialog_data[c].slot \in screen'[c]
      PROVE  ~Taken(Wanted(c))
  <2>1. ChooseAgain(c)
    BY <1>1, BackToTimes
  <2>2. pc[c] # "idle" /\ screen'[c] = Slots(dialog_data[c])
    BY <1>1, <2>1 DEF ChooseAgain, Show, Items, DialogInv, TypeOK
  <2> QED
    BY <1>1, <2>2, ListedIsFree
<1>2. DialogInv /\ [Next]_vars => [Agree]_vars
  BY <1>1
<1> QED
  BY <1>2, DialogInit, DialogStep, PTL DEF Spec, RefusedSlotIsGone

-----------------------------------------------------------------------------
(* The ledger                                                              *)

\* The sequence of the table is ahead of every id in it.
IdsUsed == \A b \in bookings : b.id < nextId

\* A row whose interval create_booking finds free is excluded by no row.
LEMMA FreeIsAdmitted ==
    ASSUME bookings \subseteq Row, NEW r \in Row, ~Taken(r)
    PROVE  \A b \in bookings : ~Excludes(r, b)
BY DEF Taken, SlotTaken, BusyRows, Overlaps, Excludes, IsActive, Row

\* Every step inserts a free row with a new id, cancels an active booking, or
\* leaves the table alone.
LEMMA TableStep ==
    ASSUME DialogInv, IdsUsed, [Next]_vars
    PROVE  \/ \E r \in Row : /\ r.id = nextId
                            /\ ~Taken(r)
                            /\ Insert(r)
           \/ \E b \in bookings : /\ IsActive(b)
                                 /\ bookings' = (bookings \ {b})
                                        \cup {[b EXCEPT !.status = "cancelled"]}
                                 /\ nextId' = nextId
           \/ UNCHANGED <<bookings, nextId>>
<1> USE DEF DialogInv, TypeOK
<1>1. ASSUME NEW c \in Clients, Booked(c) \/ CommitAckLost(c)
      PROVE  \E r \in Row : r.id = nextId /\ ~Taken(r) /\ Insert(r)
  <2>1. Wanted(c) \in Row /\ Wanted(c).id = nextId
    BY <1>1, WantedIsRow DEF Booked, CommitAckLost
  <2> QED
    BY <1>1, <2>1 DEF Booked, CommitAckLost
<1>2. ASSUME NEW u \in Others, NEW m \in Masters, NEW sv \in Services,
             NEW t \in StartTimes, OthersBook(u, m, sv, t)
      PROVE  \E r \in Row : r.id = nextId /\ ~Taken(r) /\ Insert(r)
  <2> DEFINE n == NewRow(u, m, sv, t)
             r == [n EXCEPT !.id = nextId]
  <2>1. n \in Row
    BY DialogAssumption, DurationAssumption, StartTimesAssumption
    DEF NewRow, Row, BookingStatus
  <2> HIDE DEF n
  <2>2. r \in Row /\ r.id = nextId
    BY <2>1 DEF Row
  <2>3. ~Taken(r) /\ Insert(r)
    BY <1>2 DEF OthersBook, n
  <2> QED
    BY <2>2, <2>3
<1>3. ASSUME NEW b \in bookings, CancelBooking(b)
      PROVE  /\ IsActive(b)
             /\ bookings' = (bookings \ {b}) \cup {[b EXCEPT !.status = "cancelled"]}
             /\ nextId' = nextId
  BY <1>3 DEF CancelBooking
<1>4. CASE UNCHANGED vars
  BY <1>4 DEF vars
<1>5. ASSUME NEW c \in Clients, Press(c)
      PROVE  UNCHANGED <<bookings, nextId>>
  BY <1>5
  DEF Press, Start, SelectService, SelectSeats, SelectMaster, SelectDate,
      SelectSlot, EnterName, EnterPhone, Back, Cancel, Confirm, Save
<1>6. ASSUME NEW c \in Clients, OnConfirm(c), ~(Booked(c) \/ CommitAckLost(c))
      PROVE  UNCHANGED <<bookings, nextId>>
  BY <1>6
  DEF OnConfirm, Occupied, NotSaved, ChooseAgain, Notify, Done, UnhandledError
<1>7. BotRestart => UNCHANGED <<bookings, nextId>>
  BY DEF BotRestart
<1>8. ASSUME NEW m \in Masters, ToggleMaster(m)
      PROVE  UNCHANGED <<bookings, nextId>>
  BY <1>8 DEF ToggleMaster
<1>9. ASSUME NEW m, NEW from, NEW to, AddTimeOff(m, from, to)
      PROVE  UNCHANGED <<bookings, nextId>>
  BY <1>9 DEF AddTimeOff
<1>10. ASSUME NEW r, DeleteTimeOff(r)
       PROVE  UNCHANGED <<bookings, nextId>>
  BY <1>10 DEF DeleteTimeOff
<1>11. Tick => UNCHANGED <<bookings, nextId>>
  BY DEF Tick
<1> QED
  BY <1>1, <1>2, <1>3, <1>4, <1>5, <1>6, <1>7, <1>8, <1>9, <1>10, <1>11
  DEF Next, Elsewhere

LEMMA IdsStep ==
    ASSUME DialogInv, IdsUsed, [Next]_vars
    PROVE  IdsUsed'
<1> USE DEF DialogInv, TypeOK, IdsUsed
<1>1. ASSUME NEW r \in Row, r.id = nextId, Insert(r)
      PROVE  IdsUsed'
  BY <1>1 DEF Insert, Row
<1>2. ASSUME NEW b \in bookings, nextId' = nextId,
             bookings' = (bookings \ {b}) \cup {[b EXCEPT !.status = "cancelled"]}
      PROVE  IdsUsed'
  <2>1. [b EXCEPT !.status = "cancelled"].id = b.id
    BY DEF Row
  <2> QED
    BY <1>2, <2>1
<1> QED
  BY <1>1, <1>2, TableStep

\* The dialogs implement the ledger that the store promises: whatever clients
\* press, whatever fails between the commit and the end of the dialog, the
\* table changes by whole bookings that meet no active one, and by whole
\* cancellations.
THEOREM DialogsKeepLedger == Spec => LedgerSpec
<1>1. Init => Ledger!Init /\ IdsUsed
  BY DEF Init, Ledger!Init, IdsUsed
<1>2. ASSUME DialogInv, IdsUsed, [Next]_vars
      PROVE  [Ledger!Next]_bookings
  <2> USE DEF Ledger!Row, Ledger!BookingStatus, Row, BookingStatus
  <2>1. /\ \A r : IsActive(r) <=> Ledger!IsActive(r)
        /\ \A r, b : Excludes(r, b) <=> Ledger!Excludes(r, b)
    BY DEF IsActive, Ledger!IsActive, ACTIVE_STATUSES, Ledger!ACTIVE_STATUSES,
           Excludes, Ledger!Excludes, Overlaps, Ledger!Overlaps
  <2>2. bookings \subseteq Row /\ nextId \in Nat
    BY <1>2 DEF DialogInv, TypeOK
  <2>3. ASSUME NEW r \in Row, r.id = nextId, ~Taken(r), Insert(r)
        PROVE  Ledger!Next
    <3>1. \A b \in bookings : ~Excludes(r, b)
      BY <2>2, <2>3, FreeIsAdmitted
    <3>2. \A b \in bookings : b.id # r.id
      BY <1>2, <2>2, <2>3 DEF IdsUsed
    <3>3. Ledger!Book(r) /\ r \in bookings' \ bookings
      BY <2>1, <2>3, <3>1, <3>2 DEF Ledger!Book, Insert
    <3> QED
      BY <3>3 DEF Ledger!Next
  <2>4. ASSUME NEW b \in bookings, IsActive(b),
               bookings' = (bookings \ {b}) \cup {[b EXCEPT !.status = "cancelled"]}
        PROVE  Ledger!Next
    <3>1. Ledger!Cancel(b)
      BY <2>1, <2>4 DEF Ledger!Cancel
    <3> QED
      BY <3>1 DEF Ledger!Next
  <2> QED
    BY <1>2, <2>3, <2>4, TableStep
<1> QED
  BY <1>1, <1>2, DialogInit, DialogStep, IdsStep, PTL DEF Spec, LedgerSpec, Ledger!Spec

Facts == INSTANCE BookingLedgerProofs WITH bookings <- bookings

\* The ledger of the module is the one BookingLedgerProofs speaks of.
LEMMA LedgerIsConsistent == LedgerSpec => [](NoOverlapIn(bookings) /\ UniqueIds(bookings))
<1>1. /\ Ledger!Init <=> Facts!Init
      /\ [Ledger!Next]_bookings <=> [Facts!Next]_bookings
  BY DEF Ledger!Init, Facts!Init, Ledger!Next, Facts!Next, Ledger!Book, Facts!Book,
         Ledger!Cancel, Facts!Cancel, Ledger!Row, Facts!Row,
         Ledger!BookingStatus, Facts!BookingStatus,
         Ledger!IsActive, Facts!IsActive,
         Ledger!ACTIVE_STATUSES, Facts!ACTIVE_STATUSES,
         Ledger!Excludes, Facts!Excludes, Ledger!Overlaps, Facts!Overlaps
<1>2. Facts!Spec => []Facts!Consistent
  BY Facts!LedgerConsistent, DurationAssumption, StartTimesAssumption
<1>3. Facts!Consistent => NoOverlapIn(bookings) /\ UniqueIds(bookings)
  BY DEF Facts!Consistent, NoOverlapIn, Facts!NoOverlapIn, UniqueIds, Facts!UniqueIds
<1> QED
  BY <1>1, <1>2, <1>3, PTL DEF LedgerSpec, Ledger!Spec, Facts!Spec

\* No two active bookings of one master overlap, and no id names two, whatever
\* clients press and whatever else is booked: a slot chosen windows ago is
\* taken only if it is still free.
THEOREM DialogsNeverDoubleBook == Spec => [](NoOverlapIn(bookings) /\ UniqueIds(bookings))
<1> QED
  BY DialogsKeepLedger, LedgerIsConsistent, PTL

=============================================================================
