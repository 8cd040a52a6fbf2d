------------------------ MODULE AvailableSlotsProofs ------------------------
(***************************************************************************)
(* Theorems about get_available_slots, for every content of the tables,    *)
(* every grid and length of a service, and every day.                      *)
(***************************************************************************)
EXTENDS AvailableSlots, TLAPS

\* A start on the grid of a day that opens at `open'.
OnGrid(t, open) == \E k \in Nat : t = open + k * SlotStep

\* The next start of the grid is one step further, and none lies between.
LEMMA GridStep ==
    ASSUME NEW open \in Nat, NEW c \in Nat, OnGrid(c, open)
    PROVE  /\ OnGrid(c + SlotStep, open)
           /\ \A t \in Nat : OnGrid(t, open) /\ t < c + SlotStep => t <= c
<1>1. PICK k \in Nat : c = open + k * SlotStep
  BY DEF OnGrid
<1>2. c + SlotStep = open + (k + 1) * SlotStep
  BY <1>1, SlotStepAssumption
<1>3. ASSUME NEW t \in Nat, NEW l \in Nat, t = open + l * SlotStep,
             t < c + SlotStep
      PROVE  t <= c
  <2>1. l * SlotStep < (k + 1) * SlotStep
    BY <1>2, <1>3, SlotStepAssumption
  <2>2. l < k + 1
    <3>1. ASSUME l >= k + 1
          PROVE  l * SlotStep >= (k + 1) * SlotStep
      BY <3>1, SlotStepAssumption
    <3> QED
      BY <2>1, <3>1, SlotStepAssumption
  <2>3. l * SlotStep <= k * SlotStep
    BY <2>2, SlotStepAssumption
  <2> QED
    BY <1>1, <1>3, <2>3, SlotStepAssumption
<1> QED
  BY <1>2, <1>3 DEF OnGrid

\* A start is on the grid of TryNext iff it is on the grid of Bookable.
LEMMA GridOfBookable ==
    ASSUME NEW t \in Nat, NEW open \in Nat
    PROVE  OnGrid(t, open) <=> \E k \in 0 .. t : t = open + k * SlotStep
<1>1. ASSUME NEW k \in Nat, t = open + k * SlotStep
      PROVE  k \in 0 .. t
  <2>1. k * SlotStep >= k
    BY SlotStepAssumption
  <2> QED
    BY <1>1, <2>1, SlotStepAssumption
<1> QED
  BY <1>1 DEF OnGrid

-----------------------------------------------------------------------------
Open(r) == query.day * DayLength + r.start_time

Close(r) == query.day * DayLength + r.end_time

\* What the call knows before and in the loop.  The row of the weekday is
\* named once and for all by the unique constraint.
InLoop(r) ==
    /\ end_of_day = Close(r)
    /\ OnGrid(cursor, Open(r))
    /\ pc = "busy" => cursor = Open(r)
    /\ pc = "loop" =>
           /\ busy = {<<b.starts_at, b.ends_at>> :
                         b \in BusyRows(bookings, query.master, Open(r), end_of_day)}
           /\ slots = {t \in Nat : /\ t < cursor
                                   /\ OnGrid(t, Open(r))
                                   /\ Fits(t)
                                   /\ Offer(t)}

SlotsInv ==
    /\ TypeOK
    /\ schedules \in ScheduleTables
    /\ pc \in {"time_off", "schedule", "busy"} => slots = {}
    /\ pc \in {"schedule", "busy", "loop"} => ~InTimeOff(query.master, query.day)
    /\ pc \in {"busy", "loop"} =>
           \E r \in DayRows(query.master, query.day) : InLoop(r)
    /\ OfferedExactly

\* The opening and closing times of a row are times of the day asked for.
LEMMA HoursOfDay ==
    ASSUME TypeOK, NEW r \in schedules
    PROVE  /\ Open(r) \in Nat
           /\ Close(r) \in Nat
           /\ Close(r) <= (query.day + 1) * DayLength
<1>1. /\ query.day \in Nat
      /\ r.start_time \in 0 .. DayLength - 1
      /\ r.end_time \in 0 .. DayLength - 1
  BY TablesAssumption DEF TypeOK, ScheduleRow
<1>2. query.day * DayLength \in Nat
  BY <1>1, DayLengthAssumption
<1>3. (query.day + 1) * DayLength = query.day * DayLength + DayLength
  BY <1>1, DayLengthAssumption
<1> QED
  BY <1>1, <1>2, <1>3, DayLengthAssumption DEF Open, Close

\* A slot within the hours is free of the busy intervals read over the hours
\* iff no active booking of the master touches it.
LEMMA OfferIsFree ==
    ASSUME TypeOK, NEW r \in schedules, NEW t \in Nat,
           busy = {<<b.starts_at, b.ends_at>> :
                       b \in BusyRows(bookings, query.master, Open(r), end_of_day)},
           t >= Open(r), Fits(t)
    PROVE  Offer(t) <=>
               /\ t > query.now
               /\ \A b \in bookings :
                      /\ b.master = query.master
                      /\ b.status \in {"pending", "confirmed"}
                      => t + query.duration <= b.starts_at \/ b.ends_at <= t
<1>1. query.duration \in Nat \ {0} /\ end_of_day \in Nat /\ Open(r) \in Nat
  BY HoursOfDay, TablesAssumption DEF TypeOK
<1>2. ASSUME NEW b \in bookings
      PROVE  /\ b.starts_at \in Nat /\ b.ends_at \in Nat
             /\ IsActive(b) <=> b.status \in {"pending", "confirmed"}
  BY <1>2 DEF TypeOK, Row, IsActive, ACTIVE_STATUSES
<1>3. ASSUME Offer(t),
             NEW b \in bookings, b.master = query.master, IsActive(b)
      PROVE  t + query.duration <= b.starts_at \/ b.ends_at <= t
  <2>1. CASE b \in BusyRows(bookings, query.master, Open(r), end_of_day)
    <3> DEFINE i == <<b.starts_at, b.ends_at>>
    <3>1. i \in busy /\ i[1] = b.starts_at /\ i[2] = b.ends_at
      BY <2>1
    <3>2. ~Overlaps(t, t + query.duration, i[1], i[2])
      BY <1>3, <3>1 DEF Offer
    <3> HIDE DEF i
    <3> QED
      BY <1>1, <1>2, <3>1, <3>2 DEF Overlaps
  <2>2. CASE b \notin BusyRows(bookings, query.master, Open(r), end_of_day)
    BY <1>1, <1>2, <1>3, <2>2 DEF BusyRows, Fits
  <2> QED
    BY <2>1, <2>2
<1>4. ASSUME \A b \in bookings :
                 b.master = query.master /\ IsActive(b)
                 => t + query.duration <= b.starts_at \/ b.ends_at <= t,
             NEW i \in busy
      PROVE  ~Overlaps(t, t + query.duration, i[1], i[2])
  <2>1. PICK b \in BusyRows(bookings, query.master, Open(r), end_of_day) :
            i = <<b.starts_at, b.ends_at>>
    OBVIOUS
  <2>2. b \in bookings /\ b.master = query.master /\ IsActive(b)
    BY DEF BusyRows
  <2> QED
    BY <1>1, <1>2, <1>4, <2>1, <2>2 DEF Overlaps
<1> QED
  BY <1>2, <1>3, <1>4 DEF Offer

\* When the loop has run past the end of the day, it has offered exactly the
\* bookable starts.
LEMMA ReturnIsExact ==
    ASSUME SlotsInv, Return
    PROVE  slots = {t \in 0 .. (query.day + 1) * DayLength : Bookable(t)}
<1> USE DEF SlotsInv
<1> DEFINE last == (query.day + 1) * DayLength
<1>1. PICK r \in DayRows(query.master, query.day) : InLoop(r)
  BY DEF Return
<1>2. /\ r \in schedules /\ r.master = query.master
      /\ r.weekday = query.day % 7
      /\ \A x \in schedules :
             x.master = query.master /\ x.weekday = query.day % 7 => x = r
  BY TablesAssumption DEF DayRows, OneRowPerWeekday
<1>3. /\ Open(r) \in Nat /\ end_of_day = Close(r)
      /\ end_of_day <= last /\ last \in Nat /\ end_of_day \in Nat
      /\ cursor \in Nat
      /\ query.duration \in Nat \ {0} /\ query.day \in Nat
      /\ cursor + query.duration > end_of_day
  BY <1>1, <1>2, HoursOfDay, TablesAssumption, DayLengthAssumption
  DEF InLoop, TypeOK, Return, Fits
<1> HIDE DEF last
<1>4. \A t \in Nat : OnGrid(t, Open(r)) => t >= Open(r)
  <2>1. \A k \in Nat : k * SlotStep >= 0
    BY SlotStepAssumption
  <2>2. \A k \in Nat : k * SlotStep \in Nat
    BY SlotStepAssumption
  <2> QED
    BY <1>3, <2>1, <2>2 DEF OnGrid
<1>5. \A x \in time_off :
          x.master = query.master => query.day \notin x.date_from .. x.date_to
  BY <1>3 DEF Return, InTimeOff, TypeOK, TimeOffRow
<1>6. ASSUME NEW t \in Nat
      PROVE  t \in slots <=> t <= last /\ Bookable(t)
  <2>1. t \in slots <=> t < cursor /\ OnGrid(t, Open(r)) /\ Fits(t) /\ Offer(t)
    BY <1>1 DEF InLoop, Return
  <2>2. Fits(t) => t < cursor /\ t <= last
    BY <1>3 DEF Fits
  <2>3. OnGrid(t, Open(r)) /\ Fits(t) =>
            (Offer(t) <=>
               /\ t > query.now
               /\ \A b \in bookings :
                      /\ b.master = query.master
                      /\ b.status \in {"pending", "confirmed"}
                      => t + query.duration <= b.starts_at \/ b.ends_at <= t)
    BY <1>1, <1>2, <1>4, OfferIsFree DEF InLoop, Return
  <2>4. OnGrid(t, Open(r)) /\ Fits(t) <=>
            \E x \in schedules :
                /\ x.master = query.master
                /\ x.weekday = query.day % 7
                /\ \E k \in 0 .. t : t = Open(x) + k * SlotStep
                /\ t + query.duration <= Close(x)
    BY <1>2, <1>3, GridOfBookable DEF Fits
  <2> QED
    BY <1>5, <2>1, <2>2, <2>3, <2>4 DEF Bookable, IsBookable, InHours, Open, Close
<1>7. slots = {t \in 0 .. last : Bookable(t)}
  <2>1. slots \subseteq Nat
    BY DEF TypeOK
  <2>2. \A t \in Nat : t \in slots <=> t <= last /\ Bookable(t)
    BY <1>6
  <2>3. 0 .. last \subseteq Nat /\ \A t \in Nat : t <= last => t \in 0 .. last
    BY <1>3
  <2>4. \A t \in 0 .. last : t <= last
    BY <1>3
  <2> HIDE DEF SlotsInv
  <2>5. ASSUME NEW t \in slots
        PROVE  t \in 0 .. last /\ Bookable(t)
    BY <2>1, <2>2, <2>3
  <2>6. ASSUME NEW t \in 0 .. last, Bookable(t)
        PROVE  t \in slots
    BY <2>2, <2>3, <2>4, <2>6
  <2> QED
    BY <2>5, <2>6
<1> QED
  BY <1>7 DEF last

-----------------------------------------------------------------------------
\* A start on the grid is no earlier than the opening.
LEMMA GridStartsOpen ==
    ASSUME NEW open \in Nat, NEW t \in Nat, OnGrid(t, open)
    PROVE  t >= open
<1>1. PICK k \in Nat : t = open + k * SlotStep
  BY DEF OnGrid
<1>2. k * SlotStep \in Nat
  BY SlotStepAssumption
<1> QED
  BY <1>1, <1>2

\* The tables and the query stay, and so does what is bookable.
LEMMA SameTables ==
    ASSUME UNCHANGED tables
    PROVE  /\ bookings' = bookings /\ schedules' = schedules
           /\ time_off' = time_off /\ query' = query
           /\ \A t : Bookable(t)' <=> Bookable(t)
           /\ \A m, d : InTimeOff(m, d)' <=> InTimeOff(m, d)
           /\ \A m, d : DayRows(m, d)' = DayRows(m, d)
           /\ \A r : Open(r)' = Open(r) /\ Close(r)' = Close(r)
BY DEF tables, Bookable, IsBookable, InHours, InTimeOff, DayRows, Open, Close

LEMMA InitIsTyped ==
    Init => TypeOK
BY TablesAssumption DEF Init, TypeOK

LEMMA SlotsTypeStep ==
    ASSUME TypeOK, [Next]_vars
    PROVE  TypeOK'
<1>1. CASE WorkingDay
  <2>1. PICK r \in DayRows(query.master, query.day) :
            /\ cursor' = Open(r) /\ end_of_day' = Close(r)
    BY <1>1 DEF WorkingDay, Open, Close
  <2>2. Open(r) \in Nat /\ Close(r) \in Nat
    BY HoursOfDay DEF DayRows
  <2> QED
    BY <1>1, <2>1, <2>2 DEF WorkingDay, TypeOK, tables
<1>2. CASE ReadBusy
  BY <1>2 DEF ReadBusy, TypeOK, tables, BusyRows, Row
<1>3. CASE TryNext
  BY <1>3, SlotStepAssumption DEF TryNext, TypeOK, tables
<1>4. CASE OnTimeOff \/ NotOnTimeOff \/ DayOff \/ Return
  BY <1>4 DEF OnTimeOff, NotOnTimeOff, DayOff, Return, TypeOK, tables
<1>5. CASE UNCHANGED vars
  BY <1>5 DEF vars, tables, TypeOK
<1> QED
  BY <1>1, <1>2, <1>3, <1>4, <1>5 DEF Next

\* Every call keeps to its table of working hours.
THEOREM SlotsTypeCorrect == Spec => []TypeOK
<1>1. TypeOK /\ [Next]_vars => TypeOK'
  BY SlotsTypeStep
<1> QED
  BY InitIsTyped, <1>1, PTL DEF Spec

-----------------------------------------------------------------------------
\* A call that returns before the loop offers nothing, and nothing can be
\* booked: the day is in a time off, or has no row.
LEMMA ClosedDay ==
    ASSUME SlotsInv, OnTimeOff \/ DayOff
    PROVE  slots = {} /\ \A t \in Nat : ~Bookable(t)
<1>1. slots = {}
  BY DEF SlotsInv, OnTimeOff, DayOff
<1>2. CASE OnTimeOff
  <2>1. query.day \in Nat
    BY TablesAssumption DEF SlotsInv, TypeOK
  <2>2. PICK r \in time_off : r.master = query.master
                              /\ r.date_from <= query.day /\ r.date_to >= query.day
    BY <1>2 DEF OnTimeOff, InTimeOff
  <2>3. r.date_from \in Nat /\ r.date_to \in Nat
    BY DEF SlotsInv, TypeOK, TimeOffRow
  <2>4. query.day \in r.date_from .. r.date_to
    BY <2>1, <2>2, <2>3
  <2> QED
    BY <1>1, <2>2, <2>4 DEF Bookable, IsBookable
<1>3. CASE DayOff
  BY <1>1, <1>3 DEF DayOff, DayRows, Bookable, IsBookable, InHours
<1> QED
  BY <1>2, <1>3

\* At its first query of the day the loop has offered nothing, and nothing of
\* the grid lies behind it.
LEMMA LoopStarts ==
    ASSUME SlotsInv, ReadBusy, NEW r \in DayRows(query.master, query.day),
           InLoop(r)
    PROVE  InLoop(r)'
<1>1. /\ pc = "busy" /\ pc' = "loop"
      /\ cursor = Open(r) /\ cursor' = cursor
      /\ end_of_day = Close(r) /\ end_of_day' = end_of_day
      /\ OnGrid(cursor, Open(r))
      /\ slots' = {}
      /\ UNCHANGED tables
  BY DEF SlotsInv, ReadBusy, InLoop
<1>2. Open(r)' = Open(r) /\ Close(r)' = Close(r)
      /\ bookings' = bookings /\ query' = query
  BY <1>1, SameTables
<1>3. busy' = {<<b.starts_at, b.ends_at>> :
                   b \in BusyRows(bookings, query.master, Open(r), end_of_day)}
  BY <1>1 DEF ReadBusy
<1>4. Open(r) \in Nat
  BY HoursOfDay DEF SlotsInv, DayRows
<1>5. \A t \in Nat : OnGrid(t, Open(r)) => ~(t < cursor)
  BY <1>1, <1>4, GridStartsOpen
<1>6. slots' = {t \in Nat : /\ t < cursor'
                            /\ OnGrid(t, Open(r)')
                            /\ Fits(t)'
                            /\ Offer(t)'}
  BY <1>1, <1>2, <1>5
<1> QED
  BY <1>1, <1>2, <1>3, <1>6 DEF InLoop, OnGrid

\* One turn of the loop moves the cursor over one start of the grid, and
\* offers it exactly when it is to be offered.
LEMMA LoopGoesOn ==
    ASSUME SlotsInv, TryNext, NEW r \in DayRows(query.master, query.day),
           InLoop(r)
    PROVE  InLoop(r)'
<1>1. /\ pc = "loop" /\ pc' = "loop"
      /\ cursor \in Nat /\ cursor' = cursor + SlotStep
      /\ end_of_day = Close(r) /\ end_of_day' = end_of_day
      /\ busy' = busy
      /\ Fits(cursor)
      /\ UNCHANGED tables
  BY DEF SlotsInv, TypeOK, TryNext, InLoop
<1>2. Open(r)' = Open(r) /\ Close(r)' = Close(r)
      /\ bookings' = bookings /\ query' = query
  BY <1>1, SameTables
<1>3. Open(r) \in Nat /\ OnGrid(cursor, Open(r))
  BY HoursOfDay DEF SlotsInv, DayRows, InLoop
<1>4. /\ OnGrid(cursor + SlotStep, Open(r))
      /\ \A t \in Nat : OnGrid(t, Open(r)) /\ t < cursor + SlotStep => t <= cursor
  BY <1>1, <1>3, GridStep
<1>5. \A t : (Fits(t)' <=> Fits(t)) /\ (Offer(t)' <=> Offer(t))
  BY <1>1, <1>2 DEF Fits, Offer
<1>6. slots = {t \in Nat : t < cursor /\ OnGrid(t, Open(r)) /\ Fits(t) /\ Offer(t)}
  BY <1>1 DEF InLoop
<1>7. slots' = IF Offer(cursor) THEN slots \cup {cursor} ELSE slots
  BY DEF TryNext
<1>8. ASSUME NEW t \in Nat
      PROVE  t \in slots' <=>
                 t < cursor + SlotStep /\ OnGrid(t, Open(r)) /\ Fits(t) /\ Offer(t)
  <2>1. t < cursor + SlotStep /\ OnGrid(t, Open(r)) <=>
            (t < cursor \/ t = cursor) /\ OnGrid(t, Open(r))
    BY <1>1, <1>4, SlotStepAssumption
  <2>2. t \in slots <=> t < cursor /\ OnGrid(t, Open(r)) /\ Fits(t) /\ Offer(t)
    BY <1>6
  <2>3. t \in slots' <=> t \in slots \/ (t = cursor /\ Offer(t))
    BY <1>7
  <2> QED
    BY <1>1, <1>3, <2>1, <2>2, <2>3
<1>9. slots' \subseteq Nat
  BY <1>1, <1>6, <1>7
<1>10. slots' = {t \in Nat : /\ t < cursor'
                             /\ OnGrid(t, Open(r)')
                             /\ Fits(t)'
                             /\ Offer(t)'}
  BY <1>1, <1>2, <1>5, <1>8, <1>9
<1>11. busy' = {<<b.starts_at, b.ends_at>> :
                    b \in BusyRows(bookings, query.master, Open(r), end_of_day)}
  BY <1>1 DEF InLoop
<1> QED
  BY <1>1, <1>2, <1>4, <1>10, <1>11 DEF InLoop, OnGrid

\* SlotsInv holds at the call and after every step of it.
LEMMA SlotsInit ==
    Init => SlotsInv
BY InitIsTyped DEF Init, SlotsInv, OfferedExactly

LEMMA SlotsStep ==
    ASSUME SlotsInv, [Next]_vars
    PROVE  SlotsInv'
<1>1. TypeOK'
  BY SlotsTypeStep DEF SlotsInv
<1>2. CASE OnTimeOff \/ DayOff
  <2>1. slots' = {} /\ pc' = "done" /\ UNCHANGED tables
    BY <1>2, ClosedDay DEF OnTimeOff, DayOff
  <2>2. \A t \in Nat : ~Bookable(t)'
    BY <1>2, <2>1, ClosedDay, SameTables
  <2>3. query' = query /\ schedules' = schedules
    BY <2>1, SameTables
  <2>4. 0 .. (query'.day + 1) * DayLength \subseteq Nat
    OBVIOUS
  <2>5. OfferedExactly'
    BY <2>1, <2>2, <2>4 DEF OfferedExactly
  <2> QED
    BY <1>1, <2>1, <2>3, <2>5 DEF SlotsInv
<1>3. CASE NotOnTimeOff
  <2>1. /\ pc' = "schedule" /\ slots' = slots /\ slots = {}
        /\ ~InTimeOff(query.master, query.day) /\ UNCHANGED tables
    BY <1>3 DEF NotOnTimeOff, SlotsInv
  <2>2. ~InTimeOff(query.master, query.day)' /\ schedules' = schedules
    BY <2>1, SameTables
  <2> QED
    BY <1>1, <2>1, <2>2 DEF SlotsInv, OfferedExactly
<1>4. CASE WorkingDay
  <2>1. PICK r \in DayRows(query.master, query.day) :
            cursor' = Open(r) /\ end_of_day' = Close(r)
    BY <1>4 DEF WorkingDay, Open, Close
  <2>2. /\ pc = "schedule" /\ pc' = "busy" /\ slots' = slots /\ slots = {}
        /\ ~InTimeOff(query.master, query.day) /\ UNCHANGED tables
    BY <1>4 DEF WorkingDay, SlotsInv
  <2>3. /\ r \in DayRows(query.master, query.day)'
        /\ ~InTimeOff(query.master, query.day)'
        /\ schedules' = schedules
        /\ Open(r)' = Open(r) /\ Close(r)' = Close(r)
    BY <2>2, SameTables
  <2>4. OnGrid(cursor', Open(r))
    <3>1. Open(r) \in Nat
      BY HoursOfDay DEF SlotsInv, DayRows
    <3>2. 0 * SlotStep = 0
      BY SlotStepAssumption
    <3> QED
      BY <2>1, <3>1, <3>2 DEF OnGrid
  <2>5. InLoop(r)'
    BY <2>1, <2>2, <2>3, <2>4 DEF InLoop, OnGrid
  <2> QED
    BY <1>1, <2>2, <2>3, <2>5 DEF SlotsInv, OfferedExactly
<1>5. CASE ReadBusy \/ TryNext
  <2>1. PICK r \in DayRows(query.master, query.day) : InLoop(r)
    BY <1>5 DEF ReadBusy, TryNext, SlotsInv
  <2>2. InLoop(r)'
    BY <1>5, <2>1, LoopStarts, LoopGoesOn
  <2>3. pc' = "loop" /\ ~InTimeOff(query.master, query.day) /\ UNCHANGED tables
    BY <1>5 DEF ReadBusy, TryNext, SlotsInv
  <2>4. /\ r \in DayRows(query.master, query.day)'
        /\ ~InTimeOff(query.master, query.day)'
        /\ schedules' = schedules
    BY <2>3, SameTables
  <2> QED
    BY <1>1, <2>2, <2>3, <2>4 DEF SlotsInv, OfferedExactly
<1>6. CASE Return
  <2>1. pc' = "done" /\ slots' = slots /\ UNCHANGED tables
    BY <1>6 DEF Return
  <2>2. slots = {t \in 0 .. (query.day + 1) * DayLength : Bookable(t)}
    BY <1>6, ReturnIsExact
  <2>3. query' = query /\ schedules' = schedules /\ \A t : Bookable(t)' <=> Bookable(t)
    BY <2>1, SameTables
  <2>4. slots' = {t \in 0 .. (query'.day + 1) * DayLength : Bookable(t)'}
    BY <2>1, <2>2, <2>3
  <2> QED
    BY <1>1, <2>1, <2>3, <2>4 DEF SlotsInv, OfferedExactly
<1>7. CASE UNCHANGED vars
  <2>1. /\ pc' = pc /\ cursor' = cursor /\ end_of_day' = end_of_day
        /\ busy' = busy /\ slots' = slots
        /\ bookings' = bookings /\ schedules' = schedules
        /\ time_off' = time_off /\ query' = query
    BY <1>7 DEF vars, tables
  <2> QED
    BY <1>1, <2>1 DEF SlotsInv, InTimeOff, DayRows, InLoop, OnGrid, Open, Close,
                      Fits, Offer, BusyRows, OfferedExactly, Bookable,
                      IsBookable, InHours
<1> QED
  BY <1>2, <1>3, <1>4, <1>5, <1>6, <1>7 DEF Next

LEMMA SlotsAlways == Spec => []SlotsInv
<1>1. SlotsInv /\ [Next]_vars => SlotsInv'
  BY SlotsStep
<1> QED
  BY SlotsInit, <1>1, PTL DEF Spec

\* When get_available_slots returns, it has offered every start on the grid
\* that can be booked and no other.
THEOREM OffersAreExact == Spec => []OfferedExactly
<1>1. SlotsInv => OfferedExactly
  BY DEF SlotsInv
<1> QED
  BY SlotsAlways, <1>1, PTL

\* The busy intervals read once for the day are enough: create_booking, asked
\* at any moment for any slot offered so far, finds it free.
THEOREM OffersAreFree == Spec => []OfferedPassesCheck
<1>1. ASSUME SlotsInv
      PROVE  OfferedPassesCheck
  <2>1. ASSUME NEW t \in slots
        PROVE  \A b \in bookings :
                   /\ b.master = query.master
                   /\ b.status \in {"pending", "confirmed"}
                   => t + query.duration <= b.starts_at \/ b.ends_at <= t
    <3>1. t \in Nat
      BY <1>1 DEF SlotsInv, TypeOK
    <3>2. CASE pc = "loop"
      <4>1. PICK r \in DayRows(query.master, query.day) : InLoop(r)
        BY <1>1, <3>2 DEF SlotsInv
      <4>2. /\ OnGrid(t, Open(r)) /\ Fits(t) /\ Offer(t)
            /\ busy = {<<b.starts_at, b.ends_at>> :
                           b \in BusyRows(bookings, query.master, Open(r), end_of_day)}
        BY <2>1, <3>2, <4>1 DEF InLoop
      <4>3. Open(r) \in Nat /\ r \in schedules
        BY <1>1, HoursOfDay DEF SlotsInv, DayRows
      <4>4. t >= Open(r)
        BY <3>1, <4>2, <4>3, GridStartsOpen
      <4> QED
        BY <1>1, <3>1, <4>2, <4>3, <4>4, OfferIsFree DEF SlotsInv
    <3>3. CASE pc = "done"
      <4>1. Bookable(t)
        BY <1>1, <2>1, <3>3 DEF SlotsInv, OfferedExactly
      <4> QED
        BY <4>1 DEF Bookable, IsBookable
    <3>4. CASE pc \in {"time_off", "schedule", "busy"}
      BY <1>1, <2>1, <3>4 DEF SlotsInv
    <3> QED
      BY <1>1, <3>2, <3>3, <3>4 DEF SlotsInv, TypeOK
  <2>2. query.duration \in Nat \ {0}
    BY <1>1, TablesAssumption DEF SlotsInv, TypeOK
  <2>3. \A b \in bookings : b.starts_at \in Nat /\ b.ends_at \in Nat
    BY <1>1 DEF SlotsInv, TypeOK, Row
  <2>4. \A t \in slots : t \in Nat
    BY <1>1 DEF SlotsInv, TypeOK
  <2> QED
    BY <2>1, <2>2, <2>3, <2>4
    DEF OfferedPassesCheck, SlotTaken, BusyRows, Overlaps, IsActive, ACTIVE_STATUSES
<1> QED
  BY SlotsAlways, <1>1, PTL

-----------------------------------------------------------------------------
(* The call ends: what Returns rests on, the fairness aside                *)

Rank == CASE pc = "time_off" -> 4
          [] pc = "schedule" -> 3
          [] pc = "busy"     -> 2
          [] pc = "loop"     -> 1
          [] pc = "done"     -> 0

\* What the loop has before it, the turn that may overshoot included.
Room == end_of_day + SlotStep - cursor

\* A step of the call takes it to a later query, or the loop a step nearer to
\* its end; and what the loop has before it is never below zero while it turns.
GetsNearer ==
    \/ Rank \in Nat /\ Rank' \in Nat /\ Rank' < Rank
    \/ Rank' = Rank /\ Room \in Nat /\ Room' \in Nat /\ Room' < Room

\* get_available_slots cannot loop: every step of every call brings it nearer
\* to its end in an order that has no infinite descent, also when a day closes
\* before it opens, a service is longer than the day or the step does not
\* divide the hours.
THEOREM TurnsAreBounded == Spec => [][GetsNearer]_vars
<1>1. ASSUME TypeOK, [Next]_vars
      PROVE  [GetsNearer]_vars
  <2>1. CASE TryNext
    <3>1. /\ cursor \in Nat /\ end_of_day \in Nat /\ query.duration \in Nat
          /\ cursor + query.duration <= end_of_day
          /\ cursor' = cursor + SlotStep /\ end_of_day' = end_of_day /\ pc' = pc
      BY <1>1, <2>1, TablesAssumption DEF TypeOK, TryNext, Fits
    <3>2. Rank' = Rank
      BY <3>1 DEF Rank
    <3>3. Room \in Nat /\ Room' \in Nat /\ Room' < Room
      BY <3>1, SlotStepAssumption DEF Room
    <3> QED
      BY <3>2, <3>3 DEF GetsNearer
  <2>2. CASE OnTimeOff \/ NotOnTimeOff \/ DayOff \/ WorkingDay \/ ReadBusy \/ Return
    BY <2>2 DEF OnTimeOff, NotOnTimeOff, DayOff, WorkingDay, ReadBusy, Return,
                Rank, GetsNearer
  <2> QED
    BY <1>1, <2>1, <2>2 DEF Next
<1> QED
  BY SlotsTypeCorrect, <1>1, PTL DEF Spec

=============================================================================
