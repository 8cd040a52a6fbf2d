-------------------------- MODULE AdminInputProofs --------------------------
(***************************************************************************)
(* Theorems about AdminInput and the parsers of ParseInput, for any number *)
(* of administrators, masters and sessions, and whatever they type.        *)
(*                                                                         *)
(* Two arguments meet here.  The row one has written is locked: what it    *)
(* was when the UPDATE went out it still is at the commit (Locked), so     *)
(* that the columns left out are those loaded.  And the question on the    *)
(* screen agrees with Redis as long as `asked' says so (Agreed), so that a *)
(* text which travels alone finds what it answers (Meant).                 *)
(***************************************************************************)
EXTENDS AdminInput, TLAPS

\* Where a session stands, and what it has in hand there.
Stage ==
    \A s \in Sessions :
        /\ InFlight(s) => by[s] \in Admins /\ update[s] \in Update
        /\ pc[s] \in {"update_data", "prompt"} => update[s].kind \in {"mday", "tadd"}
        /\ pc[s] \in {"select_row", "flush", "delete_day", "commit"} =>
               /\ update[s].kind = "text"
               /\ place[s] \in Asked /\ place[s].state = "day_hours"
               /\ IsDayOff(update[s].text) \/ IsHours(update[s].text)
        /\ pc[s] \in {"select_row", "flush"} => ~IsDayOff(update[s].text)
        /\ pc[s] = "delete_day" => IsDayOff(update[s].text)
        /\ pc[s] = "insert" =>
               /\ update[s].kind = "text"
               /\ place[s] \in Asked /\ place[s].state = "time_off"
               /\ ~Unparsable(update[s].text, Today)
        /\ pc[s] \in {"idle", "filter", "update_data", "prompt"} => place[s] = Unset

\* What a session has written, and that nobody else writes there.
Typing(s) == ~IsDayOff(update[s].text)

RowLocked(s) ==
    /\ write[s] # Keep => pc[s] = "commit"
    /\ pc[s] = "commit" /\ ~Typing(s) => write[s] \in {Keep, Delete}
    /\ pc[s] = "commit" /\ Typing(s) /\ write[s] # Keep =>
           IF loaded[s] = DayOff
           THEN write[s] = HoursOf(update[s].text)
           ELSE /\ write[s] = Changed(loaded[s], HoursOf(update[s].text))
                /\ week[Day(s)] # DayOff
                /\ s \notin outdated => week[Day(s)] = loaded[s]

Locked ==
    /\ \A s \in Sessions : RowLocked(s)
    /\ \A s, q \in Sessions :
           s # q /\ write[s] # Keep /\ write[q] # Keep => Day(s) # Day(q)

\* The handlers of a chat run one after the other.
OneAtATime ==
    \A s, q \in Sessions : s # q /\ Handled(s) /\ Handled(q) => by[s] # by[q]

StateOf(u) == IF u.kind = "mday" THEN "day_hours" ELSE "time_off"

\* What Redis holds for the chat of a is the question p.
Holds(a, p) ==
    /\ state[a] = p.state
    /\ data[a].master = p.master
    /\ p.state = "day_hours" => data[a].weekday = p.weekday

Agreed ==
    /\ \A a \in Admins : asked[a] # Unset => Holds(a, asked[a])
    /\ \A s \in Sessions :
           /\ pc[s] \in {"update_data", "prompt"} =>
                  asked[by[s]] = Unset /\ state[by[s]] = StateOf(update[s])
           /\ pc[s] = "prompt" =>
                  /\ data[by[s]].master = update[s].master
                  /\ update[s].kind = "mday" => data[by[s]].weekday = update[s].weekday

\* A text that travels alone.
Meant ==
    \A s \in Sessions :
        meant[s] # Unset =>
            /\ InFlight(s) /\ update[s].kind = "text"
            /\ \A q \in Sessions \ {s} : InFlight(q) => by[q] # by[s]
            /\ pc[s] = "filter" =>
                   asked[by[s]] = meant[s] /\ raw_state[s] = meant[s].state
            /\ place[s] # Unset => place[s] = meant[s]

InputInv ==
    /\ TypeOK /\ Stage /\ Locked /\ HoursInOrder
    /\ OneAtATime /\ Agreed /\ Meant

-----------------------------------------------------------------------------
(* The parsers                                                             *)

\* parse_hours returns hours in order, of whatever text.
LEMMA HoursAreHours ==
    ASSUME NEW t \in Text
    PROVE  /\ HoursOf(t) \in Hours
           /\ IsHours(t) => HoursOf(t).start < HoursOf(t).end
BY DEF Text, Numbers, HoursOf, Hours, Time, IsHours

LEMMA PastIsPast ==
    ASSUME NEW x \in Numbers, NEW today \in Date
    PROVE  /\ Parsed(x, today) \in Date
           /\ In(x, today.year + 1) \in Date
           /\ ~Before(In(x, today.year + 1), today)
BY DEF Numbers, Date, Parsed, In, Before

\* A date _parse_date returns, without raising, is the one that is meant.
LEMMA ParseDateMeans ==
    ASSUME NEW x \in Numbers, NEW today \in Date, ~Raises(x, today),
           NEW d \in ParseDate(x, today)
    PROVE  d \in Date /\ Means(x, d, today)
<1>1. IsDate(Parsed(x, today))
  BY DEF ParseDate
<1>2. CASE IsPast(x, today)
  <2>1. d = In(x, today.year + 1)
    BY <1>2 DEF ParseDate
  <2>2. IsDate(d) /\ d \in Date /\ ~Before(d, today)
    BY <1>1, <1>2, <2>1, PastIsPast DEF Raises
  <2>3. x.year = 0 /\ Before(In(x, today.year), today)
    BY <1>2 DEF IsPast, Parsed
  <2>4. d.day = x.n1 /\ d.month = x.n2 /\ d.year = today.year + 1
    BY <2>1 DEF In
  <2>5. \A y \in today.year .. d.year - 1 : y = today.year
    BY <2>4 DEF Date
  <2> QED
    BY <2>2, <2>3, <2>4, <2>5 DEF Means
<1>3. CASE ~IsPast(x, today)
  <2>1. d = Parsed(x, today) /\ d \in Date
    BY <1>3, PastIsPast DEF ParseDate
  <2>2. d.day = x.n1 /\ d.month = x.n2
    BY <2>1 DEF Parsed, In
  <2>3. CASE x.year # 0
    BY <1>1, <2>1, <2>2, <2>3 DEF Parsed, In, Means
  <2>4. CASE x.year = 0
    <3>1. d.year = today.year
      BY <2>1, <2>4 DEF Parsed, In
    <3>2. \A y \in today.year .. d.year - 1 : FALSE
      BY <3>1 DEF Date
    <3>3. ~Before(d, today)
      BY <1>3, <2>1, <2>4 DEF IsPast
    <3> QED
      BY <1>1, <2>1, <2>2, <2>4, <3>2, <3>3 DEF Means
  <2> QED
    BY <2>3, <2>4
<1> QED
  BY <1>2, <1>3

\* The two numbers and the year give one date, or none.
LEMMA MeansDetermined ==
    ASSUME NEW x \in Numbers, NEW d \in Date, NEW y \in Nat,
           d.day = x.n1, d.month = x.n2, d.year = y
    PROVE  d = In(x, y)
BY DEF Date, In

\* Of the dates with the day and month typed only one is meant: _parse_date,
\* when what is typed is a date at all and it does not raise, returns the
\* date that is meant.
LEMMA MeansIsParsed ==
    ASSUME NEW x \in Numbers, NEW today \in Date, ~Raises(x, today),
           IsDate(Parsed(x, today)), NEW d \in Date, Means(x, d, today)
    PROVE  d \in ParseDate(x, today)
<1>1. /\ IsDate(d) /\ d.day = x.n1 /\ d.month = x.n2
      /\ d.year \in Nat /\ today.year \in Nat /\ x.year \in Nat
  BY DEF Means, Date, Numbers
<1>2. d = In(x, d.year)
  BY <1>1, MeansDetermined
<1>3. CASE x.year # 0
  <2>1. d.year = x.year
    BY <1>3 DEF Means
  <2>2. d = Parsed(x, today) /\ ~IsPast(x, today)
    BY <1>2, <1>3, <2>1 DEF Parsed, IsPast
  <2> QED
    BY <2>2, <1>1 DEF ParseDate
<1>4. CASE x.year = 0
  <2>1. /\ ~Before(d, today)
        /\ \A y \in today.year .. d.year - 1 :
               ~IsDate(In(x, y)) \/ Before(In(x, y), today)
    BY <1>4 DEF Means
  <2>2. Parsed(x, today) = In(x, today.year)
    BY <1>4 DEF Parsed
  <2>3. d.year >= today.year
    BY <1>1, <2>1 DEF Before
  <2>4. CASE IsPast(x, today)
    <3>1. d.year # today.year
      BY <1>2, <2>1, <2>2, <2>4 DEF IsPast
    <3>2. IsDate(In(x, today.year + 1)) /\ ~Before(In(x, today.year + 1), today)
      BY <2>4, PastIsPast DEF Raises
    <3>3. today.year + 1 \notin today.year .. d.year - 1
      BY <2>1, <3>2
    <3>4. d.year = today.year + 1
      BY <1>1, <2>3, <3>1, <3>3
    <3>5. d = In(x, today.year + 1)
      BY <1>2, <3>4
    <3> QED
      BY <2>4, <3>5 DEF ParseDate
  <2>5. CASE ~IsPast(x, today)
    <3>1. IsDate(In(x, today.year)) /\ ~Before(In(x, today.year), today)
      BY <1>4, <2>2, <2>5 DEF IsPast
    <3>2. today.year \notin today.year .. d.year - 1
      BY <2>1, <3>1
    <3>3. d.year = today.year
      BY <1>1, <2>3, <3>2
    <3>4. d = Parsed(x, today)
      BY <1>2, <2>2, <3>3
    <3> QED
      BY <2>5, <3>4, <1>1 DEF ParseDate
  <2> QED
    BY <2>4, <2>5
<1> QED
  BY <1>3, <1>4

\* _parse_date neither invents a date nor misses one.  Only what is no date
\* in the year it takes first (29.02 without a year) is refused although a
\* later year has it.
THEOREM ParseDateExact ==
    ASSUME NEW x \in Numbers, NEW today \in Date, ~Raises(x, today)
    PROVE  ParseDate(x, today) = IF IsDate(Parsed(x, today))
                                 THEN {d \in Date : Means(x, d, today)}
                                 ELSE {}
<1>1. CASE IsDate(Parsed(x, today))
  <2>1. \A d \in ParseDate(x, today) : d \in Date /\ Means(x, d, today)
    BY ParseDateMeans
  <2>2. \A d \in Date : Means(x, d, today) => d \in ParseDate(x, today)
    BY <1>1, MeansIsParsed
  <2> QED
    BY <1>1, <2>1, <2>2
<1>2. CASE ~IsDate(Parsed(x, today))
  BY <1>2 DEF ParseDate
<1> QED
  BY <1>1, <1>2

\* A period parse_date_range returns, without raising, is in order, and both
\* its dates are meant.
LEMMA PeriodMeans ==
    ASSUME NEW t \in Text, ~Unparsable(t, Today), NEW r \in ParseDateRange(t, Today)
    PROVE  /\ r.date_from \in Date /\ r.date_to \in Date
           /\ ~Before(r.date_to, r.date_from)
           /\ Means(t.first, r.date_from, Today)
           /\ Means(IF t.kind = "pair" THEN t.second ELSE t.first, r.date_to, Today)
<1>0. Today \in Date /\ t.first \in Numbers /\ t.second \in Numbers
  BY TodayAssumption DEF Text
<1>1. CASE t.kind = "single" /\ ~t.colon
  <2>1. PICK d \in ParseDate(t.first, Today) : r = Period(d, d)
    BY <1>1 DEF ParseDateRange
  <2>2. ~Raises(t.first, Today)
    BY <1>1 DEF Unparsable, Dates
  <2>3. d \in Date /\ Means(t.first, d, Today)
    BY <1>0, <2>2, ParseDateMeans
  <2>4. ~Before(d, d)
    BY <2>3 DEF Before, Date
  <2> QED
    BY <1>1, <2>1, <2>3, <2>4 DEF Period
<1>2. CASE t.kind = "pair" /\ ~t.colon
  <2>1. PICK d \in ParseDate(t.first, Today), e \in ParseDate(t.second, Today) :
            r = Period(d, e) /\ ~Before(r.date_to, r.date_from)
    BY <1>2 DEF ParseDateRange
  <2>2. ~Raises(t.first, Today) /\ ~Raises(t.second, Today)
    BY <1>2 DEF Unparsable, Dates
  <2>3. d \in Date /\ Means(t.first, d, Today) /\ e \in Date /\ Means(t.second, e, Today)
    BY <1>0, <2>2, ParseDateMeans
  <2> QED
    BY <1>2, <2>1, <2>3 DEF Period
<1>3. CASE ~(t.kind \in {"single", "pair"} /\ ~t.colon)
  BY <1>3 DEF ParseDateRange
<1> QED
  BY <1>1, <1>2, <1>3

\* The numbers parse_date_range takes as the last day of a text.
Last(t) == IF t.kind = "pair" THEN t.second ELSE t.first

\* The periods an administrator may mean by a text.
Periods(t, today) ==
    {r \in [date_from : Date, date_to : Date] :
         /\ Means(t.first, r.date_from, today)
         /\ Means(Last(t), r.date_to, today)
         /\ ~Before(r.date_to, r.date_from)}

\* parse_date_range reads the one period that is meant by a text of dates, and
\* refuses it only when what is meant is out of order.
THEOREM ParseDateRangeExact ==
    ASSUME NEW t \in Text, t.kind \in {"single", "pair"}, ~t.colon,
           NEW today \in Date, ~Unparsable(t, today),
           \A x \in Dates(t) : IsDate(Parsed(x, today))
    PROVE  ParseDateRange(t, today) = Periods(t, today)
<1>1. /\ t.first \in Numbers /\ t.second \in Numbers
      /\ t.first \in Dates(t) /\ Last(t) \in Dates(t) /\ Last(t) \in Numbers
  BY DEF Text, Dates, Last
<1>2. /\ ~Raises(t.first, today) /\ IsDate(Parsed(t.first, today))
      /\ ~Raises(Last(t), today) /\ IsDate(Parsed(Last(t), today))
  BY <1>1 DEF Unparsable
<1>3. /\ ParseDate(t.first, today) = {d \in Date : Means(t.first, d, today)}
      /\ ParseDate(Last(t), today) = {d \in Date : Means(Last(t), d, today)}
  BY <1>1, <1>2, ParseDateExact
<1>4. CASE t.kind = "pair"
  <2>1. ParseDateRange(t, today) =
            {r \in {Period(d, e) : d \in ParseDate(t.first, today),
                                   e \in ParseDate(Last(t), today)} :
                 ~Before(r.date_to, r.date_from)}
    BY <1>4 DEF ParseDateRange, Last
  <2>2. ASSUME NEW r
        PROVE  r \in ParseDateRange(t, today) <=> r \in Periods(t, today)
    <3>1. ASSUME r \in ParseDateRange(t, today)
          PROVE  r \in Periods(t, today)
      <4>1. PICK d \in ParseDate(t.first, today), e \in ParseDate(Last(t), today) :
                r = Period(d, e) /\ ~Before(r.date_to, r.date_from)
        BY <2>1, <3>1
      <4>2. d \in Date /\ e \in Date /\ r.date_from = d /\ r.date_to = e
            /\ r \in [date_from : Date, date_to : Date]
        BY <1>3, <4>1 DEF Period
      <4> QED
        BY <1>3, <4>1, <4>2 DEF Periods
    <3>2. ASSUME r \in Periods(t, today)
          PROVE  r \in ParseDateRange(t, today)
      <4>1. r \in [date_from : Date, date_to : Date]
            /\ ~Before(r.date_to, r.date_from)
        BY <3>2 DEF Periods
      <4>2. r.date_from \in ParseDate(t.first, today)
            /\ r.date_to \in ParseDate(Last(t), today)
        BY <1>3, <3>2, <4>1 DEF Periods
      <4>3. r = Period(r.date_from, r.date_to)
        BY <4>1 DEF Period
      <4> QED
        BY <2>1, <4>1, <4>2, <4>3
    <3> QED
      BY <3>1, <3>2
  <2> QED
    BY <2>2
<1>5. CASE t.kind = "single"
  <2>1. ParseDateRange(t, today) = {Period(d, d) : d \in ParseDate(t.first, today)}
        /\ Last(t) = t.first
    BY <1>5 DEF ParseDateRange, Last
  <2>2. \A d, e \in ParseDate(t.first, today) : d = e
    BY DEF ParseDate
  <2>3. \A d \in Date : ~Before(d, d)
    BY DEF Before, Date
  <2>4. ASSUME NEW r
        PROVE  r \in ParseDateRange(t, today) <=> r \in Periods(t, today)
    <3>1. ASSUME r \in ParseDateRange(t, today)
          PROVE  r \in Periods(t, today)
      <4>1. PICK d \in ParseDate(t.first, today) : r = Period(d, d)
        BY <2>1, <3>1
      <4> QED
        BY <1>3, <2>1, <2>3, <4>1 DEF Periods, Period
    <3>2. ASSUME r \in Periods(t, today)
          PROVE  r \in ParseDateRange(t, today)
      <4>1. r \in [date_from : Date, date_to : Date]
            /\ r.date_from \in ParseDate(t.first, today)
            /\ r.date_to \in ParseDate(t.first, today)
        BY <1>3, <2>1, <3>2 DEF Periods
      <4>2. r.date_from = r.date_to
        BY <2>2, <4>1
      <4>3. r = Period(r.date_from, r.date_from)
        BY <4>1, <4>2 DEF Period
      <4> QED
        BY <2>1, <4>1, <4>3
    <3> QED
      BY <3>1, <3>2
  <2> QED
    BY <2>4
<1> QED
  BY <1>4, <1>5

-----------------------------------------------------------------------------
(* Steps                                                                   *)

\* What an update carries.
LEMMA UpdateFields ==
    ASSUME NEW u \in Update
    PROVE  /\ u.kind \in {"mday", "tadd", "menu", "text"}
           /\ u.kind \in {"mday", "tadd"} => u.master \in Masters
           /\ u.kind = "mday" => u.weekday \in Weekdays
           /\ u.kind = "tadd" => u.weekday = Unset
           /\ u.kind = "text" => u.text \in Text
BY DEF Update, Button, Typed

\* The row a session works on, and the hours it writes there.
LEMMA DayAndHours ==
    ASSUME Stage, NEW s \in Sessions,
           pc[s] \in {"select_row", "flush", "delete_day", "commit"}
    PROVE  /\ Day(s) \in Days
           /\ HoursOf(update[s].text) \in Hours
           /\ Typing(s) => HoursOf(update[s].text).start < HoursOf(update[s].text).end
<1>1. place[s] \in Asked /\ place[s].state = "day_hours"
  BY DEF Stage
<1>2. Day(s) \in Days
  BY <1>1 DEF Asked, Day, Days
<1>3. update[s].text \in Text
  BY UpdateFields DEF Stage, InFlight
<1>4. Typing(s) => IsHours(update[s].text)
  BY DEF Stage, Typing
<1> QED
  BY <1>2, <1>3, <1>4, HoursAreHours

\* The markers are no columns and no rows.
LEMMA Marks ==
    /\ Keep \notin Nat /\ Delete # Keep
    /\ \A w \in [start : Nat \cup {Keep}, end : Nat \cup {Keep}] :
           w # Keep /\ w # Delete
BY MarkersAssumption

\* An update ends, and what it has not committed is rolled back.
LEMMA CloseStep ==
    ASSUME InputInv, NEW s \in Sessions, Close(s),
           UNCHANGED <<tables, redis, asked, stale>>
    PROVE  InputInv'
<1> USE DEF InputInv, Close, tables, redis
<1>1. TypeOK'
  BY DEF TypeOK, Write
<1>2. Stage'
  BY DEF TypeOK, Stage, InFlight
<1>3. Locked'
  BY DEF TypeOK, Locked, RowLocked, Typing, Day
<1>4. HoursInOrder'
  BY DEF TypeOK, HoursInOrder
<1>5. OneAtATime'
  BY DEF TypeOK, OneAtATime, Handled
<1>6. Agreed'
  BY DEF TypeOK, Agreed, Holds, StateOf, Stage, InFlight
<1>7. Meant'
  BY DEF TypeOK, Meant, InFlight, Stage
<1> QED
  BY <1>1, <1>2, <1>3, <1>4, <1>5, <1>6, <1>7

LEMMA RestartStep ==
    ASSUME InputInv, BotRestart
    PROVE  InputInv'
<1> USE DEF InputInv, BotRestart, tables, redis
<1>1. TypeOK'
  BY DEF TypeOK, Write
<1>2. Stage'
  BY DEF TypeOK, Stage, InFlight
<1>3. Locked'
  BY DEF TypeOK, Locked, RowLocked, Typing, Day
<1>4. HoursInOrder'
  BY DEF TypeOK, HoursInOrder
<1>5. OneAtATime'
  BY DEF TypeOK, OneAtATime, Handled
<1>6. Agreed'
  BY DEF TypeOK, Agreed, Holds, StateOf, Stage, InFlight
<1>7. Meant'
  BY DEF TypeOK, Meant, InFlight, Stage
<1> QED
  BY <1>1, <1>2, <1>3, <1>4, <1>5, <1>6, <1>7

\* A text that arrives alone is the answer to the question on the screen.
LEMMA ArriveStep ==
    ASSUME InputInv, NEW s \in Sessions, NEW a \in Admins, NEW u \in Updates[a],
           Arrive(s, a, u)
    PROVE  InputInv'
<1> USE DEF InputInv, Arrive, GoTo, tables, redis, scratch
<1>0. u \in Update
  BY UpdatesAssumption
<1>1. TypeOK'
  BY <1>0 DEF TypeOK
<1>2. Stage'
  BY <1>0 DEF TypeOK, Stage, InFlight
<1>3. Locked'
  BY DEF TypeOK, Locked, RowLocked, Typing, Day
<1>4. HoursInOrder'
  BY DEF TypeOK, HoursInOrder
<1>5. OneAtATime'
  BY DEF TypeOK, OneAtATime, Handled
<1>6. Agreed'
  BY DEF TypeOK, Agreed, Holds, StateOf, Stage, InFlight
<1>7. Meant'
  <2> DEFINE others == {q \in Sessions : InFlight(q) /\ by[q] = a}
  <2>1. ASSUME NEW q \in Sessions \ {s}, meant'[q] # Unset
        PROVE  /\ q \notin others /\ meant'[q] = meant[q]
               /\ InFlight(q) /\ by[q] # a
    BY <2>1 DEF TypeOK, Meant
  <2>2. ASSUME meant'[s] # Unset
        PROVE  u.kind = "text" /\ others = {} /\ meant'[s] = asked[a] /\ place[s] = Unset
    <3>1. s \notin others /\ meant[s] = Unset
      BY DEF InFlight, Meant
    <3> QED
      BY <2>2, <3>1 DEF TypeOK, Stage
  <2>3. CASE meant'[s] # Unset
    <3>1. raw_state'[s] = meant'[s].state
      BY <2>2, <2>3 DEF TypeOK, Agreed, Holds
    <3> QED
      BY <2>1, <2>2, <2>3, <3>1 DEF TypeOK, Meant, InFlight
  <2> QED
    BY <2>1, <2>3 DEF TypeOK, Meant, InFlight
<1> QED
  BY <1>1, <1>2, <1>3, <1>4, <1>5, <1>6, <1>7

\* Redis changes under the hand of the only handler of the chat.
LEMMA SetStateStep ==
    ASSUME InputInv, NEW s \in Sessions, SetState(s)
    PROVE  InputInv'
<1> USE DEF InputInv, SetState, Turn, GoTo, tables, session, scratch
<1>0. /\ by[s] \in Admins /\ InFlight(s) /\ ~Handled(s)
      /\ \A q \in Sessions \ {s} : Handled(q) => by[q] # by[s]
  BY DEF Stage, InFlight, Handled
<1>1. TypeOK'
  BY DEF TypeOK
<1>2. Stage'
  BY DEF TypeOK, Stage, InFlight
<1>3. Locked'
  BY DEF TypeOK, Locked, RowLocked, Typing, Day
<1>4. HoursInOrder'
  BY DEF TypeOK, HoursInOrder
<1>5. OneAtATime'
  BY DEF TypeOK, OneAtATime, Handled
<1>6. Agreed'
  <2>1. /\ asked' = [asked EXCEPT ![by[s]] = Unset]
        /\ state' = [state EXCEPT ![by[s]] = StateOf(update[s])]
    BY DEF StateOf
  <2>2. \A q \in Sessions \ {s} :
            pc[q] \in {"update_data", "prompt"} => by[q] # by[s]
    BY <1>0 DEF Handled
  <2> HIDE DEF SetState
  <2>3. /\ pc' = [pc EXCEPT ![s] = "update_data"]
        /\ UNCHANGED <<data, by, update>>
    BY DEF SetState
  <2>4. \A a \in Admins : asked'[a] # Unset => Holds(a, asked[a])' /\ asked'[a] = asked[a]
    BY <1>0, <2>1, <2>3 DEF TypeOK, Agreed, Holds
  <2>5. \A q \in Sessions :
            pc'[q] \in {"update_data", "prompt"} => by[q] \in Admins
    BY <1>0, <2>3 DEF TypeOK, Stage, InFlight
  <2> QED
    BY <1>0, <2>1, <2>2, <2>3, <2>4, <2>5 DEF TypeOK, Agreed, Holds, StateOf
<1>7. Meant'
  BY DEF TypeOK, Meant, InFlight, Stage
<1> QED
  BY <1>1, <1>2, <1>3, <1>4, <1>5, <1>6, <1>7

LEMMA UpdateDataStep ==
    ASSUME InputInv, NEW s \in Sessions, UpdateData(s)
    PROVE  InputInv'
<1> USE DEF InputInv, UpdateData, GoTo, tables, session, scratch
<1>0. /\ by[s] \in Admins /\ update[s] \in Update /\ Handled(s)
      /\ \A q \in Sessions \ {s} : Handled(q) => by[q] # by[s]
      /\ update[s].kind \in {"mday", "tadd"}
  BY DEF Stage, InFlight, Handled, OneAtATime
<1>1. TypeOK'
  BY <1>0, UpdateFields DEF TypeOK
<1>2. Stage'
  BY DEF TypeOK, Stage, InFlight
<1>3. Locked'
  BY DEF TypeOK, Locked, RowLocked, Typing, Day
<1>4. HoursInOrder'
  BY DEF TypeOK, HoursInOrder
<1>5. OneAtATime'
  BY DEF TypeOK, OneAtATime, Handled
<1>6. Agreed'
  <2>1. asked[by[s]] = Unset
    BY DEF Agreed
  <2> QED
    BY <1>0, <2>1 DEF TypeOK, Agreed, Holds, StateOf, Stage, InFlight, Handled
<1>7. Meant'
  BY DEF TypeOK, Meant, InFlight, Stage
<1> QED
  BY <1>1, <1>2, <1>3, <1>4, <1>5, <1>6, <1>7

LEMMA PromptStep ==
    ASSUME InputInv, NEW s \in Sessions, Prompt(s)
    PROVE  InputInv'
<1> USE DEF InputInv, Prompt, Close, tables, redis
<1>0. /\ by[s] \in Admins /\ update[s] \in Update
      /\ update[s].kind \in {"mday", "tadd"}
  BY DEF Stage, InFlight
<1>1. TypeOK'
  BY <1>0, UpdateFields DEF TypeOK, Write, Asked
<1>2. Stage'
  BY DEF TypeOK, Stage, InFlight
<1>3. Locked'
  BY DEF TypeOK, Locked, RowLocked, Typing, Day
<1>4. HoursInOrder'
  BY DEF TypeOK, HoursInOrder
<1>5. OneAtATime'
  BY DEF TypeOK, OneAtATime, Handled
<1>6. Agreed'
  <2> DEFINE p == [state |-> StateOf(update[s]), master |-> update[s].master,
                   weekday |-> update[s].weekday]
  <2>1. /\ asked' = [asked EXCEPT ![by[s]] = p]
        /\ UNCHANGED <<state, data>>
    BY DEF StateOf
  <2>2. Holds(by[s], p)
    BY <1>0 DEF Agreed, Holds, StateOf
  <2>3. ASSUME NEW q \in Sessions, pc'[q] \in {"update_data", "prompt"}
        PROVE  /\ q # s /\ by[q] # by[s] /\ pc[q] = pc'[q] /\ by[q] \in Admins
               /\ by'[q] = by[q] /\ update'[q] = update[q]
    BY <2>3 DEF TypeOK, Handled, Stage, InFlight, OneAtATime
  <2> HIDE DEF Prompt, p
  <2>4. \A a \in Admins : asked'[a] # Unset => Holds(a, asked[a])'
    BY <1>0, <2>1, <2>2 DEF TypeOK, Agreed, Holds
  <2>5. ASSUME NEW q \in Sessions, pc'[q] \in {"update_data", "prompt"}
        PROVE  asked'[by'[q]] = Unset /\ state'[by'[q]] = StateOf(update'[q])
    BY <1>0, <2>1, <2>3, <2>5 DEF TypeOK, Agreed
  <2>6. ASSUME NEW q \in Sessions, pc'[q] = "prompt"
        PROVE  /\ data'[by'[q]].master = update'[q].master
               /\ update'[q].kind = "mday" => data'[by'[q]].weekday = update'[q].weekday
    BY <2>1, <2>3, <2>6 DEF Agreed
  <2> QED
    BY <2>4, <2>5, <2>6 DEF Agreed, StateOf
<1>7. Meant'
  BY DEF TypeOK, Meant, InFlight, Stage
<1> QED
  BY <1>1, <1>2, <1>3, <1>4, <1>5, <1>6, <1>7

LEMMA ClearStep ==
    ASSUME InputInv, NEW s \in Sessions, Clear(s)
    PROVE  InputInv'
<1> USE DEF InputInv, Clear, Turn, Close, tables
<1>0. /\ by[s] \in Admins
      /\ \A q \in Sessions \ {s} : Handled(q) => by[q] # by[s]
  BY DEF Stage, InFlight, Handled, OneAtATime
<1>1. TypeOK'
  BY <1>0 DEF TypeOK, Write, NoData
<1>2. Stage'
  BY DEF TypeOK, Stage, InFlight
<1>3. Locked'
  BY DEF TypeOK, Locked, RowLocked, Typing, Day
<1>4. HoursInOrder'
  BY DEF TypeOK, HoursInOrder
<1>5. OneAtATime'
  BY DEF TypeOK, OneAtATime, Handled
<1>6. Agreed'
  <2>1. ASSUME NEW q \in Sessions, pc'[q] \in {"update_data", "prompt"}
        PROVE  q # s /\ by[q] # by[s] /\ pc[q] = pc'[q] /\ by[q] \in Admins
    BY <1>0, <2>1 DEF TypeOK, Handled, Stage, InFlight
  <2>2. \A q \in Sessions : q # s => by'[q] = by[q] /\ update'[q] = update[q]
    BY DEF TypeOK
  <2>3. \A a \in Admins : a # by[s] => state'[a] = state[a] /\ data'[a] = data[a]
                                          /\ asked'[a] = asked[a]
    BY <1>0 DEF TypeOK
  <2>4. asked'[by[s]] = Unset
    BY <1>0 DEF TypeOK
  <2> HIDE DEF Clear
  <2>5. \A a \in Admins : asked'[a] # Unset => Holds(a, asked[a])'
    BY <2>3, <2>4 DEF Agreed, Holds
  <2> QED
    BY <2>1, <2>2, <2>3, <2>5 DEF Agreed, StateOf
<1>7. Meant'
  BY DEF TypeOK, Meant, InFlight, Stage
<1> QED
  BY <1>1, <1>2, <1>3, <1>4, <1>5, <1>6, <1>7

\* The place is read from the data of the chat.
LEMMA ReadHoursStep ==
    ASSUME InputInv, NEW s \in Sessions, ReadHours(s)
    PROVE  InputInv'
<1> USE DEF InputInv, tables, redis, session
<1> DEFINE p == [state |-> "day_hours", master |-> data[by[s]].master,
                 weekday |-> data[by[s]].weekday]
<1>a. /\ pc[s] = "filter" /\ by[s] \in Admins
      /\ update[s] \in Update /\ update[s].kind = "text"
      /\ raw_state[s] = "day_hours"
      /\ \A q \in Sessions : Handled(q) => by[q] # by[s]
      /\ place' = [place EXCEPT ![s] = p]
      /\ UNCHANGED <<tables, redis, session, loaded, write, asked, stale>>
  BY DEF ReadHours, ReadPlace, ForHours, IsText, Turn, Stage, InFlight
<1>b. PICK step \in {"delete_day", "select_row"} :
          /\ pc' = [pc EXCEPT ![s] = step]
          /\ step = "delete_day" => IsDayOff(update[s].text)
          /\ step = "select_row" => ~IsDayOff(update[s].text) /\ IsHours(update[s].text)
  BY DEF ReadHours, GoTo
<1>c. p \in Asked /\ p.state = "day_hours"
  BY <1>a DEF ReadHours, TypeOK, Asked
<1>1. TypeOK'
  BY <1>a, <1>b, <1>c DEF TypeOK
<1>2. Stage'
  BY <1>a, <1>b, <1>c DEF TypeOK, Stage, InFlight
<1>3. Locked'
  <2>1. \A q \in Sessions : write[q] # Keep => q # s /\ Day(q)' = Day(q)
    BY <1>a DEF TypeOK, Locked, RowLocked, Day
  <2>2. \A q \in Sessions : pc'[q] = "commit" => q # s /\ pc[q] = "commit"
    BY <1>b DEF TypeOK
  <2>3. \A q \in Sessions : q # s => pc'[q] = pc[q] /\ Typing(q)' = Typing(q)
    BY <1>a, <1>b DEF TypeOK, Typing
  <2>4. ASSUME NEW q \in Sessions
        PROVE  RowLocked(q)'
    <3>1. CASE write[q] # Keep
      <4>1. /\ pc'[q] = pc[q] /\ Day(q)' = Day(q) /\ Typing(q)' = Typing(q)
        BY <2>1, <2>3, <3>1
      <4>2. RowLocked(q)
        BY DEF Locked
      <4> QED
        BY <1>a, <4>1, <4>2 DEF RowLocked
    <3>2. CASE write[q] = Keep
      BY <1>a, <3>2 DEF RowLocked
    <3> QED
      BY <3>1, <3>2
  <2>5. ASSUME NEW q \in Sessions, NEW r \in Sessions, q # r,
               write'[q] # Keep, write'[r] # Keep
        PROVE  Day(q)' # Day(r)'
    BY <1>a, <2>1, <2>5 DEF Locked
  <2> QED
    BY <2>4, <2>5 DEF Locked
<1>4. HoursInOrder'
  BY <1>a DEF HoursInOrder
<1>5. OneAtATime'
  BY <1>a, <1>b DEF TypeOK, OneAtATime, Handled
<1>6. Agreed'
  BY <1>a, <1>b DEF TypeOK, Agreed, Holds, StateOf
<1>7. Meant'
  <2>1. ASSUME meant[s] # Unset
        PROVE  p = meant[s]
    <3>1. asked[by[s]] = meant[s] /\ meant[s].state = "day_hours" /\ meant[s] \in Asked
      BY <1>a, <2>1 DEF TypeOK, Meant
    <3>2. Holds(by[s], meant[s])
      BY <1>a, <2>1, <3>1 DEF Agreed
    <3>3. /\ meant[s].master = p.master /\ meant[s].weekday = p.weekday
          /\ meant[s].state = p.state
      BY <3>1, <3>2 DEF Holds, Asked
    <3> QED
      BY <1>c, <3>1, <3>3 DEF Asked
  <2> HIDE DEF p
  <2> QED
    BY <1>a, <1>b, <2>1 DEF TypeOK, Meant, InFlight
<1> QED
  BY <1>1, <1>2, <1>3, <1>4, <1>5, <1>6, <1>7

LEMMA ReadTimeOffStep ==
    ASSUME InputInv, NEW s \in Sessions, ReadTimeOff(s)
    PROVE  InputInv'
<1> USE DEF InputInv, tables, redis, session
<1> DEFINE p == [state |-> "time_off", master |-> data[by[s]].master,
                 weekday |-> Unset]
<1>a. /\ pc[s] = "filter" /\ by[s] \in Admins
      /\ update[s] \in Update /\ update[s].kind = "text"
      /\ raw_state[s] = "time_off"
      /\ \A q \in Sessions : Handled(q) => by[q] # by[s]
      /\ place' = [place EXCEPT ![s] = p]
      /\ UNCHANGED <<tables, redis, session, loaded, write, asked, stale>>
  BY DEF ReadTimeOff, ReadPlace, ForTimeOff, IsText, Turn, Stage, InFlight
<1>b. PICK step \in {"insert"} :
          /\ pc' = [pc EXCEPT ![s] = step]
          /\ ~Unparsable(update[s].text, Today)
  BY DEF ReadTimeOff, GoTo
<1>c. p \in Asked /\ p.state = "time_off"
  BY <1>a DEF ReadTimeOff, TypeOK, Asked
<1>1. TypeOK'
  BY <1>a, <1>b, <1>c DEF TypeOK
<1>2. Stage'
  BY <1>a, <1>b, <1>c DEF TypeOK, Stage, InFlight
<1>3. Locked'
  <2>1. \A q \in Sessions : write[q] # Keep => q # s /\ Day(q)' = Day(q)
    BY <1>a DEF TypeOK, Locked, RowLocked, Day
  <2>2. \A q \in Sessions : pc'[q] = "commit" => q # s /\ pc[q] = "commit"
    BY <1>b DEF TypeOK
  <2>3. \A q \in Sessions : q # s => pc'[q] = pc[q] /\ Typing(q)' = Typing(q)
    BY <1>a, <1>b DEF TypeOK, Typing
  <2>4. ASSUME NEW q \in Sessions
        PROVE  RowLocked(q)'
    <3>1. CASE write[q] # Keep
      <4>1. /\ pc'[q] = pc[q] /\ Day(q)' = Day(q) /\ Typing(q)' = Typing(q)
        BY <2>1, <2>3, <3>1
      <4>2. RowLocked(q)
        BY DEF Locked
      <4> QED
        BY <1>a, <4>1, <4>2 DEF RowLocked
    <3>2. CASE write[q] = Keep
      BY <1>a, <3>2 DEF RowLocked
    <3> QED
      BY <3>1, <3>2
  <2>5. ASSUME NEW q \in Sessions, NEW r \in Sessions, q # r,
               write'[q] # Keep, write'[r] # Keep
        PROVE  Day(q)' # Day(r)'
    BY <1>a, <2>1, <2>5 DEF Locked
  <2> QED
    BY <2>4, <2>5 DEF Locked
<1>4. HoursInOrder'
  BY <1>a DEF HoursInOrder
<1>5. OneAtATime'
  BY <1>a, <1>b DEF TypeOK, OneAtATime, Handled
<1>6. Agreed'
  BY <1>a, <1>b DEF TypeOK, Agreed, Holds, StateOf
<1>7. Meant'
  <2>1. ASSUME meant[s] # Unset
        PROVE  p = meant[s]
    <3>1. asked[by[s]] = meant[s] /\ meant[s].state = "time_off" /\ meant[s] \in Asked
      BY <1>a, <2>1 DEF TypeOK, Meant
    <3>2. Holds(by[s], meant[s])
      BY <1>a, <2>1, <3>1 DEF Agreed
    <3>3. /\ meant[s].master = p.master /\ meant[s].weekday = p.weekday
          /\ meant[s].state = p.state
      BY <3>1, <3>2 DEF Holds, Asked
    <3> QED
      BY <1>c, <3>1, <3>3 DEF Asked
  <2> HIDE DEF p
  <2> QED
    BY <1>a, <1>b, <2>1 DEF TypeOK, Meant, InFlight
<1> QED
  BY <1>1, <1>2, <1>3, <1>4, <1>5, <1>6, <1>7

\* The statements of clear_day and set_day, up to the commit.
LEMMA ClearDayStep ==
    ASSUME InputInv, NEW s \in Sessions, ClearDay(s)
    PROVE  InputInv'
<1> USE DEF InputInv, ClearDay, GoTo, tables, redis, session
<1>1. TypeOK'
  BY DEF TypeOK, Write
<1>2. Stage'
  BY DEF TypeOK, Stage, InFlight
<1>3. Locked'
  <2>1. ~Typing(s)
    BY DEF Stage, Typing
  <2>2. /\ \A q \in Sessions : Day(q)' = Day(q) /\ Typing(q)' = Typing(q)
        /\ \A q \in Sessions \ {s} : write'[q] = write[q] /\ pc'[q] = pc[q]
        /\ write[s] = Keep
        /\ pc'[s] = "commit" /\ write'[s] \in {Keep, Delete}
        /\ write'[s] # Keep => RowFree(s)
    BY DEF TypeOK, Day, Typing, Locked, RowLocked
  <2> HIDE DEF ClearDay
  <2>3. UNCHANGED <<week, loaded, outdated, update>>
    BY DEF ClearDay
  <2>4. ASSUME NEW q \in Sessions
        PROVE  RowLocked(q)'
    BY <2>1, <2>2, <2>3 DEF Locked, RowLocked
  <2>5. ASSUME NEW q \in Sessions, NEW r \in Sessions, q # r,
               write'[q] # Keep, write'[r] # Keep
        PROVE  Day(q)' # Day(r)'
    BY <2>2, <2>5 DEF Locked, RowFree
  <2> QED
    BY <2>4, <2>5 DEF Locked
<1>4. HoursInOrder'
  BY DEF TypeOK, HoursInOrder
<1>5. OneAtATime'
  BY DEF TypeOK, OneAtATime, Handled
<1>6. Agreed'
  BY DEF TypeOK, Agreed, Holds, StateOf, Stage, InFlight
<1>7. Meant'
  BY DEF TypeOK, Meant, InFlight, Stage
<1> QED
  BY <1>1, <1>2, <1>3, <1>4, <1>5, <1>6, <1>7

LEMMA SelectRowStep ==
    ASSUME InputInv, NEW s \in Sessions, SelectRow(s)
    PROVE  InputInv'
<1> USE DEF InputInv, SelectRow, GoTo, tables, redis, session
<1>0. Day(s) \in Days /\ HoursOf(update[s].text) \in Hours
  BY DayAndHours
<1>1. TypeOK'
  BY <1>0 DEF TypeOK
<1>2. Stage'
  BY DEF TypeOK, Stage, InFlight
<1>3. Locked'
  BY DEF TypeOK, Locked, RowLocked, Typing, Day
<1>4. HoursInOrder'
  BY DEF TypeOK, HoursInOrder
<1>5. OneAtATime'
  BY DEF TypeOK, OneAtATime, Handled
<1>6. Agreed'
  BY DEF TypeOK, Agreed, Holds, StateOf, Stage, InFlight
<1>7. Meant'
  BY DEF TypeOK, Meant, InFlight, Stage
<1> QED
  BY <1>1, <1>2, <1>3, <1>4, <1>5, <1>6, <1>7

LEMMA InsertRowStep ==
    ASSUME InputInv, NEW s \in Sessions, InsertRow(s)
    PROVE  InputInv'
<1> USE DEF InputInv, InsertRow, GoTo, tables, redis, session
<1>0. Day(s) \in Days /\ HoursOf(update[s].text) \in Hours
  BY DayAndHours
<1>1. TypeOK'
  BY <1>0 DEF TypeOK, Write, Hours
<1>2. Stage'
  BY DEF TypeOK, Stage, InFlight
<1>3. Locked'
  <2>1. Typing(s)
    BY DEF Stage, Typing
  <2> QED
    BY <2>1 DEF TypeOK, Locked, RowLocked, Typing, Day, RowFree
<1>4. HoursInOrder'
  BY DEF TypeOK, HoursInOrder
<1>5. OneAtATime'
  BY DEF TypeOK, OneAtATime, Handled
<1>6. Agreed'
  BY DEF TypeOK, Agreed, Holds, StateOf, Stage, InFlight
<1>7. Meant'
  BY DEF TypeOK, Meant, InFlight, Stage
<1> QED
  BY <1>1, <1>2, <1>3, <1>4, <1>5, <1>6, <1>7

LEMMA UpdateRowStep ==
    ASSUME InputInv, NEW s \in Sessions, UpdateRow(s)
    PROVE  InputInv'
<1> USE DEF InputInv, UpdateRow, GoTo, tables, redis
<1>0. Day(s) \in Days /\ HoursOf(update[s].text) \in Hours
  BY DayAndHours
<1>1. TypeOK'
  BY <1>0 DEF TypeOK, Write, Hours, Changed
<1>2. Stage'
  BY DEF TypeOK, Stage, InFlight
<1>3. Locked'
  <2>1. Typing(s)
    BY DEF Stage, Typing
  <2>2. /\ \A q \in Sessions : Day(q)' = Day(q) /\ Typing(q)' = Typing(q)
        /\ \A q \in Sessions \ {s} :
               /\ write'[q] = write[q] /\ pc'[q] = pc[q]
               /\ q \in outdated' <=> q \in outdated
        /\ pc'[s] = "commit"
        /\ write'[s] = Changed(loaded[s], HoursOf(update[s].text))
        /\ s \notin outdated' => loaded[s] = week[Day(s)]
    BY DEF TypeOK, Day, Typing
  <2>3. RowFree(s) /\ loaded[s] # DayOff /\ week[Day(s)] # DayOff
    BY DEF UpdateRow
  <2> HIDE DEF UpdateRow
  <2>4. UNCHANGED <<week, loaded, update>>
    BY DEF UpdateRow
  <2>5. ASSUME NEW q \in Sessions
        PROVE  RowLocked(q)'
    <3>1. CASE q = s
      BY <2>1, <2>2, <2>3, <2>4, <3>1 DEF RowLocked
    <3>2. CASE q # s
      <4>1. RowLocked(q)
        BY DEF Locked
      <4> QED
        BY <2>2, <2>4, <3>2, <4>1 DEF RowLocked
    <3> QED
      BY <3>1, <3>2
  <2>6. ASSUME NEW q \in Sessions, NEW r \in Sessions, q # r,
               write'[q] # Keep, write'[r] # Keep
        PROVE  Day(q)' # Day(r)'
    BY <2>2, <2>3, <2>6 DEF Locked, RowFree
  <2> QED
    BY <2>5, <2>6 DEF Locked
<1>4. HoursInOrder'
  BY DEF TypeOK, HoursInOrder
<1>5. OneAtATime'
  BY DEF TypeOK, OneAtATime, Handled
<1>6. Agreed'
  BY DEF TypeOK, Agreed, Holds, StateOf, Stage, InFlight
<1>7. Meant'
  BY DEF TypeOK, Meant, InFlight, Stage
<1> QED
  BY <1>1, <1>2, <1>3, <1>4, <1>5, <1>6, <1>7

LEMMA NothingToFlushStep ==
    ASSUME InputInv, NEW s \in Sessions, NothingToFlush(s)
    PROVE  InputInv'
<1> USE DEF InputInv, NothingToFlush, GoTo, tables, redis, session, scratch
<1>1. TypeOK'
  BY DEF TypeOK
<1>2. Stage'
  BY DEF TypeOK, Stage, InFlight
<1>3. Locked'
  BY DEF TypeOK, Locked, RowLocked, Typing, Day
<1>4. HoursInOrder'
  BY DEF TypeOK, HoursInOrder
<1>5. OneAtATime'
  BY DEF TypeOK, OneAtATime, Handled
<1>6. Agreed'
  BY DEF TypeOK, Agreed, Holds, StateOf, Stage, InFlight
<1>7. Meant'
  BY DEF TypeOK, Meant, InFlight, Stage
<1> QED
  BY <1>1, <1>2, <1>3, <1>4, <1>5, <1>6, <1>7

\* What a commit makes of the row: what was typed, if the row was locked fresh.
LEMMA CommittedRow ==
    ASSUME InputInv, NEW s \in Sessions, pc[s] = "commit"
    PROVE  /\ Written(week[Day(s)], write[s]) \in Hours \cup {DayOff}
           /\ ~Typing(s) /\ write[s] # Keep => Written(week[Day(s)], write[s]) = DayOff
           /\ Typing(s) /\ write[s] # Keep /\ s \notin outdated =>
                  Written(week[Day(s)], write[s]) = HoursOf(update[s].text)
<1> DEFINE h == HoursOf(update[s].text)
           row == week[Day(s)]
<1>1. Day(s) \in Days /\ h \in Hours
  BY DayAndHours DEF InputInv
<1>2. row \in Hours \cup {DayOff} /\ loaded[s] \in Hours \cup {DayOff}
  BY <1>1 DEF InputInv, TypeOK
<1>3. Keep # Delete /\ h # Keep /\ h # Delete
  BY <1>1, MarkersAssumption DEF Hours
<1>4. CASE write[s] = Keep
  BY <1>2, <1>4 DEF Written
<1>5. CASE ~Typing(s) /\ write[s] # Keep
  <2>1. write[s] = Delete
    BY <1>5 DEF InputInv, Locked, RowLocked
  <2> QED
    BY <1>3, <1>5, <2>1 DEF Written
<1>6. CASE Typing(s) /\ write[s] # Keep /\ loaded[s] = DayOff
  <2>1. write[s] = h
    BY <1>6 DEF InputInv, Locked, RowLocked
  <2>2. h.start # Keep /\ h.end # Keep
    BY <1>1, MarkersAssumption DEF Hours
  <2>3. Written(row, h) = [start |-> h.start, end |-> h.end]
    BY <1>3, <2>2 DEF Written
  <2> QED
    BY <1>1, <1>6, <2>1, <2>3 DEF Hours
<1>7. CASE Typing(s) /\ write[s] # Keep /\ loaded[s] # DayOff
  <2> DEFINE w == Changed(loaded[s], h)
  <2>1. /\ write[s] = w /\ row \in Hours /\ loaded[s] \in Hours
        /\ s \notin outdated => row = loaded[s]
    BY <1>2, <1>7 DEF InputInv, Locked, RowLocked
  <2>2. /\ w.start = IF loaded[s].start = h.start THEN Keep ELSE h.start
        /\ w.end = IF loaded[s].end = h.end THEN Keep ELSE h.end
        /\ w # Keep /\ w # Delete
    BY <1>1, <1>7, <2>1, MarkersAssumption DEF Changed, Hours
  <2> HIDE DEF w
  <2>3. Written(row, w) = [start |-> IF w.start = Keep THEN row.start ELSE w.start,
                           end   |-> IF w.end = Keep THEN row.end ELSE w.end]
    BY <2>2 DEF Written
  <2>4. h.start # Keep /\ h.end # Keep
    BY <1>1, MarkersAssumption DEF Hours
  <2>5. Written(row, w) \in Hours
    BY <1>1, <2>1, <2>2, <2>3, <2>4 DEF Hours
  <2>6. s \notin outdated => Written(row, w) = h
    BY <1>1, <2>1, <2>2, <2>3, <2>4 DEF Hours
  <2> QED
    BY <1>7, <2>1, <2>5, <2>6
<1> QED
  BY <1>4, <1>5, <1>6, <1>7

\* The row, locked since the write, becomes what was typed.
LEMMA CommitStep ==
    ASSUME InputInv, NEW s \in Sessions, Commit(s)
    PROVE  InputInv'
<1> USE DEF InputInv, Commit, GoTo, redis, session
<1>0. Day(s) \in Days /\ HoursOf(update[s].text) \in Hours
  BY DayAndHours
<1>8. Written(week[Day(s)], write[s]) \in Hours \cup {DayOff}
  BY CommittedRow
<1>9. gone' \subseteq Sessions
  BY DEF TypeOK, Holders
<1>1. TypeOK'
  BY <1>0, <1>8, <1>9 DEF TypeOK, Write
<1>2. Stage'
  BY DEF TypeOK, Stage, InFlight
<1>3. Locked'
  <2>1. \A q \in Sessions \ {s} : write[q] # Keep /\ write[s] # Keep => Day(q) # Day(s)
    BY DEF Locked
  <2>2. \A k \in Days : k # Day(s) => week'[k] = week[k]
    BY <1>0 DEF TypeOK
  <2>3. write[s] = Keep => week'[Day(s)] = week[Day(s)]
    <3>1. \A old : Written(old, Keep) = old
      BY Marks DEF Written
    <3> QED
      BY <1>0, <3>1 DEF TypeOK
  <2>7. \A q \in Sessions \ {s} : write[q] # Keep => week'[Day(q)] = week[Day(q)]
    <3>1. ASSUME NEW q \in Sessions \ {s}, write[q] # Keep
          PROVE  week'[Day(q)] = week[Day(q)]
      <4>1. pc[q] = "commit"
        BY <3>1 DEF Locked, RowLocked
      <4>2. Day(q) \in Days
        BY <4>1, DayAndHours
      <4> QED
        BY <2>1, <2>2, <2>3, <3>1, <4>2
    <3> QED
      BY <3>1
  <2>4. /\ \A q \in Sessions : Day(q)' = Day(q) /\ Typing(q)' = Typing(q)
        /\ \A q \in Sessions \ {s} : pc'[q] = pc[q] /\ write'[q] = write[q]
    BY DEF TypeOK, Day, Typing
  <2>5. pc'[s] # "commit" /\ write'[s] = Keep
    BY DEF TypeOK
  <2> HIDE DEF Commit
  <2>6. UNCHANGED <<loaded, outdated, update>>
    BY DEF Commit
  <2>8. ASSUME NEW q \in Sessions
        PROVE  RowLocked(q)'
    <3>1. CASE q = s
      BY <2>5, <3>1 DEF RowLocked
    <3>2. CASE q # s
      <4>1. RowLocked(q)
        BY DEF Locked
      <4>2. /\ pc'[q] = pc[q] /\ write'[q] = write[q]
            /\ Day(q)' = Day(q) /\ Typing(q)' = Typing(q)
        BY <2>4, <3>2
      <4>3. write[q] # Keep => week'[Day(q)] = week[Day(q)]
        BY <2>7, <3>2
      <4> QED
        BY <2>6, <4>1, <4>2, <4>3 DEF RowLocked
    <3> QED
      BY <3>1, <3>2
  <2>9. ASSUME NEW q \in Sessions, NEW r \in Sessions, q # r,
               write'[q] # Keep, write'[r] # Keep
        PROVE  Day(q)' # Day(r)'
    <3>1. q # s /\ r # s
      BY <2>5, <2>9
    <3>2. write[q] # Keep /\ write[r] # Keep /\ Day(q)' = Day(q) /\ Day(r)' = Day(r)
      BY <2>4, <2>9, <3>1
    <3> QED
      BY <2>9, <3>2 DEF Locked
  <2> QED
    BY <2>8, <2>9 DEF Locked
<1>4. HoursInOrder'
  <2>1. ASSUME NEW k \in Days \ stale', week'[k] # DayOff
        PROVE  week'[k].start < week'[k].end
    <3>1. CASE k # Day(s) \/ write[s] = Keep
      <4>1. k \notin stale /\ week'[k] = week[k]
        BY <1>0, <2>1, <3>1 DEF TypeOK, Written
      <4> QED
        BY <2>1, <4>1 DEF HoursInOrder
    <3>2. CASE k = Day(s) /\ write[s] # Keep
      <4>1. s \notin outdated
        BY <2>1, <3>2
      <4>2. week'[k] = Written(week[Day(s)], write[s])
        BY <1>0, <3>2 DEF TypeOK
      <4>3. Typing(s)
        BY <2>1, <3>2, <4>2, CommittedRow
      <4>4. week'[k] = HoursOf(update[s].text)
        BY <3>2, <4>1, <4>2, <4>3, CommittedRow
      <4> QED
        BY <4>3, <4>4, DayAndHours
    <3> QED
      BY <3>1, <3>2
  <2> QED
    BY <2>1 DEF HoursInOrder
<1>5. OneAtATime'
  BY DEF TypeOK, OneAtATime, Handled
<1>6. Agreed'
  BY DEF TypeOK, Agreed, Holds, StateOf, Stage, InFlight
<1>7. Meant'
  BY DEF TypeOK, Meant, InFlight, Stage
<1> QED
  BY <1>1, <1>2, <1>3, <1>4, <1>5, <1>6, <1>7

LEMMA AddTimeOffStep ==
    ASSUME InputInv, NEW s \in Sessions, AddTimeOff(s)
    PROVE  InputInv'
<1> USE DEF InputInv, AddTimeOff, GoTo, redis, session, scratch
<1>1. TypeOK'
  <2>1. update[s].text \in Text /\ place[s] \in Asked
    BY UpdateFields DEF Stage, InFlight
  <2>2. ASSUME NEW i \in 1 .. MaxTimeOff, NEW r \in ParseDateRange(update[s].text, Today)
        PROVE  Row(i, s, r) \in TimeOff
    <3>1. r.date_from \in Date /\ r.date_to \in Date
      BY <2>1, <2>2, PeriodMeans DEF Stage
    <3> QED
      BY <2>1, <2>2, <3>1 DEF Row, TimeOff, Asked
  <2> QED
    BY <2>2 DEF TypeOK
<1>2. Stage'
  BY DEF TypeOK, Stage, InFlight
<1>3. Locked'
  BY DEF TypeOK, Locked, RowLocked, Typing, Day
<1>4. HoursInOrder'
  BY DEF TypeOK, HoursInOrder
<1>5. OneAtATime'
  BY DEF TypeOK, OneAtATime, Handled
<1>6. Agreed'
  BY DEF TypeOK, Agreed, Holds, StateOf, Stage, InFlight
<1>7. Meant'
  BY DEF TypeOK, Meant, InFlight, Stage
<1> QED
  BY <1>1, <1>2, <1>3, <1>4, <1>5, <1>6, <1>7

LEMMA DeleteTimeOffStep ==
    ASSUME InputInv, NEW t \in time_off, DeleteTimeOff(t)
    PROVE  InputInv'
<1> USE DEF InputInv, DeleteTimeOff, redis, session, scratch
<1>1. TypeOK'
  BY DEF TypeOK
<1>2. Stage'
  BY DEF TypeOK, Stage, InFlight
<1>3. Locked'
  BY DEF TypeOK, Locked, RowLocked, Typing, Day
<1>4. HoursInOrder'
  BY DEF TypeOK, HoursInOrder
<1>5. OneAtATime'
  BY DEF TypeOK, OneAtATime, Handled
<1>6. Agreed'
  BY DEF TypeOK, Agreed, Holds, StateOf, Stage, InFlight
<1>7. Meant'
  BY DEF TypeOK, Meant, InFlight, Stage
<1> QED
  BY <1>1, <1>2, <1>3, <1>4, <1>5, <1>6, <1>7

-----------------------------------------------------------------------------
(* The invariant                                                           *)

LEMMA InputInit == Init => InputInv
<1> SUFFICES ASSUME Init PROVE InputInv
  OBVIOUS
<1> USE DEF Init
<1>1. TypeOK
  BY InitHoursAssumption DEF TypeOK, NoData, Write
<1>2. Stage /\ OneAtATime /\ Meant
  BY DEF Stage, InFlight, OneAtATime, Handled, Meant
<1>3. Locked
  BY DEF Locked, RowLocked
<1>4. HoursInOrder
  BY InitHoursAssumption DEF HoursInOrder
<1>5. Agreed
  BY DEF Agreed
<1> QED
  BY <1>1, <1>2, <1>3, <1>4, <1>5 DEF InputInv

LEMMA StutterStep ==
    ASSUME InputInv, UNCHANGED vars
    PROVE  InputInv'
<1> USE DEF vars, tables, redis, session, scratch
<1>1. TypeOK' /\ Stage'
  BY DEF InputInv, TypeOK, Stage, InFlight
<1>2. Locked' /\ HoursInOrder'
  BY DEF InputInv, Locked, RowLocked, HoursInOrder, Typing, Day
<1>3. OneAtATime' /\ Agreed'
  BY DEF InputInv, OneAtATime, Handled, Agreed, Holds, StateOf
<1>4. Meant'
  BY DEF InputInv, Meant, InFlight
<1> QED
  BY <1>1, <1>2, <1>3, <1>4 DEF InputInv

LEMMA InputStep == InputInv /\ [Next]_vars => InputInv'
<1> SUFFICES ASSUME InputInv, [Next]_vars PROVE InputInv'
  OBVIOUS
<1>1. ASSUME NEW s \in Sessions, NEW a \in Admins, NEW u \in Updates[a], Arrive(s, a, u)
      PROVE  InputInv'
  BY <1>1, ArriveStep
<1>2. ASSUME NEW s \in Sessions, Proceed(s)
      PROVE  InputInv'
  <2>1. CASE SetState(s) \/ UpdateData(s) \/ Prompt(s) \/ Clear(s)
    BY <2>1, SetStateStep, UpdateDataStep, PromptStep, ClearStep
  <2>2. CASE KeyMissing(s) \/ NotUnderstood(s) \/ FlushRefused(s) \/ ParseFails(s)
    BY <2>2, CloseStep DEF KeyMissing, NotUnderstood, FlushRefused, ParseFails
  <2>3. CASE ReadHours(s) \/ ClearDay(s) \/ Commit(s)
    BY <2>3, ReadHoursStep, ClearDayStep, CommitStep
  <2>4. CASE SelectRow(s) \/ InsertRow(s) \/ UpdateRow(s) \/ NothingToFlush(s)
    BY <2>4, SelectRowStep, InsertRowStep, UpdateRowStep, NothingToFlushStep
  <2>5. CASE ReadTimeOff(s) \/ AddTimeOff(s)
    BY <2>5, ReadTimeOffStep, AddTimeOffStep
  <2> QED
    BY <1>2, <2>1, <2>2, <2>3, <2>4, <2>5 DEF Proceed, SetDay
<1>3. ASSUME NEW s \in Sessions, Fail(s)
      PROVE  InputInv'
  BY <1>3, CloseStep DEF Fail
<1>4. ASSUME NEW t \in time_off, DeleteTimeOff(t)
      PROVE  InputInv'
  BY <1>4, DeleteTimeOffStep
<1>5. CASE BotRestart
  BY <1>5, RestartStep
<1>6. CASE UNCHANGED vars
  BY <1>6, StutterStep
<1> QED
  BY <1>1, <1>2, <1>3, <1>4, <1>5, <1>6 DEF Next

THEOREM InputCorrect == Spec => []InputInv
<1> QED
  BY InputInit, InputStep, PTL DEF Spec

-----------------------------------------------------------------------------
(* What the runs check                                                     *)

\* The tables, the keys in Redis and what the updates in flight have in hand
\* are of their types: no handler goes on with a key it has not found.
THEOREM InputTypeCorrect == Spec => []TypeOK
<1>1. InputInv => TypeOK
  BY DEF InputInv
<1> QED
  BY <1>1, InputCorrect, PTL

\* The hours of a day are in order, unless the row was put together from the
\* hours of two administrators.
THEOREM HoursStayInOrder == Spec => []HoursInOrder
<1>1. InputInv => HoursInOrder
  BY DEF InputInv
<1> QED
  BY <1>1, InputCorrect, PTL

\* A text sent on its own goes to the master and the weekday of the question
\* it answers.
THEOREM AnswersWhatWasAsked == Spec => []AppliedAsAsked
<1>1. InputInv => AppliedAsAsked
  BY DEF InputInv, Meant, AppliedAsAsked
<1> QED
  BY <1>1, InputCorrect, PTL

\* What set_day commits is what was typed, if the row was fresh at the UPDATE.
THEOREM FreshHoursStored == Spec => FreshHoursApply
<1>1. InputInv /\ [Next]_vars =>
          [\A s \in Sessions :
               SetsDay(s) /\ write[s] # Keep /\ s \notin outdated
               => week'[Day(s)] = HoursOf(update[s].text)]_vars
  <2> SUFFICES ASSUME InputInv, NEW s \in Sessions,
                      SetsDay(s), write[s] # Keep, s \notin outdated
               PROVE  week'[Day(s)] = HoursOf(update[s].text)
    OBVIOUS
  <2>1. pc[s] = "commit" /\ Typing(s)
    BY DEF SetsDay, Commit, Typing
  <2>2. Day(s) \in Days
    BY <2>1, DayAndHours DEF InputInv
  <2>3. week'[Day(s)] = Written(week[Day(s)], write[s])
    BY <2>2 DEF SetsDay, Commit, InputInv, TypeOK
  <2> QED
    BY <2>1, <2>3, CommittedRow
<1> QED
  BY <1>1, InputCorrect, PTL DEF Spec, FreshHoursApply

\* A time off is stored for the master of the prompt, on the dates that are
\* meant.
THEOREM DatesAreMeant == Spec => RangeIsMeant
<1> DEFINE Right(t) ==
       \E s \in Sessions :
           LET x == update[s].text IN
           /\ pc[s] = "insert"
           /\ t.master = place[s].master
           /\ ~Before(t.date_to, t.date_from)
           /\ Means(x.first, t.date_from, Today)
           /\ Means(IF x.kind = "pair" THEN x.second ELSE x.first, t.date_to, Today)
<1>1. InputInv /\ [Next]_vars => [\A t \in time_off' \ time_off : Right(t)]_vars
  <2> SUFFICES ASSUME InputInv, Next, NEW t \in time_off' \ time_off
               PROVE  Right(t)
    OBVIOUS
  <2>1. PICK s \in Sessions : AddTimeOff(s)
    <3>0. time_off' # time_off
      OBVIOUS
    <3>1. \A t1 \in time_off : ~DeleteTimeOff(t1)
      BY DEF DeleteTimeOff
    <3>2. /\ \A s \in Sessions, a \in Admins : \A u \in Updates[a] : ~Arrive(s, a, u)
          /\ \A s \in Sessions : ~Fail(s)
          /\ ~BotRestart
      BY <3>0 DEF Arrive, Fail, BotRestart, tables
    <3>3. PICK s \in Sessions : Proceed(s)
      BY <3>1, <3>2 DEF Next
    <3>4. ~(SetState(s) \/ UpdateData(s) \/ Prompt(s) \/ Clear(s))
      BY <3>0 DEF SetState, UpdateData, Prompt, Clear, tables
    <3>5. ~(KeyMissing(s) \/ NotUnderstood(s) \/ FlushRefused(s) \/ ParseFails(s))
      BY <3>0 DEF KeyMissing, NotUnderstood, FlushRefused, ParseFails, tables
    <3>6. ~(ReadHours(s) \/ ClearDay(s) \/ Commit(s) \/ ReadTimeOff(s))
      BY <3>0 DEF ReadHours, ClearDay, Commit, ReadTimeOff, tables
    <3>7. ~(SelectRow(s) \/ InsertRow(s) \/ UpdateRow(s) \/ NothingToFlush(s))
      BY <3>0 DEF SelectRow, InsertRow, UpdateRow, NothingToFlush, tables
    <3> QED
      BY <3>3, <3>4, <3>5, <3>6, <3>7 DEF Proceed, SetDay
  <2>2. pc[s] = "insert" /\ update[s].text \in Text /\ ~Unparsable(update[s].text, Today)
    BY <2>1, UpdateFields DEF AddTimeOff, InputInv, Stage, InFlight
  <2>3. PICK i \in 1 .. MaxTimeOff, r \in ParseDateRange(update[s].text, Today) :
            t = Row(i, s, r)
    BY <2>1 DEF AddTimeOff
  <2>4. /\ t.master = place[s].master
        /\ t.date_from = r.date_from /\ t.date_to = r.date_to
    BY <2>3 DEF Row
  <2>5. /\ ~Before(r.date_to, r.date_from)
        /\ Means(update[s].text.first, r.date_from, Today)
        /\ Means(IF update[s].text.kind = "pair" THEN update[s].text.second
                 ELSE update[s].text.first, r.date_to, Today)
    BY <2>2, <2>3, PeriodMeans
  <2> QED
    BY <2>2, <2>4, <2>5
<1> QED
  BY <1>1, InputCorrect, PTL DEF Spec, RangeIsMeant

-----------------------------------------------------------------------------
(* Waiting                                                                 *)

\* The sessions that session s waits for: the handler of its chat that runs,
\* or the session that holds the row its DELETE, INSERT or UPDATE has to lock.
Blockers(s) ==
    {q \in Sessions \ {s} :
        \/ pc[s] = "filter" /\ Handled(q) /\ by[q] = by[s]
        \/ /\ pc[s] \in {"delete_day", "flush"}
           /\ write[q] # Keep /\ Day(q) = Day(s)}

\* A wait is for one session, and that session waits for at most one other,
\* which has only to commit.
WaitsAreShort ==
    \A s \in Sessions : \A q \in Blockers(s) :
        /\ Blockers(s) = {q}
        /\ \A r \in Blockers(q) : pc[r] = "commit" /\ Blockers(r) = {}

\* The queue of a chat and the locks on master_schedules, which know nothing
\* of each other, never lock anybody out: behind an update there is at most
\* one handler of the chat, and behind that one commit of another chat.
THEOREM AdminsNeverDeadlock == Spec => []WaitsAreShort
<1>1. ASSUME InputInv
      PROVE  WaitsAreShort
  <2>1. ASSUME NEW s \in Sessions, write[s] # Keep
        PROVE  pc[s] = "commit" /\ Blockers(s) = {}
    BY <1>1, <2>1 DEF InputInv, Locked, RowLocked, Blockers
  <2>2. ASSUME NEW s \in Sessions, NEW q \in Blockers(s)
        PROVE  \A r \in Blockers(q) : pc[r] = "commit" /\ Blockers(r) = {}
    <3>1. ASSUME NEW r \in Blockers(q)
          PROVE  write[r] # Keep
      BY <2>1, <2>2 DEF Blockers, Handled
    <3> QED
      BY <2>1, <3>1 DEF Blockers
  <2>3. ASSUME NEW s \in Sessions, NEW q \in Blockers(s), NEW r \in Blockers(s)
        PROVE  q = r
    <3>1. q \in Sessions /\ r \in Sessions
      BY DEF Blockers
    <3>2. CASE pc[s] = "filter"
      <4>1. Handled(q) /\ Handled(r) /\ by[q] = by[r]
        BY <3>2 DEF Blockers
      <4> QED
        BY <1>1, <3>1, <4>1 DEF InputInv, OneAtATime
    <3>3. CASE pc[s] # "filter"
      <4>1. write[q] # Keep /\ write[r] # Keep /\ Day(q) = Day(r)
        BY <3>3 DEF Blockers
      <4> QED
        BY <1>1, <3>1, <4>1 DEF InputInv, Locked
    <3> QED
      BY <3>2, <3>3
  <2> QED
    BY <2>2, <2>3 DEF WaitsAreShort
<1> QED
  BY InputCorrect, <1>1, PTL

=============================================================================
