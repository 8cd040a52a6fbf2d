----------------------------- MODULE ParseInput -----------------------------
(***************************************************************************)
(* What app/utils/parse.py makes of a text an administrator types.         *)
(*                                                                         *)
(* A text is what the regular expressions find in it.  "10.00-19.00" and   *)
(* "15.07-20.07" are one kind: two pairs of numbers, which parse_hours     *)
(* reads as hours and parse_date_range as dates.                           *)
(***************************************************************************)
EXTENDS Integers

\* Two numbers, the second of two digits as both expressions take it, and the
\* year after them if there is one (else 0).
Numbers == [n1 : Nat, n2 : Nat, year : Nat]

\* "off": one of OFF_WORDS; "other": nothing any of the parsers knows; colon:
\* the numbers are separated by colons and not by dots.
Text == [kind : {"off", "single", "pair", "other"}, colon : BOOLEAN,
         first : Numbers, second : Numbers]

-----------------------------------------------------------------------------
(* Hours                                                                   *)

IsDayOff(t) == t.kind = "off"

Time(x) == x.n1 * 60 + x.n2

HoursOf(t) == [start |-> Time(t.first), end |-> Time(t.second)]

IsTime(x) == x.n1 \in 0 .. 23 /\ x.n2 \in 0 .. 59 /\ x.year = 0

\* Mutant: the hours may end before they start.
IsHoursAnyOrder(t) ==
    /\ t.kind = "pair"
    /\ IsTime(t.first) /\ IsTime(t.second)

\* parse_hours does not return None.
IsHours(t) ==
    /\ t.kind = "pair"
    /\ IsTime(t.first) /\ IsTime(t.second)
    /\ Time(t.first) < Time(t.second)

-----------------------------------------------------------------------------
(* Dates                                                                   *)

Date == [year : Nat, month : Nat, day : Nat]

IsLeap(y) == (y % 4 = 0 /\ y % 100 # 0) \/ y % 400 = 0

DaysIn(y, m) ==
    CASE m \in {4, 6, 9, 11} -> 30
      [] m = 2 -> IF IsLeap(y) THEN 29 ELSE 28
      [] OTHER -> 31

\* The constructor of datetime.date does not raise.
IsDate(d) ==
    /\ d.year >= 1
    /\ d.month \in 1 .. 12
    /\ d.day \in 1 .. DaysIn(d.year, d.month)

Before(d, e) ==
    \/ d.year < e.year
    \/ d.year = e.year /\ d.month < e.month
    \/ d.year = e.year /\ d.month = e.month /\ d.day < e.day

In(x, y) == [year |-> y, month |-> x.n2, day |-> x.n1]

\* The date before a missing year is made up for.
Parsed(x, today) == In(x, IF x.year = 0 THEN today.year ELSE x.year)

IsPast(x, today) == x.year = 0 /\ Before(Parsed(x, today), today)

\* Mutant: no year always means this year.
ParseDateThisYear(x, today) == {d \in {Parsed(x, today)} : IsDate(d)}

\* _parse_date: the date, if it is one.
ParseDate(x, today) ==
    {IF IsPast(x, today) THEN In(x, today.year + 1) ELSE d :
         d \in {e \in {Parsed(x, today)} : IsDate(e)}}

\* _parse_date raises ValueError: 29.02 has passed, and the next year has none.
Raises(x, today) ==
    /\ IsDate(Parsed(x, today))
    /\ IsPast(x, today)
    /\ ~IsDate(In(x, today.year + 1))

\* The numbers that a text gives parse_date_range as dates.
Dates(t) ==
    CASE t.kind = "single" /\ ~t.colon -> {t.first}
      [] t.kind = "pair" /\ ~t.colon -> {t.first, t.second}
      [] OTHER -> {}

Unparsable(t, today) == \E x \in Dates(t) : Raises(x, today)

Period(from, to) == [date_from |-> from, date_to |-> to]

\* parse_date_range: the period, if the text has one.
ParseDateRange(t, today) ==
    CASE t.kind = "single" /\ ~t.colon ->
             {Period(d, d) : d \in ParseDate(t.first, today)}
      [] t.kind = "pair" /\ ~t.colon ->
             {r \in {Period(d, e) : d \in ParseDate(t.first, today),
                                   e \in ParseDate(t.second, today)} :
                  ~Before(r.date_to, r.date_from)}
      [] OTHER -> {}

-----------------------------------------------------------------------------
(* A reference definition: what the administrator means                    *)

\* The day and month typed, in the year typed, or else on their first
\* occurrence from today on.
Means(x, d, today) ==
    /\ IsDate(d)
    /\ d.day = x.n1 /\ d.month = x.n2
    /\ IF x.year # 0
       THEN d.year = x.year
       ELSE /\ ~Before(d, today)
            /\ \A y \in today.year .. d.year - 1 :
                   ~IsDate(In(x, y)) \/ Before(In(x, y), today)

=============================================================================
