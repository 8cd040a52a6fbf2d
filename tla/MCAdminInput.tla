--------------------------- MODULE MCAdminInput ---------------------------
EXTENDS AdminInput, TLC

CONSTANTS s1, s2, ann, bob, m1, m2

num(a, b) == [n1 |-> a, n2 |-> b, year |-> 0]

text(kind, colon, a, b) ==
    [kind |-> kind, colon |-> colon, first |-> a, second |-> b]

Off == text("off", FALSE, num(0, 0), num(0, 0))

\* "10:00-15:00" and "16:00-19:00" share one end each with MCInitHours.
Early == text("pair", TRUE, num(10, 0), num(15, 0))
Late == text("pair", TRUE, num(16, 0), num(19, 0))

\* "20.12-05.01": no hours, but dates, the second in the next year.
NewYear == text("pair", FALSE, num(20, 12), num(5, 1))

\* "10.01-05.02": no hours, but dates, both in the next year.
Winter == text("pair", FALSE, num(10, 1), num(5, 2))

\* "29.02": passed this year, and not a date of the next.
LeapDay == text("single", FALSE, num(29, 2), num(0, 0))

MDay == [kind |-> "mday", master |-> m1, weekday |-> 0, text |-> Unset]
TAdd == [kind |-> "tadd", master |-> m2, weekday |-> Unset, text |-> Unset]
Menu == [kind |-> "menu", master |-> Unset, weekday |-> Unset, text |-> Unset]

Message(t) == [kind |-> "text", master |-> Unset, weekday |-> Unset, text |-> t]

\* Both edit the hours of one master, ann also the time off of the other.
MCUpdates ==
    [a \in Admins |->
        IF a = ann
        THEN {MDay, TAdd, Menu} \cup {Message(t) : t \in {Early, Off, NewYear, Winter, LeapDay}}
        ELSE {MDay} \cup {Message(t) : t \in {Late, NewYear}}]

MCToday == [year |-> 2028, month |-> 3, day |-> 1]
MCInitHours == [start |-> 600, end |-> 1140]

\* Sessions are interchangeable.
Symmetry == Permutations(Sessions)

=============================================================================
