--------------------------- MODULE BookingLedger ---------------------------
(***************************************************************************)
(* What the booking store promises, with no transaction in sight: a        *)
(* ledger of bookings to which a booking is added in one step, only if it  *)
(* meets no active booking of the same master, and in which an active      *)
(* booking may be cancelled, once.  Nothing is ever removed ("the history  *)
(* of bookings is kept") and nothing else about a booking ever changes.    *)
(***************************************************************************)
EXTENDS BookingRows

VARIABLE bookings

Init == bookings = {}

Book(r) ==
    /\ \A b \in bookings : b.id # r.id
    /\ \A b \in bookings : ~Excludes(r, b)
    /\ bookings' = bookings \cup {r}

Cancel(b) ==
    /\ b \in bookings
    /\ IsActive(b)
    /\ bookings' = (bookings \ {b}) \cup {[b EXCEPT !.status = "cancelled"]}

Next ==
    \/ \E r \in bookings' \ bookings : r \in Row /\ Book(r)
    \/ \E b \in bookings : Cancel(b)

Spec == Init /\ [][Next]_bookings

=============================================================================
