---------------------------- MODULE BookingRows ----------------------------
(***************************************************************************)
(* Rows of the `bookings' table and the two overlap tests the program      *)
(* applies to them: the one written in SQL and Python by                   *)
(* BookingRepository, and the EXCLUDE constraint of migration 0001.        *)
(* Times are whole numbers of slot steps; an interval is half open.        *)
(***************************************************************************)
EXTENDS Integers

CONSTANTS
    Users,      \* clients, by telegram_id
    Masters,    \* rows of `masters'
    Services,   \* rows of `services'
    Duration,   \* Duration[sv]: duration_minutes of a service, in time units
    StartTimes  \* values of starts_at a client may confirm

ASSUME DurationAssumption == Duration \in [Services -> Nat \ {0}]

ASSUME StartTimesAssumption == StartTimes \subseteq Nat

BookingStatus == {"pending", "confirmed", "cancelled", "completed"}

ACTIVE_STATUSES == {"pending", "confirmed"}

Row == [id        : Nat,
        user      : Users,
        master    : Masters,
        starts_at : Nat,
        ends_at   : Nat,
        status    : BookingStatus]

IsActive(r) == r.status \in ACTIVE_STATUSES

\* BookingRepository._overlaps on one interval.
Overlaps(start, end, b_start, b_end) == start < b_end /\ b_start < end

\* BookingRepository._get_busy_intervals: the active rows of `master' in
\* table `tbl' whose interval meets the window.
BusyRows(tbl, master, window_start, window_end) ==
    {r \in tbl : /\ r.master = master
                 /\ IsActive(r)
                 /\ r.starts_at < window_end
                 /\ r.ends_at > window_start}

\* The test of create_booking: some busy interval overlaps the wanted one.
SlotTaken(tbl, master, start, end) ==
    \E r \in BusyRows(tbl, master, start, end) :
        Overlaps(start, end, r.starts_at, r.ends_at)

\* Mutant: the constraint lists one of the two active statuses.
ExcludesConfirmedOnly(r1, r2) ==
    /\ r1.status = "confirmed" /\ r2.status = "confirmed"
    /\ r1.master = r2.master
    /\ Overlaps(r1.starts_at, r1.ends_at, r2.starts_at, r2.ends_at)

\* uq_bookings_no_overlap: two rows the EXCLUDE constraint refuses together.
Excludes(r1, r2) ==
    /\ IsActive(r1) /\ IsActive(r2)
    /\ r1.master = r2.master
    /\ Overlaps(r1.starts_at, r1.ends_at, r2.starts_at, r2.ends_at)

\* Mutant: ends_at computed with the sign of reminder_offset.
NewRowEndsBefore(user, master, service, starts_at) ==
    [id        |-> 0,
     user      |-> user,
     master    |-> master,
     starts_at |-> starts_at,
     ends_at   |-> starts_at - Duration[service],
     status    |-> "confirmed"]

\* The row on_confirm asks create_booking to insert; the id comes from the
\* sequence of the table when the INSERT runs.
NewRow(user, master, service, starts_at) ==
    [id        |-> 0,
     user      |-> user,
     master    |-> master,
     starts_at |-> starts_at,
     ends_at   |-> starts_at + Duration[service],
     status    |-> "confirmed"]

\* Of two active bookings of a master, one ends before the other starts.
\* Stated with neither of the two tests above.
NoOverlapIn(tbl) ==
    \A r1, r2 \in tbl :
        /\ r1 # r2
        /\ r1.master = r2.master
        /\ r1.status \in {"pending", "confirmed"}
        /\ r2.status \in {"pending", "confirmed"}
        => r1.ends_at <= r2.starts_at \/ r2.ends_at <= r1.starts_at

UniqueIds(tbl) ==
    \A r1, r2 \in tbl : r1.id = r2.id => r1 = r2

=============================================================================
