------------------------ MODULE BookingLedgerProofs ------------------------
(***************************************************************************)
(* What the ledger of BookingLedger promises is enough: nobody is booked   *)
(* twice.  A module that implements the ledger has it by the theorem here. *)
(***************************************************************************)
EXTENDS BookingLedger, TLAPS

\* The overlap test of the database reads the same in either direction.
LEMMA ExcludesBoth ==
    ASSUME NEW r1 \in Row, NEW r2 \in Row
    PROVE  Excludes(r1, r2) <=> Excludes(r2, r1)
BY DEF Excludes, Overlaps, IsActive, Row

\* Two active rows of one master that the constraint lets stand together do
\* not share a moment of time, if both last.
LEMMA AdmittedRowsAreApart ==
    ASSUME NEW r1 \in Row, NEW r2 \in Row, ~Excludes(r1, r2),
           r1.master = r2.master,
           r1.status \in {"pending", "confirmed"},
           r2.status \in {"pending", "confirmed"}
    PROVE  r1.ends_at <= r2.starts_at \/ r2.ends_at <= r1.starts_at
BY DEF Row, Excludes, Overlaps, IsActive, ACTIVE_STATUSES

\* A row added to a table free of overlaps, and admitted against it.
LEMMA AddedRow ==
    ASSUME NEW tbl \in SUBSET Row, NoOverlapIn(tbl),
           NEW r \in Row, \A b \in tbl : ~Excludes(r, b)
    PROVE  NoOverlapIn(tbl \cup {r})
BY AdmittedRowsAreApart, ExcludesBoth DEF NoOverlapIn

\* A row of it cancelled.
LEMMA RemovedRow ==
    ASSUME NEW tbl \in SUBSET Row, NoOverlapIn(tbl), NEW b \in tbl
    PROVE  NoOverlapIn((tbl \ {b}) \cup {[b EXCEPT !.status = "cancelled"]})
BY DEF NoOverlapIn, Row

Consistent ==
    /\ bookings \subseteq Row
    /\ NoOverlapIn(bookings)
    /\ UniqueIds(bookings)

\* The ledger is consistent: of two active bookings of a master one is over
\* before the other starts, and an id names one booking, for good.
THEOREM LedgerConsistent == Spec => []Consistent
<1>1. Init => Consistent
  BY DEF Init, Consistent, NoOverlapIn, UniqueIds
<1>2. ASSUME Consistent, [Next]_bookings
      PROVE  Consistent'
  <2>1. ASSUME NEW r \in Row, Book(r)
        PROVE  Consistent'
    <3>1. bookings' = bookings \cup {r}
      BY <2>1 DEF Book
    <3>2. NoOverlapIn(bookings \cup {r})
      BY <1>2, <2>1, AddedRow DEF Consistent, Book
    <3>3. UniqueIds(bookings \cup {r})
      BY <1>2, <2>1 DEF Consistent, UniqueIds, Book
    <3> QED
      BY <1>2, <2>1, <3>1, <3>2, <3>3 DEF Consistent, NoOverlapIn, UniqueIds
  <2>2. ASSUME NEW b \in bookings, Cancel(b)
        PROVE  Consistent'
    <3> DEFINE c == [b EXCEPT !.status = "cancelled"]
    <3>1. bookings' = (bookings \ {b}) \cup {c}
      BY <2>2 DEF Cancel
    <3>2. NoOverlapIn((bookings \ {b}) \cup {c})
      BY <1>2, RemovedRow DEF Consistent
    <3>3. c \in Row /\ c.id = b.id
      BY <1>2 DEF Consistent, Row, BookingStatus
    <3> HIDE DEF c
    <3>4. UniqueIds((bookings \ {b}) \cup {c})
      BY <1>2, <3>3 DEF Consistent, UniqueIds
    <3> QED
      BY <1>2, <3>1, <3>2, <3>3, <3>4 DEF Consistent, NoOverlapIn, UniqueIds
  <2>3. CASE UNCHANGED bookings
    BY <1>2, <2>3 DEF Consistent, NoOverlapIn, UniqueIds
  <2> QED
    BY <1>2, <2>1, <2>2, <2>3 DEF Next
<1> QED
  BY <1>1, <1>2, PTL DEF Spec

\* What may become of a booking in one step.
Follows(b, c) ==
    c = b \/ (IsActive(b) /\ c = [b EXCEPT !.status = "cancelled"])

GoesOn(b) ==
    \E c \in bookings' :
        /\ Follows(b, c) /\ c.id = b.id
        /\ \A d \in bookings' : d.id = b.id => d = c

\* "The history of bookings is kept": a booking goes on in one row of the table,
\* under its id, for the client, the master and the time it was made for; it may
\* be cancelled while it is active, and is never made active again.
THEOREM LedgerKeepsHistory == Spec => [][\A b \in bookings : GoesOn(b)]_bookings
<1>1. ASSUME Consistent, Consistent', [Next]_bookings
      PROVE  [\A b \in bookings : GoesOn(b)]_bookings
  <2> SUFFICES ASSUME Next, NEW b \in bookings
               PROVE  GoesOn(b)
    BY <1>1
  <2>1. PICK c \in bookings' : Follows(b, c)
    <3>1. ASSUME NEW r \in bookings' \ bookings, Book(r)
          PROVE  b \in bookings'
      BY <3>1 DEF Book
    <3>2. ASSUME NEW a \in bookings, Cancel(a)
          PROVE  \E c \in bookings' : Follows(b, c)
      BY <3>2 DEF Cancel, Follows
    <3> QED
      BY <3>1, <3>2 DEF Next, Follows
  <2>2. c.id = b.id
    BY <1>1, <2>1 DEF Follows, Consistent, Row
  <2> QED
    BY <1>1, <2>1, <2>2 DEF GoesOn, Consistent, UniqueIds
<1> QED
  BY LedgerConsistent, <1>1, PTL DEF Spec

=============================================================================
