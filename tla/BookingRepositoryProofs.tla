---------------------- MODULE BookingRepositoryProofs ----------------------
(***************************************************************************)
(* Theorems about BookingRepository, for every number of sessions, of      *)
(* writers outside, of clients, masters, services and start times.         *)
(*                                                                         *)
(* The inductive invariant is the conjunction of TypeOK, InHand,           *)
(* LockExactlyHeld and InFlight.  Each of the four is preserved by every   *)
(* step that starts in a state where those named before it hold.           *)
(***************************************************************************)
EXTENDS BookingRepository, TLAPS

\* A process that books or cancels has a row in hand, and the row a
\* cancellation waits for was active when it was found; only sessions run the
\* transactions of the repository.
InHand ==
    /\ \A p \in Processes :
           pc[p] \notin {"idle", "edit", "edit_done"} => row[p] \in Row
    /\ \A p \in Processes : pc[p] = "select" => IsActive(row[p])
    /\ \A w \in Writers : pc[w] \in {"idle", "insert_done"}

StoreInv == TypeOK /\ InHand /\ LockExactlyHeld /\ InFlight

-----------------------------------------------------------------------------
(* Rows                                                                    *)

\* The row create_booking inserts is a row of the table, because a service
\* takes a positive number of minutes.
LEMMA NewRowIsRow ==
    \A u \in Users, m \in Masters, sv \in Services, t \in StartTimes :
        NewRow(u, m, sv, t) \in Row
BY DurationAssumption, StartTimesAssumption
   DEF NewRow, Row, BookingStatus

\* The constraint does not depend on the order of the two rows.
LEMMA ExcludesSymmetric ==
    ASSUME NEW r1 \in Row, NEW r2 \in Row
    PROVE  Excludes(r1, r2) <=> Excludes(r2, r1)
BY DEF Excludes, Overlaps, IsActive, Row

\* Cancelling a row leaves a row of the table that conflicts with nothing.
LEMMA CancelledRow ==
    ASSUME NEW b \in Row
    PROVE  LET c == [b EXCEPT !.status = "cancelled"]
           IN  /\ c \in Row
               /\ c.id = b.id
               /\ ~IsActive(c)
               /\ \A r : ~Excludes(r, c) /\ ~Excludes(c, r)
BY DEF Row, BookingStatus, IsActive, ACTIVE_STATUSES, Excludes

-----------------------------------------------------------------------------
(* Type correctness                                                        *)

\* Every step of the store keeps every variable in its type, and gives a row
\* to every process whose transaction is open.
LEMMA TypeStep ==
    ASSUME TypeOK, InHand, [Next]_vars
    PROVE  TypeOK' /\ InHand'
<1> USE DEF TypeOK, InHand, Processes, Finish, Released
<1>1. ASSUME NEW s \in Sessions,
             NEW u \in Users, NEW m \in Masters,
             NEW sv \in Services, NEW t \in StartTimes,
             Confirm(s, u, m, sv, t)
      PROVE  TypeOK' /\ InHand'
  <2>1. NewRow(u, m, sv, t) \in Row
    BY NewRowIsRow
  <2> QED
    BY <1>1, <2>1, ProcessesAssumption DEF Confirm
<1>2. ASSUME NEW s \in Sessions, NEW u \in Users, NEW id \in 1 .. nextId - 1,
             CancelSelect(s, u, id)
      PROVE  TypeOK' /\ InHand'
  BY <1>2, ProcessesAssumption DEF CancelSelect, OwnActive
<1>3. ASSUME NEW s \in Sessions, NEW u \in Users, NEW id \in 1 .. nextId - 1,
             CancelNothing(s, u, id)
      PROVE  TypeOK' /\ InHand'
  BY <1>3 DEF CancelNothing
<1>4. ASSUME NEW s \in Sessions, AcquireLock(s)
      PROVE  TypeOK' /\ InHand'
  BY <1>4, ProcessesAssumption DEF AcquireLock
<1>5. ASSUME NEW s \in Sessions, CheckFree(s)
      PROVE  TypeOK' /\ InHand'
  BY <1>5, ProcessesAssumption DEF CheckFree
<1>6. ASSUME NEW s \in Sessions, CheckTaken(s)
      PROVE  TypeOK' /\ InHand'
  BY <1>6, ProcessesAssumption DEF CheckTaken
<1>7. ASSUME NEW s \in Sessions, InsertBooking(s)
      PROVE  TypeOK' /\ InHand'
  <2>1. row[s] \in Row
    BY <1>7 DEF InsertBooking
  <2>2. [row[s] EXCEPT !.id = nextId] \in Row
    BY <2>1 DEF Row
  <2> QED
    BY <1>7, <2>2, ProcessesAssumption DEF InsertBooking
<1>8. ASSUME NEW s \in Sessions, InsertRefused(s)
      PROVE  TypeOK' /\ InHand'
  BY <1>8, ProcessesAssumption DEF InsertRefused
<1>9. ASSUME NEW s \in Sessions, CommitBooking(s)
      PROVE  TypeOK' /\ InHand'
  BY <1>9, ProcessesAssumption DEF CommitBooking
<1>10. ASSUME NEW s \in Sessions, UpdateStatus(s)
       PROVE  TypeOK' /\ InHand'
  BY <1>10, ProcessesAssumption DEF UpdateStatus
<1>11. ASSUME NEW s \in Sessions, CommitCancel(s)
       PROVE  TypeOK' /\ InHand'
  <2>1. row[s] \in Row
    BY <1>11 DEF CommitCancel
  <2>2. AfterCancel(row[s]) \subseteq Row
    BY <2>1, CancelledRow DEF AfterCancel
  <2> QED
    BY <1>11, <2>2, ProcessesAssumption DEF CommitCancel
<1>12. ASSUME NEW s \in Sessions, DbError(s)
       PROVE  TypeOK' /\ InHand'
  BY <1>12, ProcessesAssumption DEF DbError, ErrorText
<1>13. ASSUME NEW s \in Sessions, CommitAckLost(s)
       PROVE  TypeOK' /\ InHand'
  <2>1. row[s] \in Row
    BY <1>13 DEF CommitAckLost
  <2>2. AfterCancel(row[s]) \subseteq Row
    BY <2>1, CancelledRow DEF AfterCancel
  <2> QED
    BY <1>13, <2>1, <2>2, ProcessesAssumption DEF CommitAckLost, ErrorText
<1>14. ASSUME NEW w \in Writers,
              NEW u \in Users, NEW m \in Masters,
              NEW sv \in Services, NEW t \in StartTimes,
              NEW st \in OutsideStatuses,
              OutsideInsert(w, u, m, sv, t, st)
       PROVE  TypeOK' /\ InHand'
  <2> DEFINE r == [NewRow(u, m, sv, t) EXCEPT !.id = nextId, !.status = st]
  <2>1. NewRow(u, m, sv, t) \in Row
    BY NewRowIsRow
  <2>2. r \in Row
    BY <2>1, OutsideStatusesAssumption DEF Row
  <2>3. /\ nextId' = nextId + 1
        /\ row' = [row EXCEPT ![w] = r]
        /\ pc' = [pc EXCEPT ![w] = "insert_done"]
        /\ UNCHANGED <<bookings, advisoryLock, userRow, reply>>
    BY <1>14 DEF OutsideInsert
  <2> HIDE DEF r
  <2> QED
    BY <2>2, <2>3, ProcessesAssumption
<1>15. ASSUME NEW w \in Writers, OutsideCommit(w)
       PROVE  TypeOK' /\ InHand'
  BY <1>15, ProcessesAssumption DEF OutsideCommit
<1>16. ASSUME NEW w \in Writers, OutsideRollback(w)
       PROVE  TypeOK' /\ InHand'
  BY <1>16, ProcessesAssumption DEF OutsideRollback
<1>17. ASSUME BotRestart
       PROVE  TypeOK' /\ InHand'
  BY <1>17, ProcessesAssumption DEF BotRestart
<1>18. ASSUME UNCHANGED vars
       PROVE  TypeOK' /\ InHand'
  BY <1>18 DEF vars
<1>19. ASSUME NEW s \in Sessions, LockUser(s)
       PROVE  TypeOK' /\ InHand'
  BY <1>19, ProcessesAssumption DEF LockUser
<1>20. ASSUME NEW s \in Sessions, LockBooking(s)
       PROVE  TypeOK' /\ InHand'
  BY <1>20, ProcessesAssumption DEF LockBooking
<1>21. ASSUME NEW s \in Sessions, CancelTooLate(s)
       PROVE  TypeOK' /\ InHand'
  BY <1>21, ProcessesAssumption DEF CancelTooLate
<1>22. ASSUME NEW s \in Sessions, NEW u \in Users, EditUser(s, u)
       PROVE  TypeOK' /\ InHand'
  BY <1>22, ProcessesAssumption DEF EditUser
<1>23. ASSUME NEW s \in Sessions, CommitEdit(s)
       PROVE  TypeOK' /\ InHand'
  BY <1>23, ProcessesAssumption DEF CommitEdit
<1> QED
  BY <1>1, <1>2, <1>3, <1>4, <1>5, <1>6, <1>7, <1>8, <1>9, <1>10, <1>11,
     <1>12, <1>13, <1>14, <1>15, <1>16, <1>17, <1>18, <1>19, <1>20, <1>21,
     <1>22, <1>23
  DEF Next, Request, Proceed, Granted, Outside

\* Every variable of the store keeps its type under every interleaving of
\* the statements of create_booking, cancel_booking and the error paths.
THEOREM TypeCorrect == Spec => []TypeOK
<1>1. Init => TypeOK /\ InHand
  BY DEF Init, TypeOK, InHand, Processes
<1>2. TypeOK /\ InHand /\ [Next]_vars => TypeOK' /\ InHand'
  BY TypeStep
<1> QED
  BY <1>1, <1>2, PTL DEF Spec

-----------------------------------------------------------------------------
(* The advisory lock                                                       *)

\* The end of a transaction gives back its lock and no other.
LEMMA FinishReleases ==
    ASSUME TypeOK, LockExactlyHeld, NEW s \in Sessions, NEW text,
           Finish(s, text),
           \A p \in Processes \ {s} : row'[p] = row[p]
    PROVE  LockExactlyHeld'
BY ProcessesAssumption
DEF TypeOK, LockExactlyHeld, HoldsLock, Finish, Released, Processes

\* A step that touches neither a lock nor the place of a session, nor the
\* master of its row while it holds one, leaves the ownership as it is.
LEMMA LockUntouched ==
    ASSUME LockExactlyHeld,
           UNCHANGED advisoryLock,
           \A s \in Sessions : HoldsLock(s)' = HoldsLock(s),
           \A s \in Sessions : HoldsLock(s) => row'[s].master = row[s].master
    PROVE  LockExactlyHeld'
BY DEF LockExactlyHeld

\* The lock of a master passes only from the end of one transaction to the
\* next session that waits for it, and is never lost on the way.
LEMMA LockStep ==
    ASSUME TypeOK, InHand, LockExactlyHeld, [Next]_vars
    PROVE  LockExactlyHeld'
<1> USE DEF TypeOK, InHand, Processes
<1>1. ASSUME NEW s \in Sessions,
             NEW u \in Users, NEW m \in Masters,
             NEW sv \in Services, NEW t \in StartTimes,
             Confirm(s, u, m, sv, t)
      PROVE  LockExactlyHeld'
  BY <1>1, LockUntouched DEF Confirm, HoldsLock
<1>2. ASSUME NEW s \in Sessions, NEW u \in Users, NEW id \in 1 .. nextId - 1,
             CancelSelect(s, u, id)
      PROVE  LockExactlyHeld'
  BY <1>2, LockUntouched DEF CancelSelect, HoldsLock
<1>3. ASSUME NEW s \in Sessions, NEW u \in Users, NEW id \in 1 .. nextId - 1,
             CancelNothing(s, u, id)
      PROVE  LockExactlyHeld'
  BY <1>3, LockUntouched DEF CancelNothing, HoldsLock
<1>4. ASSUME NEW s \in Sessions, AcquireLock(s)
      PROVE  LockExactlyHeld'
  <2>1. row[s].master \in Masters
    BY <1>4 DEF AcquireLock, Row
  <2> QED
    BY <1>4, <2>1, ProcessesAssumption
    DEF AcquireLock, LockExactlyHeld, HoldsLock
<1>5. ASSUME NEW s \in Sessions, CheckFree(s)
      PROVE  LockExactlyHeld'
  BY <1>5, LockUntouched DEF CheckFree, HoldsLock
<1>6. ASSUME NEW s \in Sessions, CheckTaken(s)
      PROVE  LockExactlyHeld'
  BY <1>6, FinishReleases DEF CheckTaken
<1>7. ASSUME NEW s \in Sessions, InsertBooking(s)
      PROVE  LockExactlyHeld'
  <2>1. row'[s].master = row[s].master
    BY <1>7 DEF InsertBooking, Row
  <2> QED
    BY <1>7, <2>1, LockUntouched DEF InsertBooking, HoldsLock
<1>8. ASSUME NEW s \in Sessions, InsertRefused(s)
      PROVE  LockExactlyHeld'
  BY <1>8, FinishReleases DEF InsertRefused
<1>9. ASSUME NEW s \in Sessions, CommitBooking(s)
      PROVE  LockExactlyHeld'
  BY <1>9, FinishReleases DEF CommitBooking
<1>10. ASSUME NEW s \in Sessions, UpdateStatus(s)
       PROVE  LockExactlyHeld'
  BY <1>10, LockUntouched DEF UpdateStatus, HoldsLock
<1>11. ASSUME NEW s \in Sessions, CommitCancel(s)
       PROVE  LockExactlyHeld'
  BY <1>11, FinishReleases DEF CommitCancel
<1>12. ASSUME NEW s \in Sessions, DbError(s)
       PROVE  LockExactlyHeld'
  BY <1>12, FinishReleases DEF DbError
<1>13. ASSUME NEW s \in Sessions, CommitAckLost(s)
       PROVE  LockExactlyHeld'
  BY <1>13, FinishReleases DEF CommitAckLost
<1>14. ASSUME NEW w \in Writers,
              NEW u \in Users, NEW m \in Masters,
              NEW sv \in Services, NEW t \in StartTimes,
              NEW st \in OutsideStatuses,
              OutsideInsert(w, u, m, sv, t, st)
       PROVE  LockExactlyHeld'
  BY <1>14, LockUntouched, ProcessesAssumption DEF OutsideInsert, HoldsLock
<1>15. ASSUME NEW w \in Writers, OutsideCommit(w) \/ OutsideRollback(w)
       PROVE  LockExactlyHeld'
  BY <1>15, LockUntouched, ProcessesAssumption
  DEF OutsideCommit, OutsideRollback, HoldsLock
<1>16. ASSUME BotRestart
       PROVE  LockExactlyHeld'
  BY <1>16, ProcessesAssumption DEF BotRestart, LockExactlyHeld, HoldsLock
<1>17. ASSUME UNCHANGED vars
       PROVE  LockExactlyHeld'
  BY <1>17, LockUntouched DEF vars, HoldsLock
<1>18. ASSUME NEW s \in Sessions, LockUser(s) \/ LockBooking(s)
       PROVE  LockExactlyHeld'
  BY <1>18, LockUntouched DEF LockUser, LockBooking, HoldsLock
<1>19. ASSUME NEW s \in Sessions, NEW u \in Users, EditUser(s, u)
       PROVE  LockExactlyHeld'
  BY <1>19, LockUntouched DEF EditUser, HoldsLock
<1>20. ASSUME NEW s \in Sessions, CancelTooLate(s) \/ CommitEdit(s)
       PROVE  LockExactlyHeld'
  BY <1>20, FinishReleases DEF CancelTooLate, CommitEdit
<1> QED
  BY <1>1, <1>2, <1>3, <1>4, <1>5, <1>6, <1>7, <1>8, <1>9, <1>10, <1>11,
     <1>12, <1>13, <1>14, <1>15, <1>16, <1>17, <1>18, <1>19, <1>20
  DEF Next, Request, Proceed, Granted, Outside

\* The advisory lock of a master excludes: it is owned by exactly the session
\* between its grant and the end of that session's transaction, whatever way
\* the transaction ends.
THEOREM LockCorrect == Spec => []LockExactlyHeld
<1> DEFINE Inv == TypeOK /\ InHand /\ LockExactlyHeld
<1>1. Init => Inv
  BY ProcessesAssumption
  DEF Init, TypeOK, InHand, LockExactlyHeld, HoldsLock, Processes
<1>2. Inv /\ [Next]_vars => Inv'
  BY TypeStep, LockStep
<1> QED
  BY <1>1, <1>2, PTL DEF Spec

-----------------------------------------------------------------------------
(* Rows in flight                                                          *)

\* A step that ends transactions or leaves them where they are, and commits
\* nothing, leaves the uncommitted rows as good as they were.
LEMMA NothingCommitted ==
    ASSUME TypeOK, InHand, InFlight,
           UNCHANGED bookings,
           nextId' \in {nextId, nextId + 1},
           \A p \in Processes : Inserting(p)' =>
               Inserting(p) /\ row'[p] = row[p],
           \A p \in Processes : Cancelling(p)' =>
               Cancelling(p) /\ row'[p] = row[p]
    PROVE  InFlight'
<1>1. /\ UniqueIds(bookings)'
      /\ \A b \in bookings' : b.id < nextId'
  BY DEF TypeOK, InFlight, UniqueIds, Row
<1>2. ASSUME NEW p \in Processes, Inserting(p)'
      PROVE  /\ row'[p].id < nextId'
             /\ \A b \in bookings' : b.id # row'[p].id
             /\ \A q \in Processes \ {p} :
                    Inserting(q)' => row'[q].id # row'[p].id
             /\ Admitted(p, row[p])'
  <2>1. row'[p] = row[p] /\ Inserting(p)
    BY <1>2
  <2>2. row[p] \in Row
    BY <2>1 DEF InHand, Inserting
  <2> QED
    BY <2>1, <2>2 DEF TypeOK, InFlight, Admitted, Row
<1>3. ASSUME NEW p \in Processes, Cancelling(p)'
      PROVE  /\ row'[p] \in bookings'
             /\ IsActive(row[p])'
             /\ \A q \in Processes \ {p} : Cancelling(q)' => row'[q] # row'[p]
  BY <1>3 DEF InFlight, IsActive
<1> QED
  BY <1>1, <1>2, <1>3 DEF InFlight

\* An INSERT the constraint admits, with a fresh id.
LEMMA RowInserted ==
    ASSUME TypeOK, InHand, InFlight,
           NEW p \in Processes, NEW r \in Row,
           ~Inserting(p), ~Cancelling(p),
           r.id = nextId, Admitted(p, r),
           bookings' = bookings,
           nextId' = nextId + 1,
           row' = [row EXCEPT ![p] = r],
           pc' = [pc EXCEPT ![p] = "insert_done"]
    PROVE  InFlight'
<1> USE DEF TypeOK
<1>1. /\ UniqueIds(bookings)'
      /\ \A b \in bookings' : b.id < nextId'
  BY DEF InFlight, UniqueIds, Row
<1>2. /\ Inserting(p)' /\ row'[p] = r
      /\ \A q \in Processes \ {p} : Inserting(q)' = Inserting(q) /\ row'[q] = row[q]
      /\ \A q \in Processes : Cancelling(q)' = Cancelling(q)
      /\ \A q \in Processes : Cancelling(q) => q # p
  BY DEF Inserting, Cancelling
<1>3. \A q \in Processes \ {p} : Inserting(q) =>
          /\ row[q] \in Row
          /\ row[q].id < nextId
          /\ ~Excludes(row[q], r)
  BY ExcludesSymmetric DEF InFlight, Admitted, InHand, Inserting
<1>4. \A b \in bookings : b.id # nextId
  BY DEF InFlight, Row
<1>5. ASSUME NEW q \in Processes, Inserting(q)'
      PROVE  /\ row'[q].id < nextId'
             /\ \A b \in bookings' : b.id # row'[q].id
             /\ \A t \in Processes \ {q} :
                    Inserting(t)' => row'[t].id # row'[q].id
             /\ Admitted(q, row[q])'
  <2>1. CASE q = p
    <3>1. \A t \in Processes \ {p} : Inserting(t) => row[t].id # nextId
      BY <1>3 DEF Row
    <3> QED
      BY <2>1, <1>2, <1>4, <3>1 DEF Admitted
  <2>2. CASE q # p
    <3>1. row[q].id < nextId + 1 /\ row[q].id # nextId
      BY <2>2, <1>2, <1>3, <1>5 DEF Row
    <3> QED
      BY <2>2, <1>2, <1>3, <1>5, <3>1 DEF InFlight, Admitted
  <2> QED
    BY <2>1, <2>2
<1>6. ASSUME NEW q \in Processes, Cancelling(q)'
      PROVE  /\ row'[q] \in bookings'
             /\ IsActive(row[q])'
             /\ \A t \in Processes \ {q} : Cancelling(t)' => row'[t] # row'[q]
  BY <1>2, <1>6 DEF InFlight, IsActive
<1> QED
  BY <1>1, <1>5, <1>6 DEF InFlight

\* COMMIT of an inserted row: it meets no other row in the table or in flight.
LEMMA InsertCommitted ==
    ASSUME TypeOK, InHand, InFlight,
           NEW p \in Processes, Inserting(p),
           bookings' = bookings \cup {row[p]},
           nextId' = nextId,
           pc' = [pc EXCEPT ![p] = "idle"],
           \A q \in Processes \ {p} : row'[q] = row[q]
    PROVE  InFlight'
<1> USE DEF TypeOK
<1>1. /\ ~Inserting(p)' /\ ~Cancelling(p)'
      /\ \A q \in Processes \ {p} : /\ Inserting(q)' = Inserting(q)
                                    /\ Cancelling(q)' = Cancelling(q)
                                    /\ row'[q] = row[q]
  BY DEF Inserting, Cancelling
<1>2. row[p] \in Row
  BY DEF InHand, Inserting
<1>3. /\ UniqueIds(bookings)'
      /\ \A b \in bookings' : b.id < nextId'
  BY DEF InFlight, UniqueIds
<1>4. ASSUME NEW q \in Processes, Inserting(q)'
      PROVE  /\ row'[q].id < nextId'
             /\ \A b \in bookings' : b.id # row'[q].id
             /\ \A t \in Processes \ {q} :
                    Inserting(t)' => row'[t].id # row'[q].id
             /\ Admitted(q, row[q])'
  BY <1>1, <1>4 DEF InFlight, Admitted
<1>5. ASSUME NEW q \in Processes, Cancelling(q)'
      PROVE  /\ row'[q] \in bookings'
             /\ IsActive(row[q])'
             /\ \A t \in Processes \ {q} : Cancelling(t)' => row'[t] # row'[q]
  BY <1>1, <1>5 DEF InFlight, IsActive
<1> QED
  BY <1>3, <1>4, <1>5 DEF InFlight

\* COMMIT of a cancellation: the row stays, under its id, and conflicts with
\* nothing any more; the other cancellations are of other rows.
LEMMA CancelCommitted ==
    ASSUME TypeOK, InHand, InFlight,
           NEW p \in Processes, Cancelling(p),
           bookings' = AfterCancel(row[p]),
           nextId' = nextId,
           pc' = [pc EXCEPT ![p] = "idle"],
           \A q \in Processes \ {p} : row'[q] = row[q]
    PROVE  InFlight'
<1> USE DEF TypeOK
<1> DEFINE c == [row[p] EXCEPT !.status = "cancelled"]
<1>1. /\ ~Inserting(p)' /\ ~Cancelling(p)'
      /\ \A q \in Processes \ {p} : /\ Inserting(q)' = Inserting(q)
                                    /\ Cancelling(q)' = Cancelling(q)
                                    /\ row'[q] = row[q]
  BY DEF Inserting, Cancelling
<1>2. row[p] \in Row /\ row[p] \in bookings
  BY DEF InHand, Cancelling, InFlight
<1>3. /\ c \in Row /\ c.id = row[p].id
      /\ \A r : ~Excludes(r, c)
  BY <1>2, CancelledRow
<1>4. bookings' = (bookings \ {row[p]}) \cup {c}
  BY DEF AfterCancel
<1> HIDE DEF c
<1>5. /\ UniqueIds(bookings)'
      /\ \A b \in bookings' : b.id < nextId'
  BY <1>2, <1>3, <1>4 DEF InFlight, UniqueIds
<1>6. ASSUME NEW q \in Processes, Inserting(q)'
      PROVE  /\ row'[q].id < nextId'
             /\ \A b \in bookings' : b.id # row'[q].id
             /\ \A t \in Processes \ {q} :
                    Inserting(t)' => row'[t].id # row'[q].id
             /\ Admitted(q, row[q])'
  BY <1>1, <1>2, <1>3, <1>4, <1>6 DEF InFlight, Admitted
<1>7. ASSUME NEW q \in Processes, Cancelling(q)'
      PROVE  /\ row'[q] \in bookings'
             /\ IsActive(row[q])'
             /\ \A t \in Processes \ {q} : Cancelling(t)' => row'[t] # row'[q]
  BY <1>1, <1>4, <1>7 DEF InFlight, IsActive
<1> QED
  BY <1>5, <1>6, <1>7 DEF InFlight

\* SELECT ... FOR UPDATE takes a row nobody else is cancelling, in the version
\* it found.
LEMMA RowSelected ==
    ASSUME TypeOK, InHand, InFlight,
           NEW s \in Sessions, LockBooking(s)
    PROVE  InFlight'
<1> USE DEF TypeOK, Processes
<1> DEFINE b == row[s]
<1>2. b \in bookings /\ IsActive(b)
  BY DEF LockBooking, InHand
<1>3. /\ Cancelling(s)' /\ ~Inserting(s)' /\ row'[s] = b
      /\ \A q \in Processes \ {s} : /\ Inserting(q)' = Inserting(q)
                                    /\ Cancelling(q)' = Cancelling(q)
                                    /\ row'[q] = row[q]
      /\ UNCHANGED <<bookings, nextId>>
  BY DEF LockBooking, Inserting, Cancelling
<1>4. \A q \in Processes \ {s} : Cancelling(q) => row[q] # b
  BY ProcessesAssumption DEF LockBooking, BookingFree, InHand, Cancelling
<1>5. ASSUME NEW q \in Processes, Inserting(q)'
      PROVE  /\ row'[q].id < nextId'
             /\ \A x \in bookings' : x.id # row'[q].id
             /\ \A t \in Processes \ {q} :
                    Inserting(t)' => row'[t].id # row'[q].id
             /\ Admitted(q, row[q])'
  BY <1>3, <1>5 DEF InFlight, Admitted
<1>6. ASSUME NEW q \in Processes, Cancelling(q)'
      PROVE  /\ row'[q] \in bookings'
             /\ IsActive(row[q])'
             /\ \A t \in Processes \ {q} : Cancelling(t)' => row'[t] # row'[q]
  BY <1>2, <1>3, <1>4, <1>6 DEF InFlight, IsActive
<1> QED
  BY <1>3, <1>5, <1>6 DEF InFlight, UniqueIds

\* Every step keeps the rows in flight compatible with the table and with
\* each other.
LEMMA FlightStep ==
    ASSUME TypeOK, InHand, InFlight, [Next]_vars
    PROVE  InFlight'
<1> USE DEF TypeOK, InHand, Processes, Finish, Inserting, Cancelling
<1>1. ASSUME NEW s \in Sessions,
             NEW u \in Users, NEW m \in Masters,
             NEW sv \in Services, NEW t \in StartTimes,
             Confirm(s, u, m, sv, t)
      PROVE  InFlight'
  BY <1>1, NothingCommitted DEF Confirm
<1>2. ASSUME NEW s \in Sessions, NEW u \in Users, NEW id \in 1 .. nextId - 1,
             CancelSelect(s, u, id)
      PROVE  InFlight'
  BY <1>2, NothingCommitted DEF CancelSelect
<1>3. ASSUME NEW s \in Sessions, NEW u \in Users, NEW id \in 1 .. nextId - 1,
             CancelNothing(s, u, id)
      PROVE  InFlight'
  BY <1>3, NothingCommitted DEF CancelNothing
<1>4. ASSUME NEW s \in Sessions,
             AcquireLock(s) \/ CheckFree(s) \/ UpdateStatus(s)
      PROVE  InFlight'
  BY <1>4, NothingCommitted DEF AcquireLock, CheckFree, UpdateStatus
<1>5. ASSUME NEW s \in Sessions,
             CheckTaken(s) \/ InsertRefused(s) \/ DbError(s)
      PROVE  InFlight'
  BY <1>5, NothingCommitted DEF CheckTaken, InsertRefused, DbError
<1>6. ASSUME NEW s \in Sessions, InsertBooking(s)
      PROVE  InFlight'
  <2> DEFINE r == [row[s] EXCEPT !.id = nextId]
  <2>1. r \in Row /\ r.id = nextId
    BY <1>6 DEF InsertBooking, Row
  <2>2. Admitted(s, r)
    <3>1. \A x : Excludes(r, x) <=> Excludes(row[s], x)
      BY <1>6 DEF InsertBooking, Excludes, IsActive, Row
    <3> QED
      BY <1>6, <3>1 DEF InsertBooking, Admitted
  <2>3. row' = [row EXCEPT ![s] = r]
    BY <1>6 DEF InsertBooking
  <2> HIDE DEF r
  <2> QED
    BY <1>6, <2>1, <2>2, <2>3, RowInserted DEF InsertBooking
<1>7. ASSUME NEW s \in Sessions, CommitBooking(s)
      PROVE  InFlight'
  BY <1>7, InsertCommitted DEF CommitBooking
<1>8. ASSUME NEW s \in Sessions, CommitCancel(s)
      PROVE  InFlight'
  BY <1>8, CancelCommitted DEF CommitCancel
<1>9. ASSUME NEW s \in Sessions, CommitAckLost(s)
      PROVE  InFlight'
  <2>1. CASE pc[s] = "insert_done"
    BY <1>9, <2>1, InsertCommitted DEF CommitAckLost
  <2>2. CASE pc[s] = "cancel_done"
    BY <1>9, <2>2, CancelCommitted DEF CommitAckLost
  <2> QED
    BY <1>9, <2>1, <2>2 DEF CommitAckLost
<1>10. ASSUME NEW w \in Writers,
              NEW u \in Users, NEW m \in Masters,
              NEW sv \in Services, NEW t \in StartTimes,
              NEW st \in OutsideStatuses,
              OutsideInsert(w, u, m, sv, t, st)
       PROVE  InFlight'
  <2> DEFINE r == [NewRow(u, m, sv, t) EXCEPT !.id = nextId, !.status = st]
  <2>1. r \in Row /\ r.id = nextId
    <3>1. NewRow(u, m, sv, t) \in Row
      BY NewRowIsRow
    <3> QED
      BY <3>1, OutsideStatusesAssumption DEF Row
  <2>2. /\ Admitted(w, r)
        /\ pc[w] = "idle"
        /\ row' = [row EXCEPT ![w] = r]
        /\ nextId' = nextId + 1
        /\ pc' = [pc EXCEPT ![w] = "insert_done"]
        /\ bookings' = bookings
    BY <1>10 DEF OutsideInsert
  <2> HIDE DEF r
  <2> QED
    BY <2>1, <2>2, RowInserted
<1>11. ASSUME NEW w \in Writers, OutsideCommit(w)
       PROVE  InFlight'
  BY <1>11, InsertCommitted DEF OutsideCommit
<1>12. ASSUME NEW w \in Writers, OutsideRollback(w)
       PROVE  InFlight'
  BY <1>12, NothingCommitted DEF OutsideRollback
<1>13. ASSUME BotRestart
       PROVE  InFlight'
  BY <1>13, NothingCommitted, ProcessesAssumption DEF BotRestart
<1>14. ASSUME UNCHANGED vars
       PROVE  InFlight'
  BY <1>14, NothingCommitted DEF vars
<1>15. ASSUME NEW s \in Sessions, LockBooking(s)
       PROVE  InFlight'
  BY <1>15, RowSelected
<1>16. ASSUME NEW s \in Sessions,
              LockUser(s) \/ CancelTooLate(s) \/ CommitEdit(s)
       PROVE  InFlight'
  BY <1>16, NothingCommitted DEF LockUser, CancelTooLate, CommitEdit
<1>17. ASSUME NEW s \in Sessions, NEW u \in Users, EditUser(s, u)
       PROVE  InFlight'
  BY <1>17, NothingCommitted DEF EditUser
<1> QED
  BY <1>1, <1>2, <1>3, <1>4, <1>5, <1>6, <1>7, <1>8, <1>9, <1>10, <1>11,
     <1>12, <1>13, <1>14, <1>15, <1>16, <1>17
  DEF Next, Request, Proceed, Granted, Outside

\* What the two safety theorems below rest on.
THEOREM FlightCorrect == Spec => []InFlight
<1> DEFINE Inv == TypeOK /\ InHand /\ InFlight
<1>1. Init => Inv
  BY DEF Init, TypeOK, InHand, InFlight, UniqueIds, Inserting, Cancelling,
         Processes
<1>2. Inv /\ [Next]_vars => Inv'
  BY TypeStep, FlightStep
<1> QED
  BY <1>1, <1>2, PTL DEF Spec

-----------------------------------------------------------------------------
(* The ledger, and no double booking                                      *)

\* The committed table changes in three ways only, each allowed by the
\* ledger: a row in flight comes in, an active row is cancelled, or nothing.
LEMMA TableStep ==
    ASSUME TypeOK, InHand, InFlight, [Next]_vars
    PROVE  \/ bookings' = bookings
           \/ \E p \in Processes :
                  Inserting(p) /\ bookings' = bookings \cup {row[p]}
           \/ \E p \in Processes :
                  Cancelling(p) /\ bookings' = AfterCancel(row[p])
<1> USE DEF Processes, Inserting, Cancelling
<1>1. ASSUME NEW s \in Sessions, Request(s)
      PROVE  bookings' = bookings
  BY <1>1 DEF Request, Confirm, CancelSelect, CancelNothing, EditUser
<1>2. ASSUME NEW s \in Sessions, CommitBooking(s)
      PROVE  Inserting(s) /\ bookings' = bookings \cup {row[s]}
  BY <1>2 DEF CommitBooking
<1>3. ASSUME NEW s \in Sessions, CommitCancel(s)
      PROVE  Cancelling(s) /\ bookings' = AfterCancel(row[s])
  BY <1>3 DEF CommitCancel
<1>4. ASSUME NEW s \in Sessions, Proceed(s), ~CommitBooking(s), ~CommitCancel(s)
      PROVE  bookings' = bookings
  BY <1>4 DEF Proceed, Granted, AcquireLock, CheckFree, CheckTaken, LockUser,
              InsertBooking, InsertRefused, LockBooking, CancelTooLate,
              UpdateStatus, CommitEdit
<1>5. ASSUME NEW s \in Sessions, CommitAckLost(s)
      PROVE  \/ Inserting(s) /\ bookings' = bookings \cup {row[s]}
             \/ Cancelling(s) /\ bookings' = AfterCancel(row[s])
  BY <1>5 DEF CommitAckLost
<1>6. ASSUME NEW s \in Sessions, DbError(s)
      PROVE  bookings' = bookings
  BY <1>6 DEF DbError
<1>7. ASSUME NEW w \in Writers, Outside(w)
      PROVE  \/ bookings' = bookings
             \/ Inserting(w) /\ bookings' = bookings \cup {row[w]}
  BY <1>7 DEF Outside, OutsideInsert, OutsideCommit, OutsideRollback
<1>8. BotRestart \/ UNCHANGED vars => bookings' = bookings
  BY DEF BotRestart, vars
<1> QED
  BY <1>1, <1>2, <1>3, <1>4, <1>5, <1>6, <1>7, <1>8 DEF Next

\* The transactions implement the ledger: seen from the committed table, any
\* run of the sessions is a sequence of bookings that each meet no active
\* booking, of cancellations of active bookings, and of steps that show
\* nothing; no booking is ever lost, altered or used twice.
THEOREM LedgerImplemented == Spec => LedgerSpec
<1> DEFINE Inv == TypeOK /\ InHand /\ InFlight
<1>1. Init => Ledger!Init
  BY DEF Init, Ledger!Init
<1>2. ASSUME TypeOK, InHand, InFlight, [Next]_vars
      PROVE  [Ledger!Next]_bookings
  <2> USE DEF Ledger!Row, Ledger!BookingStatus, Row, BookingStatus
  <2>3. /\ \A r : IsActive(r) <=> Ledger!IsActive(r)
        /\ \A r, b : Excludes(r, b) <=> Ledger!Excludes(r, b)
    BY DEF IsActive, Ledger!IsActive, ACTIVE_STATUSES, Ledger!ACTIVE_STATUSES,
           Excludes, Ledger!Excludes, Overlaps, Ledger!Overlaps
  <2>1. ASSUME NEW p \in Processes, Inserting(p),
               bookings' = bookings \cup {row[p]}
        PROVE  Ledger!Next
    <3>1. /\ row[p] \in Row
          /\ \A b \in bookings : b.id # row[p].id
          /\ \A b \in bookings : ~Excludes(row[p], b)
      BY <1>2, <2>1 DEF InHand, Inserting, InFlight, Admitted
    <3>2. row[p] \in bookings' \ bookings
      BY <2>1, <3>1
    <3>3. Ledger!Book(row[p])
      BY <2>1, <2>3, <3>1 DEF Ledger!Book
    <3> QED
      BY <3>1, <3>2, <3>3 DEF Ledger!Next
  <2>2. ASSUME NEW p \in Processes, Cancelling(p),
               bookings' = AfterCancel(row[p])
        PROVE  Ledger!Next
    <3>1. row[p] \in bookings /\ IsActive(row[p])
      BY <1>2, <2>2 DEF InFlight
    <3>2. Ledger!Cancel(row[p])
      BY <2>2, <2>3, <3>1 DEF Ledger!Cancel, AfterCancel
    <3> QED
      BY <3>1, <3>2 DEF Ledger!Next
  <2> QED
    BY <1>2, <2>1, <2>2, TableStep
<1>3. Init => Inv
  BY DEF Init, TypeOK, InHand, InFlight, UniqueIds, Inserting, Cancelling,
         Processes
<1>4. Inv /\ [Next]_vars => Inv'
  BY TypeStep, FlightStep
<1> QED
  BY <1>1, <1>2, <1>3, <1>4, PTL DEF Spec, LedgerSpec, Ledger!Spec

Facts == INSTANCE BookingLedgerProofs WITH bookings <- bookings

\* The ledger of the module is the one BookingLedgerProofs speaks of.
LEMMA LedgerIsConsistent == LedgerSpec => [](NoOverlapIn(bookings) /\ UniqueIds(bookings))
<1>1. /\ Ledger!Init <=> Facts!Init
      /\ [Ledger!Next]_bookings <=> [Facts!Next]_bookings
  BY DEF Ledger!Init, Facts!Init, Ledger!Next, Facts!Next, Ledger!Book, Facts!Book,
         Ledger!Cancel, Facts!Cancel, Ledger!Row, Facts!Row,
         Ledger!BookingStatus, Facts!BookingStatus,
         Ledger!IsActive, Facts!IsActive,
         Ledger!ACTIVE_STATUSES, Facts!ACTIVE_STATUSES,
         Ledger!Excludes, Facts!Excludes, Ledger!Overlaps, Facts!Overlaps
<1>2. Facts!Spec => []Facts!Consistent
  BY Facts!LedgerConsistent, DurationAssumption, StartTimesAssumption
<1>3. Facts!Consistent => NoOverlapIn(bookings) /\ UniqueIds(bookings)
  BY DEF Facts!Consistent, NoOverlapIn, Facts!NoOverlapIn, UniqueIds, Facts!UniqueIds
<1> QED
  BY <1>1, <1>2, <1>3, PTL DEF LedgerSpec, Ledger!Spec, Facts!Spec

\* Double booking is impossible: no two committed active bookings of one
\* master overlap, with any number of sessions, of transactions from outside
\* that take no lock, of failed and of unacknowledged commits.  The ledger has
\* no overlaps, and the transactions implement it.
THEOREM NoDoubleBooking == Spec => []NoOverlap
<1>1. NoOverlapIn(bookings) => NoOverlap
  BY DEF NoOverlap
<1> QED
  BY LedgerImplemented, LedgerIsConsistent, <1>1, PTL

-----------------------------------------------------------------------------
(* The advisory lock is enough by itself                                   *)

\* A session reaches the INSERT, or the UPDATE before it, by the overlap
\* check, and waits there with the same row.
Checked(s) == pc[s] \in {"users", "insert"}

LEMMA InsertAfterCheck ==
    ASSUME TypeOK, InHand, [Next]_vars, Writers = {},
           NEW s \in Sessions, Checked(s)'
    PROVE  \/ CheckFree(s)
           \/ Checked(s) /\ row'[s] = row[s]
<1> USE DEF TypeOK, Processes, Finish, Checked
<1>1. ASSUME NEW q \in Sessions, Request(q)
      PROVE  Checked(s) /\ row'[s] = row[s]
  BY <1>1 DEF Request, Confirm, CancelSelect, CancelNothing, EditUser
<1>2. ASSUME NEW q \in Sessions, CheckFree(q)
      PROVE  CheckFree(s) \/ (Checked(s) /\ row'[s] = row[s])
  <2>1. CASE q = s
    BY <1>2, <2>1
  <2>2. CASE q # s
    BY <1>2, <2>2 DEF CheckFree
  <2> QED
    BY <2>1, <2>2
<1>3. ASSUME NEW q \in Sessions, Proceed(q), ~CheckFree(q)
      PROVE  Checked(s) /\ row'[s] = row[s]
  BY <1>3
  DEF Proceed, Granted, AcquireLock, CheckTaken, LockUser, InsertBooking,
      InsertRefused, CommitBooking, LockBooking, CancelTooLate, UpdateStatus,
      CommitCancel, CommitEdit
<1>4. ASSUME NEW q \in Sessions, DbError(q) \/ CommitAckLost(q)
      PROVE  Checked(s) /\ row'[s] = row[s]
  BY <1>4 DEF DbError, CommitAckLost
<1>5. ASSUME BotRestart
      PROVE  FALSE
  BY <1>5 DEF BotRestart
<1> QED
  BY <1>1, <1>2, <1>3, <1>4, <1>5 DEF Next, vars

\* The test of create_booking sees every row the constraint would.
LEMMA CheckSeesConflicts ==
    ASSUME TypeOK, NEW r \in Row,
           ~SlotTaken(bookings, r.master, r.starts_at, r.ends_at)
    PROVE  \A b \in bookings : ~Excludes(r, b)
BY DEF TypeOK, SlotTaken, BusyRows, Excludes, Overlaps, Row

\* What a check saw is still true after any step: a conflicting row would have
\* to be inserted by a session that holds the same lock.
LEMMA CheckStep ==
    ASSUME StoreInv, StoreInv', CheckStaysTrue, [Next]_vars
    PROVE  CheckStaysTrue'
<1> SUFFICES ASSUME Writers = {}, NEW s \in Sessions, Checked(s)'
             PROVE  Admitted(s, row[s])'
  BY DEF CheckStaysTrue, Checked
<1> USE DEF StoreInv, Checked
<1>1. \A q \in Processes \ {s} :
          Inserting(q)' => ~Excludes(row'[s], row'[q])
  <2>1. ASSUME NEW q \in Processes \ {s}, Inserting(q)'
        PROVE  ~Excludes(row'[s], row'[q])
    <3>1. /\ q \in Sessions
          /\ HoldsLock(s)' /\ HoldsLock(q)'
      BY <2>1 DEF Processes, HoldsLock, Inserting
    <3>2. row'[s] \in Row /\ row'[q] \in Row
      BY <2>1 DEF InHand, Processes, Inserting
    <3>3. row'[s].master # row'[q].master
      BY <3>1, <3>2 DEF LockExactlyHeld, Row
    <3> QED
      BY <3>3 DEF Excludes
  <2> QED
    BY <2>1
<1>2. CASE CheckFree(s)
  <2>1. row[s] \in Row
    BY <1>2 DEF InHand, Processes, CheckFree
  <2>2. \A b \in bookings : ~Excludes(row[s], b)
    BY <1>2, <2>1, CheckSeesConflicts DEF CheckFree
  <2> QED
    BY <1>1, <1>2, <2>2 DEF Admitted, CheckFree
<1>3. CASE Checked(s) /\ row'[s] = row[s]
  <2>1. Admitted(s, row[s])
    BY <1>3 DEF CheckStaysTrue
  <2>2. ASSUME NEW p \in Processes, Inserting(p),
               bookings' = bookings \cup {row[p]}
        PROVE  \A b \in bookings' : ~Excludes(row[s], b)
    <3>1. p # s
      BY <1>3, <2>2 DEF Inserting
    <3> QED
      BY <2>1, <2>2, <3>1 DEF Admitted
  <2>3. ASSUME NEW p \in Processes, Cancelling(p),
               bookings' = AfterCancel(row[p])
        PROVE  \A b \in bookings' : ~Excludes(row[s], b)
    <3>1. row[p] \in Row
      BY <2>3 DEF InHand, Cancelling
    <3> QED
      BY <2>1, <2>3, <3>1, CancelledRow DEF Admitted, AfterCancel
  <2>4. \A b \in bookings' : ~Excludes(row[s], b)
    BY <2>1, <2>2, <2>3, TableStep DEF Admitted
  <2> QED
    BY <1>1, <1>3, <2>4 DEF Admitted
<1> QED
  BY <1>2, <1>3, InsertAfterCheck

LEMMA CheckInit == Init => StoreInv /\ CheckStaysTrue
BY ProcessesAssumption
DEF Init, StoreInv, TypeOK, InHand, LockExactlyHeld, HoldsLock, InFlight,
    UniqueIds, Inserting, Cancelling, Processes, CheckStaysTrue

LEMMA StoreStep == StoreInv /\ [Next]_vars => StoreInv'
BY TypeStep, LockStep, FlightStep DEF StoreInv

\* Without writers outside, what the overlap check of create_booking saw is
\* still true when its INSERT runs: the constraint is a second line only.
THEOREM LockIsEnough == Spec => []CheckStaysTrue
BY CheckInit, CheckStep, StoreStep, PTL DEF Spec

\* A session that holds a row lock, of either kind, goes on, and waits for
\* nobody.
LEMMA RowHolderGoesOn ==
    ASSUME CheckStaysTrue, Writers = {}, NEW q \in Sessions,
           HoldsUser(q) \/ Cancelling(q)
    PROVE  GoesOn(q) /\ \A r \in Sessions : ~WaitsFor(q, r)
BY DEF CheckStaysTrue, HoldsUser, Cancelling, GoesOn, WaitsFor

\* Where a session stands still, another holds what it asks for.
LEMMA SomebodyHolds ==
    ASSUME StoreInv, CheckStaysTrue, Writers = {}, NEW s \in Sessions,
           pc[s] # "idle", ~GoesOn(s)
    PROVE  \E q \in Sessions : WaitsFor(s, q)
<1> USE DEF StoreInv, TypeOK, Processes
<1>1. pc[s] \in {"lock", "users", "edit", "select"}
  BY DEF GoesOn, CheckStaysTrue
<1>2. CASE pc[s] = "lock"
  <2>1. row[s].master \in Masters
    BY <1>2 DEF InHand, Row
  <2>2. PICK q \in Sessions : advisoryLock[row[s].master] = q
    BY <1>2, <2>1 DEF GoesOn
  <2>3. HoldsLock(q)
    BY <2>1, <2>2 DEF LockExactlyHeld
  <2> QED
    BY <1>2, <2>2, <2>3 DEF HoldsLock, WaitsFor
<1>3. CASE pc[s] \in {"users", "edit"}
  BY <1>3 DEF GoesOn, UserFree, HoldsUser, WaitsFor
<1>4. CASE pc[s] = "select"
  <2>1. PICK q \in Sessions \ {s} : Cancelling(q) /\ row[q].id = row[s].id
    BY <1>4 DEF GoesOn, BookingFree
  <2> QED
    BY <1>4, <2>1 DEF Cancelling, WaitsFor
<1> QED
  BY <1>1, <1>2, <1>3, <1>4

\* The one chain of two waits there is.
LEMMA ChainIsShort ==
    ASSUME StoreInv, CheckStaysTrue, Writers = {},
           NEW s \in Sessions, NEW q \in Sessions, NEW r \in Sessions,
           WaitsFor(s, q), WaitsFor(q, r)
    PROVE  pc[s] = "lock" /\ pc[q] = "users" /\ GoesOn(r)
<1>1. ~HoldsUser(q) /\ ~Cancelling(q)
  BY RowHolderGoesOn
<1>2. pc[s] = "lock" /\ advisoryLock[row[s].master] = q
  BY <1>1 DEF WaitsFor
<1>3. row[s].master \in Masters
  BY <1>2 DEF StoreInv, InHand, Processes, Row
<1>4. HoldsLock(q)
  BY <1>2, <1>3 DEF StoreInv, LockExactlyHeld
<1>5. pc[q] = "users" /\ HoldsUser(r)
  BY <1>4 DEF HoldsLock, WaitsFor
<1> QED
  BY <1>2, <1>5, RowHolderGoesOn

\* When every booking is made by the repository, sessions of any number that
\* book, cancel and write the same rows of `users' never wait in a circle or
\* for a transaction that is over, and no chain of waits has a third link.
THEOREM WaitingIsBounded == Spec => []WaitEnds
<1>1. StoreInv /\ CheckStaysTrue => WaitEnds
  BY SomebodyHolds, ChainIsShort DEF WaitEnds
<1> QED
  BY <1>1, CheckInit, CheckStep, StoreStep, PTL DEF Spec

-----------------------------------------------------------------------------
(* What the clients were told                                              *)

\* A session in a transaction has told nothing yet, and one that told of a
\* success still holds the row it told of.
Told ==
    \A s \in Sessions :
        /\ pc[s] # "idle" => reply[s] = "none"
        /\ reply[s] \in {"booked", "cancelled"} => row[s] \in Row

\* A writer outside leaves the sessions where they are.
LEMMA OutsideFrame ==
    ASSUME TypeOK, NEW w \in Writers, NEW s \in Sessions, Outside(w)
    PROVE  reply' = reply /\ row'[s] = row[s] /\ pc'[s] = pc[s]
<1>1. /\ reply' = reply
      /\ \E r : row' = [row EXCEPT ![w] = r]
      /\ \E x : pc' = [pc EXCEPT ![w] = x]
  <2>1. ASSUME NEW u \in Users, NEW m \in Masters, NEW sv \in Services,
               NEW t \in StartTimes, NEW st \in OutsideStatuses,
               OutsideInsert(w, u, m, sv, t, st)
        PROVE  /\ reply' = reply
               /\ \E r : row' = [row EXCEPT ![w] = r]
               /\ \E x : pc' = [pc EXCEPT ![w] = x]
    BY <2>1 DEF OutsideInsert
  <2> QED
    BY <2>1 DEF Outside, OutsideCommit, OutsideRollback
<1>2. w # s
  BY ProcessesAssumption
<1> QED
  BY <1>1, <1>2 DEF TypeOK, Processes

\* A success is told by a commit only, and stays told with the same row.
LEMMA SuccessIsOld ==
    ASSUME TypeOK, InHand, Told, [Next]_vars,
           NEW s \in Sessions, reply'[s] \in {"booked", "cancelled"}
    PROVE  \/ reply'[s] = reply[s] /\ row'[s] = row[s] /\ pc'[s] = pc[s]
           \/ CommitBooking(s) /\ reply'[s] = "booked"
           \/ CommitCancel(s) /\ reply'[s] = "cancelled"
<1> USE DEF TypeOK, Told, Processes, Finish
<1> DEFINE Old == reply'[s] = reply[s] /\ row'[s] = row[s] /\ pc'[s] = pc[s]
<1>1. ASSUME NEW q \in Sessions, Request(q)
      PROVE  Old
  BY <1>1 DEF Request, Confirm, CancelSelect, CancelNothing, EditUser
<1>2. ASSUME NEW q \in Sessions,
             \/ AcquireLock(q) \/ CheckFree(q) \/ LockUser(q)
             \/ InsertBooking(q) \/ LockBooking(q) \/ UpdateStatus(q)
      PROVE  Old
  BY <1>2 DEF AcquireLock, CheckFree, LockUser, InsertBooking, LockBooking,
              UpdateStatus
<1>3. ASSUME NEW q \in Sessions,
             \/ CheckTaken(q) \/ InsertRefused(q)
             \/ CancelTooLate(q) \/ CommitEdit(q)
             \/ DbError(q) \/ CommitAckLost(q)
      PROVE  Old
  BY <1>3 DEF CheckTaken, InsertRefused, CancelTooLate, CommitEdit, DbError,
              CommitAckLost, ErrorText
<1>4. ASSUME NEW q \in Sessions, CommitBooking(q)
      PROVE  Old \/ (CommitBooking(s) /\ reply'[s] = "booked")
  BY <1>4 DEF CommitBooking
<1>5. ASSUME NEW q \in Sessions, CommitCancel(q)
      PROVE  Old \/ (CommitCancel(s) /\ reply'[s] = "cancelled")
  BY <1>5 DEF CommitCancel
<1>6. ASSUME NEW w \in Writers, Outside(w)
      PROVE  Old
  BY <1>6, OutsideFrame
<1>7. ASSUME BotRestart
      PROVE  FALSE
  BY <1>7 DEF BotRestart
<1>8. ASSUME NEW q \in Sessions, Proceed(q)
      PROVE  \/ Old
             \/ CommitBooking(s) /\ reply'[s] = "booked"
             \/ CommitCancel(s) /\ reply'[s] = "cancelled"
  BY <1>2, <1>3, <1>4, <1>5, <1>8 DEF Proceed, Granted
<1>9. UNCHANGED vars => Old
  BY DEF vars
<1> HIDE DEF TypeOK, Told, Processes, Finish, Old
<1>10. \/ Old
       \/ CommitBooking(s) /\ reply'[s] = "booked"
       \/ CommitCancel(s) /\ reply'[s] = "cancelled"
  BY <1>1, <1>3, <1>6, <1>7, <1>8, <1>9 DEF Next
<1> QED
  BY <1>10 DEF Old

\* No step leaves a session that told of a success without its row.
LEMMA ToldStep ==
    ASSUME TypeOK, InHand, Told, [Next]_vars
    PROVE  Told'
<1> USE DEF TypeOK, Told, Processes, Finish
<1>1. ASSUME NEW s \in Sessions, reply'[s] \in {"booked", "cancelled"}
      PROVE  row'[s] \in Row
  BY <1>1, SuccessIsOld DEF InHand, CommitBooking, CommitCancel
<1>2. ASSUME NEW s \in Sessions, pc'[s] # "idle"
      PROVE  reply'[s] = "none"
  <2>1. ASSUME NEW q \in Sessions, Request(q)
        PROVE  reply'[s] = "none"
    BY <1>2, <2>1 DEF Request, Confirm, CancelSelect, CancelNothing, EditUser
  <2>2. ASSUME NEW q \in Sessions,
               \/ AcquireLock(q) \/ CheckFree(q) \/ LockUser(q)
               \/ InsertBooking(q) \/ LockBooking(q) \/ UpdateStatus(q)
        PROVE  reply'[s] = "none"
    BY <1>2, <2>2
    DEF AcquireLock, CheckFree, LockUser, InsertBooking, LockBooking, UpdateStatus
  <2>3. ASSUME NEW q \in Sessions,
               \/ CheckTaken(q) \/ InsertRefused(q) \/ CommitBooking(q)
               \/ CommitCancel(q) \/ CancelTooLate(q) \/ CommitEdit(q)
               \/ DbError(q) \/ CommitAckLost(q)
        PROVE  reply'[s] = "none"
    BY <1>2, <2>3
    DEF CheckTaken, InsertRefused, CommitBooking, CommitCancel, CancelTooLate,
        CommitEdit, DbError, CommitAckLost
  <2>4. ASSUME NEW w \in Writers, Outside(w)
        PROVE  reply'[s] = "none"
    BY <1>2, <2>4, OutsideFrame
  <2>5. ASSUME BotRestart
        PROVE  reply'[s] = "none"
    BY <2>5 DEF BotRestart
  <2> QED
    BY <1>2, <2>1, <2>2, <2>3, <2>4, <2>5 DEF Next, Proceed, Granted, vars
<1> QED
  BY <1>1, <1>2

\* What is in the table stays there, as it is or cancelled; what is cancelled
\* stays as it is.
LEMMA NothingDisappears ==
    ASSUME TypeOK, InHand, InFlight, [Next]_vars, NEW b \in bookings
    PROVE  \/ b \in bookings'
           \/ IsActive(b) /\ [b EXCEPT !.status = "cancelled"] \in bookings'
BY TableStep DEF AfterCancel, InFlight

\* What a client was told of a success stays true while the session lives: a
\* booking made is in the table, later cancelled or not, and a cancelled one
\* is never active again.
THEOREM RepliesAreTrue == Spec => []ReplyIsTrue
<1> DEFINE Inv == TypeOK /\ InHand /\ InFlight /\ Told /\ ReplyIsTrue
<1>1. Init => Inv
  BY ProcessesAssumption
  DEF Init, TypeOK, InHand, InFlight, UniqueIds, Inserting, Cancelling,
      Processes, Told, ReplyIsTrue
<1>2. ASSUME TypeOK, InHand, InFlight, Told, ReplyIsTrue, [Next]_vars
      PROVE  ReplyIsTrue'
  <2>1. ASSUME NEW s \in Sessions,
               reply'[s] \in {"booked", "cancelled"},
               reply'[s] = reply[s], row'[s] = row[s]
        PROVE  /\ reply'[s] = "booked" =>
                      \/ row'[s] \in bookings'
                      \/ [row'[s] EXCEPT !.status = "cancelled"] \in bookings'
               /\ reply'[s] = "cancelled" =>
                      [row'[s] EXCEPT !.status = "cancelled"] \in bookings'
    <3> DEFINE c == [row[s] EXCEPT !.status = "cancelled"]
    <3>1. row[s] \in Row
      BY <1>2, <2>1 DEF Told
    <3>2. ~IsActive(c) /\ [c EXCEPT !.status = "cancelled"] = c
      BY <3>1, CancelledRow DEF Row
    <3>3. row[s] \in bookings => row[s] \in bookings' \/ c \in bookings'
      BY <1>2, NothingDisappears
    <3>4. c \in bookings => c \in bookings'
      BY <1>2, <3>2, NothingDisappears
    <3> QED
      BY <1>2, <2>1, <3>3, <3>4 DEF ReplyIsTrue
  <2>2. ASSUME NEW s \in Sessions, CommitBooking(s)
        PROVE  row'[s] \in bookings'
    BY <2>2 DEF CommitBooking
  <2>3. ASSUME NEW s \in Sessions, CommitCancel(s)
        PROVE  [row'[s] EXCEPT !.status = "cancelled"] \in bookings'
    BY <2>3 DEF CommitCancel, AfterCancel
  <2> QED
    BY <1>2, <2>1, <2>2, <2>3, SuccessIsOld DEF ReplyIsTrue
<1>3. Inv /\ [Next]_vars => Inv'
  BY <1>2, TypeStep, FlightStep, ToldStep
<1> QED
  BY <1>1, <1>3, PTL DEF Spec

\* Of any number of presses of the cancel button of one booking, one at most
\* is answered as a cancellation.
THEOREM CancelledOnce == Spec => []NoDoubleCancel
<1> DEFINE Inv == TypeOK /\ InHand /\ InFlight /\ Told
<1>1. Init => Inv /\ NoDoubleCancel
  BY ProcessesAssumption
  DEF Init, TypeOK, InHand, InFlight, UniqueIds, Inserting, Cancelling,
      Processes, Told, NoDoubleCancel
<1>2. ASSUME TypeOK, InHand, InFlight, Told, ReplyIsTrue, NoDoubleCancel,
             [Next]_vars
      PROVE  NoDoubleCancel'
  <2> SUFFICES ASSUME NEW s \in Sessions, NEW t \in Sessions, s # t,
                      reply'[s] = "cancelled", reply'[t] = "cancelled"
               PROVE  row'[s].id # row'[t].id
    BY DEF NoDoubleCancel
  <2>1. ASSUME NEW x \in Sessions, NEW y \in Sessions, x # y,
               CommitCancel(x),
               reply'[y] = reply[y], row'[y] = row[y], reply'[y] = "cancelled"
        PROVE  row'[x].id # row'[y].id
    <3> DEFINE c == [row[y] EXCEPT !.status = "cancelled"]
    <3>1. c \in bookings /\ row[y] \in Row
      BY <1>2, <2>1 DEF ReplyIsTrue, Told
    <3>2. c.id = row[y].id /\ ~IsActive(c)
      BY <3>1, CancelledRow
    <3>3. row[x] \in bookings /\ IsActive(row[x]) /\ row'[x] = row[x]
      BY <1>2, <2>1 DEF InFlight, CommitCancel, Cancelling, Processes
    <3>4. c # row[x]
      BY <3>2, <3>3
    <3>5. c.id # row[x].id
      BY <1>2, <3>1, <3>3, <3>4 DEF InFlight, UniqueIds
    <3> HIDE DEF c
    <3> QED
      BY <2>1, <3>2, <3>3, <3>5
  <2>2. ~(CommitCancel(s) /\ CommitCancel(t))
    BY <1>2 DEF CommitCancel, Finish, TypeOK, Processes
  <2>3. /\ \/ reply'[s] = reply[s] /\ row'[s] = row[s]
           \/ CommitCancel(s)
        /\ \/ reply'[t] = reply[t] /\ row'[t] = row[t]
           \/ CommitCancel(t)
    BY <1>2, SuccessIsOld
  <2> QED
    BY <1>2, <2>1, <2>2, <2>3 DEF NoDoubleCancel
<1>3. Inv /\ [Next]_vars => Inv'
  BY TypeStep, FlightStep, ToldStep
<1>4. Spec => []ReplyIsTrue
  BY RepliesAreTrue
<1> QED
  BY <1>1, <1>2, <1>3, <1>4, PTL DEF Spec
=============================================================================
