----------------------- MODULE ReminderPromiseProofs -----------------------
(***************************************************************************)
(* What ReminderPromise comes to for a client: a module that implements it *)
(* reminds of no booking twice without an excuse, and of no booking that   *)
(* was cancelled before anybody looked.                                    *)
(***************************************************************************)
EXTENDS ReminderPromise, TLAPS

Statuses == status \in [Bookings -> {"none", "confirmed", "cancelled"}]

OnlyMade ==
    /\ \A b \in in_hand : b \in Bookings /\ status[b] # "none"
    /\ \A r \in sent : r.booking \in Bookings /\ status[r.booking] # "none"

OnceEach ==
    \A q, r \in sent : q.booking = r.booking /\ q # r => r.booking \in excused

Told == Statuses /\ OnlyMade /\ OnceEach

\* Nobody has found the cancelled booking b active.
OutOfHand(b) == status[b] = "cancelled" /\ b \notin in_hand

StaysQuiet(b) ==
    OutOfHand(b) => OutOfHand(b)' /\ \A r \in sent' \ sent : r.booking # b

LEMMA ToldStep ==
    ASSUME Told, [Next]_vars
    PROVE  Told'
<1> USE DEF Told, Statuses, OnlyMade, OnceEach
<1>1. ASSUME NEW b \in Bookings,
             Become(b, "none", "confirmed") \/ Become(b, "confirmed", "cancelled")
      PROVE  Told'
  BY <1>1 DEF Become
<1>2. ASSUME NEW b \in Bookings, Look(b)
      PROVE  Told'
  BY <1>2 DEF Look
<1>3. ASSUME NEW b \in Bookings, Remind(b)
      PROVE  Told'
  <2>1. PICK r \in sent' \ sent : r.booking = b /\ sent' = sent \cup {r}
    BY <1>3 DEF Remind
  <2>2. /\ b \in in_hand /\ in_hand' \subseteq in_hand
        /\ excused \subseteq excused' /\ status' = status
        /\ b \notin excused' => \A q \in sent : q.booking # b
    BY <1>3 DEF Remind
  <2> QED
    BY <2>1, <2>2
<1>4. CASE LetGo \/ Excuse \/ UNCHANGED vars
  BY <1>4 DEF LetGo, Excuse, vars
<1> QED
  BY <1>1, <1>2, <1>3, <1>4 DEF Next

\* Whoever is reminded has booked, and of two reminders of a booking the
\* second is excused.
THEOREM PromiseConsistent == Spec => []Told
<1>1. Init => Told
  BY DEF Init, Told, Statuses, OnlyMade, OnceEach
<1>2. Told /\ [Next]_vars => Told'
  BY ToldStep
<1> QED
  BY <1>1, <1>2, PTL DEF Spec

\* A booking cancelled while nobody has it in hand is never reminded of again.
THEOREM PromiseQuiet == Spec => [][\A b \in Bookings : StaysQuiet(b)]_vars
<1>1. ASSUME Told, [Next]_vars
      PROVE  [\A b \in Bookings : StaysQuiet(b)]_vars
  <2> USE <1>1 DEF Told, Statuses, StaysQuiet, OutOfHand
  <2>1. ASSUME NEW b \in Bookings, NEW c \in Bookings,
               \/ Become(c, "none", "confirmed") \/ Become(c, "confirmed", "cancelled")
               \/ Look(c)
        PROVE  StaysQuiet(b)
    BY <2>1 DEF Become, Look
  <2>2. ASSUME NEW b \in Bookings, NEW c \in Bookings, Remind(c)
        PROVE  StaysQuiet(b)
    BY <2>2 DEF Remind
  <2>3. ASSUME NEW b \in Bookings, LetGo \/ Excuse
        PROVE  StaysQuiet(b)
    BY <2>3 DEF LetGo, Excuse
  <2> QED
    BY <2>1, <2>2, <2>3 DEF Next
<1> QED
  BY PromiseConsistent, <1>1, PTL DEF Spec

=============================================================================
