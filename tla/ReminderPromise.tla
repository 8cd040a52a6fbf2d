-------------------------- MODULE ReminderPromise --------------------------
(***************************************************************************)
(* What reminders promise a client, with no schedule, queue or retry in    *)
(* sight: a reminder is sent by someone who has found the booking active,  *)
(* and there is no second one, unless the first one is excused (a process  *)
(* or the network failed where nobody can tell whether it was sent).       *)
(***************************************************************************)
CONSTANT Bookings

VARIABLES
    status,   \* "none", "confirmed", "cancelled"
    in_hand,  \* bookings found active, of which a reminder may now be sent
    sent,     \* reminders, each with its booking
    excused   \* bookings of which there may be a second reminder

vars == <<status, in_hand, sent, excused>>

Init ==
    /\ status = [b \in Bookings |-> "none"]
    /\ in_hand = {}
    /\ sent = {}
    /\ excused = {}

Become(b, old, new) ==
    /\ status[b] = old
    /\ status' = [status EXCEPT ![b] = new]
    /\ UNCHANGED <<in_hand, sent, excused>>

Look(b) ==
    /\ status[b] = "confirmed"
    /\ in_hand' = in_hand \cup {b}
    /\ UNCHANGED <<status, sent, excused>>

LetGo ==
    /\ in_hand' \subseteq in_hand
    /\ UNCHANGED <<status, sent, excused>>

Excuse ==
    /\ excused \subseteq excused'
    /\ UNCHANGED <<status, in_hand, sent>>

Remind(b) ==
    /\ b \in in_hand
    /\ in_hand' \subseteq in_hand
    /\ excused' \in {excused, excused \cup {b}}
    /\ b \notin excused' => \A r \in sent : r.booking # b
    /\ \E r \in sent' \ sent : r.booking = b /\ sent' = sent \cup {r}
    /\ UNCHANGED status

Next ==
    \/ \E b \in Bookings :
           \/ Become(b, "none", "confirmed") \/ Become(b, "confirmed", "cancelled")
           \/ Look(b) \/ Remind(b)
    \/ LetGo \/ Excuse

Spec == Init /\ [][Next]_vars

=============================================================================
