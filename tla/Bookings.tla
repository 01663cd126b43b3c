------------------------------ MODULE Bookings ------------------------------
(***************************************************************************)
(* Bookings of one period of the week: RoomService.bookRoom checks the     *)
(* bookings, looks for the active run, checks that run's lessons, then     *)
(* creates the row; ResourceService.bookResource checks the bookings and   *)
(* creates.  Nothing locks, and runs are edited and activated at any time. *)
(***************************************************************************)
EXTENDS Integers

CONSTANTS Rooms, Resources, Runs, Bookers, NoBooking, NoRun

ASSUME BookingAssumption == Rooms \cap Resources = {} /\ NoRun \notin Runs

Units == Rooms \cup Resources
Weeks == {"A", "B", "BOTH"}
Booking == [unit : Units, week : Weeks]
Hour == [unit : Rooms, week : Weeks]

VARIABLES
    bookings,       \* RoomBooking and ResourceBooking rows
    hours,          \* by run, where its lessons are in this period
    active,         \* the active run
    booking,        \* booking calls after their first check: [want, at, run]
    aux_raced,      \* auxiliary: pairs of which one was made while the call for
                    \* the other was between its checks and its create
    aux_later       \* auxiliary: [booking, lesson]: the lesson came after the check

bookingVars == <<bookings, hours, active, booking, aux_raced, aux_later>>

BookingInit ==
    /\ bookings = {} /\ booking = [u \in Bookers |-> NoBooking]
    /\ hours = [r \in Runs |-> {}] /\ active = NoRun
    /\ aux_raced = {} /\ aux_later = {}

(* The lessons that are in force.                                          *)
Held == IF active = NoRun THEN {} ELSE hours[active]

Overlap(x, y) == x.unit = y.unit /\ (x.week = y.week \/ "BOTH" \in {x.week, y.week})

MeetsOneWay(wanted, x) ==               \* mutant: a booking of both weeks is not split
    x.unit = wanted.unit /\ x.week \in {wanted.week, "BOTH"}

(* The OR of all three queries: the same week, BOTH, and A and B for BOTH. *)
Meets(wanted, x) ==
    /\ x.unit = wanted.unit
    /\ x.week \in {wanted.week, "BOTH"} \cup (IF wanted.week = "BOTH" THEN {"A", "B"} ELSE {})

CheckBookings(u, unit, week) ==
    LET wanted == [unit |-> unit, week |-> week]
    IN  /\ booking[u] = NoBooking
        /\ \A b \in bookings : ~ Meets(wanted, b)
        /\ booking' = [booking EXCEPT ![u] =
              [want |-> wanted, at |-> IF unit \in Rooms THEN "run" ELSE "create", run |-> NoRun]]
        /\ UNCHANGED <<bookings, hours, active, aux_raced, aux_later>>

FindActiveRun(u) ==
    /\ booking[u] # NoBooking /\ booking[u].at = "run"
    /\ booking' = [booking EXCEPT ![u].at = IF active = NoRun THEN "create" ELSE "lessons",
                                  ![u].run = active]
    /\ UNCHANGED <<bookings, hours, active, aux_raced, aux_later>>

CheckLessons(u) ==
    /\ booking[u] # NoBooking /\ booking[u].at = "lessons"
    /\ booking' = [booking EXCEPT ![u] =
          IF \E h \in hours[@.run] : Meets(@.want, h) THEN NoBooking ELSE [@ EXCEPT !.at = "create"]]
    /\ UNCHANGED <<bookings, hours, active, aux_raced, aux_later>>

(* The unique key of unit, day, period and week type refuses what is there *)
(* already.                                                                *)
CreateBooking(u) ==
    LET b == booking[u].want
        others == {booking[v].want : v \in {w \in Bookers \ {u} : booking[w] # NoBooking}}
    IN  /\ booking[u] # NoBooking /\ booking[u].at = "create"
        /\ bookings' = bookings \cup {b}
        /\ aux_raced' = aux_raced \cup {{b, x} : x \in {y \in others : Overlap(b, y)}}
        /\ booking' = [booking EXCEPT ![u] = NoBooking]
        /\ UNCHANGED <<hours, active, aux_later>>

(* cancelBooking, by whoever made it or by an admin.                       *)
CancelBooking(b) ==
    /\ bookings' = bookings \ {b}
    /\ IF \E u \in Bookers : booking[u] # NoBooking /\ booking[u].want = b
       THEN UNCHANGED <<aux_raced, aux_later>>
       ELSE /\ aux_raced' = {p \in aux_raced : b \notin p}
            /\ aux_later' = {p \in aux_later : p.booking # b}
    /\ UNCHANGED <<hours, active, booking>>

(* What calls ask for that will not look into run r any more.              *)
PastChecking(r) ==
    {booking[u].want : u \in {v \in Bookers : /\ booking[v] # NoBooking
                                              /\ \/ booking[v].at = "create"
                                                 \/ booking[v].at = "lessons" /\ booking[v].run # r}}

(* Lessons of run r that come into force are later than what they meet.    *)
ComeLate(r, lessons) ==
    {[booking |-> b, lesson |-> h] : b \in bookings \cup PastChecking(r), h \in lessons}

(* A solution, an edit or a resolved conflict puts a lesson into the room, *)
(* or an edit takes it out; no bookings are looked up.  The unique key of  *)
(* the run's lessons compares week types for equality.                     *)
PlaceLesson(r, h) ==
    /\ h \notin hours[r]
    /\ hours' = [hours EXCEPT ![r] = @ \cup {h}]
    /\ aux_later' = IF r = active
                    THEN aux_later \cup {p \in ComeLate(r, {h}) : Overlap(p.booking, p.lesson)}
                    ELSE aux_later
    /\ UNCHANGED <<bookings, active, booking, aux_raced>>

RemoveLesson(r, h) ==
    /\ hours' = [hours EXCEPT ![r] = @ \ {h}]
    /\ aux_later' = IF r = active THEN {p \in aux_later : p.lesson # h} ELSE aux_later
    /\ UNCHANGED <<bookings, active, booking, aux_raced>>

(* activateRun.                                                            *)
ActivateRun(r) ==
    /\ active' = r
    /\ aux_later' = {p \in aux_later : p.lesson \in hours[r]}
          \cup {p \in ComeLate(r, hours[r]) : Overlap(p.booking, p.lesson)}
    /\ UNCHANGED <<bookings, hours, booking, aux_raced>>

BookingNext ==
    \/ \E u \in Bookers : \/ \E unit \in Units, week \in Weeks : CheckBookings(u, unit, week)
                          \/ FindActiveRun(u) \/ CheckLessons(u) \/ CreateBooking(u)
    \/ \E b \in bookings : CancelBooking(b)
    \/ \E r \in Runs : \/ \E h \in Hour : PlaceLesson(r, h)
                       \/ \E h \in hours[r] : RemoveLesson(r, h)
                       \/ ActivateRun(r)

BookingSpec == BookingInit /\ [][BookingNext]_bookingVars
-----------------------------------------------------------------------------
(* getAvailability looks every slot up under the week type BOTH.           *)
Available(r) == \A x \in Held \cup bookings : ~ (x.unit = r /\ x.week = "BOTH")

(* Types.                                                                  *)
BookingTypeOK ==
    /\ bookings \subseteq Booking /\ hours \in [Runs -> SUBSET Hour]
    /\ active \in Runs \cup {NoRun}
    /\ booking \in [Bookers -> [want : Booking, at : {"run", "create"}, run : Runs \cup {NoRun}]
                               \cup [want : Booking, at : {"lessons"}, run : Runs] \cup {NoBooking}]

(* A room or a resource is given away twice only to calls that overlapped, *)
(* and a booking meets a lesson of the active run only if the lesson came, *)
(* or its run was activated, after the call had looked for it.             *)
GivenOnce ==
    \A b \in bookings :
        /\ \A c \in bookings \ {b} : Overlap(b, c) => {b, c} \in aux_raced
        /\ \A h \in Held : Overlap(b, h) => [booking |-> b, lesson |-> h] \in aux_later

(* "Returns rooms x periods with occupied/free status.": what is shown as  *)
(* free has neither lesson nor booking.                                    *)
AvailableIsFree == \A r \in Rooms : Available(r) => \A x \in Held \cup bookings : x.unit # r
=============================================================================
