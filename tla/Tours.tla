------------------------------- MODULE Tours -------------------------------
(***************************************************************************)
(* Tour bookings, their trips, the engagements the trips are grouped into,   *)
(* and the links drivers reach their trips by                                 *)
(* (src/src/modules/trips, bookings, engagements, and the links of timeline).  *)
(*                                                                         *)
(* A trip occupies one slot; two trips overlap when they have the same slot.   *)
(* Within a slot trips are ordered by their number, the order of creation.      *)
(*                                                                         *)
(* Everything that touches a booking takes an advisory lock on it, and an       *)
(* assignment takes the locks of the driver and the vehicle as well.  Requests  *)
(* read the trip before they have the locks.  An update is refused unless the row *)
(* it locks is the one it read, so it begins with the row; archiving does not       *)
(* compare them.                                                                 *)
(***************************************************************************)
EXTENDS Integers, FiniteSets, FiniteSetsExt

CONSTANTS
  Bookings, Drivers, Vehicles,
  MaxTrips, MaxSlot, MaxVersion,  \* bounds of the model
  Ends,          \* last slots of a period staff may set
  Statuses,      \* statuses of a booking staff may set
  SectionSets,   \* feedback sections staff may choose
  Away,          \* slots drivers cannot take: leave, shift, no assignments
  MaxDuty,       \* slots a driver may work in a day; all slots are of one day
  Offered,       \* assignments staff ask for
  Reports,       \* trips and the progress that is reported of them
  Linked,        \* pairs of a booking and a driver that links are made for
  Staff,         \* requests about trips that can be in progress at once
  Does,          \* what each of them may do
  Null

Trips == 1 .. MaxTrips
Slots == 1 .. MaxSlot
Numbers == 1 .. 2 * MaxTrips
Operations == {"CREATE", "UPDATE", "ARCHIVE"}
Purposes == {"ARRIVAL", "DRIVER", "TOUR"}

ASSUME ToursAssumption ==
  /\ MaxTrips \in Nat /\ MaxSlot \in Nat /\ MaxVersion \in Nat /\ MaxDuty \in Nat
  /\ Null \notin Nat
  /\ Ends \subseteq Slots /\ SectionSets \subseteq SUBSET Purposes
  /\ Statuses \subseteq {"ACTIVE", "COMPLETED", "CANCELLED"}
  /\ Away \subseteq Drivers \X Slots
  /\ Offered \subseteq [booking : Bookings, driver : Drivers, vehicle : Vehicles, slot : Slots]
  /\ Reports \subseteq Trips \X {"SCHEDULED", "STARTED", "COMPLETED"}
  /\ Linked \subseteq Bookings \X Drivers
  /\ Does \in [Staff -> SUBSET Operations]

VARIABLES
  bookings,     \* bookings: status and the last slot of the period
  trips,        \* trips, with their progress
  engagements,  \* booking_driver_engagements and their feedback sections, by sequence number
  links,        \* driver_booking_links and driver_link_trips: the latest of each pair
  requests      \* requests about trips in progress

tVars == <<bookings, trips, engagements, links, requests>>

NoRow == [status |-> "NONE"]
BookingRow == [status : {"ACTIVE", "COMPLETED", "CANCELLED", "ARCHIVED"}, until : Slots]
TripRow ==
  [status : {"READY", "ARCHIVED"}, booking : Bookings, driver : Drivers, vehicle : Vehicles,
   slot : Slots, version : 1 .. MaxVersion, engagement : Numbers \cup {Null},
   progress : {"SCHEDULED", "STARTED", "COMPLETED"}]
EngagementRow ==
  [status : {"READY", "FEEDBACK_STARTED", "SUBMITTED"}, driver : Drivers,
   sections : SUBSET Purposes]
LinkRow == [status : {"ISSUED", "EXPIRED", "REVOKED"}, grants : SUBSET (Trips \X (1 .. MaxVersion))]

Idle == [pc |-> "idle"]
Pairs == Bookings \X Drivers

-----------------------------------------------------------------------------
(* Engagements.  Operators take the trips as rows: a request regroups the trips it is about *)
(* to write.                                                                               *)

Live(rows) == {t \in Trips : rows[t] # NoRow /\ rows[t].status = "READY"}
Assigned(rows, b, d) == {t \in Live(rows) : rows[t].booking = b /\ rows[t].driver = d}

Held(b) == {n \in Numbers : engagements[b][n].status \in {"FEEDBACK_STARTED", "SUBMITTED"}}
HeldTrips(rows, b) ==
  {t \in Trips : rows[t] # NoRow /\ rows[t].booking = b /\ rows[t].engagement \in Held(b)}
\* The trips of a booking whose feedback has not begun.
Free(rows, b) == {t \in Live(rows) : rows[t].booking = b} \ HeldTrips(rows, b)

Before(rows, t, u) == rows[t].slot < rows[u].slot \/ (rows[t].slot = rows[u].slot /\ t < u)

\* deriveEngagementGroups(): a group starts where the driver changes.
Starts(rows, b) ==
  {t \in Free(rows, b) :
     ~ \E u \in Free(rows, b) :
         /\ Before(rows, u, t) /\ rows[u].driver = rows[t].driver
         /\ ~ \E v \in Free(rows, b) : Before(rows, u, v) /\ Before(rows, v, t)}
Offset(b) == Max(Held(b) \cup {0})
Number(rows, b, t) ==
  Offset(b) + Cardinality({u \in Starts(rows, b) : u = t \/ Before(rows, u, t)})

\* Arrival is asked of the first engagement, the whole tour of the last one.
BugArrivalAgain(b, n, last) ==
  {"DRIVER"} \cup (IF n = Offset(b) + 1 THEN {"ARRIVAL"} ELSE {})
             \cup (IF n = last THEN {"TOUR"} ELSE {})
Sections(b, n, last) ==
  {"DRIVER"} \cup (IF n = 1 /\ Held(b) = {} THEN {"ARRIVAL"} ELSE {})
             \cup (IF n = last THEN {"TOUR"} ELSE {})

\* rebuildEngagements()
Regrouped(rows, b) ==
  LET last == Offset(b) + Cardinality(Starts(rows, b))
      Lead(n) == CHOOSE t \in Starts(rows, b) : Number(rows, b, t) = n
  IN [n \in Numbers |->
        IF n \in Held(b) THEN engagements[b][n]
        ELSE IF n \in Offset(b) + 1 .. last
             THEN [status |-> "READY", driver |-> rows[Lead(n)].driver,
                   sections |-> Sections(b, n, last)]
             ELSE NoRow]
Enrolled(rows, b) ==
  [t \in Trips |->
     IF rows[t] = NoRow \/ rows[t].booking # b \/ t \in HeldTrips(rows, b) THEN rows[t]
     ELSE [rows[t] EXCEPT !.engagement =
             IF t \in Free(rows, b) THEN Number(rows, b, t) ELSE Null]]
\* Feedback that has begun stays before the rest of the tour, and is not the end of it.
InSequence(rows, b) ==
  Held(b) # {} =>
    /\ Free(rows, b) # {}
    /\ \A t \in Free(rows, b), u \in HeldTrips(rows, b) : Before(rows, u, t)

\* ensureBookingScheduleEditable(), ensureTripEngagementEditable()
ScheduleEditable(b) == \A n \in Held(b) : "TOUR" \notin engagements[b][n].sections
BugTripEditable(t) == TRUE
TripEditable(t) == t \notin HeldTrips(trips, trips[t].booking)

-----------------------------------------------------------------------------
(* Locks *)

LocksOf(s) == IF requests[s].pc = "locked" THEN requests[s].locks ELSE {}
BookingLocked(b) == \E s \in Staff : <<"booking", b>> \in LocksOf(s)
Available(s, keys) == \A o \in Staff \ {s} : LocksOf(o) \cap keys = {}

BugDriverNotLocked(assigned) == {<<"booking", assigned.booking>>, <<"vehicle", assigned.vehicle>>}
LocksFor(assigned) ==
  {<<"booking", assigned.booking>>, <<"driver", assigned.driver>>, <<"vehicle", assigned.vehicle>>}

\* resolveBooking(), validateBookingPeriod(), validateAssignment(); except is the trip itself.
ActiveBooking(b) == bookings[b].status = "ACTIVE"
InPeriod(assigned) == assigned.slot <= bookings[assigned.booking].until
Assignable(assigned, except) ==
  LET others == Live(trips) \ except IN
  /\ ActiveBooking(assigned.booking) /\ InPeriod(assigned)
  /\ <<assigned.driver, assigned.slot>> \notin Away
  /\ \A t \in others : trips[t].slot = assigned.slot =>
       trips[t].driver # assigned.driver /\ trips[t].vehicle # assigned.vehicle
  /\ Cardinality({t \in others : trips[t].driver = assigned.driver}) < MaxDuty

-----------------------------------------------------------------------------
(* Requests about trips *)

\* create(): the trip takes its place in the order of creation.
BeginCreate(s, assigned) ==
  LET taken == {requests[o].trip : o \in {x \in Staff : LocksOf(x) # {}}}
      unused == {t \in Trips : trips[t] = NoRow} \ taken
  IN
  /\ requests[s] = Idle /\ "CREATE" \in Does[s]
  /\ unused # {}
  /\ Available(s, LocksFor(assigned))
  /\ ScheduleEditable(assigned.booking)
  /\ Assignable(assigned, {})
  /\ requests' = [requests EXCEPT ![s] =
       [pc |-> "locked", op |-> "CREATE", trip |-> Min(unused), read |-> Null, to |-> assigned,
        locks |-> LocksFor(assigned)]]
  /\ UNCHANGED <<bookings, trips, engagements, links>>

\* update(), of the trip as it is: TRIP_ASSIGNMENT_CHANGED when it was changed since.
BeginUpdate(s, t, assigned) ==
  LET keys == LocksFor(assigned) \cup {<<"booking", trips[t].booking>>} IN
  /\ requests[s] = Idle /\ "UPDATE" \in Does[s]
  /\ trips[t].status = "READY" /\ trips[t].version < MaxVersion
  /\ Available(s, keys)
  /\ assigned.booking # trips[t].booking => trips[t].progress = "SCHEDULED"
  /\ assigned.driver # trips[t].driver => trips[t].progress # "COMPLETED"
  /\ ScheduleEditable(trips[t].booking) /\ ScheduleEditable(assigned.booking)
  /\ TripEditable(t)
  /\ Assignable(assigned, {t})
  /\ requests' = [requests EXCEPT ![s] =
       [pc |-> "locked", op |-> "UPDATE", trip |-> t, read |-> trips[t], to |-> assigned,
        locks |-> keys]]
  /\ UNCHANGED <<bookings, trips, engagements, links>>

\* archive() reads the trip, and locks the booking the trip had.
AskArchive(s, t) ==
  /\ requests[s] = Idle /\ "ARCHIVE" \in Does[s]
  /\ trips[t] # NoRow
  /\ requests' = [requests EXCEPT ![s] = [pc |-> "asked", trip |-> t, read |-> trips[t]]]
  /\ UNCHANGED <<bookings, trips, engagements, links>>

BeginArchive(s) ==
  LET t == requests[s].trip
      keys == {<<"booking", requests[s].read.booking>>}
  IN
  /\ requests[s].pc = "asked"
  /\ Available(s, keys)
  /\ ScheduleEditable(requests[s].read.booking) /\ TripEditable(t)
  /\ requests' = [requests EXCEPT ![s] =
       [pc |-> "locked", op |-> "ARCHIVE", trip |-> t, read |-> requests[s].read, to |-> Null,
        locks |-> keys]]
  /\ UNCHANGED <<bookings, trips, engagements, links>>

\* A request that is refused, or whose connection is lost.
GiveUp(s) ==
  /\ requests[s] # Idle
  /\ requests' = [requests EXCEPT ![s] = Idle]
  /\ UNCHANGED <<bookings, trips, engagements, links>>

Row(assigned, version, progress) ==
  [status |-> "READY", booking |-> assigned.booking, driver |-> assigned.driver,
   vehicle |-> assigned.vehicle, slot |-> assigned.slot, version |-> version,
   engagement |-> Null, progress |-> progress]

Regroup(rows, bs) ==
  /\ \A b \in bs : InSequence(rows, b)
  /\ engagements' = [b \in Bookings |-> IF b \in bs THEN Regrouped(rows, b) ELSE engagements[b]]
  /\ trips' = [t \in Trips |->
       IF rows[t] # NoRow /\ rows[t].booking \in bs THEN Enrolled(rows, rows[t].booking)[t]
       ELSE rows[t]]

\* A link that is left without a trip of the pair is revoked.
Unassigned(rows, b, d) ==
  IF Assigned(rows, b, d) = {} /\ links[<<b, d>>] # NoRow
  THEN [links EXCEPT ![<<b, d>>].status = "REVOKED"] ELSE links

CommitCreate(s) ==
  LET t == requests[s].trip
      to == requests[s].to
      pair == <<to.booking, to.driver>>
  IN
  /\ requests[s].pc = "locked" /\ requests[s].op = "CREATE"
  /\ Regroup([trips EXCEPT ![t] = Row(to, 1, "SCHEDULED")], {to.booking})
  /\ links' = IF links[pair].status = "ISSUED"
              THEN [links EXCEPT ![pair].grants = @ \cup {<<t, 1>>}] ELSE links
  /\ requests' = [requests EXCEPT ![s] = Idle]
  /\ UNCHANGED bookings

BugVersionKept(old, to) == IF to.driver # old.driver THEN old.version + 1 ELSE old.version
NextVersion(old, to) ==
  IF to.driver # old.driver \/ to.booking # old.booking THEN old.version + 1 ELSE old.version

CommitUpdate(s) ==
  LET t == requests[s].trip
      to == requests[s].to
      old == requests[s].read
      rows == [trips EXCEPT ![t] = Row(to, NextVersion(trips[t], to), trips[t].progress)]
  IN
  /\ requests[s].pc = "locked" /\ requests[s].op = "UPDATE"
  /\ Regroup(rows, {old.booking, to.booking})
  /\ links' = IF to.driver # old.driver \/ to.booking # old.booking
              THEN Unassigned(rows, old.booking, old.driver) ELSE links
  /\ requests' = [requests EXCEPT ![s] = Idle]
  /\ UNCHANGED bookings

CommitArchive(s) ==
  LET t == requests[s].trip
      old == requests[s].read
      rows == [trips EXCEPT ![t].status = "ARCHIVED"]
  IN
  /\ requests[s].pc = "locked" /\ requests[s].op = "ARCHIVE"
  /\ Regroup(rows, {old.booking})
  /\ links' = Unassigned(rows, old.booking, old.driver)
  /\ requests' = [requests EXCEPT ![s] = Idle]
  /\ UNCHANGED bookings

-----------------------------------------------------------------------------
(* Bookings, each in one transaction under the lock of the booking *)

\* The last engagement must ask about the whole tour.
TourIsAsked(b) ==
  LET present == {n \in Numbers : engagements[b][n] # NoRow} IN
  present # {} /\ "TOUR" \in engagements[b][Max(present)].sections

Revoked(b) ==
  [p \in Pairs |-> IF p[1] = b /\ links[p] # NoRow THEN [links[p] EXCEPT !.status = "REVOKED"]
                   ELSE links[p]]

CreateBooking(b, until) ==
  /\ bookings[b] = NoRow
  /\ bookings' = [bookings EXCEPT ![b] = [status |-> "ACTIVE", until |-> until]]
  /\ UNCHANGED <<trips, engagements, links, requests>>

UpdateBooking(b, status, until) ==
  /\ bookings[b].status \in {"ACTIVE", "COMPLETED", "CANCELLED"}
  /\ ~ BookingLocked(b)
  /\ \A t \in Live(trips) : trips[t].booking = b => trips[t].slot <= until
  /\ status = "COMPLETED" => TourIsAsked(b)
  /\ bookings' = [bookings EXCEPT ![b] = [status |-> status, until |-> until]]
  /\ links' = IF status = "CANCELLED" THEN Revoked(b) ELSE links
  /\ UNCHANGED <<trips, engagements, requests>>

ArchiveBooking(b) ==
  /\ bookings[b] # NoRow /\ ~ BookingLocked(b)
  /\ bookings' = [bookings EXCEPT ![b].status = "ARCHIVED"]
  /\ links' = Revoked(b)
  /\ UNCHANGED <<trips, engagements, requests>>

-----------------------------------------------------------------------------
(* Engagements *)

\* updateFeedbackSections(): arrival and tour belong to one engagement of a booking.
UpdateSections(b, n, purposes) ==
  /\ engagements[b][n].status = "READY" /\ ~ BookingLocked(b)
  /\ purposes # {}
  /\ \A m \in Numbers \ {n} : engagements[b][m] # NoRow =>
       engagements[b][m].sections \cap purposes \subseteq {"DRIVER"}
  /\ engagements' = [engagements EXCEPT ![b][n].sections = purposes]
  /\ UNCHANGED <<bookings, trips, links, requests>>

\* The feedback of an engagement begins and is submitted (Feedback has the details).
StartFeedback(b, n) ==
  /\ engagements[b][n].status = "READY" /\ ~ BookingLocked(b)
  /\ engagements' = [engagements EXCEPT ![b][n].status = "FEEDBACK_STARTED"]
  /\ UNCHANGED <<bookings, trips, links, requests>>
SubmitFeedback(b, n) ==
  /\ engagements[b][n].status = "FEEDBACK_STARTED" /\ ~ BookingLocked(b)
  /\ engagements' = [engagements EXCEPT ![b][n].status = "SUBMITTED"]
  /\ UNCHANGED <<bookings, trips, links, requests>>

\* A driver reports on a trip (Timeline has the details).
Report(t, progress) ==
  /\ t \in Live(trips) /\ ~ BookingLocked(trips[t].booking)
  /\ bookings[trips[t].booking].status \in {"ACTIVE", "COMPLETED"}
  /\ trips' = [trips EXCEPT ![t].progress = progress]
  /\ UNCHANGED <<bookings, engagements, links, requests>>

\* setProgress(): an administrator puts a trip into another state, which begins a new cycle.
SetProgress(t, progress) ==
  /\ t \in Live(trips) /\ ~ BookingLocked(trips[t].booking)
  /\ bookings[trips[t].booking].status = "ACTIVE"
  /\ trips[t].version < MaxVersion
  /\ trips' = [trips EXCEPT ![t].progress = progress, ![t].version = @ + 1]
  /\ UNCHANGED <<bookings, engagements, links, requests>>

-----------------------------------------------------------------------------
(* Driver links *)

\* issueLink(), which keeps the link of the pair or replaces it.
IssueLink(b, d) ==
  /\ bookings[b].status \in {"ACTIVE", "COMPLETED"} /\ ~ BookingLocked(b)
  /\ Assigned(trips, b, d) # {}
  /\ links' = [links EXCEPT ![<<b, d>>] =
       [status |-> "ISSUED", grants |-> {<<t, trips[t].version>> : t \in Assigned(trips, b, d)}]]
  /\ UNCHANGED <<bookings, trips, engagements, requests>>

RevokeLink(b, d) ==
  /\ links[<<b, d>>] # NoRow /\ ~ BookingLocked(b)
  /\ links' = [links EXCEPT ![<<b, d>>].status = "REVOKED"]
  /\ UNCHANGED <<bookings, trips, engagements, requests>>

LinkExpires(b, d) ==
  /\ links[<<b, d>>].status = "ISSUED"
  /\ links' = [links EXCEPT ![<<b, d>>].status = "EXPIRED"]
  /\ UNCHANGED <<bookings, trips, engagements, requests>>

-----------------------------------------------------------------------------
TInit ==
  /\ bookings = [b \in Bookings |-> NoRow]
  /\ trips = [t \in Trips |-> NoRow]
  /\ engagements = [b \in Bookings |-> [n \in Numbers |-> NoRow]]
  /\ links = [p \in Pairs |-> NoRow]
  /\ requests = [s \in Staff |-> Idle]

TripStep(s) ==
  \/ \E a \in Offered : BeginCreate(s, a) \/ \E t \in Trips : BeginUpdate(s, t, a)
  \/ \E t \in Trips : AskArchive(s, t)
  \/ BeginArchive(s)
  \/ CommitCreate(s) \/ CommitUpdate(s) \/ CommitArchive(s)
  \/ GiveUp(s)

BookingStep(b) ==
  \/ \E until \in Ends :
       CreateBooking(b, until) \/ \E status \in Statuses : UpdateBooking(b, status, until)
  \/ ArchiveBooking(b)
  \/ \E n \in Numbers :
       \/ \E purposes \in SectionSets : UpdateSections(b, n, purposes)
       \/ StartFeedback(b, n) \/ SubmitFeedback(b, n)
  \/ \E d \in {x \in Drivers : <<b, x>> \in Linked} :
       IssueLink(b, d) \/ RevokeLink(b, d) \/ LinkExpires(b, d)

TNext ==
  \/ \E s \in Staff : TripStep(s)
  \/ \E b \in Bookings : BookingStep(b)
  \/ \E r \in Reports : Report(r[1], r[2]) \/ SetProgress(r[1], r[2])

TSpec == TInit /\ [][TNext]_tVars

-----------------------------------------------------------------------------
(* Properties *)

\* The rows keep the columns of the tables.
TTypeOK ==
  /\ bookings \in [Bookings -> BookingRow \cup {NoRow}]
  /\ trips \in [Trips -> TripRow \cup {NoRow}]
  /\ engagements \in [Bookings -> [Numbers -> EngagementRow \cup {NoRow}]]
  /\ links \in [Pairs -> LinkRow \cup {NoRow}]

\* No driver and no vehicle is on two trips at once, whichever requests assign them at the
\* same time, in the same booking or in two; and no driver works more than a day's duty.
NoDoubleBooking ==
  /\ \A t, u \in Live(trips) : (t # u /\ trips[t].slot = trips[u].slot) =>
       trips[t].driver # trips[u].driver /\ trips[t].vehicle # trips[u].vehicle
  /\ \A d \in Drivers : Cardinality({t \in Live(trips) : trips[t].driver = d}) <= MaxDuty

\* The engagements of a booking are its live trips in order, cut where the driver changes:
\* every live trip is in one engagement, of its driver; engagements follow the order of the
\* trips; each has a trip; and nobody is asked twice about arrival or about the whole tour.
EngagementsFollowTrips ==
  \A b \in Bookings :
    LET mine == {t \in Live(trips) : trips[t].booking = b}
        In(n) == {t \in mine : trips[t].engagement = n}
    IN
    /\ \A t \in mine : trips[t].engagement # Null
    /\ \A n \in Numbers : engagements[b][n] = NoRow <=> In(n) = {}
    /\ \A t, u \in mine : trips[t].engagement < trips[u].engagement => Before(trips, t, u)
    /\ \A n \in Numbers : \A t \in In(n) : trips[t].driver = engagements[b][n].driver
    /\ \A purpose \in {"ARRIVAL", "TOUR"} :
         Cardinality({n \in Numbers : engagements[b][n] # NoRow
                                        /\ purpose \in engagements[b][n].sections}) <= 1

\* What passengers are giving feedback on does not change under them: once it has begun the
\* engagement keeps its number, driver, sections and trips, and stays begun.
BegunIsKept ==
  [][\A b \in Bookings : \A n \in Held(b) :
       /\ n \in Held(b)'
       /\ engagements'[b][n].driver = engagements[b][n].driver
       /\ engagements'[b][n].sections = engagements[b][n].sections
       /\ \A t \in Trips : (trips[t] # NoRow /\ trips[t].booking = b /\ trips[t].engagement = n) =>
            [trips'[t] EXCEPT !.progress = trips[t].progress, !.version = trips[t].version] = trips[t]]_tVars

\* "Removing the driver's last active assignment revokes the pair link"
\* (FRONTEND_DRIVER_TIMELINE_PROMPT.md).
LinksHaveTrips ==
  \A b \in Bookings, d \in Drivers :
    links[<<b, d>>].status \in {"ISSUED", "EXPIRED"} => Assigned(trips, b, d) # {}

\* A link opens only trips of its driver in its booking: no grant survives a reassignment,
\* not even one that is taken back later.
GrantsAreOwn ==
  \A b \in Bookings, d \in Drivers : links[<<b, d>>].status = "ISSUED" =>
    \A g \in links[<<b, d>>].grants :
      (trips[g[1]].status = "READY" /\ trips[g[1]].version = g[2]) =>
        trips[g[1]].booking = b /\ trips[g[1]].driver = d
=============================================================================
