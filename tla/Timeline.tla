----------------------------- MODULE Timeline ------------------------------
(***************************************************************************)
(* What drivers report of their trips, and the photos they add                *)
(* (src/src/modules/timeline).  Composes Tours: its report on a trip and its    *)
(* change of progress are here as the code does them.                           *)
(*                                                                         *)
(* A driver's request reads the booking of the trip, waits for the lock of that   *)
(* booking, and then reads everything again.  A request that needs a photo also    *)
(* holds the row of the photo until it ends, so it is one step; so is one round    *)
(* of the cleanup, which can be interrupted after it has deleted the objects.      *)
(***************************************************************************)
EXTENDS Tours

CONSTANTS
  ClientIds,   \* ids that drivers' devices give their reports
  Messages,    \* what they may report
  Photos,
  MaxTime      \* bound of the times of reports, which come in any order

Times == 1 .. MaxTime
Milestones == {"TRIP_STARTED", "ARRIVED", "TRIP_COMPLETED"}
Message ==
  [kind : Milestones \cup {"NOTE", "CORRECTION"}, at : Times, photos : SUBSET Photos,
   corrects : ClientIds \cup {Null}]

\* Null is no time and no client id, as NULL is none in their columns.
ASSUME TimelineAssumption ==
  MaxTime \in Nat /\ Messages \subseteq Message /\ Null \notin Times \cup ClientIds

VARIABLES
  progress,  \* feedback_trip_progress
  events,    \* feedback_timeline_events, by client id
  photos,    \* feedback_timeline_photos
  objects,   \* objects in the storage: the upload and the stored image of a photo
  closed,    \* bookings that ended more than a day ago
  calls,     \* drivers' requests that wait for the lock of a booking
  sweep      \* photos the cleanup has found without an event

tlOwn == <<progress, events, photos, objects, closed, calls, sweep>>
tlVars == <<bookings, trips, engagements, links, requests,
            progress, events, photos, objects, closed, calls, sweep>>

ProgressRow ==
  [status : {"UNKNOWN", "SCHEDULED", "IN_PROGRESS", "COMPLETED", "CANCELLED"},
   startedAt : Times \cup {Null}, completedAt : Times \cup {Null}]
EventRow ==
  [status : {"RECORDED"}, trip : Trips, booking : Bookings, driver : Drivers,
   version : 1 .. MaxVersion, by : {"LINK", "LOGIN"}, message : Message]
PhotoRow ==
  [status : {"PENDING", "READY", "ATTACHED"}, trip : Trips, driver : Drivers,
   version : 1 .. MaxVersion, event : ClientIds \cup {Null},
   age : {"NEW", "EXPIRED", "OLD"}, cleaned : BOOLEAN]

Planned == [status |-> "SCHEDULED", startedAt |-> Null, completedAt |-> Null]

-----------------------------------------------------------------------------
(* Access *)

\* A driver's request, made with the assignment the device knows.
Call(d, t) ==
  /\ calls[d] = Idle /\ trips[t] # NoRow
  /\ calls' = [calls EXCEPT ![d] =
       [pc |-> "waits", trip |-> t, booking |-> trips[t].booking, version |-> trips[t].version]]
  /\ UNCHANGED <<tVars, progress, events, photos, objects, closed, sweep>>
CallFails(d) ==
  /\ calls[d] # Idle
  /\ calls' = [calls EXCEPT ![d] = Idle]
  /\ UNCHANGED <<tVars, progress, events, photos, objects, closed, sweep>>

StillIn(t, b) == trips[t].status = "READY" /\ trips[t].booking = b

\* authorisedTrip()
Authorised(d, by) ==
  LET t == calls[d].trip
      b == calls[d].booking
  IN
  /\ calls[d].pc = "waits" /\ ~ BookingLocked(b)
  /\ bookings[b].status \in {"ACTIVE", "COMPLETED"}
  /\ StillIn(t, b) /\ trips[t].driver = d
  /\ calls[d].version = trips[t].version
  /\ by = "LINK" => /\ links[<<b, d>>].status = "ISSUED"
                    /\ <<t, trips[t].version>> \in links[<<b, d>>].grants

\* checkReportingWindow()
Open(d) == calls[d].booking \in closed => links[<<calls[d].booking, d>>].status = "ISSUED"

-----------------------------------------------------------------------------
(* Reports *)

\* A report of something else than a milestone is always taken.  A completed trip takes
\* what happened before it was completed, and stays completed.
BugAnyLateReport(row, m) ==
  m.kind \in Milestones =>
    /\ row.status # "CANCELLED"
    /\ row.status = "COMPLETED" => m.kind # "TRIP_COMPLETED"
    /\ m.kind = "TRIP_COMPLETED" /\ row.startedAt # Null => m.at >= row.startedAt
Timely(row, m) ==
  m.kind \in Milestones =>
    /\ row.status # "CANCELLED"
    /\ row.status = "COMPLETED" =>
         m.kind # "TRIP_COMPLETED" /\ row.completedAt # Null /\ m.at <= row.completedAt
    /\ m.kind = "TRIP_COMPLETED" /\ row.startedAt # Null => m.at >= row.startedAt

Progressed(row, m) ==
  [status |->
     IF row.status = "COMPLETED" \/ m.kind = "TRIP_COMPLETED" THEN
       (IF m.kind = "TRIP_COMPLETED" THEN "COMPLETED" ELSE row.status)
     ELSE IF m.kind = "TRIP_STARTED" THEN "IN_PROGRESS" ELSE row.status,
   startedAt |->
     IF m.kind = "TRIP_STARTED" /\ (row.startedAt = Null \/ m.at < row.startedAt)
     THEN m.at ELSE row.startedAt,
   completedAt |-> IF m.kind = "TRIP_COMPLETED" THEN m.at ELSE row.completedAt]

\* What Tours keeps of the progress of a trip: whether it has a history, and is completed.
HasReport(t) == \E c \in ClientIds : events[c] # NoRow /\ events[c].trip = t
Summary(status, history) ==
  IF status = "COMPLETED" THEN "COMPLETED"
  ELSE IF history \/ status \notin {"UNKNOWN", "SCHEDULED"} THEN "STARTED" ELSE "SCHEDULED"

\* A correction is of a report of one's own, for the same assignment.
Correctable(d, t, m) ==
  IF m.kind = "CORRECTION"
  THEN /\ m.corrects # Null /\ events[m.corrects] # NoRow
       /\ events[m.corrects].trip = t /\ events[m.corrects].driver = d
       /\ events[m.corrects].version = trips[t].version
       /\ events[m.corrects].message.kind # "CORRECTION"
  ELSE m.corrects = Null

Usable(d, t, p) ==
  /\ photos[p].status = "READY" /\ photos[p].trip = t /\ photos[p].driver = d
  /\ photos[p].version = trips[t].version

\* submit().  An id that was used is answered as before, or refused: nothing changes.
Unused(c) == events[c] = NoRow
Submit(d, by, c, m) ==
  LET t == calls[d].trip IN
  /\ Authorised(d, by) /\ Unused(c) /\ Open(d)
  /\ Correctable(d, t, m) /\ Timely(progress[t], m)
  /\ \A p \in m.photos : Usable(d, t, p)
  /\ events' = [events EXCEPT ![c] =
       [status |-> "RECORDED", trip |-> t, booking |-> calls[d].booking, driver |-> d,
        version |-> trips[t].version, by |-> by, message |-> m]]
  /\ photos' = [p \in Photos |-> IF p \in m.photos
                                 THEN [photos[p] EXCEPT !.status = "ATTACHED", !.event = c]
                                 ELSE photos[p]]
  /\ progress' = [progress EXCEPT ![t] = Progressed(progress[t], m)]
  /\ trips' = [trips EXCEPT ![t].progress = Summary(Progressed(progress[t], m).status, TRUE)]
  /\ calls' = [calls EXCEPT ![d] = Idle]
  /\ UNCHANGED <<bookings, engagements, links, requests, objects, closed, sweep>>

\* setProgress(), which also begins a new cycle.  The trip is read again under the lock.
\* Staff may set every status from every other one, also cancel a trip that was started or
\* completed and reopen one that was cancelled.
StaffStatuses == {"SCHEDULED", "IN_PROGRESS", "COMPLETED", "CANCELLED"}
ChangeProgress(t, status, now) ==
  /\ t \in Live(trips) /\ ~ BookingLocked(trips[t].booking)
  /\ bookings[trips[t].booking].status = "ACTIVE"
  /\ trips[t].version < MaxVersion
  /\ progress' = [progress EXCEPT ![t] =
       [status |-> status, startedAt |-> IF status = "IN_PROGRESS" THEN now ELSE Null,
        completedAt |-> IF status = "COMPLETED" THEN now ELSE Null]]
  /\ trips' = [trips EXCEPT ![t].version = @ + 1,
                            ![t].progress = Summary(status, HasReport(t))]
  /\ UNCHANGED <<bookings, engagements, links, requests, events, photos, objects, closed, calls, sweep>>

TourEnds(b) ==
  /\ bookings[b] # NoRow
  /\ closed' = closed \cup {b}
  /\ UNCHANGED <<tVars, progress, events, photos, objects, calls, sweep>>

-----------------------------------------------------------------------------
(* Photos *)

\* createPhoto()
CreatePhoto(d, by, p) ==
  LET t == calls[d].trip IN
  /\ Authorised(d, by) /\ Open(d)
  /\ photos[p] = NoRow
  /\ photos' = [photos EXCEPT ![p] =
       [status |-> "PENDING", trip |-> t, driver |-> d, version |-> trips[t].version,
        event |-> Null, age |-> "NEW", cleaned |-> FALSE]]
  /\ calls' = [calls EXCEPT ![d] = Idle]
  /\ UNCHANGED <<tVars, progress, events, objects, closed, sweep>>

\* The device uploads, as often as it likes while the URL is good.
Upload(p) ==
  /\ photos[p] # NoRow /\ photos[p].age = "NEW"
  /\ objects' = [objects EXCEPT ![p] = @ \cup {"upload"}]
  /\ UNCHANGED <<tVars, progress, events, photos, closed, calls, sweep>>
PhotoAges(p) ==
  /\ photos[p] # NoRow /\ photos[p].age # "OLD"
  /\ photos' = [photos EXCEPT ![p].age = IF @ = "NEW" THEN "EXPIRED" ELSE "OLD"]
  /\ UNCHANGED <<tVars, progress, events, objects, closed, calls, sweep>>

\* completePhoto(): the upload becomes the stored image, unless it is no image; the commit
\* may be lost after that, and the driver asks again.
CompletePhoto(d, by, p, lost) ==
  /\ Authorised(d, by) /\ Open(d)
  /\ photos[p].status = "PENDING" /\ photos[p].age = "NEW"
  /\ photos[p].trip = calls[d].trip /\ photos[p].driver = d
  /\ photos[p].version = trips[calls[d].trip].version
  /\ objects[p] # {}
  /\ objects' = [objects EXCEPT ![p] = {"stored"}]
  /\ photos' = IF lost THEN photos ELSE [photos EXCEPT ![p].status = "READY"]
  /\ calls' = [calls EXCEPT ![d] = Idle]
  /\ UNCHANGED <<tVars, progress, events, closed, sweep>>

\* cleanupPhotos(): uploads of URLs that are no longer good, then photos of no event.
SweepUpload(p, lost) ==
  /\ photos[p] # NoRow /\ photos[p].age # "NEW" /\ ~ photos[p].cleaned
  /\ objects' = [objects EXCEPT ![p] = @ \ {"upload"}]
  /\ photos' = IF lost THEN photos ELSE [photos EXCEPT ![p].cleaned = TRUE]
  /\ UNCHANGED <<tVars, progress, events, closed, calls, sweep>>
FindOrphans ==
  /\ sweep = {}
  /\ sweep' = {p \in Photos : photos[p] # NoRow /\ photos[p].event = Null /\ photos[p].age = "OLD"}
  /\ UNCHANGED <<tVars, progress, events, photos, objects, closed, calls>>
BugFoundBefore(p) == photos[p] # NoRow
Orphan(p) == photos[p] # NoRow /\ photos[p].event = Null
SweepPhoto(p, lost) ==
  /\ p \in sweep
  /\ sweep' = sweep \ {p}
  /\ objects' = IF Orphan(p) THEN [objects EXCEPT ![p] = {}] ELSE objects
  /\ photos' = IF Orphan(p) /\ ~ lost THEN [photos EXCEPT ![p] = NoRow] ELSE photos
  /\ UNCHANGED <<tVars, progress, events, closed, calls>>

-----------------------------------------------------------------------------
TLInit ==
  /\ TInit
  /\ progress = [t \in Trips |-> Planned]
  /\ events = [c \in ClientIds |-> NoRow]
  /\ photos = [p \in Photos |-> NoRow]
  /\ objects = [p \in Photos |-> {}]
  /\ closed = {}
  /\ calls = [d \in Drivers |-> Idle]
  /\ sweep = {}

DriverStep(d) ==
  \/ \E t \in Trips : Call(d, t)
  \/ CallFails(d)
  \/ \E by \in {"LINK", "LOGIN"} :
       \/ \E c \in ClientIds, m \in Messages : Submit(d, by, c, m)
       \/ \E p \in Photos : CreatePhoto(d, by, p) \/ \E lost \in BOOLEAN : CompletePhoto(d, by, p, lost)
PhotoStep(p) ==
  \/ Upload(p) \/ PhotoAges(p)
  \/ \E lost \in BOOLEAN : SweepUpload(p, lost) \/ SweepPhoto(p, lost)
TourStep ==
  /\ \/ \E s \in Staff : TripStep(s)
     \/ \E b \in Bookings : BookingStep(b)
  /\ UNCHANGED tlOwn

TLNext ==
  \/ TourStep
  \/ \E d \in Drivers : DriverStep(d)
  \/ \E r \in Reports, status \in StaffStatuses, now \in Times :
       r[2] = Summary(status, FALSE) /\ ChangeProgress(r[1], status, now)
  \/ \E b \in Bookings : TourEnds(b)
  \/ \E p \in Photos : PhotoStep(p)
  \/ FindOrphans

TLSpec == TLInit /\ [][TLNext]_tlVars

-----------------------------------------------------------------------------
(* Properties *)

\* The times of a trip say what its status says, and the trip of Tours says the same.
TimesOf(t) ==
  LET row == progress[t] IN
  /\ row.status = "COMPLETED" <=> row.completedAt # Null
  /\ row.status = "CANCELLED" => row.startedAt = Null
  /\ (row.startedAt # Null /\ row.completedAt # Null) => row.startedAt <= row.completedAt
  /\ trips[t] # NoRow =>
       trips[t].progress = Summary(row.status, HasReport(t))

\* Reports may come in any order and late, before and after staff change the progress: no step makes
\* a trip end before it starts, have an end unless it is completed, or keep times once it is
\* cancelled.  What was cancelled or completed no report undoes, and none moves its end: only staff
\* take a trip out of it, with a new assignment version.
TimesAgree ==
  [][\A t \in Trips :
       /\ TimesOf(t)'
       /\ (/\ progress[t].status \in {"CANCELLED", "COMPLETED"}
           /\ <<progress'[t].status, progress'[t].completedAt>>
                # <<progress[t].status, progress[t].completedAt>>)
          => trips'[t].version = trips[t].version + 1]_tlVars

\* The photos of a report stay: neither cleanup nor a second completion removes the image
\* of a photo once a report has it, or the photo from the report.
AttachedStays ==
  [][\A p \in Photos : photos[p].status = "ATTACHED" =>
       /\ photos'[p].status = "ATTACHED" /\ photos'[p].event = photos[p].event
       /\ "stored" \in objects[p] => "stored" \in objects'[p]]_tlVars
=============================================================================
