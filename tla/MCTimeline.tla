---------------------------- MODULE MCTimeline -----------------------------
(* A small instance of Timeline for TLC. *)
EXTENDS Timeline, TLC

CONSTANTS b1, b2, v1, c1, p1, d1

MCOffered == [booking : Bookings, driver : Drivers, vehicle : {v1}, slot : {1}]
MCReports == {<<1, "COMPLETED">>, <<1, "STARTED">>, <<1, "SCHEDULED">>}
MCLinked == {<<b1, d1>>}
MCDoes == [s \in Staff |-> {"UPDATE", "CREATE"}]

Says(kind, at, pictures, corrects) ==
  [kind |-> kind, at |-> at, photos |-> pictures, corrects |-> corrects]
MCMessages ==
  {Says("TRIP_STARTED", at, {}, Null) : at \in 1 .. 2}
    \cup {Says("TRIP_COMPLETED", 1, {}, Null), Says("NOTE", 1, {p1}, Null),
          Says("CORRECTION", 2, {}, c1)}

\* No feedback begins and no booking is archived.  While a photo is about, its trip stays with
\* the driver, and drivers report notes only.  A second change of a trip is in one booking.
Small ==
  /\ \A b \in Bookings, n \in Numbers : engagements[b][n].status \in {"NONE", "READY"}
  /\ \A b \in Bookings : bookings[b].status # "ARCHIVED"
  /\ closed \subseteq {b1}
  /\ trips[1] # NoRow /\ trips[1].version = 3 => bookings[b2] = NoRow /\ closed = {}
  /\ photos[p1] # NoRow =>
       /\ closed = {} /\ trips[1].version = 1 /\ bookings[b2] = NoRow
       /\ links[<<b1, d1>>].status \in {"NONE", "ISSUED"}
       /\ \A c \in ClientIds : events[c] # NoRow => events[c].message.kind = "NOTE"
=============================================================================
