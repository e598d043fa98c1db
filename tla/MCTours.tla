------------------------------ MODULE MCTours ------------------------------
(* Small instances of Tours for TLC. *)
EXTENDS Tours, TLC

CONSTANTS b1, b2, d1, v1, v2

\* The first booking lasts two slots, the second one; each has a vehicle of its own.
MCOffered ==
  [booking : {b1}, driver : Drivers, vehicle : {v1}, slot : Slots]
    \cup [booking : {b2}, driver : Drivers, vehicle : {v2}, slot : {1}]

SomeSections == {{"DRIVER"}, {"DRIVER", "TOUR"}}
OneSection == {{"DRIVER"}}
OneReport == {<<1, "COMPLETED">>}
OneLink == {<<b1, d1>>}
OneArchives == [s \in Staff |-> IF s = "mover" THEN {"UPDATE", "ARCHIVE"} ELSE {"CREATE"}]
Anything == [s \in Staff |-> {"UPDATE", "CREATE", "ARCHIVE"}]

\* Feedback begins in the first booking only, and only that one is cancelled.
FirstBooking ==
  /\ \A n \in Numbers : engagements[b2][n].status \in {"NONE", "READY"}
  /\ bookings[b2].status # "CANCELLED"
=============================================================================
