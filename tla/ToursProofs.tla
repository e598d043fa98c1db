---------------------------- MODULE ToursProofs ----------------------------
(***************************************************************************)
(* Theorems about Tours and Timeline, for any bookings, drivers, vehicles,     *)
(* trips, requests in progress, reports and photos.                         *)
(***************************************************************************)
EXTENDS Timeline, FiniteSetTheorems, WellFoundedInduction, TLAPS

USE ToursAssumption

-----------------------------------------------------------------------------
(* The inductive invariant.  A request that has its locks relies on what it has  *)
(* checked: nobody else takes the slot of its driver or its vehicle, because     *)
(* whoever does needs one of its locks.                                        *)

\* A row of trips, whatever its engagement.
IsTrip(row) ==
  /\ row = [status |-> row.status, booking |-> row.booking, driver |-> row.driver,
            vehicle |-> row.vehicle, slot |-> row.slot, version |-> row.version,
            engagement |-> row.engagement, progress |-> row.progress]
  /\ row.status \in {"READY", "ARCHIVED"}
AreTrips(rows) ==
  /\ rows = [t \in Trips |-> rows[t]]
  /\ \A t \in Trips : rows[t] = NoRow \/ IsTrip(rows[t])

\* The trips of a driver but one, and whether an assignment can take the place of that one.
Others(d, t) == {u \in Live(trips) \ {t} : trips[u].driver = d}
Fits(to, t) ==
  /\ \A u \in Live(trips) \ {t} : trips[u].slot = to.slot =>
       trips[u].driver # to.driver /\ trips[u].vehicle # to.vehicle
  /\ Cardinality(Others(to.driver, t)) < MaxDuty

Assigns(s) == requests[s].pc = "locked" /\ requests[s].op \in {"CREATE", "UPDATE"}
\* Requests about a trip that there is.
Knows(s) ==
  \/ requests[s].pc = "asked"
  \/ requests[s].pc = "locked" /\ requests[s].op \in {"UPDATE", "ARCHIVE"}

RequestsInv ==
  /\ requests = [s \in Staff |-> requests[s]]
  /\ \A s \in Staff : Assigns(s) => LocksFor(requests[s].to) \subseteq requests[s].locks
  /\ \A s \in Staff : Knows(s) =>
       requests[s].trip \in Trips /\ IsTrip(trips[requests[s].trip])
  /\ \A s, o \in Staff : s # o => LocksOf(s) \cap LocksOf(o) = {}
TripsInv ==
  /\ AreTrips(trips)
  /\ RequestsInv
  /\ \A s \in Staff : Assigns(s) => Fits(requests[s].to, requests[s].trip)
  /\ NoDoubleBooking

LEMMA FewTrips ==
  ASSUME NEW S, S \subseteq Trips
  PROVE  IsFiniteSet(S) /\ Cardinality(S) \in Nat
<1>1. IsFiniteSet(1 .. MaxTrips)
  BY FS_Interval
<1>2. IsFiniteSet(S)
  BY <1>1, FS_Subset DEF Trips
<1> QED
  BY <1>2, FS_CardinalityType

LEMMA FewerTrips ==
  ASSUME NEW S, S \subseteq Trips, NEW R, R \subseteq S
  PROVE  Cardinality(R) <= Cardinality(S)
  BY FewTrips, FS_Subset

LEMMA LiveAreTrips == Live(trips) \subseteq Trips
  BY DEF Live

-----------------------------------------------------------------------------
(* Steps that leave the plan as it is, or take trips out of it *)

Stays(u) ==
  trips'[u].driver = trips[u].driver /\ trips'[u].vehicle = trips[u].vehicle
    /\ trips'[u].slot = trips[u].slot
LessPlanned == \A u \in Live(trips)' : u \in Live(trips) /\ Stays(u)

LEMMA LessFits ==
  ASSUME LessPlanned, NEW to, NEW t, Fits(to, t)
  PROVE  /\ \A u \in Live(trips)' \ {t} : trips'[u].slot = to.slot =>
              trips'[u].driver # to.driver /\ trips'[u].vehicle # to.vehicle
         /\ Cardinality({u \in Live(trips)' \ {t} : trips'[u].driver = to.driver}) < MaxDuty
<1>1. {u \in Live(trips)' \ {t} : trips'[u].driver = to.driver} \subseteq Others(to.driver, t)
  BY DEF LessPlanned, Stays, Others
<1>2. Others(to.driver, t) \subseteq Trips
  BY LiveAreTrips DEF Others
<1>3. Cardinality({u \in Live(trips)' \ {t} : trips'[u].driver = to.driver})
        <= Cardinality(Others(to.driver, t))
  BY <1>1, <1>2, FewerTrips
<1>4. /\ Cardinality({u \in Live(trips)' \ {t} : trips'[u].driver = to.driver}) \in Nat
      /\ Cardinality(Others(to.driver, t)) \in Nat
  BY <1>1, <1>2, FewTrips
<1>5. Cardinality(Others(to.driver, t)) < MaxDuty
  BY DEF Fits
<1>6. Cardinality({u \in Live(trips)' \ {t} : trips'[u].driver = to.driver}) < MaxDuty
  BY <1>3, <1>4, <1>5
<1>7. \A u \in Live(trips)' \ {t} : trips'[u].slot = to.slot =>
        trips'[u].driver # to.driver /\ trips'[u].vehicle # to.vehicle
  BY DEF LessPlanned, Stays, Fits
<1> QED
  BY <1>6, <1>7

LEMMA LessBooked ==
  ASSUME LessPlanned, NoDoubleBooking
  PROVE  NoDoubleBooking'
<1>1. ASSUME NEW d \in Drivers
      PROVE  Cardinality({t \in Live(trips)' : trips'[t].driver = d}) <= MaxDuty
  <2>1. {t \in Live(trips)' : trips'[t].driver = d}
          \subseteq {t \in Live(trips) : trips[t].driver = d}
    BY DEF LessPlanned, Stays
  <2>2. {t \in Live(trips) : trips[t].driver = d} \subseteq Trips
    BY LiveAreTrips
  <2>3. Cardinality({t \in Live(trips)' : trips'[t].driver = d})
          <= Cardinality({t \in Live(trips) : trips[t].driver = d})
    BY <2>1, <2>2, FewerTrips
  <2>4. Cardinality({t \in Live(trips)' : trips'[t].driver = d}) \in Nat
    BY <2>1, <2>2, FewTrips
  <2>5. Cardinality({t \in Live(trips) : trips[t].driver = d}) \in Nat
    BY <2>2, FewTrips
  <2>6. Cardinality({t \in Live(trips) : trips[t].driver = d}) <= MaxDuty
    BY DEF NoDoubleBooking
  <2> QED
    BY <2>3, <2>4, <2>5, <2>6
<1>2. \A t, u \in Live(trips)' : (t # u /\ trips'[t].slot = trips'[u].slot) =>
        trips'[t].driver # trips'[u].driver /\ trips'[t].vehicle # trips'[u].vehicle
  BY DEF LessPlanned, Stays, NoDoubleBooking
<1> QED
  BY <1>1, <1>2 DEF NoDoubleBooking

\* Requests may end or begin to ask meanwhile, and no trip vanishes from its table.
LEMMA LessPlannedSafe ==
  ASSUME TripsInv, LessPlanned, AreTrips(trips'), RequestsInv',
         \A s \in Staff : Assigns(s)' => Assigns(s) /\ requests'[s] = requests[s]
  PROVE  TripsInv'
<1>1. \A s \in Staff : Assigns(s)' => Fits(requests[s].to, requests[s].trip)
  BY DEF TripsInv
<1>2. ASSUME NEW s \in Staff, Assigns(s)'
      PROVE  Fits(requests[s].to, requests[s].trip)'
  <2>1. requests'[s] = requests[s] /\ Fits(requests[s].to, requests[s].trip)
    BY <1>1, <1>2
  <2>2. PICK to, t : to = requests[s].to /\ t = requests[s].trip
    OBVIOUS
  <2>3. /\ \A u \in Live(trips)' \ {t} : trips'[u].slot = to.slot =>
             trips'[u].driver # to.driver /\ trips'[u].vehicle # to.vehicle
        /\ Cardinality({u \in Live(trips)' \ {t} : trips'[u].driver = to.driver}) < MaxDuty
    BY <2>1, <2>2, LessFits
  <2> QED
    BY <2>1, <2>2, <2>3 DEF Fits, Others
<1>3. NoDoubleBooking'
  BY LessBooked DEF TripsInv
<1>4. AreTrips(trips)'
  BY DEF AreTrips
<1> QED
  BY <1>2, <1>3, <1>4 DEF TripsInv

-----------------------------------------------------------------------------
(* Commits: regrouping changes engagements only *)

LEMMA Regrouping ==
  ASSUME NEW rows, AreTrips(rows), NEW bs, Regroup(rows, bs)
  PROVE  /\ AreTrips(trips')
         /\ \A u \in Trips : (trips'[u] = NoRow <=> rows[u] = NoRow)
         /\ \A u \in Trips : rows[u] # NoRow =>
              /\ trips'[u].status = rows[u].status /\ trips'[u].driver = rows[u].driver
              /\ trips'[u].vehicle = rows[u].vehicle /\ trips'[u].slot = rows[u].slot
              /\ trips'[u].booking = rows[u].booking /\ trips'[u].version = rows[u].version
              /\ trips'[u].progress = rows[u].progress
<1>1. trips' = [u \in Trips |->
        IF rows[u] # NoRow /\ rows[u].booking \in bs THEN Enrolled(rows, rows[u].booking)[u]
        ELSE rows[u]]
  BY DEF Regroup
<1>2. ASSUME NEW u \in Trips
      PROVE  \/ trips'[u] = rows[u]
             \/ IsTrip(rows[u]) /\ \E e : trips'[u] = [rows[u] EXCEPT !.engagement = e]
  BY <1>1 DEF Enrolled, AreTrips
<1>3. ASSUME NEW u \in Trips, IsTrip(rows[u]), NEW e,
             trips'[u] = [rows[u] EXCEPT !.engagement = e]
      PROVE  /\ IsTrip(trips'[u]) /\ trips'[u] # NoRow /\ rows[u] # NoRow
             /\ trips'[u].status = rows[u].status /\ trips'[u].driver = rows[u].driver
             /\ trips'[u].vehicle = rows[u].vehicle /\ trips'[u].slot = rows[u].slot
             /\ trips'[u].booking = rows[u].booking /\ trips'[u].version = rows[u].version
             /\ trips'[u].progress = rows[u].progress
  <2>1. trips'[u] = [status |-> rows[u].status, booking |-> rows[u].booking,
                     driver |-> rows[u].driver, vehicle |-> rows[u].vehicle,
                     slot |-> rows[u].slot, version |-> rows[u].version,
                     engagement |-> e, progress |-> rows[u].progress]
    BY <1>3 DEF IsTrip
  <2> QED
    BY <1>3, <2>1 DEF IsTrip, NoRow
<1>4. trips' = [u \in Trips |-> trips'[u]]
  BY <1>1
<1>5. \A u \in Trips : trips'[u] = NoRow \/ IsTrip(trips'[u])
  BY <1>2, <1>3 DEF AreTrips
<1>6. ASSUME NEW u \in Trips
      PROVE  trips'[u] = NoRow <=> rows[u] = NoRow
  <2>1. CASE trips'[u] = rows[u]
    BY <2>1
  <2>2. CASE trips'[u] # rows[u]
    <3>1. IsTrip(rows[u]) /\ \E e : trips'[u] = [rows[u] EXCEPT !.engagement = e]
      BY <1>2, <2>2
    <3>2. PICK e : trips'[u] = [rows[u] EXCEPT !.engagement = e]
      BY <3>1
    <3> QED
      BY <1>3, <3>1, <3>2
  <2> QED
    BY <2>1, <2>2
<1>7. ASSUME NEW u \in Trips, rows[u] # NoRow
      PROVE  /\ trips'[u].status = rows[u].status /\ trips'[u].driver = rows[u].driver
             /\ trips'[u].vehicle = rows[u].vehicle /\ trips'[u].slot = rows[u].slot
             /\ trips'[u].booking = rows[u].booking /\ trips'[u].version = rows[u].version
             /\ trips'[u].progress = rows[u].progress
  <2>1. CASE trips'[u] = rows[u]
    BY <2>1
  <2>2. CASE trips'[u] # rows[u]
    <3>1. IsTrip(rows[u]) /\ \E e : trips'[u] = [rows[u] EXCEPT !.engagement = e]
      BY <1>2, <2>2
    <3>2. PICK e : trips'[u] = [rows[u] EXCEPT !.engagement = e]
      BY <3>1
    <3> QED
      BY <1>3, <3>1, <3>2
  <2> QED
    BY <2>1, <2>2
<1>8. AreTrips(trips')
  BY <1>4, <1>5 DEF AreTrips
<1> QED
  BY <1>6, <1>7, <1>8

\* A request that is done has no locks; the others keep theirs.
LEMMA RequestEnds ==
  ASSUME RequestsInv, NEW s \in Staff, requests' = [requests EXCEPT ![s] = Idle],
         \A t \in Trips : IsTrip(trips[t]) => IsTrip(trips'[t])
  PROVE  /\ RequestsInv'
         /\ \A o \in Staff : Assigns(o)' => o # s /\ Assigns(o) /\ requests'[o] = requests[o]
<1>1. requests'[s] = Idle /\ \A o \in Staff : o # s => requests'[o] = requests[o]
  BY DEF RequestsInv
<1>2. requests' = [o \in Staff |-> requests'[o]]
  BY DEF RequestsInv
<1>3. \A o \in Staff : Assigns(o)' => o # s /\ Assigns(o)
  BY <1>1 DEF Assigns, Idle
<1>4. \A o \in Staff : Knows(o)' => o # s /\ Knows(o)
  BY <1>1 DEF Knows, Idle
<1>5. \A o \in Staff : LocksOf(o)' \subseteq LocksOf(o)
  BY <1>1 DEF LocksOf, Idle
<1>6. \A o \in Staff : Assigns(o)' =>
        LocksFor(requests[o].to)' \subseteq requests'[o].locks
  BY <1>1, <1>3 DEF RequestsInv, LocksFor
<1>7. \A o \in Staff : Knows(o)' =>
        requests'[o].trip \in Trips /\ IsTrip(trips'[requests'[o].trip])
  BY <1>1, <1>4 DEF RequestsInv
<1>8. \A o, q \in Staff : o # q => LocksOf(o)' \cap LocksOf(q)' = {}
  BY <1>5 DEF RequestsInv
<1>9. RequestsInv'
  BY <1>2, <1>6, <1>7, <1>8 DEF RequestsInv, IsTrip
<1> QED
  BY <1>1, <1>3, <1>9

\* The trip takes the place it fits into.  Whoever else is about to assign has other locks.
LEMMA PlaceTaken ==
  ASSUME TripsInv, NEW s \in Staff, Assigns(s), NEW version, NEW reached, NEW bs,
         Regroup([trips EXCEPT ![requests[s].trip] = Row(requests[s].to, version, reached)], bs),
         requests' = [requests EXCEPT ![s] = Idle]
  PROVE  TripsInv'
<1>1. PICK t, to : t = requests[s].trip /\ to = requests[s].to
  OBVIOUS
<1>2. PICK rows : rows = [trips EXCEPT ![t] = Row(to, version, reached)]
  OBVIOUS
<1>3. IsTrip(Row(to, version, reached)) /\ Row(to, version, reached) # NoRow
  BY DEF IsTrip, Row, NoRow
<1>4. \A u \in Trips : rows[u] = IF u = t THEN Row(to, version, reached) ELSE trips[u]
  BY <1>2 DEF TripsInv, AreTrips
<1>5. AreTrips(rows)
  BY <1>2, <1>3, <1>4 DEF TripsInv, AreTrips
<1>6. Regroup(rows, bs)
  BY <1>1, <1>2
<1>7. /\ AreTrips(trips')
      /\ \A u \in Trips : (trips'[u] = NoRow <=> rows[u] = NoRow)
      /\ \A u \in Trips : rows[u] # NoRow =>
           /\ trips'[u].status = rows[u].status /\ trips'[u].driver = rows[u].driver
           /\ trips'[u].vehicle = rows[u].vehicle /\ trips'[u].slot = rows[u].slot
  BY <1>5, <1>6, Regrouping
<1>8. \A u \in Trips : IsTrip(trips[u]) => IsTrip(trips'[u])
  <2>1. \A u \in Trips : IsTrip(trips[u]) => trips[u] # NoRow
    BY DEF IsTrip, NoRow
  <2>2. \A u \in Trips : IsTrip(trips[u]) => trips'[u] # NoRow
    BY <1>3, <1>4, <1>7, <2>1
  <2> QED
    BY <1>7, <2>2 DEF AreTrips
<1>9. /\ RequestsInv'
      /\ \A o \in Staff : Assigns(o)' => o # s /\ Assigns(o) /\ requests'[o] = requests[o]
  BY <1>8, RequestEnds DEF TripsInv
<1>10. \A u \in Live(trips)' : u # t => u \in Live(trips) /\ Stays(u)
  BY <1>4, <1>7 DEF Live, Stays
<1>11. t \in Live(trips)' =>
         trips'[t].driver = to.driver /\ trips'[t].vehicle = to.vehicle /\ trips'[t].slot = to.slot
  BY <1>3, <1>4, <1>7 DEF Live, Row
<1>12. Fits(to, t)
  BY <1>1 DEF TripsInv
<1>13. \A u, w \in Live(trips)' : (u # w /\ trips'[u].slot = trips'[w].slot) =>
         trips'[u].driver # trips'[w].driver /\ trips'[u].vehicle # trips'[w].vehicle
  BY <1>10, <1>11, <1>12 DEF TripsInv, NoDoubleBooking, Fits, Stays
<1>14. ASSUME NEW d \in Drivers
       PROVE  Cardinality({u \in Live(trips)' : trips'[u].driver = d}) <= MaxDuty
  <2> DEFINE new == {u \in Live(trips)' : trips'[u].driver = d}
             old == {u \in Live(trips) : trips[u].driver = d}
  <2>1. old \subseteq Trips /\ new \subseteq Trips
    BY DEF Live
  <2>2. Cardinality(old) \in Nat /\ Cardinality(new) \in Nat
    BY <2>1, FewTrips
  <2>3. Cardinality(old) <= MaxDuty
    BY DEF TripsInv, NoDoubleBooking
  <2>4. CASE t \notin new
    <3>1. new \subseteq old
      BY <1>10, <2>4 DEF Stays
    <3>2. Cardinality(new) <= Cardinality(old)
      BY <2>1, <3>1, FewerTrips
    <3> QED
      BY <2>2, <2>3, <3>2
  <2>5. CASE t \in new
    <3>1. to.driver = d
      BY <1>11, <2>5
    <3> DEFINE others == Others(d, t)
    <3>2. others \subseteq Trips /\ t \notin others
      BY LiveAreTrips DEF Others
    <3>3. new \subseteq others \cup {t}
      BY <1>10 DEF Others, Stays
    <3>4. others \cup {t} \subseteq Trips
      BY <2>1, <2>5, <3>2
    <3>5. Cardinality(others) < MaxDuty
      BY <1>12, <3>1 DEF Fits
    <3>6. IsFiniteSet(others) /\ Cardinality(others) \in Nat
      BY <3>2, FewTrips
    <3> HIDE DEF new, others
    <3>7. Cardinality(others \cup {t}) = Cardinality(others) + 1
      BY <3>2, <3>6, FS_AddElement
    <3>8. Cardinality(new) <= Cardinality(others \cup {t})
      BY <3>3, <3>4, FewerTrips
    <3>9. Cardinality(new) <= MaxDuty
      BY <2>2, <3>5, <3>6, <3>7, <3>8
    <3> QED
      BY <3>9 DEF new
  <2> QED
    BY <2>4, <2>5
<1>15. ASSUME NEW o \in Staff, Assigns(o)'
       PROVE  Fits(requests[o].to, requests[o].trip)'
  <2>1. PICK mine, row : mine = requests[o].to /\ row = requests[o].trip
    OBVIOUS
  <2>2. o # s /\ Assigns(o) /\ requests'[o] = requests[o] /\ Fits(mine, row)
    BY <1>9, <1>15, <2>1 DEF TripsInv
  <2>3. LocksFor(mine) \subseteq LocksOf(o) /\ LocksFor(to) \subseteq LocksOf(s)
    BY <1>1, <2>1, <2>2 DEF TripsInv, RequestsInv, LocksOf, Assigns
  <2>4. LocksFor(mine) \cap LocksFor(to) = {}
    BY <2>2, <2>3 DEF TripsInv, RequestsInv
  <2>5. mine.driver # to.driver /\ mine.vehicle # to.vehicle
    BY <2>4 DEF LocksFor
  <2>6. \A u \in Live(trips)' \ {row} : trips'[u].slot = mine.slot =>
          trips'[u].driver # mine.driver /\ trips'[u].vehicle # mine.vehicle
    BY <1>10, <1>11, <2>2, <2>5 DEF Fits, Stays
  <2> DEFINE new == {u \in Live(trips)' \ {row} : trips'[u].driver = mine.driver}
  <2>7. new \subseteq Others(mine.driver, row)
    BY <1>10, <1>11, <2>5 DEF Others, Stays
  <2>8. Others(mine.driver, row) \subseteq Trips
    BY LiveAreTrips DEF Others
  <2>9. Cardinality(new) \in Nat /\ Cardinality(Others(mine.driver, row)) \in Nat
    BY <2>7, <2>8, FewTrips
  <2>10. Cardinality(new) <= Cardinality(Others(mine.driver, row))
    BY <2>7, <2>8, FewerTrips
  <2>11. Cardinality(Others(mine.driver, row)) < MaxDuty
    BY <2>2 DEF Fits
  <2>12. Cardinality(new) < MaxDuty
    BY <2>9, <2>10, <2>11
  <2> QED
    BY <2>1, <2>2, <2>6, <2>12 DEF Fits, Others
<1>16. NoDoubleBooking'
  BY <1>13, <1>14 DEF NoDoubleBooking
<1>17. AreTrips(trips)'
  BY <1>7 DEF AreTrips
<1> QED
  BY <1>9, <1>15, <1>16, <1>17 DEF TripsInv

-----------------------------------------------------------------------------
(* The steps *)

LEMMA PlanIsKept ==
  ASSUME UNCHANGED trips
  PROVE  LessPlanned
  BY DEF LessPlanned, Stays, Live

\* A request that begins has locks nobody else has, and what it has checked fits.
LEMMA RequestBegins ==
  ASSUME TripsInv, UNCHANGED trips, NEW s \in Staff, NEW row,
         requests' = [requests EXCEPT ![s] = row], row.pc = "locked",
         Available(s, row.locks),
         row.op \in {"CREATE", "UPDATE"} =>
           LocksFor(row.to) \subseteq row.locks /\ Fits(row.to, row.trip),
         row.op \in {"UPDATE", "ARCHIVE"} => row.trip \in Trips /\ IsTrip(trips[row.trip])
  PROVE  TripsInv'
<1>1. requests'[s] = row /\ \A o \in Staff : o # s => requests'[o] = requests[o]
  BY DEF TripsInv, RequestsInv
<1>2. requests' = [o \in Staff |-> requests'[o]]
  BY DEF TripsInv, RequestsInv
<1>3. LocksOf(s)' = row.locks /\ \A o \in Staff : o # s => LocksOf(o)' = LocksOf(o)
  BY <1>1 DEF LocksOf
<1>4. \A o, q \in Staff : o # q => LocksOf(o)' \cap LocksOf(q)' = {}
  BY <1>3 DEF Available, TripsInv, RequestsInv
<1>5. \A o \in Staff : Assigns(o)' => LocksFor(requests[o].to)' \subseteq requests'[o].locks
  BY <1>1 DEF Assigns, LocksFor, TripsInv, RequestsInv
<1>6. \A o \in Staff : Knows(o)' =>
        requests'[o].trip \in Trips /\ IsTrip(trips'[requests'[o].trip])
  BY <1>1 DEF Knows, TripsInv, RequestsInv
<1>7. RequestsInv'
  BY <1>2, <1>4, <1>5, <1>6 DEF RequestsInv, IsTrip
<1>8. ASSUME NEW o \in Staff, Assigns(o)'
      PROVE  Fits(requests[o].to, requests[o].trip)'
  <2>1. PICK to, t : to = requests'[o].to /\ t = requests'[o].trip
    OBVIOUS
  <2>2. Fits(to, t)
    BY <1>1, <1>8, <2>1 DEF Assigns, TripsInv
  <2> QED
    BY <2>1, <2>2 DEF Fits, Others, Live
<1> QED
  BY <1>7, <1>8 DEF TripsInv, NoDoubleBooking, Live, AreTrips, IsTrip

LEMMA AssignableFits ==
  ASSUME NEW to, NEW t, NEW except, except \subseteq {t}, Assignable(to, except)
  PROVE  Fits(to, t)
<1> DEFINE checked == {u \in Live(trips) \ except : trips[u].driver = to.driver}
<1>1. Others(to.driver, t) \subseteq checked
  BY DEF Others
<1>2. checked \subseteq Trips
  BY LiveAreTrips
<1>3. Cardinality(Others(to.driver, t)) <= Cardinality(checked)
  BY <1>1, <1>2, FewerTrips
<1>4. Cardinality(checked) \in Nat /\ Cardinality(Others(to.driver, t)) \in Nat
  BY <1>1, <1>2, FewTrips
<1>5. Cardinality(checked) < MaxDuty
  BY DEF Assignable
<1> HIDE DEF checked
<1>6. Cardinality(Others(to.driver, t)) < MaxDuty
  BY <1>3, <1>4, <1>5
<1>7. \A u \in Live(trips) \ {t} : trips[u].slot = to.slot =>
        trips[u].driver # to.driver /\ trips[u].vehicle # to.vehicle
  BY DEF Assignable
<1> QED
  BY <1>6, <1>7 DEF Fits

LEMMA CreateSafe ==
  ASSUME TripsInv, NEW s \in Staff, NEW to \in Offered, BeginCreate(s, to)
  PROVE  TripsInv'
<1>1. PICK t : requests' = [requests EXCEPT ![s] =
                 [pc |-> "locked", op |-> "CREATE", trip |-> t, read |-> Null, to |-> to,
                  locks |-> LocksFor(to)]]
  BY DEF BeginCreate
<1>2. UNCHANGED trips /\ Available(s, LocksFor(to)) /\ Assignable(to, {})
  BY DEF BeginCreate
<1>3. Fits(to, t)
  BY <1>2, AssignableFits
<1>4. PICK row : row = [pc |-> "locked", op |-> "CREATE", trip |-> t, read |-> Null,
                        to |-> to, locks |-> LocksFor(to)]
  OBVIOUS
<1>5. /\ row.pc = "locked" /\ row.op = "CREATE" /\ row.trip = t /\ row.to = to
      /\ row.locks = LocksFor(to)
  BY <1>4
<1>6. requests' = [requests EXCEPT ![s] = row]
  BY <1>1, <1>4
<1>7. /\ UNCHANGED trips /\ Available(s, row.locks)
      /\ LocksFor(row.to) \subseteq row.locks /\ Fits(row.to, row.trip)
      /\ row.op \notin {"UPDATE", "ARCHIVE"}
  BY <1>2, <1>3, <1>5
<1> QED
  BY <1>5, <1>6, <1>7, RequestBegins

LEMMA UpdateSafe ==
  ASSUME TripsInv, NEW s \in Staff, NEW t \in Trips, NEW to \in Offered, BeginUpdate(s, t, to)
  PROVE  TripsInv'
<1>1. PICK keys : keys = LocksFor(to) \cup {<<"booking", trips[t].booking>>}
  OBVIOUS
<1>2. requests' = [requests EXCEPT ![s] =
        [pc |-> "locked", op |-> "UPDATE", trip |-> t, read |-> trips[t], to |-> to,
         locks |-> keys]]
  BY <1>1 DEF BeginUpdate
<1>3. UNCHANGED trips /\ Available(s, keys) /\ Assignable(to, {t})
  BY <1>1 DEF BeginUpdate
<1>4. Fits(to, t)
  BY <1>3, AssignableFits
<1>5. IsTrip(trips[t])
  BY DEF BeginUpdate, TripsInv, AreTrips, NoRow
<1>6. LocksFor(to) \subseteq keys
  BY <1>1
<1>7. PICK row : row = [pc |-> "locked", op |-> "UPDATE", trip |-> t, read |-> trips[t],
                        to |-> to, locks |-> keys]
  OBVIOUS
<1>8. /\ row.pc = "locked" /\ row.op = "UPDATE" /\ row.trip = t /\ row.to = to
      /\ row.locks = keys
  BY <1>7
<1>9. requests' = [requests EXCEPT ![s] = row]
  BY <1>2, <1>7
<1> QED
  BY <1>3, <1>4, <1>5, <1>6, <1>8, <1>9, RequestBegins

LEMMA AskSafe ==
  ASSUME TripsInv, NEW s \in Staff, NEW t \in Trips, AskArchive(s, t)
  PROVE  TripsInv'
<1>1. /\ requests' = [requests EXCEPT ![s] = [pc |-> "asked", trip |-> t, read |-> trips[t]]]
      /\ requests[s] = Idle /\ UNCHANGED trips /\ trips[t] # NoRow
  BY DEF AskArchive
<1>2. /\ requests'[s].pc = "asked" /\ requests'[s].trip = t
      /\ \A o \in Staff : o # s => requests'[o] = requests[o]
  BY <1>1 DEF TripsInv, RequestsInv
<1>3. IsTrip(trips[t])
  BY <1>1 DEF TripsInv, AreTrips
<1>4. \A o \in Staff : Assigns(o)' => Assigns(o) /\ requests'[o] = requests[o]
  BY <1>2 DEF Assigns
<1>5. \A o \in Staff : LocksOf(o)' \subseteq LocksOf(o)
  BY <1>2 DEF LocksOf
<1>6. \A o \in Staff : Knows(o)' =>
        requests'[o].trip \in Trips /\ IsTrip(trips'[requests'[o].trip])
  BY <1>1, <1>2, <1>3 DEF Knows, TripsInv, RequestsInv
<1>7. requests' = [o \in Staff |-> requests'[o]]
  BY <1>1 DEF TripsInv, RequestsInv
<1>8. \A o \in Staff : Assigns(o)' => LocksFor(requests[o].to)' \subseteq requests'[o].locks
  BY <1>4 DEF TripsInv, RequestsInv, LocksFor
<1>9. \A o, q \in Staff : o # q => LocksOf(o)' \cap LocksOf(q)' = {}
  BY <1>5 DEF TripsInv, RequestsInv
<1>10. RequestsInv'
  BY <1>6, <1>7, <1>8, <1>9 DEF RequestsInv, IsTrip
<1>11. AreTrips(trips') /\ LessPlanned
  BY <1>1, PlanIsKept DEF TripsInv
<1> QED
  BY <1>4, <1>10, <1>11, LessPlannedSafe

LEMMA BeginArchiveSafe ==
  ASSUME TripsInv, NEW s \in Staff, BeginArchive(s)
  PROVE  TripsInv'
<1>1. PICK t, read, keys :
        /\ t = requests[s].trip /\ read = requests[s].read
        /\ keys = {<<"booking", requests[s].read.booking>>}
  OBVIOUS
<1>2. /\ requests' = [requests EXCEPT ![s] =
           [pc |-> "locked", op |-> "ARCHIVE", trip |-> t, read |-> read, to |-> Null,
            locks |-> keys]]
      /\ UNCHANGED trips /\ Available(s, keys) /\ Knows(s)
  BY <1>1 DEF BeginArchive, Knows
<1>3. t \in Trips /\ IsTrip(trips[t])
  BY <1>1, <1>2 DEF TripsInv, RequestsInv
<1>4. PICK row : row = [pc |-> "locked", op |-> "ARCHIVE", trip |-> t, read |-> read,
                        to |-> Null, locks |-> keys]
  OBVIOUS
<1>5. row.pc = "locked" /\ row.op = "ARCHIVE" /\ row.trip = t /\ row.locks = keys
  BY <1>4
<1>6. requests' = [requests EXCEPT ![s] = row]
  BY <1>2, <1>4
<1> QED
  BY <1>2, <1>3, <1>5, <1>6, RequestBegins

LEMMA EndSafe ==
  ASSUME TripsInv, NEW s \in Staff, LessPlanned, AreTrips(trips'),
         requests' = [requests EXCEPT ![s] = Idle],
         \A t \in Trips : IsTrip(trips[t]) => IsTrip(trips'[t])
  PROVE  TripsInv'
  BY RequestEnds, LessPlannedSafe DEF TripsInv

LEMMA ArchiveSafe ==
  ASSUME TripsInv, NEW s \in Staff, CommitArchive(s)
  PROVE  TripsInv'
<1>1. PICK t, rows, bs :
        /\ t = requests[s].trip /\ rows = [trips EXCEPT ![t].status = "ARCHIVED"]
        /\ bs = {requests[s].read.booking}
  OBVIOUS
<1>2. Regroup(rows, bs) /\ requests' = [requests EXCEPT ![s] = Idle] /\ Knows(s)
  BY <1>1 DEF CommitArchive, Knows
<1>3. t \in Trips /\ IsTrip(trips[t])
  BY <1>1, <1>2 DEF TripsInv, RequestsInv
<1>4. /\ rows = [u \in Trips |-> rows[u]]
      /\ rows[t] = [trips[t] EXCEPT !.status = "ARCHIVED"]
      /\ \A u \in Trips : u # t => rows[u] = trips[u]
  BY <1>1, <1>3 DEF TripsInv, AreTrips
<1>5. rows[t] = [status |-> "ARCHIVED", booking |-> trips[t].booking,
                 driver |-> trips[t].driver, vehicle |-> trips[t].vehicle,
                 slot |-> trips[t].slot, version |-> trips[t].version,
                 engagement |-> trips[t].engagement, progress |-> trips[t].progress]
  BY <1>3, <1>4 DEF IsTrip
<1>6. IsTrip(rows[t]) /\ rows[t].status = "ARCHIVED" /\ rows[t] # NoRow
  BY <1>5 DEF IsTrip, NoRow
<1>7. AreTrips(rows)
  BY <1>4, <1>6 DEF TripsInv, AreTrips
<1>8. /\ AreTrips(trips')
      /\ \A u \in Trips : (trips'[u] = NoRow <=> rows[u] = NoRow)
      /\ \A u \in Trips : rows[u] # NoRow =>
           /\ trips'[u].status = rows[u].status /\ trips'[u].driver = rows[u].driver
           /\ trips'[u].vehicle = rows[u].vehicle /\ trips'[u].slot = rows[u].slot
  BY <1>2, <1>7, Regrouping
<1>9. LessPlanned
  BY <1>4, <1>6, <1>8 DEF LessPlanned, Live, Stays
<1>10. \A u \in Trips : IsTrip(trips[u]) => IsTrip(trips'[u])
  <2>1. \A u \in Trips : IsTrip(trips[u]) => trips[u] # NoRow
    BY DEF IsTrip, NoRow
  <2>2. \A u \in Trips : IsTrip(trips[u]) => trips'[u] # NoRow
    BY <1>4, <1>6, <1>8, <2>1
  <2> QED
    BY <1>8, <2>2 DEF AreTrips
<1> QED
  BY <1>2, <1>8, <1>9, <1>10, EndSafe

LEMMA TripStepSafe ==
  ASSUME TripsInv, NEW s \in Staff, TripStep(s)
  PROVE  TripsInv'
<1>1. CASE \E a \in Offered : BeginCreate(s, a) \/ \E t \in Trips : BeginUpdate(s, t, a)
  BY <1>1, CreateSafe, UpdateSafe
<1>2. CASE \E t \in Trips : AskArchive(s, t)
  BY <1>2, AskSafe
<1>3. CASE BeginArchive(s)
  BY <1>3, BeginArchiveSafe
<1>4. CASE CommitCreate(s)
  <2>1. /\ Assigns(s) /\ requests' = [requests EXCEPT ![s] = Idle]
        /\ Regroup([trips EXCEPT ![requests[s].trip] = Row(requests[s].to, 1, "SCHEDULED")],
                   {requests[s].to.booking})
    BY <1>4 DEF CommitCreate, Assigns
  <2> QED
    BY <2>1, PlaceTaken
<1>5. CASE CommitUpdate(s)
  <2>1. PICK version, reached, bs :
          /\ Assigns(s) /\ requests' = [requests EXCEPT ![s] = Idle]
          /\ Regroup([trips EXCEPT ![requests[s].trip] =
                        Row(requests[s].to, version, reached)], bs)
    BY <1>5 DEF CommitUpdate, Assigns
  <2> QED
    BY <2>1, PlaceTaken
<1>6. CASE CommitArchive(s)
  BY <1>6, ArchiveSafe
<1>7. CASE GiveUp(s)
  <2>1. UNCHANGED trips /\ requests' = [requests EXCEPT ![s] = Idle]
    BY <1>7 DEF GiveUp
  <2> QED
    BY <2>1, EndSafe, PlanIsKept DEF TripsInv, IsTrip
<1> QED
  BY <1>1, <1>2, <1>3, <1>4, <1>5, <1>6, <1>7 DEF TripStep

\* Progress and versions are not what trips are planned by.
LEMMA ReportSafe ==
  ASSUME TripsInv, NEW t \in Trips, NEW reached, Report(t, reached) \/ SetProgress(t, reached)
  PROVE  TripsInv'
<1>1. t \in Live(trips) /\ UNCHANGED requests
  BY DEF Report, SetProgress
<1>2. IsTrip(trips[t])
  BY <1>1 DEF Live, TripsInv, AreTrips
<1>3. PICK version :
        /\ trips' = [u \in Trips |-> trips'[u]]
        /\ \A u \in Trips : u # t => trips'[u] = trips[u]
        /\ trips'[t] = [status |-> trips[t].status, booking |-> trips[t].booking,
                        driver |-> trips[t].driver, vehicle |-> trips[t].vehicle,
                        slot |-> trips[t].slot, version |-> version,
                        engagement |-> trips[t].engagement, progress |-> reached]
  <2>1. CASE Report(t, reached)
    BY <1>2, <2>1 DEF Report, TripsInv, AreTrips, IsTrip
  <2>2. CASE SetProgress(t, reached)
    <3>1. trips' = [trips EXCEPT ![t] =
            [trips[t] EXCEPT !.progress = reached, !.version = trips[t].version + 1]]
      BY <2>2 DEF SetProgress, TripsInv, AreTrips
    <3> QED
      BY <1>2, <3>1 DEF TripsInv, AreTrips, IsTrip
  <2> QED
    BY <2>1, <2>2
<1>4. IsTrip(trips'[t])
  BY <1>2, <1>3 DEF IsTrip
<1>5. AreTrips(trips')
  BY <1>3, <1>4 DEF TripsInv, AreTrips
<1>6. LessPlanned
  BY <1>1, <1>3 DEF LessPlanned, Live, Stays
<1>7. \A u \in Trips : IsTrip(trips[u]) => IsTrip(trips'[u])
  BY <1>3, <1>4
<1>8. RequestsInv'
  BY <1>1, <1>7 DEF TripsInv, RequestsInv, Assigns, Knows, LocksOf, LocksFor, IsTrip
<1> QED
  BY <1>1, <1>5, <1>6, <1>8, LessPlannedSafe DEF Assigns

LEMMA NothingPlanned ==
  ASSUME TripsInv, UNCHANGED <<trips, requests>>
  PROVE  TripsInv'
<1>1. RequestsInv'
  BY DEF TripsInv, RequestsInv, Assigns, Knows, LocksOf, LocksFor, IsTrip
<1> QED
  BY <1>1, LessPlannedSafe, PlanIsKept DEF TripsInv, Assigns

LEMMA TripsInit == TInit => TripsInv
<1> SUFFICES ASSUME TInit PROVE TripsInv
  OBVIOUS
<1>1. Live(trips) = {} /\ AreTrips(trips)
  BY DEF TInit, Live, AreTrips
<1>2. RequestsInv /\ \A s \in Staff : ~ Assigns(s)
  BY DEF TInit, RequestsInv, Assigns, Knows, LocksOf, Idle
<1>3. ASSUME NEW d \in Drivers
      PROVE  Cardinality({t \in Live(trips) : trips[t].driver = d}) <= MaxDuty
  <2>1. {t \in Live(trips) : trips[t].driver = d} = {}
    BY <1>1
  <2>2. Cardinality({}) = 0
    BY FS_EmptySet
  <2>3. 0 <= MaxDuty
    BY DEF ToursAssumption
  <2> QED
    BY <2>1, <2>2, <2>3
<1>4. NoDoubleBooking
  BY <1>1, <1>3 DEF NoDoubleBooking
<1> QED
  BY <1>1, <1>2, <1>4 DEF TripsInv

LEMMA TripsStep == TripsInv /\ [TNext]_tVars => TripsInv'
<1> SUFFICES ASSUME TripsInv, [TNext]_tVars PROVE TripsInv'
  OBVIOUS
<1>1. CASE \E s \in Staff : TripStep(s)
  BY <1>1, TripStepSafe
<1>2. CASE \E b \in Bookings : BookingStep(b)
  <2>1. UNCHANGED <<trips, requests>>
    BY <1>2 DEF BookingStep, CreateBooking, UpdateBooking, ArchiveBooking, UpdateSections,
                StartFeedback, SubmitFeedback, IssueLink, RevokeLink, LinkExpires
  <2> QED
    BY <2>1, NothingPlanned
<1>3. CASE \E r \in Reports : Report(r[1], r[2]) \/ SetProgress(r[1], r[2])
  <2>1. PICK r \in Reports : Report(r[1], r[2]) \/ SetProgress(r[1], r[2])
    BY <1>3
  <2>2. r[1] \in Trips
    OBVIOUS
  <2> QED
    BY <2>1, <2>2, ReportSafe
<1>4. CASE UNCHANGED tVars
  BY <1>4, NothingPlanned DEF tVars
<1> QED
  BY <1>1, <1>2, <1>3, <1>4 DEF TNext

\* Whichever requests assign drivers and vehicles at the same time, no driver and no vehicle
\* is on two trips at once, and no driver works more than a day's duty (validateAssignment under
\* the advisory locks of booking, driver and vehicle).
THEOREM ToursNoDoubleBooking == TSpec => []NoDoubleBooking
<1>1. TripsInv => NoDoubleBooking
  BY DEF TripsInv
<1> QED
  BY <1>1, TripsInit, TripsStep, PTL DEF TSpec

-----------------------------------------------------------------------------
(* Links.  A grant names a trip and the version it had: versions never fall, and a trip  *)
(* that keeps its version keeps its booking and its driver.  A trip that is about to be   *)
(* created is one nobody has, and nobody else is about to create.                       *)

Creates(s) == requests[s].pc = "locked" /\ requests[s].op = "CREATE"
FreshInv ==
  /\ \A s \in Staff : Creates(s) => trips[requests[s].trip] = NoRow /\ requests[s].trip \in Trips
  /\ \A s, o \in Staff : s # o /\ Creates(s) /\ Creates(o) => requests[s].trip # requests[o].trip
VersionsInv == \A t \in Trips : trips[t] # NoRow => trips[t].version \in Nat

IsLink(row) == row = NoRow \/ row = [status |-> row.status, grants |-> row.grants]
Opens(p, g) ==
  /\ g[1] \in Trips /\ trips[g[1]] # NoRow /\ g[2] \in Nat /\ g[2] <= trips[g[1]].version
  /\ g[2] = trips[g[1]].version => trips[g[1]].booking = p[1] /\ trips[g[1]].driver = p[2]
LinksInv ==
  /\ links = [p \in Pairs |-> links[p]]
  /\ \A p \in Pairs : IsLink(links[p])
  /\ \A p \in Pairs : links[p].status = "ISSUED" => \A g \in links[p].grants : Opens(p, g)
GrantsInv == TripsInv /\ VersionsInv /\ FreshInv /\ LinksInv

\* What a step leaves of a trip.
KeepsTrip(t) ==
  /\ trips'[t] # NoRow /\ trips'[t].version \in Nat /\ trips[t].version <= trips'[t].version
  /\ trips[t].version = trips'[t].version =>
       trips'[t].booking = trips[t].booking /\ trips'[t].driver = trips[t].driver
Keeps == \A t \in Trips : trips[t] # NoRow => KeepsTrip(t)

HasLeast(R, S) == \E x \in S : \A y \in S : ~ (<<y, x>> \in R)
LEMMA LeastExists ==
  ASSUME NEW R, NEW N, NEW S, IsWellFoundedOn(R, N), S \subseteq N, S # {}
  PROVE  HasLeast(R, S)
  BY WFMin DEF HasLeast

\* The least number of a set is a member of it.
LEMMA LeastIsMember ==
  ASSUME NEW S \in SUBSET Nat, S # {}
  PROVE  Min(S) \in S
<1>1. PICK R : R = {ss \in Nat \X Nat : ss[1] < ss[2]}
  OBVIOUS
<1>2. IsWellFoundedOn(R, Nat)
  BY <1>1, NatLessThanWellFounded DEF OpToRel
<1>3. HasLeast(R, S)
  BY <1>2, LeastExists
<1>4. PICK x \in S : \A y \in S : ~ (<<y, x>> \in R)
  BY <1>3 DEF HasLeast
<1>5. \A y, z \in Nat : <<y, z>> \in R <=> y < z
  BY <1>1
<1>6. \A y \in S : y \in Nat /\ ~ (y < x)
  BY <1>4, <1>5
<1>7. \A y \in S : x =< y
  BY <1>6
<1> QED
  BY <1>7 DEF Min

LEMMA SameTrips ==
  ASSUME VersionsInv, UNCHANGED trips
  PROVE  Keeps /\ VersionsInv'
  BY DEF VersionsInv, Keeps, KeepsTrip

\* A commit writes one trip, and regroups.
LEMMA TripWritten ==
  ASSUME TripsInv, VersionsInv, NEW t \in Trips, NEW row, IsTrip(row), row # NoRow,
         row.version \in Nat,
         trips[t] # NoRow =>
           /\ trips[t].version <= row.version
           /\ trips[t].version = row.version =>
                row.booking = trips[t].booking /\ row.driver = trips[t].driver,
         NEW bs, Regroup([trips EXCEPT ![t] = row], bs)
  PROVE  /\ Keeps /\ VersionsInv'
         /\ \A u \in Trips : u # t /\ trips[u] = NoRow => trips'[u] = NoRow
         /\ trips'[t] # NoRow /\ trips'[t].version = row.version
         /\ trips'[t].booking = row.booking /\ trips'[t].driver = row.driver
<1>1. PICK rows : rows = [trips EXCEPT ![t] = row]
  OBVIOUS
<1>2. /\ rows = [u \in Trips |-> rows[u]]
      /\ rows[t] = row /\ \A u \in Trips : u # t => rows[u] = trips[u]
  BY <1>1 DEF TripsInv, AreTrips
<1>3. AreTrips(rows) /\ Regroup(rows, bs)
  BY <1>1, <1>2 DEF TripsInv, AreTrips
<1>4. /\ \A u \in Trips : (trips'[u] = NoRow <=> rows[u] = NoRow)
      /\ \A u \in Trips : rows[u] # NoRow =>
           /\ trips'[u].driver = rows[u].driver /\ trips'[u].booking = rows[u].booking
           /\ trips'[u].version = rows[u].version
  BY <1>3, Regrouping
<1>5. ASSUME NEW u \in Trips, trips[u] # NoRow
      PROVE  KeepsTrip(u)
  <2>1. CASE u = t
    BY <1>2, <1>4, <1>5, <2>1 DEF KeepsTrip
  <2>2. CASE u # t
    BY <1>2, <1>4, <1>5, <2>2 DEF KeepsTrip, VersionsInv
  <2> QED
    BY <2>1, <2>2
<1>6. VersionsInv'
  BY <1>2, <1>4 DEF VersionsInv
<1>7. Keeps
  BY <1>5 DEF Keeps
<1> QED
  BY <1>2, <1>4, <1>6, <1>7

LEMMA FreshStays ==
  ASSUME FreshInv,
         \A o \in Staff : Creates(o)' =>
           Creates(o) /\ requests'[o] = requests[o] /\ trips'[requests[o].trip] = NoRow
  PROVE  FreshInv'
<1>1. \A o \in Staff : Creates(o)' =>
        trips'[requests'[o].trip] = NoRow /\ requests'[o].trip \in Trips
  BY DEF FreshInv
<1>2. \A s, o \in Staff : s # o /\ Creates(s)' /\ Creates(o)' =>
        requests'[s].trip # requests'[o].trip
  BY DEF FreshInv
<1> QED
  BY <1>1, <1>2 DEF FreshInv

LEMMA OpensStill ==
  ASSUME Keeps, VersionsInv, NEW p, NEW g, Opens(p, g)
  PROVE  Opens(p, g)'
<1>1. KeepsTrip(g[1]) /\ trips[g[1]].version \in Nat
  BY DEF Keeps, Opens, VersionsInv
<1>2. g[2] <= trips'[g[1]].version
  BY <1>1 DEF KeepsTrip, Opens
<1>3. g[2] = trips'[g[1]].version => g[2] = trips[g[1]].version
  BY <1>1 DEF KeepsTrip, Opens
<1> QED
  BY <1>1, <1>2, <1>3 DEF KeepsTrip, Opens

\* Links that are revoked or expire open nothing.
LEMMA LinksLess ==
  ASSUME Keeps, VersionsInv, LinksInv, links' = [p \in Pairs |-> links'[p]],
         \A p \in Pairs : links'[p] = links[p] \/ (IsLink(links'[p]) /\ links'[p].status # "ISSUED")
  PROVE  LinksInv'
<1>1. \A p \in Pairs : IsLink(links'[p])
  BY DEF LinksInv
<1>2. ASSUME NEW p \in Pairs, links'[p].status = "ISSUED", NEW g \in links'[p].grants
      PROVE  Opens(p, g)'
  <2>1. Opens(p, g)
    BY <1>2 DEF LinksInv
  <2> QED
    BY <2>1, OpensStill
<1> QED
  BY <1>1, <1>2 DEF LinksInv, IsLink

LEMMA SameLinks ==
  ASSUME Keeps, VersionsInv, LinksInv, UNCHANGED links
  PROVE  LinksInv'
<1>1. links' = [p \in Pairs |-> links'[p]]
  BY DEF LinksInv
<1> QED
  BY <1>1, LinksLess

LEMMA LinkEnds ==
  ASSUME Keeps, VersionsInv, LinksInv, NEW p \in Pairs, links[p] # NoRow,
         NEW status, status # "ISSUED", links' = [links EXCEPT ![p].status = status]
  PROVE  LinksInv'
<1>1. /\ links' = [q \in Pairs |-> links'[q]]
      /\ \A q \in Pairs : q # p => links'[q] = links[q]
      /\ links'[p] = [links[p] EXCEPT !.status = status]
  BY DEF LinksInv
<1>2. links[p] = [status |-> links[p].status, grants |-> links[p].grants]
  BY DEF LinksInv, IsLink
<1>3. links'[p] = [status |-> status, grants |-> links[p].grants]
  BY <1>1, <1>2
<1>4. IsLink(links'[p]) /\ links'[p].status # "ISSUED"
  BY <1>3 DEF IsLink
<1> QED
  BY <1>1, <1>4, LinksLess

LEMMA UnassignedLinks ==
  ASSUME Keeps, VersionsInv, LinksInv, NEW rows, NEW b, NEW d, links' = Unassigned(rows, b, d)
  PROVE  LinksInv'
<1>1. CASE UNCHANGED links
  BY <1>1, SameLinks
<1>2. CASE /\ links' = [links EXCEPT ![<<b, d>>].status = "REVOKED"]
           /\ links[<<b, d>>] # NoRow /\ <<b, d>> \in Pairs
  <2>1. PICK p \in Pairs : p = <<b, d>>
    BY <1>2
  <2> QED
    BY <1>2, <2>1, LinkEnds
<1>3. CASE /\ links' = [links EXCEPT ![<<b, d>>].status = "REVOKED"]
           /\ <<b, d>> \notin Pairs
  <2>1. UNCHANGED links
    BY <1>3 DEF LinksInv
  <2> QED
    BY <2>1, SameLinks
<1> QED
  BY <1>1, <1>2, <1>3 DEF Unassigned

LEMMA RevokedLinks ==
  ASSUME Keeps, VersionsInv, LinksInv, NEW b, links' = Revoked(b)
  PROVE  LinksInv'
<1>1. ASSUME NEW p \in Pairs, links'[p] # links[p]
      PROVE  IsLink(links'[p]) /\ links'[p].status # "ISSUED"
  <2>1. links[p] # NoRow /\ links'[p] = [links[p] EXCEPT !.status = "REVOKED"]
    BY <1>1 DEF Revoked
  <2>2. links[p] = [status |-> links[p].status, grants |-> links[p].grants]
    BY <2>1 DEF LinksInv, IsLink
  <2>3. links'[p] = [status |-> "REVOKED", grants |-> links[p].grants]
    BY <2>1, <2>2
  <2> QED
    BY <2>3 DEF IsLink
<1>2. links' = [p \in Pairs |-> links'[p]]
  BY DEF Revoked
<1> QED
  BY <1>1, <1>2, LinksLess

\* A link gets the trips its driver has in the booking, as they are.
LEMMA IssueGrants ==
  ASSUME VersionsInv, LinksInv, NEW b \in Bookings, NEW d \in Drivers, IssueLink(b, d)
  PROVE  LinksInv'
<1>1. PICK p, grants :
        /\ p \in Pairs /\ p = <<b, d>>
        /\ grants = {<<t, trips[t].version>> : t \in Assigned(trips, b, d)}
  <2>1. <<b, d>> \in Pairs
    BY DEF Pairs
  <2> QED
    BY <2>1
<1>2. links' = [links EXCEPT ![p] = [status |-> "ISSUED", grants |-> grants]] /\ UNCHANGED trips
  BY <1>1 DEF IssueLink
<1>3. /\ links' = [q \in Pairs |-> links'[q]]
      /\ \A q \in Pairs : q # p => links'[q] = links[q]
      /\ links'[p] = [status |-> "ISSUED", grants |-> grants]
  BY <1>1, <1>2 DEF LinksInv
<1>4. \A q \in Pairs : IsLink(links'[q])
  BY <1>3 DEF LinksInv, IsLink
<1>5. ASSUME NEW g \in grants
      PROVE  Opens(p, g)
  <2>1. PICK t \in Assigned(trips, b, d) : g = <<t, trips[t].version>>
    BY <1>1
  <2>2. t \in Trips /\ trips[t] # NoRow /\ trips[t].booking = b /\ trips[t].driver = d
    BY <2>1 DEF Assigned, Live
  <2> QED
    BY <1>1, <2>1, <2>2 DEF Opens, VersionsInv
<1>6. ASSUME NEW q \in Pairs, links'[q].status = "ISSUED", NEW g \in links'[q].grants
      PROVE  Opens(q, g)
  BY <1>3, <1>5, <1>6 DEF LinksInv
<1>7. \A q \in Pairs : links'[q].status = "ISSUED" => \A g \in links'[q].grants : Opens(q, g)'
  BY <1>2, <1>6 DEF Opens
<1> QED
  BY <1>3, <1>4, <1>7 DEF LinksInv, IsLink

LEMMA CreateGrants ==
  ASSUME GrantsInv, NEW s \in Staff, CommitCreate(s)
  PROVE  VersionsInv' /\ FreshInv' /\ LinksInv'
<1>1. PICK t, to : t = requests[s].trip /\ to = requests[s].to
  OBVIOUS
<1>2. t \in Trips /\ trips[t] = NoRow /\ Creates(s)
  BY <1>1 DEF CommitCreate, Creates, GrantsInv, FreshInv
<1>3. PICK row : row = Row(to, 1, "SCHEDULED")
  OBVIOUS
<1>4. /\ IsTrip(row) /\ row # NoRow /\ row.version = 1
      /\ row.booking = to.booking /\ row.driver = to.driver
  BY <1>3 DEF Row, IsTrip, NoRow
<1>5. Regroup([trips EXCEPT ![t] = row], {to.booking})
  BY <1>1, <1>3 DEF CommitCreate
<1>6. /\ Keeps /\ VersionsInv'
      /\ \A u \in Trips : u # t /\ trips[u] = NoRow => trips'[u] = NoRow
      /\ trips'[t] # NoRow /\ trips'[t].version = 1
      /\ trips'[t].booking = to.booking /\ trips'[t].driver = to.driver
  BY <1>2, <1>4, <1>5, TripWritten DEF GrantsInv
<1>7. requests' = [requests EXCEPT ![s] = Idle]
  BY DEF CommitCreate
<1>8. /\ requests'[s] = Idle
      /\ \A o \in Staff : o # s => requests'[o] = requests[o]
  BY <1>7 DEF GrantsInv, TripsInv, RequestsInv
<1>9. \A o \in Staff : Creates(o)' => o # s /\ Creates(o) /\ requests'[o] = requests[o]
  BY <1>8 DEF Creates, Idle
<1>10. \A o \in Staff : o # s /\ Creates(o) =>
         /\ requests[o].trip # t /\ requests[o].trip \in Trips
         /\ trips[requests[o].trip] = NoRow
  BY <1>1, <1>2 DEF GrantsInv, FreshInv
<1>11. FreshInv'
  BY <1>6, <1>9, <1>10, FreshStays DEF GrantsInv
<1>12. PICK p : p = <<to.booking, to.driver>>
  OBVIOUS
<1>13. \/ UNCHANGED links
       \/ /\ links[p].status = "ISSUED"
          /\ links' = [links EXCEPT ![p].grants = links[p].grants \cup {<<t, 1>>}]
  BY <1>1, <1>12 DEF CommitCreate
<1>14. ASSUME UNCHANGED links
       PROVE  LinksInv'
  BY <1>6, <1>14, SameLinks DEF GrantsInv
<1>15. ASSUME links[p].status = "ISSUED", p \in Pairs,
              links' = [links EXCEPT ![p].grants = links[p].grants \cup {<<t, 1>>}]
       PROVE  LinksInv'
  <2>1. /\ links' = [q \in Pairs |-> links'[q]]
        /\ \A q \in Pairs : q # p => links'[q] = links[q]
        /\ links'[p] = [links[p] EXCEPT !.grants = links[p].grants \cup {<<t, 1>>}]
    BY <1>15 DEF GrantsInv, LinksInv
  <2>2. links[p] = [status |-> links[p].status, grants |-> links[p].grants]
    BY <1>15 DEF GrantsInv, LinksInv, IsLink, NoRow
  <2>3. links'[p] = [status |-> "ISSUED", grants |-> links[p].grants \cup {<<t, 1>>}]
    BY <1>15, <2>1, <2>2
  <2>4. \A q \in Pairs : IsLink(links'[q])
    BY <2>1, <2>3 DEF GrantsInv, LinksInv, IsLink
  <2>5. Opens(p, <<t, 1>>)'
    BY <1>2, <1>6, <1>12 DEF Opens
  <2>6. ASSUME NEW q \in Pairs, links'[q].status = "ISSUED", NEW g \in links'[q].grants
        PROVE  Opens(q, g)'
    <3>1. CASE q = p /\ g = <<t, 1>>
      BY <2>5, <3>1
    <3>2. CASE ~ (q = p /\ g = <<t, 1>>)
      <4>1. links[q].status = "ISSUED" /\ g \in links[q].grants
        BY <1>15, <2>1, <2>3, <2>6, <3>2
      <4>2. Opens(q, g)
        BY <4>1 DEF GrantsInv, LinksInv
      <4> QED
        BY <1>6, <4>2, OpensStill DEF GrantsInv
    <3> QED
      BY <3>1, <3>2
  <2> QED
    BY <2>1, <2>4, <2>6 DEF LinksInv, IsLink
<1>16. ASSUME p \notin Pairs,
              links' = [links EXCEPT ![p].grants = links[p].grants \cup {<<t, 1>>}]
       PROVE  LinksInv'
  <2>1. UNCHANGED links
    BY <1>16 DEF GrantsInv, LinksInv
  <2> QED
    BY <1>6, <2>1, SameLinks DEF GrantsInv
<1>17. LinksInv'
  BY <1>13, <1>14, <1>15, <1>16
<1> QED
  BY <1>6, <1>11, <1>17

\* A request that ends while the trips that are about to be created stay to be created.
LEMMA EndFresh ==
  ASSUME TripsInv, FreshInv, NEW s \in Staff, requests' = [requests EXCEPT ![s] = Idle],
         \A u \in Trips : trips[u] = NoRow => trips'[u] = NoRow
  PROVE  FreshInv'
<1>1. /\ requests'[s] = Idle
      /\ \A o \in Staff : o # s => requests'[o] = requests[o]
  BY DEF TripsInv, RequestsInv
<1>2. \A o \in Staff : Creates(o)' => Creates(o) /\ requests'[o] = requests[o]
  BY <1>1 DEF Creates, Idle
<1>3. \A o \in Staff : Creates(o) => trips'[requests[o].trip] = NoRow
  BY DEF FreshInv
<1> QED
  BY <1>2, <1>3, FreshStays

\* update() gives a trip that changes hands a version nobody has a grant for.
LEMMA UpdateGrants ==
  ASSUME GrantsInv, NEW s \in Staff, CommitUpdate(s)
  PROVE  VersionsInv' /\ FreshInv' /\ LinksInv'
<1>1. PICK t, to, old, rows :
        /\ t = requests[s].trip /\ to = requests[s].to /\ old = requests[s].read
        /\ rows = [trips EXCEPT ![t] = Row(to, NextVersion(trips[t], to), trips[t].progress)]
  OBVIOUS
<1>2. t \in Trips /\ IsTrip(trips[t])
  BY <1>1 DEF CommitUpdate, GrantsInv, TripsInv, RequestsInv, Knows
<1>3. trips[t] # NoRow
  BY <1>2 DEF IsTrip, NoRow
<1>4. trips[t].version \in Nat
  BY <1>2, <1>3 DEF GrantsInv, VersionsInv
<1>5. PICK row : row = Row(to, NextVersion(trips[t], to), trips[t].progress)
  OBVIOUS
<1>6. /\ IsTrip(row) /\ row # NoRow /\ row.version = NextVersion(trips[t], to)
      /\ row.booking = to.booking /\ row.driver = to.driver
  BY <1>5 DEF Row, IsTrip, NoRow
<1>7. /\ row.version \in Nat /\ trips[t].version <= row.version
      /\ trips[t].version = row.version =>
           row.booking = trips[t].booking /\ row.driver = trips[t].driver
  BY <1>4, <1>6 DEF NextVersion
<1>8. PICK bs : Regroup([trips EXCEPT ![t] = row], bs)
  BY <1>1, <1>5 DEF CommitUpdate
<1>9. /\ Keeps /\ VersionsInv'
      /\ \A u \in Trips : u # t /\ trips[u] = NoRow => trips'[u] = NoRow
  BY <1>2, <1>6, <1>7, <1>8, TripWritten DEF GrantsInv
<1>10. FreshInv'
  BY <1>3, <1>9, EndFresh DEF CommitUpdate, GrantsInv
<1>11. UNCHANGED links \/ links' = Unassigned(rows, old.booking, old.driver)
  BY <1>1 DEF CommitUpdate
<1>12. LinksInv'
  BY <1>9, <1>11, SameLinks, UnassignedLinks DEF GrantsInv
<1> QED
  BY <1>9, <1>10, <1>12

LEMMA ArchiveGrants ==
  ASSUME GrantsInv, NEW s \in Staff, CommitArchive(s)
  PROVE  VersionsInv' /\ FreshInv' /\ LinksInv'
<1>1. PICK t, old, rows :
        /\ t = requests[s].trip /\ old = requests[s].read
        /\ rows = [trips EXCEPT ![t].status = "ARCHIVED"]
  OBVIOUS
<1>2. t \in Trips /\ IsTrip(trips[t])
  BY <1>1 DEF CommitArchive, GrantsInv, TripsInv, RequestsInv, Knows
<1>3. trips[t] # NoRow
  BY <1>2 DEF IsTrip, NoRow
<1>4. trips[t].version \in Nat
  BY <1>2, <1>3 DEF GrantsInv, VersionsInv
<1>5. PICK row : row = [trips[t] EXCEPT !.status = "ARCHIVED"]
  OBVIOUS
<1>6. row = [status |-> "ARCHIVED", booking |-> trips[t].booking, driver |-> trips[t].driver,
             vehicle |-> trips[t].vehicle, slot |-> trips[t].slot, version |-> trips[t].version,
             engagement |-> trips[t].engagement, progress |-> trips[t].progress]
  BY <1>2, <1>5 DEF IsTrip
<1>7. /\ IsTrip(row) /\ row # NoRow /\ row.version = trips[t].version
      /\ row.booking = trips[t].booking /\ row.driver = trips[t].driver
  BY <1>6 DEF IsTrip, NoRow
<1>8. rows = [trips EXCEPT ![t] = row]
  BY <1>1, <1>5
<1>9. PICK bs : Regroup([trips EXCEPT ![t] = row], bs)
  BY <1>1, <1>8 DEF CommitArchive
<1>10. /\ Keeps /\ VersionsInv'
       /\ \A u \in Trips : u # t /\ trips[u] = NoRow => trips'[u] = NoRow
  BY <1>2, <1>4, <1>7, <1>9, TripWritten DEF GrantsInv
<1>11. FreshInv'
  BY <1>3, <1>10, EndFresh DEF CommitArchive, GrantsInv
<1>12. links' = Unassigned(rows, old.booking, old.driver)
  BY <1>1 DEF CommitArchive
<1>13. LinksInv'
  BY <1>10, <1>12, UnassignedLinks DEF GrantsInv
<1> QED
  BY <1>10, <1>11, <1>13

\* create() takes a number that no trip has and no other request is about to give.
LEMMA BeginGrants ==
  ASSUME GrantsInv, NEW s \in Staff, NEW to \in Offered, BeginCreate(s, to)
  PROVE  FreshInv'
<1>1. PICK unused :
        unused = {t \in Trips : trips[t] = NoRow}
                   \ {requests[o].trip : o \in {x \in Staff : LocksOf(x) # {}}}
  OBVIOUS
<1>2. PICK t : t = Min(unused)
  OBVIOUS
<1>3. unused \in SUBSET Nat /\ unused # {}
  BY <1>1 DEF BeginCreate, Trips
<1>4. t \in unused
  BY <1>2, <1>3, LeastIsMember
<1>5. t \in Trips /\ trips[t] = NoRow
  BY <1>1, <1>4
<1>6. \A o \in Staff : LocksOf(o) # {} => requests[o].trip # t
  BY <1>1, <1>4
<1>7. PICK row : row = [pc |-> "locked", op |-> "CREATE", trip |-> t, read |-> Null,
                        to |-> to, locks |-> LocksFor(to)]
  OBVIOUS
<1>8. requests' = [requests EXCEPT ![s] = row] /\ row.trip = t /\ UNCHANGED trips
  BY <1>1, <1>2, <1>7 DEF BeginCreate
<1>9. requests'[s].trip = t /\ \A o \in Staff : o # s => requests'[o] = requests[o]
  BY <1>8 DEF GrantsInv, TripsInv, RequestsInv
<1>10. \A o \in Staff : o # s /\ Creates(o)' => Creates(o) /\ requests'[o].trip # t
  <2>1. \A o \in Staff : Creates(o) => LocksOf(o) # {}
    BY DEF Creates, Assigns, LocksOf, LocksFor, GrantsInv, TripsInv, RequestsInv
  <2> QED
    BY <1>6, <1>9, <2>1 DEF Creates
<1>11. \A o \in Staff : Creates(o)' =>
         trips'[requests'[o].trip] = NoRow /\ requests'[o].trip \in Trips
  BY <1>5, <1>8, <1>9, <1>10 DEF GrantsInv, FreshInv
<1>12. \A q, o \in Staff : q # o /\ Creates(q)' /\ Creates(o)' =>
         requests'[q].trip # requests'[o].trip
  BY <1>9, <1>10 DEF GrantsInv, FreshInv
<1> QED
  BY <1>11, <1>12 DEF FreshInv

LEMMA TripGrants ==
  ASSUME GrantsInv, NEW s \in Staff, TripStep(s)
  PROVE  VersionsInv' /\ FreshInv' /\ LinksInv'
<1>1. CASE CommitCreate(s) \/ CommitUpdate(s) \/ CommitArchive(s)
  BY <1>1, CreateGrants, UpdateGrants, ArchiveGrants
<1>2. CASE ~ (CommitCreate(s) \/ CommitUpdate(s) \/ CommitArchive(s))
  <2>1. UNCHANGED <<trips, links>>
    BY <1>2 DEF TripStep, BeginCreate, BeginUpdate, AskArchive, BeginArchive, GiveUp
  <2>2. Keeps /\ VersionsInv'
    BY <2>1, SameTrips DEF GrantsInv
  <2>3. LinksInv'
    BY <2>1, <2>2, SameLinks DEF GrantsInv
  <2>4. CASE \E a \in Offered : BeginCreate(s, a)
    BY <2>2, <2>3, <2>4, BeginGrants
  <2>5. CASE ~ \E a \in Offered : BeginCreate(s, a)
    <3>1. /\ \A o \in Staff : o # s => requests'[o] = requests[o]
          /\ ~ Creates(s)'
      <4>1. requests = [o \in Staff |-> requests[o]]
        BY DEF GrantsInv, TripsInv, RequestsInv
      <4>2. CASE \E a \in Offered, t \in Trips : BeginUpdate(s, t, a)
        <5>1. PICK a, t : BeginUpdate(s, t, a)
          BY <4>2
        <5>2. PICK row : row.op = "UPDATE" /\ requests' = [requests EXCEPT ![s] = row]
          BY <5>1 DEF BeginUpdate
        <5> QED
          BY <4>1, <5>2 DEF Creates
      <4>3. CASE BeginArchive(s)
        <5>1. PICK row : row.op = "ARCHIVE" /\ requests' = [requests EXCEPT ![s] = row]
          BY <4>3 DEF BeginArchive
        <5> QED
          BY <4>1, <5>1 DEF Creates
      <4>4. CASE (\E t \in Trips : AskArchive(s, t)) \/ GiveUp(s)
        <5>1. PICK row : row.pc # "locked" /\ requests' = [requests EXCEPT ![s] = row]
          BY <4>4 DEF AskArchive, GiveUp, Idle
        <5> QED
          BY <4>1, <5>1 DEF Creates
      <4> QED
        BY <1>2, <2>5, <4>2, <4>3, <4>4 DEF TripStep
    <3>2. \A o \in Staff : Creates(o)' => Creates(o) /\ requests'[o] = requests[o]
      BY <3>1 DEF Creates
    <3>3. \A o \in Staff : Creates(o) => trips'[requests[o].trip] = NoRow
      BY <2>1 DEF GrantsInv, FreshInv
    <3>4. FreshInv'
      BY <3>2, <3>3, FreshStays DEF GrantsInv
    <3> QED
      BY <2>2, <2>3, <3>4
  <2> QED
    BY <2>4, <2>5
<1> QED
  BY <1>1, <1>2

LEMMA SameFresh ==
  ASSUME FreshInv, UNCHANGED requests,
         \A u \in Trips : trips[u] = NoRow => trips'[u] = NoRow
  PROVE  FreshInv'
<1>1. \A o \in Staff : Creates(o)' => Creates(o) /\ requests'[o] = requests[o]
  BY DEF Creates
<1>2. \A o \in Staff : Creates(o) => trips'[requests[o].trip] = NoRow
  BY DEF FreshInv
<1> QED
  BY <1>1, <1>2, FreshStays

LEMMA BookingGrants ==
  ASSUME GrantsInv, NEW b \in Bookings, BookingStep(b)
  PROVE  VersionsInv' /\ FreshInv' /\ LinksInv'
<1>1. UNCHANGED <<trips, requests>>
  BY DEF BookingStep, CreateBooking, UpdateBooking, ArchiveBooking, UpdateSections,
         StartFeedback, SubmitFeedback, IssueLink, RevokeLink, LinkExpires
<1>2. Keeps /\ VersionsInv'
  BY <1>1, SameTrips DEF GrantsInv
<1>3. FreshInv'
  BY <1>1, SameFresh DEF GrantsInv
<1>4. CASE UNCHANGED links \/ links' = Revoked(b)
  BY <1>2, <1>3, <1>4, SameLinks, RevokedLinks DEF GrantsInv
<1>5. CASE \E d \in Drivers : IssueLink(b, d)
  BY <1>2, <1>3, <1>5, IssueGrants DEF GrantsInv
<1>6. CASE \E d \in Drivers : RevokeLink(b, d) \/ LinkExpires(b, d)
  <2>1. PICK d \in Drivers : RevokeLink(b, d) \/ LinkExpires(b, d)
    BY <1>6
  <2>2. PICK p \in Pairs : p = <<b, d>>
    BY DEF Pairs
  <2>3. links[p] # NoRow
    BY <2>1, <2>2 DEF RevokeLink, LinkExpires, NoRow
  <2>4. PICK status : status # "ISSUED" /\ links' = [links EXCEPT ![p].status = status]
    BY <2>1, <2>2 DEF RevokeLink, LinkExpires
  <2>5. LinksInv'
    BY <1>2, <2>3, <2>4, LinkEnds DEF GrantsInv
  <2> QED
    BY <1>2, <1>3, <2>5
<1>7. \/ UNCHANGED links \/ links' = Revoked(b)
      \/ \E d \in Drivers : IssueLink(b, d)
      \/ \E d \in Drivers : RevokeLink(b, d) \/ LinkExpires(b, d)
  BY DEF BookingStep, CreateBooking, UpdateBooking, ArchiveBooking, UpdateSections,
         StartFeedback, SubmitFeedback
<1> QED
  BY <1>4, <1>5, <1>6, <1>7

LEMMA ReportGrants ==
  ASSUME GrantsInv, NEW t \in Trips, NEW reached, Report(t, reached) \/ SetProgress(t, reached)
  PROVE  VersionsInv' /\ FreshInv' /\ LinksInv'
<1>1. t \in Live(trips) /\ UNCHANGED <<requests, links>>
  BY DEF Report, SetProgress
<1>2. IsTrip(trips[t]) /\ trips[t] # NoRow
  BY <1>1 DEF Live, GrantsInv, TripsInv, AreTrips
<1>3. trips[t].version \in Nat
  BY <1>2 DEF GrantsInv, VersionsInv
<1>4. PICK version :
        /\ version \in {trips[t].version, trips[t].version + 1}
        /\ \A u \in Trips : u # t => trips'[u] = trips[u]
        /\ trips'[t] = [status |-> trips[t].status, booking |-> trips[t].booking,
                        driver |-> trips[t].driver, vehicle |-> trips[t].vehicle,
                        slot |-> trips[t].slot, version |-> version,
                        engagement |-> trips[t].engagement, progress |-> reached]
  <2>1. CASE Report(t, reached)
    BY <1>2, <2>1 DEF Report, GrantsInv, TripsInv, AreTrips, IsTrip
  <2>2. CASE SetProgress(t, reached)
    <3>1. trips' = [trips EXCEPT ![t] =
            [trips[t] EXCEPT !.progress = reached, !.version = trips[t].version + 1]]
      BY <2>2 DEF SetProgress, GrantsInv, TripsInv, AreTrips
    <3> QED
      BY <1>2, <3>1 DEF GrantsInv, TripsInv, AreTrips, IsTrip
  <2> QED
    BY <2>1, <2>2
<1>5. /\ trips'[t] # NoRow /\ trips'[t].version = version
      /\ trips'[t].booking = trips[t].booking /\ trips'[t].driver = trips[t].driver
  BY <1>4 DEF NoRow
<1>6. KeepsTrip(t)
  BY <1>3, <1>4, <1>5 DEF KeepsTrip
<1>7. Keeps /\ VersionsInv'
  BY <1>4, <1>6 DEF Keeps, KeepsTrip, GrantsInv, VersionsInv
<1>8. FreshInv'
  BY <1>1, <1>2, <1>4, SameFresh DEF GrantsInv
<1> QED
  BY <1>1, <1>7, <1>8, SameLinks DEF GrantsInv

LEMMA GrantsInit == TInit => GrantsInv
<1> SUFFICES ASSUME TInit PROVE GrantsInv
  OBVIOUS
<1>1. VersionsInv /\ FreshInv
  BY DEF TInit, VersionsInv, FreshInv, Creates, Idle
<1>2. LinksInv
  BY DEF TInit, LinksInv, IsLink, NoRow
<1> QED
  BY <1>1, <1>2, TripsInit DEF GrantsInv

LEMMA GrantsStep == GrantsInv /\ [TNext]_tVars => GrantsInv'
<1> SUFFICES ASSUME GrantsInv, [TNext]_tVars PROVE GrantsInv'
  OBVIOUS
<1>1. TripsInv'
  BY TripsStep DEF GrantsInv
<1>2. CASE \E s \in Staff : TripStep(s)
  BY <1>1, <1>2, TripGrants DEF GrantsInv
<1>3. CASE \E b \in Bookings : BookingStep(b)
  BY <1>1, <1>3, BookingGrants DEF GrantsInv
<1>4. CASE \E r \in Reports : Report(r[1], r[2]) \/ SetProgress(r[1], r[2])
  <2>1. PICK r \in Reports : Report(r[1], r[2]) \/ SetProgress(r[1], r[2])
    BY <1>4
  <2>2. r[1] \in Trips
    OBVIOUS
  <2> QED
    BY <1>1, <2>1, <2>2, ReportGrants DEF GrantsInv
<1>5. CASE UNCHANGED tVars
  <2>1. Keeps /\ VersionsInv'
    BY <1>5, SameTrips DEF GrantsInv, tVars
  <2>2. FreshInv' /\ LinksInv'
    BY <1>5, <2>1, SameFresh, SameLinks DEF GrantsInv, tVars
  <2> QED
    BY <1>1, <2>1, <2>2 DEF GrantsInv
<1> QED
  BY <1>2, <1>3, <1>4, <1>5 DEF TNext

LEMMA GrantsSuffice == GrantsInv => GrantsAreOwn
<1> SUFFICES ASSUME GrantsInv, NEW b \in Bookings, NEW d \in Drivers,
                    links[<<b, d>>].status = "ISSUED", NEW g \in links[<<b, d>>].grants,
                    trips[g[1]].version = g[2]
             PROVE  trips[g[1]].booking = b /\ trips[g[1]].driver = d
  BY DEF GrantsAreOwn
<1>1. PICK p \in Pairs : p = <<b, d>>
  BY DEF Pairs
<1>2. Opens(p, g)
  BY <1>1 DEF GrantsInv, LinksInv
<1> QED
  BY <1>1, <1>2 DEF Opens

\* A driver's link opens only trips that are the driver's in its booking: whatever staff
\* reassign, move, archive or set back meanwhile, no grant outlives the assignment it was made
\* for (driver_link_trips.assignmentVersion against the version update() and setProgress() count).
THEOREM ToursGrantsAreOwn == TSpec => []GrantsAreOwn
  BY GrantsSuffice, GrantsInit, GrantsStep, PTL DEF TSpec

-----------------------------------------------------------------------------
(* Engagements.  The trips of a booking are in order, whatever their slots: a group starts *)
(* where the driver changes, and the number of a trip counts the groups that have started. *)

HaveSlots(rows, S) == S \subseteq Trips /\ \A t \in S : rows[t].slot \in Nat

\* Every set of numbers has a least one, and every bounded one a greatest.
LEMMA LeastNumber ==
  ASSUME NEW S \in SUBSET Nat, S # {}
  PROVE  \E x \in S : \A y \in S : x <= y
<1>1. PICK R : R = {ss \in Nat \X Nat : ss[1] < ss[2]}
  OBVIOUS
<1>2. IsWellFoundedOn(R, Nat)
  BY <1>1, NatLessThanWellFounded DEF OpToRel
<1>3. HasLeast(R, S)
  BY <1>2, LeastExists
<1>4. PICK x \in S : \A y \in S : ~ (<<y, x>> \in R)
  BY <1>3 DEF HasLeast
<1>5. \A y, z \in Nat : <<y, z>> \in R <=> y < z
  BY <1>1
<1>6. \A y \in S : y \in Nat /\ ~ (y < x)
  BY <1>4, <1>5
<1>7. \A y \in S : x <= y
  BY <1>6
<1> QED
  BY <1>7

LEMMA GreatestNumber ==
  ASSUME NEW S \in SUBSET Nat, S # {}, NEW bound \in Nat, \A x \in S : x <= bound
  PROVE  Max(S) \in S /\ \A x \in S : x <= Max(S)
<1> DEFINE gaps == {bound - x : x \in S}
<1>1. \A x \in S : bound - x \in Nat
  OBVIOUS
<1>2. gaps \subseteq Nat
  BY <1>1, Zenon
<1>3. gaps # {}
  <2>1. PICK x : x \in S
    OBVIOUS
  <2>2. bound - x \in gaps
    BY <2>1
  <2> QED
    BY <2>2, Zenon
<1>4. PICK g \in gaps : \A h \in gaps : g <= h
  BY <1>3, <1>2, LeastNumber, Zenon
<1>5. PICK x \in S : g = bound - x
  OBVIOUS
<1>6. \A y \in S : bound - x <= bound - y
  BY <1>4, <1>5
<1>7. \A y \in S : x >= y
  BY <1>6
<1>8. Max(S) \in S /\ \A y \in S : Max(S) >= y
  BY <1>7 DEF Max
<1> QED
  BY <1>8

LEMMA TripsInOrder ==
  ASSUME NEW rows, NEW S, HaveSlots(rows, S)
  PROVE  /\ \A t, u \in S : t = u \/ Before(rows, t, u) \/ Before(rows, u, t)
         /\ \A t, u \in S : Before(rows, t, u) => t # u /\ ~ Before(rows, u, t)
         /\ \A t, u, v \in S : Before(rows, t, u) /\ Before(rows, u, v) => Before(rows, t, v)
  BY DEF HaveSlots, Before, Trips

\* Of some trips one is the first.
LEMMA Earliest ==
  ASSUME NEW rows, NEW S, HaveSlots(rows, S), S # {}
  PROVE  \E t \in S : \A u \in S : u = t \/ Before(rows, t, u)
<1> DEFINE slots == {rows[t].slot : t \in S}
<1>1. slots \in SUBSET Nat /\ slots # {}
  BY DEF HaveSlots
<1>2. PICK slot \in slots : \A x \in slots : slot <= x
  BY <1>1, LeastNumber, Zenon
<1> DEFINE first == {t \in S : rows[t].slot = slot}
<1>3. S \subseteq Nat
  BY DEF HaveSlots, Trips
<1>4. first \in SUBSET Nat /\ first # {}
  BY <1>3
<1>5. PICK t \in first : \A u \in first : t <= u
  BY <1>4, LeastNumber, Zenon
<1>6. ASSUME NEW u \in S
      PROVE  u = t \/ Before(rows, t, u)
  <2>1. /\ rows[u].slot \in Nat /\ rows[t].slot \in Nat /\ rows[t].slot = slot
        /\ u \in Nat /\ t \in Nat
    BY <1>3 DEF HaveSlots
  <2>2. slot <= rows[u].slot
    BY <1>2
  <2>3. rows[u].slot = slot => t <= u
    BY <1>5
  <2> QED
    BY <2>1, <2>2, <2>3 DEF Before
<1> QED
  BY <1>6

\* The groups that have started by a trip.
StartedBy(rows, b, t) == {u \in Starts(rows, b) : u = t \/ Before(rows, u, t)}

LEMMA StartsAreFree ==
  ASSUME NEW rows, NEW b
  PROVE  Starts(rows, b) \subseteq Free(rows, b) /\ Free(rows, b) \subseteq Trips
  BY DEF Starts, Free, Live

LEMMA CountStarts ==
  ASSUME NEW rows, NEW b
  PROVE  /\ IsFiniteSet(Starts(rows, b)) /\ Cardinality(Starts(rows, b)) \in Nat
         /\ \A t : /\ IsFiniteSet(StartedBy(rows, b, t))
                   /\ Cardinality(StartedBy(rows, b, t)) \in Nat
                   /\ Cardinality(StartedBy(rows, b, t)) \in 0 .. Cardinality(Starts(rows, b))
<1>1. Starts(rows, b) \subseteq Trips
  BY StartsAreFree
<1>2. IsFiniteSet(Starts(rows, b)) /\ Cardinality(Starts(rows, b)) \in Nat
  BY <1>1, FewTrips
<1>3. ASSUME NEW t
      PROVE  /\ IsFiniteSet(StartedBy(rows, b, t)) /\ Cardinality(StartedBy(rows, b, t)) \in Nat
             /\ Cardinality(StartedBy(rows, b, t)) \in 0 .. Cardinality(Starts(rows, b))
  <2>1. StartedBy(rows, b, t) \subseteq Starts(rows, b)
    BY DEF StartedBy
  <2>2. /\ IsFiniteSet(StartedBy(rows, b, t)) /\ Cardinality(StartedBy(rows, b, t)) \in Nat
        /\ Cardinality(StartedBy(rows, b, t)) <= Cardinality(Starts(rows, b))
    BY <1>1, <2>1, FewTrips, FewerTrips
  <2> QED
    BY <1>2, <2>2
<1> QED
  BY <1>2, <1>3

\* A later trip has at least as many groups before it, and more when it starts one.
LEMMA LaterCountsMore ==
  ASSUME NEW rows, NEW b, HaveSlots(rows, Free(rows, b)),
         NEW t \in Free(rows, b), NEW u \in Free(rows, b), Before(rows, t, u)
  PROVE  /\ Cardinality(StartedBy(rows, b, t)) <= Cardinality(StartedBy(rows, b, u))
         /\ u \in Starts(rows, b) =>
              Cardinality(StartedBy(rows, b, t)) < Cardinality(StartedBy(rows, b, u))
<1>1. StartedBy(rows, b, t) \subseteq StartedBy(rows, b, u)
  BY StartsAreFree, TripsInOrder DEF StartedBy
<1>2. PICK R, S : R = StartedBy(rows, b, t) /\ S = StartedBy(rows, b, u)
  OBVIOUS
<1>3. IsFiniteSet(S) /\ Cardinality(S) \in Nat /\ Cardinality(R) \in Nat
  BY <1>2, CountStarts
<1>4. R \in SUBSET S
  BY <1>1, <1>2
<1>5. Cardinality(R) <= Cardinality(S) /\ (Cardinality(S) = Cardinality(R) => S = R)
  BY <1>3, <1>4, FS_Subset
<1>6. u \in Starts(rows, b) => u \in S /\ u \notin R
  BY <1>2, TripsInOrder DEF StartedBy
<1> QED
  BY <1>2, <1>3, <1>5, <1>6

\* The first of the trips starts a group.
LEMMA SomeGroupStarted ==
  ASSUME NEW rows, NEW b, HaveSlots(rows, Free(rows, b)), NEW t \in Free(rows, b)
  PROVE  Cardinality(StartedBy(rows, b, t)) >= 1
<1>1. PICK e \in Free(rows, b) : \A u \in Free(rows, b) : u = e \/ Before(rows, e, u)
  BY Earliest
<1>2. \A u \in Free(rows, b) : ~ Before(rows, u, e)
  BY <1>1, TripsInOrder
<1>3. e \in Starts(rows, b)
  BY <1>2 DEF Starts
<1>4. e \in StartedBy(rows, b, t)
  BY <1>1, <1>3 DEF StartedBy
<1> DEFINE count == Cardinality(StartedBy(rows, b, t))
<1>5. count # 0
  BY <1>4, CountStarts, FS_EmptySet, Zenon
<1>6. count \in Nat
  BY CountStarts
<1> HIDE DEF count
<1>7. count >= 1
  BY <1>5, <1>6
<1> QED
  BY <1>7 DEF count

\* Each number up to that of the last group is that of the trip that starts it.
LEMMA EveryGroupStarts ==
  ASSUME NEW rows, NEW b, HaveSlots(rows, Free(rows, b)),
         NEW n \in 1 .. Cardinality(Starts(rows, b))
  PROVE  \E t \in Starts(rows, b) : Cardinality(StartedBy(rows, b, t)) = n
<1> DEFINE S == Starts(rows, b)
           k == Cardinality(S)
           count == [t \in S |-> Cardinality(StartedBy(rows, b, t))]
<1>1. k \in Nat /\ IsFiniteSet(S)
  BY CountStarts
<1>2. IsFiniteSet(1 .. k) /\ Cardinality(1 .. k) = k
  BY <1>1, FS_Interval
<1>3. \A t \in S : Cardinality(StartedBy(rows, b, t)) \in 1 .. k
  BY StartsAreFree, CountStarts, SomeGroupStarted
<1>4. ASSUME NEW t \in S, NEW u \in S, count[t] = count[u]
      PROVE  t = u
  <2>1. t \in Free(rows, b) /\ u \in Free(rows, b)
    BY StartsAreFree
  <2>2. Cardinality(StartedBy(rows, b, t)) = Cardinality(StartedBy(rows, b, u))
    BY <1>4
  <2>3. ~ Before(rows, t, u) /\ ~ Before(rows, u, t)
    BY <2>1, <2>2, CountStarts, LaterCountsMore
  <2> QED
    BY <2>1, <2>3, TripsInOrder
<1>5. count \in Injection(S, 1 .. k)
  BY <1>3, <1>4 DEF Injection, IsInjective
<1>6. count \in Surjection(S, 1 .. k)
  <2> HIDE DEF count, S
  <2> QED
    BY <1>1, <1>2, <1>5, FS_Injection
<1> QED
  BY <1>6 DEF Surjection

\* Trips of one number are of one driver.
LEMMA GroupHasOneDriver ==
  ASSUME NEW rows, NEW b, HaveSlots(rows, Free(rows, b)),
         NEW t \in Free(rows, b), NEW s \in Starts(rows, b),
         Cardinality(StartedBy(rows, b, t)) = Cardinality(StartedBy(rows, b, s))
  PROVE  rows[t].driver = rows[s].driver
<1>1. s \in Free(rows, b)
  BY StartsAreFree
<1>2. ~ Before(rows, t, s)
  BY <1>1, CountStarts, LaterCountsMore
<1>3. SUFFICES ASSUME rows[t].driver # rows[s].driver, Before(rows, s, t)
               PROVE  FALSE
  BY <1>1, <1>2, TripsInOrder
<1> DEFINE other == {u \in Free(rows, b) : /\ Before(rows, s, u) /\ (u = t \/ Before(rows, u, t))
                                          /\ rows[u].driver # rows[s].driver}
<1>4. HaveSlots(rows, other) /\ other # {}
  BY <1>3 DEF HaveSlots
<1>5. PICK m \in other : \A u \in other : u = m \/ Before(rows, m, u)
  BY <1>4, Earliest, Zenon
<1>6. m \in Free(rows, b) /\ Before(rows, s, m) /\ (m = t \/ Before(rows, m, t))
        /\ rows[m].driver # rows[s].driver
  OBVIOUS
<1>7. ASSUME NEW u \in Free(rows, b), Before(rows, u, m), rows[u].driver = rows[m].driver
      PROVE  \E v \in Free(rows, b) : Before(rows, u, v) /\ Before(rows, v, m)
  <2>1. u # s
    BY <1>6, <1>7
  <2>2. CASE Before(rows, u, s)
    BY <1>1, <1>6, <2>2
  <2>3. CASE Before(rows, s, u)
    <3>1. Before(rows, u, t)
      BY <1>6, <1>7, TripsInOrder
    <3>2. u \in other
      BY <1>6, <1>7, <2>3, <3>1
    <3>3. u # m /\ ~ Before(rows, m, u)
      BY <1>6, <1>7, TripsInOrder
    <3> QED
      BY <1>5, <3>2, <3>3
  <2> QED
    BY <1>1, <2>1, <2>2, <2>3, TripsInOrder
<1>8. m \in Starts(rows, b)
  BY <1>6, <1>7 DEF Starts
<1>9. Cardinality(StartedBy(rows, b, s)) < Cardinality(StartedBy(rows, b, m))
  BY <1>1, <1>6, <1>8, LaterCountsMore
<1>10. Cardinality(StartedBy(rows, b, m)) <= Cardinality(StartedBy(rows, b, t))
  BY <1>6, CountStarts, LaterCountsMore
<1> QED
  BY <1>9, <1>10, CountStarts

-----------------------------------------------------------------------------
(* Regrouping: what has begun stays, and the free trips are numbered after it *)

\* The live trips of a booking, and those of one engagement of it.
Mine(rows, b) == {t \in Live(rows) : rows[t].booking = b}
InGroup(rows, b, n) == {t \in Mine(rows, b) : rows[t].engagement = n}
Asks(table, b, n, purpose) == table[b][n] # NoRow /\ purpose \in table[b][n].sections

\* EngagementsFollowTrips, of one booking.
Grouped(rows, table, b) ==
  /\ \A t \in Mine(rows, b) : rows[t].engagement \in Nat
  /\ \A n \in Numbers : table[b][n] = NoRow <=> InGroup(rows, b, n) = {}
  /\ \A t, u \in Mine(rows, b) : rows[t].engagement < rows[u].engagement => Before(rows, t, u)
  /\ \A n \in Numbers : \A t \in InGroup(rows, b, n) : rows[t].driver = table[b][n].driver
  /\ \A purpose \in {"ARRIVAL", "TOUR"} : \A n, m \in Numbers :
       Asks(table, b, n, purpose) /\ Asks(table, b, m, purpose) => n = m

\* What is so of the engagements whose feedback has begun, which regrouping leaves alone.
Begun(rows, b) ==
  /\ \A n \in Held(b) : InGroup(rows, b, n) # {}
  /\ \A t, u \in HeldTrips(rows, b) : rows[t].engagement < rows[u].engagement => Before(rows, t, u)
  /\ \A t \in HeldTrips(rows, b) :
       rows[t].status = "READY" /\ rows[t].driver = engagements[b][rows[t].engagement].driver
  /\ \A n, m \in Held(b) :
       "ARRIVAL" \in engagements[b][n].sections /\ "ARRIVAL" \in engagements[b][m].sections => n = m
  /\ ScheduleEditable(b)

\* The offset is the last number of those that have begun.
LEMMA HeldIsBefore ==
  ASSUME NEW b
  PROVE  Offset(b) \in Nat /\ \A n \in Held(b) : n \in Numbers /\ n \in Nat /\ n <= Offset(b)
<1>1. Held(b) \subseteq Numbers /\ Numbers \subseteq Nat
  BY DEF Held, Numbers
<1>2. PICK bound \in Nat : \A n \in Held(b) \cup {0} : n <= bound
  <2>1. 2 * MaxTrips \in Nat /\ \A n \in Held(b) \cup {0} : n <= 2 * MaxTrips
    BY <1>1 DEF Numbers
  <2> QED
    BY <2>1
<1> DEFINE S == Held(b) \cup {0}
<1>3. \A n \in Held(b) : n \in Nat
  BY <1>1
<1>4. S \in SUBSET Nat
  BY <1>3
<1>5. 0 \in S
  OBVIOUS
<1>6. S # {}
  BY <1>5, Zenon
<1>7. Max(S) \in S /\ \A x \in S : x <= Max(S)
  BY <1>2, <1>4, <1>6, GreatestNumber, Zenon
<1>8. Max(S) = Offset(b)
  BY DEF Offset
<1>9. Max(S) \in Nat
  BY <1>4, <1>7
<1>10. Held(b) \subseteq S
  OBVIOUS
<1> HIDE DEF S
<1>11. Offset(b) \in Nat /\ \A n \in Held(b) : n <= Offset(b)
  BY <1>7, <1>8, <1>9, <1>10
<1> QED
  BY <1>1, <1>11

LEMMA HeldIsRow ==
  ASSUME NEW b, NEW n \in Held(b)
  PROVE  engagements[b][n] # NoRow
  BY DEF Held, NoRow

\* A trip of a booking is either of an engagement that has begun or free.
LEMMA MineIsHeldOrFree ==
  ASSUME NEW rows, NEW b, \A t \in HeldTrips(rows, b) : rows[t].status = "READY"
  PROVE  /\ Mine(rows, b) = Free(rows, b) \cup HeldTrips(rows, b)
         /\ Free(rows, b) \cap HeldTrips(rows, b) = {}
         /\ \A t \in HeldTrips(rows, b) : rows[t].engagement \in Held(b)
  BY DEF Mine, Free, HeldTrips, Live

\* rebuildEngagements(): what becomes of the trips, and of the rows of engagements.
LEMMA RegroupedTrips ==
  ASSUME NEW rows, AreTrips(rows), NEW bs, Regroup(rows, bs), NEW b \in bs
  PROVE  /\ Mine(trips', b) = Mine(rows, b)
         /\ \A t \in Mine(rows, b) :
              trips'[t].slot = rows[t].slot /\ trips'[t].driver = rows[t].driver
         /\ \A t \in HeldTrips(rows, b) : trips'[t] = rows[t]
         /\ \A t \in Free(rows, b) : trips'[t].engagement = Number(rows, b, t)
<1>1. /\ \A u \in Trips : (trips'[u] = NoRow <=> rows[u] = NoRow)
      /\ \A u \in Trips : rows[u] # NoRow =>
           /\ trips'[u].status = rows[u].status /\ trips'[u].driver = rows[u].driver
           /\ trips'[u].slot = rows[u].slot /\ trips'[u].booking = rows[u].booking
  BY Regrouping
<1>2. \A u \in Trips : trips'[u] =
        IF rows[u] # NoRow /\ rows[u].booking \in bs THEN Enrolled(rows, rows[u].booking)[u]
        ELSE rows[u]
  BY DEF Regroup
<1>3. \A u \in Trips : Enrolled(rows, b)[u] =
        IF rows[u] = NoRow \/ rows[u].booking # b \/ u \in HeldTrips(rows, b) THEN rows[u]
        ELSE [rows[u] EXCEPT !.engagement =
                IF u \in Free(rows, b) THEN Number(rows, b, u) ELSE Null]
  BY DEF Enrolled
<1>4. Mine(trips', b) = Mine(rows, b)
  BY <1>1 DEF Mine, Live
<1>5. \A t \in Mine(rows, b) :
        trips'[t].slot = rows[t].slot /\ trips'[t].driver = rows[t].driver
  BY <1>1 DEF Mine, Live
<1>6. \A t \in HeldTrips(rows, b) : trips'[t] = rows[t]
  BY <1>2, <1>3 DEF HeldTrips
<1>7. ASSUME NEW t \in Free(rows, b)
      PROVE  trips'[t].engagement = Number(rows, b, t)
  <2>1. t \in Trips /\ rows[t] # NoRow /\ rows[t].booking = b /\ t \notin HeldTrips(rows, b)
    BY DEF Free, Live
  <2>2. trips'[t] = [rows[t] EXCEPT !.engagement = Number(rows, b, t)]
    BY <1>2, <1>3, <2>1
  <2>3. rows[t] = [status |-> rows[t].status, booking |-> rows[t].booking,
            driver |-> rows[t].driver, vehicle |-> rows[t].vehicle, slot |-> rows[t].slot,
            version |-> rows[t].version, engagement |-> rows[t].engagement,
            progress |-> rows[t].progress]
    BY <2>1 DEF AreTrips, IsTrip
  <2> QED
    BY <2>2, <2>3
<1> QED
  BY <1>4, <1>5, <1>6, <1>7

Last(rows, b) == Offset(b) + Cardinality(Starts(rows, b))

LEMMA RegroupedRows ==
  ASSUME NEW rows, NEW bs, Regroup(rows, bs), NEW b \in bs, b \in Bookings, NEW n \in Numbers
  PROVE  /\ n \in Held(b) => engagements'[b][n] = engagements[b][n]
         /\ (n \notin Held(b) /\ n \in Offset(b) + 1 .. Last(rows, b)) =>
              /\ engagements'[b][n].status = "READY"
              /\ engagements'[b][n] # NoRow
              /\ engagements'[b][n].sections = Sections(b, n, Last(rows, b))
              /\ \A t \in Starts(rows, b) : Number(rows, b, t) = n =>
                   \E s \in Starts(rows, b) :
                     Number(rows, b, s) = n /\ engagements'[b][n].driver = rows[s].driver
         /\ (n \notin Held(b) /\ n \notin Offset(b) + 1 .. Last(rows, b)) =>
              engagements'[b][n] = NoRow
<1> DEFINE Lead(m) == CHOOSE t \in Starts(rows, b) : Number(rows, b, t) = m
<1>1. engagements'[b] = Regrouped(rows, b)
  BY DEF Regroup
<1>2. Regrouped(rows, b)[n] =
        IF n \in Held(b) THEN engagements[b][n]
        ELSE IF n \in Offset(b) + 1 .. Last(rows, b)
             THEN [status |-> "READY", driver |-> rows[Lead(n)].driver,
                   sections |-> Sections(b, n, Last(rows, b))]
             ELSE NoRow
  BY DEF Regrouped, Last
<1>3. ASSUME NEW t \in Starts(rows, b), Number(rows, b, t) = n
      PROVE  Lead(n) \in Starts(rows, b) /\ Number(rows, b, Lead(n)) = n
  BY <1>3
<1> HIDE DEF Lead
<1>4. ASSUME n \notin Held(b), n \in Offset(b) + 1 .. Last(rows, b)
      PROVE  /\ engagements'[b][n].status = "READY" /\ engagements'[b][n] # NoRow
             /\ engagements'[b][n].sections = Sections(b, n, Last(rows, b))
             /\ engagements'[b][n].driver = rows[Lead(n)].driver
  BY <1>1, <1>2, <1>4 DEF NoRow
<1>5. n \in Held(b) => engagements'[b][n] = engagements[b][n]
  BY <1>1, <1>2
<1>6. (n \notin Held(b) /\ n \notin Offset(b) + 1 .. Last(rows, b)) => engagements'[b][n] = NoRow
  BY <1>1, <1>2
<1> QED
  BY <1>3, <1>4, <1>5, <1>6

\* The numbers of the free trips come after those of the engagements that have begun.
LEMMA FreeNumbers ==
  ASSUME NEW rows, NEW b, HaveSlots(rows, Free(rows, b)), NEW t \in Free(rows, b)
  PROVE  /\ Number(rows, b, t) = Offset(b) + Cardinality(StartedBy(rows, b, t))
         /\ Number(rows, b, t) \in Offset(b) + 1 .. Last(rows, b)
         /\ Number(rows, b, t) \in Nat /\ Last(rows, b) \in Nat
         /\ Number(rows, b, t) \notin Held(b)
<1>1. Number(rows, b, t) = Offset(b) + Cardinality(StartedBy(rows, b, t))
  BY DEF Number, StartedBy
<1>2. PICK count, all :
        count = Cardinality(StartedBy(rows, b, t)) /\ all = Cardinality(Starts(rows, b))
  OBVIOUS
<1>3. count \in Nat /\ all \in Nat /\ count >= 1 /\ count <= all
  BY <1>2, CountStarts, SomeGroupStarted
<1>4. Last(rows, b) = Offset(b) + all
  BY <1>2 DEF Last
<1>5. Offset(b) \in Nat /\ \A n \in Held(b) : n <= Offset(b)
  BY HeldIsBefore
<1>6. Number(rows, b, t) = Offset(b) + count
  BY <1>1, <1>2
<1>7. Number(rows, b, t) \notin Held(b)
  BY <1>3, <1>5, <1>6
<1> QED
  BY <1>1, <1>3, <1>4, <1>5, <1>6, <1>7

\* Regrouping groups, whatever was written to the free trips.
LEMMA RegroupGroups ==
  ASSUME NEW rows, AreTrips(rows), NEW bs, Regroup(rows, bs), NEW b \in bs, b \in Bookings,
         Begun(rows, b), HaveSlots(rows, Mine(rows, b))
  PROVE  Grouped(trips', engagements', b)
<1>1. /\ Mine(trips', b) = Mine(rows, b)
      /\ \A t \in Mine(rows, b) :
           trips'[t].slot = rows[t].slot /\ trips'[t].driver = rows[t].driver
      /\ \A t \in HeldTrips(rows, b) : trips'[t] = rows[t]
      /\ \A t \in Free(rows, b) : trips'[t].engagement = Number(rows, b, t)
  BY RegroupedTrips
<1>2. /\ Mine(rows, b) = Free(rows, b) \cup HeldTrips(rows, b)
      /\ Free(rows, b) \cap HeldTrips(rows, b) = {}
      /\ \A t \in HeldTrips(rows, b) : rows[t].engagement \in Held(b)
  BY MineIsHeldOrFree DEF Begun
<1>3. HaveSlots(rows, Free(rows, b))
  BY <1>2 DEF HaveSlots
<1>4. Offset(b) \in Nat /\ \A n \in Held(b) : n \in Numbers /\ n \in Nat /\ n <= Offset(b)
  BY HeldIsBefore
<1>5. \A t \in Free(rows, b) :
        /\ Number(rows, b, t) = Offset(b) + Cardinality(StartedBy(rows, b, t))
        /\ Number(rows, b, t) \in Offset(b) + 1 .. Last(rows, b)
        /\ Number(rows, b, t) \in Nat /\ Last(rows, b) \in Nat
        /\ Number(rows, b, t) \notin Held(b)
  BY <1>3, FreeNumbers
<1>6. \A t \in Mine(rows, b), u \in Mine(rows, b) : Before(trips', t, u) <=> Before(rows, t, u)
  BY <1>1 DEF Before
<1>7. \A t \in HeldTrips(rows, b) : trips'[t].engagement = rows[t].engagement
  BY <1>1
<1>8. \A t \in Mine(trips', b) : trips'[t].engagement \in Nat
  BY <1>1, <1>2, <1>4, <1>5, <1>7
<1>9. ASSUME NEW n \in Numbers
      PROVE  engagements'[b][n] = NoRow <=> InGroup(trips', b, n) = {}
  <2>1. CASE n \in Held(b)
    <3>1. engagements'[b][n] # NoRow
      BY <2>1, RegroupedRows, HeldIsRow
    <3>2. PICK t \in InGroup(rows, b, n) : TRUE
      BY <2>1 DEF Begun
    <3>3. t \in HeldTrips(rows, b)
      BY <2>1, <3>2 DEF InGroup, Mine, HeldTrips, Live
    <3>4. t \in InGroup(trips', b, n)
      BY <1>1, <1>7, <3>2, <3>3 DEF InGroup
    <3> QED
      BY <3>1, <3>4
  <2>2. CASE n \notin Held(b) /\ n \in Offset(b) + 1 .. Last(rows, b)
    <3>1. engagements'[b][n] # NoRow
      BY <2>2, RegroupedRows
    <3>2. PICK m : m = n - Offset(b)
      OBVIOUS
    <3>3. m \in 1 .. Cardinality(Starts(rows, b)) /\ n = Offset(b) + m
      BY <1>4, <2>2, <3>2, CountStarts DEF Last
    <3>4. PICK t \in Starts(rows, b) : Cardinality(StartedBy(rows, b, t)) = m
      BY <1>3, <3>3, EveryGroupStarts
    <3>5. t \in Free(rows, b)
      BY <3>4, StartsAreFree
    <3>6. trips'[t].engagement = n
      BY <1>1, <1>5, <3>3, <3>4, <3>5
    <3>7. t \in InGroup(trips', b, n)
      BY <1>1, <1>2, <3>5, <3>6 DEF InGroup
    <3> QED
      BY <3>1, <3>7
  <2>3. CASE n \notin Held(b) /\ n \notin Offset(b) + 1 .. Last(rows, b)
    <3>1. engagements'[b][n] = NoRow
      BY <2>3, RegroupedRows
    <3>2. ASSUME NEW t \in Mine(rows, b)
          PROVE  trips'[t].engagement # n
      BY <1>1, <1>2, <1>5, <1>7, <2>3
    <3> QED
      BY <1>1, <3>1, <3>2 DEF InGroup
  <2> QED
    BY <2>1, <2>2, <2>3
<1>10. ASSUME NEW t \in Mine(trips', b), NEW u \in Mine(trips', b),
              trips'[t].engagement < trips'[u].engagement
       PROVE  Before(trips', t, u)
  <2>1. SUFFICES Before(rows, t, u)
    BY <1>1, <1>6
  <2>2. CASE t \in HeldTrips(rows, b) /\ u \in HeldTrips(rows, b)
    BY <1>7, <1>10, <2>2 DEF Begun
  <2>3. CASE t \in HeldTrips(rows, b) /\ u \in Free(rows, b)
    BY <1>2, <2>3 DEF Regroup, InSequence
  <2>4. CASE t \in Free(rows, b) /\ u \in HeldTrips(rows, b)
    <3>1. PICK x, y : x = trips'[t].engagement /\ y = trips'[u].engagement
      OBVIOUS
    <3>2. y \in Nat /\ y <= Offset(b)
      BY <1>2, <1>4, <1>7, <2>4, <3>1
    <3>3. x \in Nat /\ x >= Offset(b) + 1
      BY <1>1, <1>4, <1>5, <2>4, <3>1
    <3> QED
      BY <1>4, <1>10, <3>1, <3>2, <3>3
  <2>5. CASE t \in Free(rows, b) /\ u \in Free(rows, b)
    <3>1. PICK x, y : /\ x = Cardinality(StartedBy(rows, b, t))
                      /\ y = Cardinality(StartedBy(rows, b, u))
      OBVIOUS
    <3>2. Offset(b) + x < Offset(b) + y /\ x \in Nat /\ y \in Nat
      BY <1>1, <1>5, <1>10, <2>5, <3>1, CountStarts
    <3>3. x < y
      BY <1>4, <3>2
    <3>4. ~ Before(rows, u, t)
      BY <1>3, <2>5, <3>1, <3>2, <3>3, LaterCountsMore
    <3>5. t # u
      BY <3>1, <3>2, <3>3
    <3> QED
      BY <1>3, <2>5, <3>4, <3>5, TripsInOrder
  <2> QED
    BY <1>1, <1>2, <2>2, <2>3, <2>4, <2>5
<1>11. ASSUME NEW t \in Free(rows, b), NEW s \in Starts(rows, b),
              Cardinality(StartedBy(rows, b, t)) = Cardinality(StartedBy(rows, b, s))
       PROVE  rows[t].driver = rows[s].driver
  BY <1>3, <1>11, GroupHasOneDriver
<1>12. ASSUME NEW n \in Numbers, NEW t \in InGroup(trips', b, n)
       PROVE  trips'[t].driver = engagements'[b][n].driver
  <2>1. t \in Mine(rows, b) /\ trips'[t].engagement = n /\ trips'[t].driver = rows[t].driver
    BY <1>1, <1>12 DEF InGroup
  <2>2. CASE t \in HeldTrips(rows, b)
    <3>1. n \in Held(b) /\ rows[t].engagement = n
      BY <1>2, <1>7, <2>1, <2>2
    <3>2. engagements'[b][n] = engagements[b][n]
      BY <3>1, RegroupedRows
    <3>3. rows[t].driver = engagements[b][rows[t].engagement].driver
      BY <2>2 DEF Begun
    <3> QED
      BY <2>1, <3>1, <3>2, <3>3
  <2>3. CASE t \in Free(rows, b)
    <3>1. Number(rows, b, t) = n /\ n \notin Held(b) /\ n \in Offset(b) + 1 .. Last(rows, b)
      BY <1>1, <1>5, <2>1, <2>3
    <3>2. PICK m : m = n - Offset(b)
      OBVIOUS
    <3>3. m \in 1 .. Cardinality(Starts(rows, b)) /\ n = Offset(b) + m
      BY <1>4, <3>1, <3>2, CountStarts DEF Last
    <3>4. PICK r \in Starts(rows, b) : Cardinality(StartedBy(rows, b, r)) = m
      BY <1>3, <3>3, EveryGroupStarts
    <3>5. Number(rows, b, r) = n
      BY <1>5, <3>3, <3>4, StartsAreFree
    <3>6. PICK s \in Starts(rows, b) :
            Number(rows, b, s) = n /\ engagements'[b][n].driver = rows[s].driver
      BY <3>1, <3>5, RegroupedRows
    <3>7. s \in Free(rows, b)
      BY StartsAreFree
    <3>8. PICK x, y : /\ x = Cardinality(StartedBy(rows, b, t))
                      /\ y = Cardinality(StartedBy(rows, b, s))
      OBVIOUS
    <3>9. Offset(b) + x = Offset(b) + y /\ x \in Nat /\ y \in Nat
      BY <1>5, <2>3, <3>1, <3>6, <3>7, <3>8, CountStarts
    <3>10. x = y
      BY <1>4, <3>9
    <3>11. Cardinality(StartedBy(rows, b, t)) = Cardinality(StartedBy(rows, b, s))
      BY <3>8, <3>10
    <3>12. rows[t].driver = rows[s].driver
      BY <1>11, <2>3, <3>6, <3>11
    <3> QED
      BY <2>1, <3>6, <3>12
  <2> QED
    BY <1>2, <2>1, <2>2, <2>3
<1>13. ASSUME NEW purpose \in {"ARRIVAL", "TOUR"}, NEW n \in Numbers, NEW m \in Numbers,
              Asks(engagements', b, n, purpose), Asks(engagements', b, m, purpose)
       PROVE  n = m
  <2>1. ASSUME NEW k \in Numbers, Asks(engagements', b, k, purpose)
        PROVE  \/ k \in Held(b) /\ purpose \in engagements[b][k].sections
               \/ k \notin Held(b) /\ purpose \in Sections(b, k, Last(rows, b))
    BY <2>1, RegroupedRows DEF Asks
  <2>2. ASSUME NEW k \in Held(b)
        PROVE  "TOUR" \notin engagements[b][k].sections
    BY DEF Begun, ScheduleEditable
  <2>3. CASE purpose = "ARRIVAL"
    <3>1. \A k \in Numbers : "ARRIVAL" \in Sections(b, k, Last(rows, b)) => k = 1 /\ Held(b) = {}
      BY DEF Sections
    <3>2. CASE Held(b) = {}
      BY <1>13, <2>1, <2>3, <3>1, <3>2
    <3>3. CASE Held(b) # {}
      <4>1. /\ n \in Held(b) /\ "ARRIVAL" \in engagements[b][n].sections
            /\ m \in Held(b) /\ "ARRIVAL" \in engagements[b][m].sections
        BY <1>13, <2>1, <2>3, <3>1, <3>3
      <4> QED
        BY <4>1 DEF Begun
    <3> QED
      BY <3>2, <3>3
  <2>4. CASE purpose = "TOUR"
    <3>1. \A k \in Numbers : "TOUR" \in Sections(b, k, Last(rows, b)) => k = Last(rows, b)
      BY DEF Sections
    <3> QED
      BY <1>13, <2>1, <2>2, <2>4, <3>1
  <2> QED
    BY <2>3, <2>4
<1> QED
  BY <1>8, <1>9, <1>10, <1>12, <1>13 DEF Grouped

-----------------------------------------------------------------------------
(* Commits: a request writes one trip and regroups the bookings it is about *)

\* The rows of booking_driver_engagements.
IsEngagement(row) ==
  row = NoRow \/ row = [status |-> row.status, driver |-> row.driver, sections |-> row.sections]
Listed ==
  /\ engagements = [b \in Bookings |-> [n \in Numbers |-> engagements[b][n]]]
  /\ \A b \in Bookings, n \in Numbers : IsEngagement(engagements[b][n])

\* A trip that is archived is in no engagement.
Placed ==
  \A t \in Trips : trips[t] # NoRow =>
    /\ trips[t].booking \in Bookings /\ trips[t].slot \in Slots
    /\ trips[t].status = "ARCHIVED" => trips[t].engagement = Null

\* What a step leaves of what has begun.
KeepsBegun ==
  \A b \in Bookings : \A n \in Held(b) :
    /\ n \in Held(b)'
    /\ engagements'[b][n].driver = engagements[b][n].driver
    /\ engagements'[b][n].sections = engagements[b][n].sections
    /\ \A t \in Trips : (trips[t] # NoRow /\ trips[t].booking = b /\ trips[t].engagement = n) =>
         [trips'[t] EXCEPT !.progress = trips[t].progress, !.version = trips[t].version] = trips[t]

\* What a step that is about one trip leaves of the other trips and bookings.
Leaves(t, bs) ==
  /\ \A b \in Bookings \ bs : engagements'[b] = engagements[b]
  /\ \A u \in Trips \ {t} : trips[u] # NoRow =>
       /\ trips'[u].booking = trips[u].booking
       /\ trips[u].booking \notin bs => trips'[u] = trips[u]

LEMMA HeldIsNumber ==
  ASSUME NEW b
  PROVE  Null \notin Held(b) /\ Held(b) \subseteq Numbers
<1>1. Numbers \subseteq Nat /\ Held(b) \subseteq Numbers
  BY DEF Held, Numbers
<1> QED
  BY <1>1

LEMMA SameProgress ==
  ASSUME NEW row, IsTrip(row)
  PROVE  [row EXCEPT !.progress = row.progress, !.version = row.version] = row
  BY DEF IsTrip

\* The rows a commit regroups, when the trip is in no engagement that has begun.
Writes(rows, t, row, bs) ==
  /\ rows = [trips EXCEPT ![t] = row] /\ t \in Trips /\ IsTrip(row)
  /\ row.booking \in bs /\ row.booking \in Bookings /\ row.slot \in Slots
  /\ row.engagement \notin Held(row.booking)
  /\ trips[t] # NoRow =>
       trips[t].booking \in bs /\ trips[t].engagement \notin Held(trips[t].booking)
  /\ \A b \in bs : b \in Bookings /\ ScheduleEditable(b)

LEMMA WrittenRows ==
  ASSUME AreTrips(trips), Placed, NEW rows, NEW t, NEW row, NEW bs, Writes(rows, t, row, bs)
  PROVE  /\ AreTrips(rows) /\ rows[t] = row /\ row # NoRow
         /\ \A u \in Trips : u # t => rows[u] = trips[u]
         /\ \A b : HeldTrips(rows, b) = HeldTrips(trips, b) /\ t \notin HeldTrips(trips, b)
         /\ \A b : HaveSlots(rows, Mine(rows, b))
<1>1. row # NoRow /\ t \in Trips /\ rows = [trips EXCEPT ![t] = row]
  BY DEF Writes, IsTrip, NoRow
<1>2. rows[t] = row /\ \A u \in Trips : u # t => rows[u] = trips[u]
  BY <1>1 DEF AreTrips
<1>3. AreTrips(rows)
  BY <1>1, <1>2 DEF AreTrips, Writes
<1>4. ASSUME NEW b
      PROVE  t \notin HeldTrips(rows, b) /\ t \notin HeldTrips(trips, b)
  BY <1>1, <1>2 DEF HeldTrips, Writes
<1>5. ASSUME NEW b
      PROVE  HeldTrips(rows, b) = HeldTrips(trips, b)
  BY <1>2, <1>4 DEF HeldTrips
<1>6. \A u \in Trips : rows[u] # NoRow => rows[u].slot \in Nat
  BY <1>2 DEF Placed, Writes, Slots
<1>7. \A b : HaveSlots(rows, Mine(rows, b))
  BY <1>6 DEF HaveSlots, Mine, Live
<1> QED
  BY <1>1, <1>2, <1>3, <1>4, <1>5, <1>7

\* What has begun is as it was, in the rows that are written.
LEMMA BegunRows ==
  ASSUME AreTrips(trips), Placed, NEW rows, NEW t, NEW row, NEW bs, Writes(rows, t, row, bs),
         NEW b \in bs, Grouped(trips, engagements, b)
  PROVE  Begun(rows, b)
<1>1. /\ \A u \in Trips : u # t => rows[u] = trips[u]
      /\ HeldTrips(rows, b) = HeldTrips(trips, b) /\ t \notin HeldTrips(trips, b)
  BY WrittenRows
<1>2. Null \notin Held(b) /\ Held(b) \subseteq Numbers
  BY HeldIsNumber
<1>3. ASSUME NEW u \in HeldTrips(rows, b)
      PROVE  /\ u \in Trips /\ rows[u] = trips[u] /\ rows[u].status = "READY"
             /\ u \in Mine(trips, b) /\ rows[u].engagement \in Held(b)
             /\ u \in InGroup(trips, b, rows[u].engagement)
  <2>1. u \in Trips /\ rows[u] = trips[u] /\ trips[u] # NoRow
          /\ trips[u].booking = b /\ trips[u].engagement \in Held(b)
    BY <1>1 DEF HeldTrips
  <2>2. trips[u].status = "READY"
    BY <1>2, <2>1 DEF AreTrips, IsTrip, Placed
  <2> QED
    BY <2>1, <2>2 DEF Mine, Live, InGroup
<1>4. ASSUME NEW n \in Held(b)
      PROVE  InGroup(rows, b, n) # {}
  <2>1. engagements[b][n] # NoRow /\ n \in Numbers
    BY <1>2, HeldIsRow
  <2>2. PICK u \in InGroup(trips, b, n) : TRUE
    BY <2>1 DEF Grouped
  <2>3. u \in HeldTrips(trips, b)
    BY <2>2 DEF InGroup, Mine, Live, HeldTrips
  <2>4. u \in InGroup(rows, b, n)
    BY <1>1, <1>3, <2>2, <2>3 DEF InGroup, Mine, Live
  <2> QED
    BY <2>4
<1>5. ASSUME NEW u \in HeldTrips(rows, b), NEW v \in HeldTrips(rows, b),
             rows[u].engagement < rows[v].engagement
      PROVE  Before(rows, u, v)
  <2>1. /\ u \in Mine(trips, b) /\ v \in Mine(trips, b) /\ rows[u] = trips[u] /\ rows[v] = trips[v]
        /\ trips[u].engagement < trips[v].engagement
    BY <1>3, <1>5
  <2>2. Before(trips, u, v)
    BY <2>1 DEF Grouped
  <2> QED
    BY <2>1, <2>2 DEF Before
<1>6. ASSUME NEW u \in HeldTrips(rows, b)
      PROVE  rows[u].driver = engagements[b][rows[u].engagement].driver
  <2>1. PICK n : n = rows[u].engagement
    OBVIOUS
  <2>2. n \in Numbers /\ u \in InGroup(trips, b, n) /\ rows[u] = trips[u]
    BY <1>2, <1>3, <2>1
  <2>3. trips[u].driver = engagements[b][n].driver
    BY <2>2 DEF Grouped
  <2> QED
    BY <2>1, <2>2, <2>3
<1>7. ASSUME NEW n \in Held(b), NEW m \in Held(b),
             "ARRIVAL" \in engagements[b][n].sections, "ARRIVAL" \in engagements[b][m].sections
      PROVE  n = m
  <2>1. Asks(engagements, b, n, "ARRIVAL") /\ Asks(engagements, b, m, "ARRIVAL")
    BY <1>7, HeldIsRow DEF Asks
  <2> QED
    BY <1>2, <2>1 DEF Grouped
<1>8. ScheduleEditable(b)
  BY DEF Writes
<1> QED
  BY <1>3, <1>4, <1>5, <1>6, <1>7, <1>8 DEF Begun

\* A booking that is not regrouped stays as it is grouped.
LEMMA GroupedStill ==
  ASSUME NEW b, Grouped(trips, engagements, b), engagements'[b] = engagements[b],
         Mine(trips', b) = Mine(trips, b),
         \A u \in Mine(trips, b) :
           /\ trips'[u].slot = trips[u].slot /\ trips'[u].driver = trips[u].driver
           /\ trips'[u].engagement = trips[u].engagement
  PROVE  Grouped(trips', engagements', b)
<1>1. Mine(trips', b) = Mine(trips, b)
  OBVIOUS
<1>2. \A n : InGroup(trips', b, n) = InGroup(trips, b, n)
  BY <1>1 DEF InGroup
<1>3. \A t, u \in Mine(trips, b) : Before(trips', t, u) <=> Before(trips, t, u)
  BY DEF Before
<1>4. \A n, purpose : Asks(engagements', b, n, purpose) <=> Asks(engagements, b, n, purpose)
  BY DEF Asks
<1>5. \A n, t : t \in InGroup(trips, b, n) => t \in Mine(trips, b)
  BY DEF InGroup
<1>6. \A t \in Mine(trips', b) : trips'[t].engagement \in Nat
  BY <1>1 DEF Grouped
<1>7. \A n \in Numbers : engagements'[b][n] = NoRow <=> InGroup(trips', b, n) = {}
  BY <1>2 DEF Grouped
<1>8. \A t, u \in Mine(trips', b) :
        trips'[t].engagement < trips'[u].engagement => Before(trips', t, u)
  BY <1>1, <1>3 DEF Grouped
<1>9. \A n \in Numbers : \A t \in InGroup(trips', b, n) :
        trips'[t].driver = engagements'[b][n].driver
  BY <1>2, <1>5 DEF Grouped
<1>10. \A purpose \in {"ARRIVAL", "TOUR"} : \A n, m \in Numbers :
         Asks(engagements', b, n, purpose) /\ Asks(engagements', b, m, purpose) => n = m
  BY <1>4 DEF Grouped
<1> QED
  BY <1>6, <1>7, <1>8, <1>9, <1>10 DEF Grouped

\* A commit groups the bookings it is about, and leaves the others and what has begun.
LEMMA CommitGroups ==
  ASSUME AreTrips(trips), Placed, Listed, \A b \in Bookings : Grouped(trips, engagements, b),
         NEW rows, NEW t, NEW row, NEW bs, Writes(rows, t, row, bs), Regroup(rows, bs)
  PROVE  /\ \A b \in Bookings : Grouped(trips', engagements', b)
         /\ Placed' /\ Listed' /\ KeepsBegun /\ Leaves(t, bs)
<1>1. /\ AreTrips(rows) /\ rows[t] = row /\ row # NoRow
      /\ \A u \in Trips : u # t => rows[u] = trips[u]
      /\ \A b : HeldTrips(rows, b) = HeldTrips(trips, b) /\ t \notin HeldTrips(trips, b)
      /\ \A b : HaveSlots(rows, Mine(rows, b))
  BY WrittenRows
<1>2. Regroup(rows, bs)
  OBVIOUS
<1>3. /\ \A u \in Trips : (trips'[u] = NoRow <=> rows[u] = NoRow)
      /\ \A u \in Trips : rows[u] # NoRow =>
           /\ trips'[u].status = rows[u].status /\ trips'[u].slot = rows[u].slot
           /\ trips'[u].booking = rows[u].booking
  BY <1>1, <1>2, Regrouping
<1>4. /\ \A u \in Trips : trips'[u] =
           IF rows[u] # NoRow /\ rows[u].booking \in bs THEN Enrolled(rows, rows[u].booking)[u]
           ELSE rows[u]
      /\ engagements' = [b \in Bookings |-> IF b \in bs THEN Regrouped(rows, b) ELSE engagements[b]]
  BY <1>2 DEF Regroup
<1>5. \A b \in bs : b \in Bookings
  BY DEF Writes
<1>6. \A u \in Trips :
        u # t /\ trips[u] # NoRow /\ trips[u].booking \notin bs => trips'[u] = trips[u]
  BY <1>1, <1>4
<1>7. \A b \in Bookings \ bs : engagements'[b] = engagements[b]
  BY <1>4
<1>8. Leaves(t, bs)
  BY <1>1, <1>3, <1>6, <1>7 DEF Leaves
<1>9. ASSUME NEW b \in Bookings
       PROVE  Grouped(trips', engagements', b)
  <2>1. CASE b \in bs
    <3>1. Begun(rows, b)
      BY <2>1, BegunRows
    <3> QED
      BY <1>1, <1>2, <2>1, <3>1, RegroupGroups
  <2>2. CASE b \notin bs
    <3>1. ASSUME NEW u \in Trips
          PROVE  /\ u \in Mine(trips', b) <=> u \in Mine(trips, b)
                 /\ u \in Mine(trips, b) => trips'[u] = trips[u]
      <4>1. CASE u = t
        BY <1>1, <1>3, <2>2, <4>1 DEF Mine, Live, Writes
      <4>2. CASE u # t
        BY <1>1, <1>3, <1>6, <2>2, <4>2 DEF Mine, Live
      <4> QED
        BY <4>1, <4>2
    <3>2. Mine(trips', b) = Mine(trips, b)
      BY <3>1 DEF Mine, Live
    <3>3. \A u \in Mine(trips, b) : trips'[u] = trips[u]
      BY <3>1 DEF Mine, Live
    <3>4. Grouped(trips, engagements, b) /\ engagements'[b] = engagements[b]
      BY <1>7, <2>2
    <3> QED
      BY <3>2, <3>3, <3>4, GroupedStill
  <2> QED
    BY <2>1, <2>2
<1>10. ASSUME NEW u \in Trips, trips'[u] # NoRow
       PROVE  /\ trips'[u].booking \in Bookings /\ trips'[u].slot \in Slots
              /\ trips'[u].status = "ARCHIVED" => trips'[u].engagement = Null
  <2>1. rows[u] # NoRow /\ rows[u].booking \in Bookings /\ rows[u].slot \in Slots
    BY <1>1, <1>3, <1>10 DEF Placed, Writes
  <2>2. trips'[u].booking \in Bookings /\ trips'[u].slot \in Slots
    BY <1>3, <2>1
  <2>3. ASSUME rows[u].status = "ARCHIVED"
        PROVE  trips'[u].engagement = Null
    <3>1. CASE rows[u].booking \notin bs
      <4>1. u # t
        BY <1>1, <3>1 DEF Writes
      <4> QED
        BY <1>1, <1>4, <2>1, <2>3, <3>1, <4>1 DEF Placed
    <3>2. CASE rows[u].booking \in bs
      <4>1. PICK b : b = rows[u].booking
        OBVIOUS
      <4>2. u \notin Free(rows, b)
        BY <2>3 DEF Free, Live
      <4>3. u \notin HeldTrips(rows, b)
        BY <1>1, <2>1, <2>3, HeldIsNumber DEF HeldTrips, Placed
      <4>4. trips'[u] = [rows[u] EXCEPT !.engagement = Null]
        BY <1>4, <2>1, <3>2, <4>1, <4>2, <4>3 DEF Enrolled
      <4>5. rows[u] = [status |-> rows[u].status, booking |-> rows[u].booking,
              driver |-> rows[u].driver, vehicle |-> rows[u].vehicle, slot |-> rows[u].slot,
              version |-> rows[u].version, engagement |-> rows[u].engagement,
              progress |-> rows[u].progress]
        BY <1>1, <2>1 DEF AreTrips, IsTrip
      <4> QED
        BY <4>4, <4>5
    <3> QED
      BY <3>1, <3>2
  <2> QED
    BY <1>3, <2>1, <2>2, <2>3
<1>11. Placed'
  BY <1>10 DEF Placed
<1>12. ASSUME NEW b \in Bookings, NEW n \in Numbers
       PROVE  IsEngagement(engagements'[b][n])
  <2>1. CASE b \notin bs
    BY <1>7, <2>1 DEF Listed
  <2>2. CASE b \in bs
    <3>1. engagements'[b][n] = Regrouped(rows, b)[n]
      BY <1>4, <2>2
    <3>2. Regrouped(rows, b)[n] = engagements[b][n]
            \/ (\E d, purposes : Regrouped(rows, b)[n] =
                  [status |-> "READY", driver |-> d, sections |-> purposes])
            \/ Regrouped(rows, b)[n] = NoRow
      BY DEF Regrouped
    <3> QED
      BY <3>1, <3>2 DEF Listed, IsEngagement
  <2> QED
    BY <2>1, <2>2
<1>13. engagements' = [b \in Bookings |-> [n \in Numbers |-> engagements'[b][n]]]
  <2>1. \A b \in Bookings : engagements'[b] = [n \in Numbers |-> engagements'[b][n]]
    BY <1>4 DEF Regrouped, Listed
  <2> QED
    BY <1>4, <2>1
<1>14. Listed'
  BY <1>12, <1>13 DEF Listed, IsEngagement
<1>15. ASSUME NEW b \in Bookings, NEW n \in Held(b)
       PROVE  engagements'[b][n] = engagements[b][n]
  BY <1>2, <1>7, RegroupedRows, HeldIsNumber
<1>16. ASSUME NEW b \in Bookings, NEW n \in Held(b), NEW u \in Trips, trips[u] # NoRow,
              trips[u].booking = b, trips[u].engagement = n
       PROVE  trips'[u] = trips[u]
  <2>1. u \in HeldTrips(trips, b)
    BY <1>16 DEF HeldTrips
  <2>2. u # t /\ rows[u] = trips[u] /\ u \in HeldTrips(rows, b)
    BY <1>1, <2>1
  <2> QED
    BY <1>4, <1>16, <2>2 DEF Enrolled
<1>17. KeepsBegun
  <2>1. \A u \in Trips : trips[u] # NoRow => IsTrip(trips[u])
    BY DEF AreTrips
  <2>2. ASSUME NEW b \in Bookings, NEW n \in Held(b)
        PROVE  n \in Held(b)'
    BY <1>15, HeldIsNumber DEF Held
  <2>3. ASSUME NEW b \in Bookings, NEW n \in Held(b), NEW u \in Trips, trips[u] # NoRow,
               trips[u].booking = b, trips[u].engagement = n
        PROVE  [trips'[u] EXCEPT !.progress = trips[u].progress, !.version = trips[u].version]
                 = trips[u]
    <3>1. trips'[u] = trips[u] /\ IsTrip(trips[u])
      BY <1>16, <2>1, <2>3
    <3> QED
      BY <3>1, SameProgress
  <2> QED
    BY <1>15, <2>2, <2>3 DEF KeepsBegun
<1> QED
  BY <1>8, <1>9, <1>11, <1>14, <1>17

-----------------------------------------------------------------------------
(* Requests: what one has checked holds until it commits, because nobody else has its locks *)

\* A request to archive checks the trip against the booking it read before it had the lock.
\* That is enough when nobody else moves trips to other bookings meanwhile.
MovesAlone ==
  \/ \A s, o \in Staff : s # o /\ "ARCHIVE" \in Does[s] => "UPDATE" \notin Does[o]
  \/ \A a, c \in Offered : a.booking = c.booking

Archives(s) == requests[s].pc = "asked" \/ (requests[s].pc = "locked" /\ requests[s].op = "ARCHIVE")
Updates(s) == requests[s].pc = "locked" /\ requests[s].op = "UPDATE"
Changes(s) == requests[s].pc = "locked" /\ requests[s].op \in {"UPDATE", "ARCHIVE"}

\* What a request relies on.  The trip it was asked to archive is not locked yet.
Checked(s) ==
  /\ Archives(s) => "ARCHIVE" \in Does[s]
  /\ Updates(s) => "UPDATE" \in Does[s]
  /\ Knows(s) => trips[requests[s].trip].booking = requests[s].read.booking
  /\ Assigns(s) => requests[s].to \in Offered /\ ScheduleEditable(requests[s].to.booking)
  /\ Changes(s) =>
       /\ <<"booking", requests[s].read.booking>> \in requests[s].locks
       /\ ScheduleEditable(requests[s].read.booking) /\ TripEditable(requests[s].trip)

\* Trips are of bookings that assignments are asked for.
Asked == \A t \in Trips : trips[t] # NoRow => \E a \in Offered : a.booking = trips[t].booking

\* The inductive invariant.
EngagementsInv ==
  /\ Listed /\ Placed /\ Asked
  /\ \A s \in Staff : Checked(s)
  /\ \A b \in Bookings : Grouped(trips, engagements, b)

\* A step that leaves the bookings a request has locked leaves what it has checked.
LEMMA CheckedStill ==
  ASSUME TripsInv, Placed, NEW s \in Staff, Checked(s), requests'[s] = requests[s],
         NEW bs, \A b \in bs : <<"booking", b>> \notin LocksOf(s),
         \A b \in Bookings \ bs : engagements'[b] = engagements[b],
         Knows(s) => trips'[requests[s].trip] # NoRow
                       /\ trips'[requests[s].trip].booking = trips[requests[s].trip].booking,
         Changes(s) => trips'[requests[s].trip].engagement = trips[requests[s].trip].engagement
  PROVE  Checked(s)'
<1>1. PICK t, old, to : t = requests[s].trip /\ old = requests[s].read /\ to = requests[s].to
  OBVIOUS
<1>2. ASSUME NEW b \in Bookings \ bs
      PROVE  /\ Held(b)' = Held(b)
             /\ ScheduleEditable(b) => ScheduleEditable(b)'
  BY DEF Held, ScheduleEditable
<1>3. ASSUME Assigns(s)
      PROVE  to \in Offered /\ ScheduleEditable(to.booking)'
  <2>1. to \in Offered /\ ScheduleEditable(to.booking) /\ to.booking \in Bookings
    BY <1>1, <1>3 DEF Checked
  <2>2. <<"booking", to.booking>> \in LocksOf(s)
    BY <1>1, <1>3 DEF TripsInv, RequestsInv, LocksFor, LocksOf, Assigns
  <2> QED
    BY <1>2, <2>1, <2>2
<1>4. ASSUME Changes(s)
      PROVE  ScheduleEditable(old.booking)' /\ TripEditable(t)'
  <2>1. /\ t \in Trips /\ IsTrip(trips[t]) /\ trips[t].booking = old.booking
        /\ ScheduleEditable(old.booking) /\ TripEditable(t)
        /\ <<"booking", old.booking>> \in LocksOf(s)
        /\ trips'[t].booking = trips[t].booking /\ trips'[t].engagement = trips[t].engagement
    BY <1>1, <1>4 DEF Checked, Changes, Knows, TripsInv, RequestsInv, LocksOf
  <2>2. trips[t] # NoRow
    BY <2>1 DEF IsTrip, NoRow
  <2>3. old.booking \in Bookings \ bs
    BY <2>1, <2>2 DEF Placed
  <2>4. Held(old.booking)' = Held(old.booking) /\ ScheduleEditable(old.booking)'
    BY <1>2, <2>1, <2>3
  <2> QED
    BY <2>1, <2>2, <2>4 DEF TripEditable, HeldTrips
<1>5. Knows(s) => trips'[t].booking = old.booking
  BY <1>1 DEF Checked
<1> QED
  BY <1>1, <1>3, <1>4, <1>5 DEF Checked, Archives, Updates, Knows, Assigns, Changes

\* A request that begins to ask or to wait; nothing else changes.
LEMMA OthersWait ==
  ASSUME TripsInv, EngagementsInv, UNCHANGED <<trips, engagements>>, NEW s \in Staff,
         \A o \in Staff \ {s} : requests'[o] = requests[o], Checked(s)'
  PROVE  EngagementsInv'
<1>1. Listed' /\ Placed' /\ Asked'
  BY DEF EngagementsInv, Listed, Placed, Asked
<1>2. \A b \in Bookings : Grouped(trips', engagements', b)
  BY DEF EngagementsInv
<1>3. ASSUME NEW o \in Staff, o # s
      PROVE  Checked(o)'
  <2>1. requests'[o] = requests[o] /\ Checked(o)
    BY <1>3 DEF EngagementsInv
  <2> QED
    BY <2>1 DEF Checked, Archives, Updates, Knows, Assigns, Changes, ScheduleEditable, Held,
                TripEditable, HeldTrips
<1> QED
  BY <1>1, <1>2, <1>3 DEF EngagementsInv

\* A request that is done relies on nothing.
LEMMA GoneChecked ==
  ASSUME NEW s \in Staff, requests'[s] = Idle
  PROVE  Checked(s)'
  BY DEF Checked, Archives, Updates, Knows, Assigns, Changes, Idle

LEMMA BeginChecked ==
  ASSUME TripsInv, EngagementsInv, NEW s \in Staff, TripStep(s),
         ~ (CommitCreate(s) \/ CommitUpdate(s) \/ CommitArchive(s))
  PROVE  EngagementsInv'
<1>1. UNCHANGED <<trips, engagements>> /\ trips' = trips
  BY DEF TripStep, BeginCreate, BeginUpdate, AskArchive, BeginArchive, GiveUp
<1>2. requests = [o \in Staff |-> requests[o]]
  BY DEF TripsInv, RequestsInv
<1>3. ASSUME NEW row, requests' = [requests EXCEPT ![s] = row]
      PROVE  requests'[s] = row /\ \A o \in Staff \ {s} : requests'[o] = requests[o]
  BY <1>2, <1>3
<1>4. /\ \A b : ScheduleEditable(b)' <=> ScheduleEditable(b)
      /\ \A t : TripEditable(t)' <=> TripEditable(t)
  BY <1>1 DEF ScheduleEditable, Held, TripEditable, HeldTrips
<1>5. CASE \E to \in Offered : BeginCreate(s, to)
  <2>1. PICK to \in Offered : BeginCreate(s, to)
    BY <1>5
  <2>2. PICK row : row.pc = "locked" /\ row.op = "CREATE" /\ row.to = to
                     /\ requests' = [requests EXCEPT ![s] = row]
    BY <2>1 DEF BeginCreate
  <2>3. ScheduleEditable(to.booking)
    BY <2>1 DEF BeginCreate
  <2>4. Checked(s)'
    BY <1>1, <1>3, <2>2, <2>3 DEF Checked, Archives, Updates, Knows, Assigns, Changes,
                                  ScheduleEditable, Held
  <2> QED
    BY <1>1, <1>3, <2>2, <2>4, OthersWait
<1>6. CASE \E t \in Trips, to \in Offered : BeginUpdate(s, t, to)
  <2>1. PICK t \in Trips, to \in Offered : BeginUpdate(s, t, to)
    BY <1>6
  <2>2. PICK row : /\ row.pc = "locked" /\ row.op = "UPDATE" /\ row.to = to /\ row.trip = t
                   /\ row.read = trips[t] /\ <<"booking", trips[t].booking>> \in row.locks
                   /\ requests' = [requests EXCEPT ![s] = row]
    <3>1. PICK keys : keys = LocksFor(to) \cup {<<"booking", trips[t].booking>>}
      OBVIOUS
    <3>2. PICK new : new = [pc |-> "locked", op |-> "UPDATE", trip |-> t, read |-> trips[t],
                            to |-> to, locks |-> keys]
      OBVIOUS
    <3>3. requests' = [requests EXCEPT ![s] = new]
      BY <2>1, <3>1, <3>2 DEF BeginUpdate
    <3> QED
      BY <3>1, <3>2, <3>3
  <2>3. /\ ScheduleEditable(to.booking) /\ ScheduleEditable(trips[t].booking) /\ TripEditable(t)
        /\ "UPDATE" \in Does[s]
    BY <2>1 DEF BeginUpdate
  <2>4. Checked(s)'
    <3>1. requests'[s] = row
      BY <1>3, <2>2
    <3>2. /\ ~ Archives(s)'
          /\ Knows(s)' => trips'[requests'[s].trip].booking = requests'[s].read.booking
      BY <1>1, <2>2, <3>1 DEF Archives
    <3>3. row.to \in Offered /\ ScheduleEditable(row.to.booking)'
      BY <1>4, <2>2, <2>3
    <3>4. /\ <<"booking", row.read.booking>> \in row.locks
          /\ ScheduleEditable(row.read.booking)' /\ TripEditable(row.trip)'
      BY <1>4, <2>2, <2>3
    <3> QED
      BY <2>3, <3>1, <3>2, <3>3, <3>4 DEF Checked
  <2> QED
    BY <1>1, <1>3, <2>2, <2>4, OthersWait
<1>7. CASE \E t \in Trips : AskArchive(s, t)
  <2>1. PICK t \in Trips : AskArchive(s, t)
    BY <1>7
  <2>2. PICK row : /\ row.pc = "asked" /\ row.trip = t /\ row.read = trips[t]
                   /\ requests' = [requests EXCEPT ![s] = row]
    BY <2>1 DEF AskArchive
  <2>3. "ARCHIVE" \in Does[s]
    BY <2>1 DEF AskArchive
  <2>4. Checked(s)'
    BY <1>1, <1>3, <2>2, <2>3 DEF Checked, Archives, Updates, Knows, Assigns, Changes
  <2> QED
    BY <1>1, <1>3, <2>2, <2>4, OthersWait
<1>8. CASE BeginArchive(s)
  <2>1. PICK t, old : t = requests[s].trip /\ old = requests[s].read
    OBVIOUS
  <2>2. PICK row : /\ row.pc = "locked" /\ row.op = "ARCHIVE" /\ row.trip = t /\ row.read = old
                   /\ <<"booking", old.booking>> \in row.locks
                   /\ requests' = [requests EXCEPT ![s] = row]
    <3>1. PICK new : new = [pc |-> "locked", op |-> "ARCHIVE", trip |-> t, read |-> old,
                            to |-> Null, locks |-> {<<"booking", old.booking>>}]
      OBVIOUS
    <3>2. requests' = [requests EXCEPT ![s] = new]
      BY <1>8, <2>1, <3>1 DEF BeginArchive
    <3> QED
      BY <3>1, <3>2
  <2>3. ScheduleEditable(old.booking) /\ TripEditable(t) /\ Knows(s) /\ Archives(s)
    BY <1>8, <2>1 DEF BeginArchive, Knows, Archives
  <2>4. trips[t].booking = old.booking /\ "ARCHIVE" \in Does[s]
    BY <2>1, <2>3 DEF EngagementsInv, Checked
  <2>5. Checked(s)'
    <3>1. requests'[s] = row
      BY <1>3, <2>2
    <3>2. ~ Updates(s)' /\ ~ Assigns(s)'
      BY <2>2, <3>1 DEF Updates, Assigns
    <3>3. trips'[requests'[s].trip].booking = requests'[s].read.booking
      BY <1>1, <2>2, <2>4, <3>1
    <3>4. /\ <<"booking", row.read.booking>> \in row.locks
          /\ ScheduleEditable(row.read.booking)' /\ TripEditable(row.trip)'
      BY <1>4, <2>2, <2>3
    <3> QED
      BY <2>4, <3>1, <3>2, <3>3, <3>4 DEF Checked
  <2> QED
    BY <1>1, <1>3, <2>2, <2>5, OthersWait
<1>9. CASE GiveUp(s)
  <2>1. requests' = [requests EXCEPT ![s] = Idle]
    BY <1>9 DEF GiveUp
  <2> QED
    BY <1>1, <1>3, <2>1, GoneChecked, OthersWait
<1> QED
  BY <1>5, <1>6, <1>7, <1>8, <1>9 DEF TripStep

LEMMA TripIsThere ==
  ASSUME NEW row, IsTrip(row)
  PROVE  row # NoRow
  BY DEF IsTrip, NoRow

\* A commit holds the locks of the bookings it regroups.
LEMMA CommitKeeps ==
  ASSUME TripsInv, EngagementsInv, NEW s \in Staff, requests' = [requests EXCEPT ![s] = Idle],
         NEW rows, NEW t, NEW row, NEW bs, Writes(rows, t, row, bs), Regroup(rows, bs),
         \A b \in bs : <<"booking", b>> \in LocksOf(s),
         \E a \in Offered : a.booking = row.booking,
         \A o \in Staff \ {s} : Knows(o) /\ requests[o].trip = t =>
           ~ Changes(o) /\ trips[t].booking = row.booking
  PROVE  EngagementsInv' /\ KeepsBegun
<1>1. AreTrips(trips) /\ RequestsInv
  BY DEF TripsInv
<1>2. /\ \A b \in Bookings : Grouped(trips', engagements', b)
      /\ Placed' /\ Listed' /\ KeepsBegun /\ Leaves(t, bs)
  BY <1>1, CommitGroups DEF EngagementsInv
<1>3. /\ AreTrips(rows) /\ rows[t] = row /\ row # NoRow
      /\ \A u \in Trips : u # t => rows[u] = trips[u]
  BY <1>1, WrittenRows DEF EngagementsInv
<1>4. /\ \A u \in Trips : (trips'[u] = NoRow <=> rows[u] = NoRow)
      /\ \A u \in Trips : rows[u] # NoRow => trips'[u].booking = rows[u].booking
  BY <1>3, Regrouping
<1>5. t \in Trips
  BY DEF Writes
<1>6. Asked'
  BY <1>3, <1>4, <1>5 DEF Asked, EngagementsInv
<1>7. requests'[s] = Idle /\ \A o \in Staff : o # s => requests'[o] = requests[o]
  BY <1>1 DEF RequestsInv
<1>8. ASSUME NEW o \in Staff, o # s
      PROVE  Checked(o)'
  <2>1. PICK u : u = requests[o].trip
    OBVIOUS
  <2>2. \A b \in bs : <<"booking", b>> \notin LocksOf(o)
    BY <1>1, <1>8 DEF RequestsInv
  <2>3. Knows(o) => u \in Trips /\ trips[u] # NoRow
    BY <1>1, <2>1, TripIsThere DEF RequestsInv
  <2>4. Knows(o) => trips'[u] # NoRow /\ trips'[u].booking = trips[u].booking
    BY <1>3, <1>4, <1>8, <2>1, <2>3
  <2>5. ASSUME Changes(o)
        PROVE  trips'[u].engagement = trips[u].engagement
    <3>1. Knows(o)
      BY <2>5 DEF Changes, Knows
    <3>2. u # t
      BY <1>8, <2>1, <2>5, <3>1
    <3>3. trips[u].booking = requests[o].read.booking
            /\ <<"booking", requests[o].read.booking>> \in requests[o].locks
      BY <2>1, <2>5, <3>1 DEF EngagementsInv, Checked
    <3>4. <<"booking", trips[u].booking>> \in LocksOf(o)
      BY <2>5, <3>3 DEF LocksOf, Changes
    <3>5. trips[u].booking \notin bs
      BY <2>2, <3>4
    <3> QED
      BY <1>2, <2>3, <3>1, <3>2, <3>5 DEF Leaves
  <2>6. \A b \in Bookings \ bs : engagements'[b] = engagements[b]
    BY <1>2 DEF Leaves
  <2>7. Placed /\ Checked(o) /\ requests'[o] = requests[o]
    BY <1>7, <1>8 DEF EngagementsInv
  <2> QED
    BY <2>1, <2>2, <2>4, <2>5, <2>6, <2>7, CheckedStill
<1>9. Checked(s)'
  BY <1>7, GoneChecked
<1> QED
  BY <1>2, <1>6, <1>8, <1>9 DEF EngagementsInv

\* An assignment staff ask for.
LEMMA OfferedIs ==
  ASSUME NEW to \in Offered
  PROVE  to.booking \in Bookings /\ to.slot \in Slots
  BY DEF ToursAssumption

LEMMA RowIs ==
  ASSUME NEW to, NEW version, NEW reached
  PROVE  /\ IsTrip(Row(to, version, reached))
         /\ Row(to, version, reached).booking = to.booking
         /\ Row(to, version, reached).slot = to.slot
         /\ Row(to, version, reached).engagement = Null
  BY DEF Row, IsTrip

LEMMA CreateEngagements ==
  ASSUME GrantsInv, EngagementsInv, NEW s \in Staff, CommitCreate(s)
  PROVE  EngagementsInv' /\ KeepsBegun
<1>1. PICK t, to : t = requests[s].trip /\ to = requests[s].to
  OBVIOUS
<1>2. PICK row, bs : row = Row(to, 1, "SCHEDULED") /\ bs = {to.booking}
  OBVIOUS
<1>3. PICK rows : rows = [trips EXCEPT ![t] = row]
  OBVIOUS
<1>4. Regroup(rows, bs) /\ requests' = [requests EXCEPT ![s] = Idle]
  BY <1>1, <1>2, <1>3 DEF CommitCreate
<1>5. t \in Trips /\ trips[t] = NoRow
  BY <1>1 DEF CommitCreate, Creates, GrantsInv, FreshInv
<1>6. Assigns(s) /\ to \in Offered /\ ScheduleEditable(to.booking)
  BY <1>1 DEF CommitCreate, Assigns, EngagementsInv, Checked
<1>7. /\ IsTrip(row) /\ row.booking = to.booking /\ row.slot = to.slot
      /\ row.engagement = Null
  BY <1>2, RowIs
<1>8. Writes(rows, t, row, bs)
  BY <1>2, <1>3, <1>5, <1>6, <1>7, OfferedIs, HeldIsNumber DEF Writes
<1>9. <<"booking", to.booking>> \in LocksOf(s)
  BY <1>1, <1>6 DEF GrantsInv, TripsInv, RequestsInv, LocksFor, LocksOf, Assigns
<1>10. \A o \in Staff : Knows(o) => requests[o].trip # t
  BY <1>5, TripIsThere DEF GrantsInv, TripsInv, RequestsInv
<1>11. /\ TripsInv /\ \A b \in bs : <<"booking", b>> \in LocksOf(s)
       /\ \E a \in Offered : a.booking = row.booking
  BY <1>2, <1>6, <1>7, <1>9 DEF GrantsInv
<1> QED
  BY <1>4, <1>8, <1>10, <1>11, CommitKeeps

\* A trip that a request changes is in no engagement that has begun, and its booking is locked.
LEMMA ChangedTrip ==
  ASSUME TripsInv, EngagementsInv, NEW s \in Staff, Changes(s), NEW t, t = requests[s].trip
  PROVE  /\ t \in Trips /\ IsTrip(trips[t]) /\ trips[t] # NoRow
         /\ trips[t].booking = requests[s].read.booking /\ trips[t].booking \in Bookings
         /\ trips[t].engagement \notin Held(trips[t].booking)
         /\ ScheduleEditable(trips[t].booking)
         /\ <<"booking", trips[t].booking>> \in LocksOf(s)
         /\ \A o \in Staff \ {s} : Changes(o) => requests[o].trip # t
<1>1. \A o \in Staff : Changes(o) => Knows(o)
  BY DEF Changes, Knows
<1>2. ASSUME NEW o \in Staff, Changes(o)
      PROVE  /\ trips[requests[o].trip].booking = requests[o].read.booking
             /\ <<"booking", trips[requests[o].trip].booking>> \in LocksOf(o)
             /\ ScheduleEditable(trips[requests[o].trip].booking) /\ TripEditable(requests[o].trip)
  BY <1>1, <1>2 DEF EngagementsInv, Checked, LocksOf, Changes
<1>3. t \in Trips /\ IsTrip(trips[t]) /\ trips[t] # NoRow
  BY <1>1 DEF TripsInv, RequestsInv, IsTrip, NoRow
<1>4. trips[t].engagement \notin Held(trips[t].booking)
  BY <1>2, <1>3 DEF TripEditable, HeldTrips
<1>5. trips[t].booking \in Bookings
  BY <1>3 DEF EngagementsInv, Placed
<1>6. ASSUME NEW o \in Staff \ {s}, Changes(o)
      PROVE  requests[o].trip # t
  <2>1. LocksOf(o) \cap LocksOf(s) = {}
    BY DEF TripsInv, RequestsInv
  <2>2. <<"booking", trips[t].booking>> \in LocksOf(s)
    BY <1>2
  <2>3. <<"booking", trips[requests[o].trip].booking>> \in LocksOf(o)
    BY <1>2, <1>6
  <2> QED
    BY <2>1, <2>2, <2>3
<1> QED
  BY <1>2, <1>3, <1>4, <1>5, <1>6

LEMMA UpdateEngagements ==
  ASSUME MovesAlone, TripsInv, EngagementsInv, NEW s \in Staff, CommitUpdate(s)
  PROVE  EngagementsInv' /\ KeepsBegun
<1>1. PICK t, to, old : t = requests[s].trip /\ to = requests[s].to /\ old = requests[s].read
  OBVIOUS
<1>2. PICK row, bs : /\ row = Row(to, NextVersion(trips[t], to), trips[t].progress)
                     /\ bs = {old.booking, to.booking}
  OBVIOUS
<1>3. PICK rows : rows = [trips EXCEPT ![t] = row]
  OBVIOUS
<1>4. Regroup(rows, bs) /\ requests' = [requests EXCEPT ![s] = Idle]
  BY <1>1, <1>2, <1>3 DEF CommitUpdate
<1>5. Assigns(s) /\ Changes(s) /\ Updates(s)
  BY DEF CommitUpdate, Assigns, Changes, Updates
<1>6. to \in Offered /\ ScheduleEditable(to.booking) /\ "UPDATE" \in Does[s]
  BY <1>1, <1>5 DEF EngagementsInv, Checked
<1>7. /\ IsTrip(row) /\ row.booking = to.booking /\ row.slot = to.slot
      /\ row.engagement = Null
  BY <1>2, RowIs
<1>8. /\ t \in Trips /\ trips[t] # NoRow
      /\ trips[t].booking = old.booking /\ trips[t].booking \in Bookings
      /\ trips[t].engagement \notin Held(trips[t].booking)
      /\ ScheduleEditable(trips[t].booking)
      /\ <<"booking", trips[t].booking>> \in LocksOf(s)
      /\ \A o \in Staff \ {s} : Changes(o) => requests[o].trip # t
  BY <1>1, <1>5, ChangedTrip
<1>9. Writes(rows, t, row, bs)
  BY <1>2, <1>3, <1>6, <1>7, <1>8, OfferedIs, HeldIsNumber DEF Writes
<1>10. \A b \in bs : <<"booking", b>> \in LocksOf(s)
  BY <1>1, <1>2, <1>5, <1>8 DEF TripsInv, RequestsInv, LocksFor, LocksOf, Assigns
<1>11. ASSUME NEW o \in Staff \ {s}, Knows(o), requests[o].trip = t
       PROVE  ~ Changes(o) /\ trips[t].booking = row.booking
  <2>1. ~ Changes(o)
    BY <1>8, <1>11
  <2>2. "ARCHIVE" \in Does[o]
    BY <1>11, <2>1 DEF Knows, Changes, Archives, EngagementsInv, Checked
  <2>3. \A a, c \in Offered : a.booking = c.booking
    BY <1>6, <2>2 DEF MovesAlone
  <2>4. PICK a \in Offered : a.booking = trips[t].booking
    BY <1>8 DEF EngagementsInv, Asked
  <2> QED
    BY <1>6, <1>7, <2>1, <2>3, <2>4
<1> QED
  BY <1>4, <1>6, <1>7, <1>9, <1>10, <1>11, CommitKeeps

LEMMA ArchiveEngagements ==
  ASSUME TripsInv, EngagementsInv, NEW s \in Staff, CommitArchive(s)
  PROVE  EngagementsInv' /\ KeepsBegun
<1>1. PICK t, old, rows, bs :
        /\ t = requests[s].trip /\ old = requests[s].read /\ bs = {old.booking}
        /\ rows = [trips EXCEPT ![t].status = "ARCHIVED"]
  OBVIOUS
<1>2. Regroup(rows, bs) /\ requests' = [requests EXCEPT ![s] = Idle] /\ Changes(s)
  BY <1>1 DEF CommitArchive, Changes
<1>3. /\ t \in Trips /\ IsTrip(trips[t]) /\ trips[t] # NoRow
      /\ trips[t].booking = old.booking /\ trips[t].booking \in Bookings
      /\ trips[t].engagement \notin Held(trips[t].booking)
      /\ ScheduleEditable(trips[t].booking)
      /\ <<"booking", trips[t].booking>> \in LocksOf(s)
      /\ \A o \in Staff \ {s} : Changes(o) => requests[o].trip # t
  BY <1>1, <1>2, ChangedTrip
<1>4. PICK row : row = [trips[t] EXCEPT !.status = "ARCHIVED"]
  OBVIOUS
<1>5. row = [status |-> "ARCHIVED", booking |-> trips[t].booking, driver |-> trips[t].driver,
             vehicle |-> trips[t].vehicle, slot |-> trips[t].slot, version |-> trips[t].version,
             engagement |-> trips[t].engagement, progress |-> trips[t].progress]
  BY <1>3, <1>4 DEF IsTrip
<1>6. /\ IsTrip(row) /\ row.booking = trips[t].booking /\ row.slot = trips[t].slot
      /\ row.engagement = trips[t].engagement
  BY <1>5 DEF IsTrip
<1>7. rows = [trips EXCEPT ![t] = row]
  BY <1>1, <1>4
<1>8. trips[t].slot \in Slots /\ \E a \in Offered : a.booking = trips[t].booking
  BY <1>3 DEF EngagementsInv, Placed, Asked
<1>9. Writes(rows, t, row, bs)
  BY <1>1, <1>3, <1>6, <1>7, <1>8 DEF Writes
<1>10. /\ \A b \in bs : <<"booking", b>> \in LocksOf(s)
       /\ \E a \in Offered : a.booking = row.booking
  BY <1>1, <1>3, <1>6, <1>8
<1>11. \A o \in Staff \ {s} : Knows(o) /\ requests[o].trip = t =>
         ~ Changes(o) /\ trips[t].booking = row.booking
  BY <1>3, <1>6
<1> QED
  BY <1>2, <1>9, <1>10, <1>11, CommitKeeps

-----------------------------------------------------------------------------
(* Steps of bookings, engagements and reports *)

LEMMA NothingBegun ==
  ASSUME AreTrips(trips), UNCHANGED <<trips, engagements>>
  PROVE  KeepsBegun
<1>1. \A t \in Trips : trips[t] # NoRow => IsTrip(trips[t])
  BY DEF AreTrips
<1>2. trips' = trips /\ engagements' = engagements
  OBVIOUS
<1>3. \A t \in Trips : trips[t] # NoRow =>
        [trips'[t] EXCEPT !.progress = trips[t].progress, !.version = trips[t].version] = trips[t]
  BY <1>1, <1>2, SameProgress
<1>4. \A b : Held(b)' = Held(b)
  BY <1>2 DEF Held
<1> QED
  BY <1>2, <1>3, <1>4 DEF KeepsBegun

LEMMA NothingGrouped ==
  ASSUME EngagementsInv, UNCHANGED <<trips, engagements, requests>>
  PROVE  EngagementsInv'
<1>1. Listed' /\ Placed' /\ Asked'
  BY DEF EngagementsInv, Listed, Placed, Asked
<1>2. \A b \in Bookings : Grouped(trips', engagements', b)
  BY DEF EngagementsInv
<1>3. \A s \in Staff : Checked(s)'
  BY DEF EngagementsInv, Checked, Archives, Updates, Knows, Assigns, Changes, ScheduleEditable,
         Held, TripEditable, HeldTrips
<1> QED
  BY <1>1, <1>2, <1>3 DEF EngagementsInv

\* One engagement is written, of a booking nobody has locked.
LEMMA EngagementWritten ==
  ASSUME TripsInv, EngagementsInv, NEW b \in Bookings, NEW n \in Numbers, NEW row,
         UNCHANGED <<trips, requests>>, ~ BookingLocked(b),
         engagements' = [engagements EXCEPT ![b] = [engagements[b] EXCEPT ![n] = row]],
         engagements[b][n] # NoRow, row # NoRow, IsEngagement(row),
         row.driver = engagements[b][n].driver,
         \A purpose \in {"ARRIVAL", "TOUR"} : purpose \in row.sections =>
           \/ purpose \in engagements[b][n].sections
           \/ \A m \in Numbers \ {n} : ~ Asks(engagements, b, m, purpose),
         n \in Held(b) =>
           /\ row.status \in {"FEEDBACK_STARTED", "SUBMITTED"}
           /\ row.sections = engagements[b][n].sections
  PROVE  EngagementsInv' /\ KeepsBegun
<1>1. Listed
  BY DEF EngagementsInv
<1>2. /\ engagements'[b][n] = row
      /\ \A m \in Numbers : m # n => engagements'[b][m] = engagements[b][m]
      /\ \A c \in Bookings : c # b => engagements'[c] = engagements[c]
      /\ engagements' = [c \in Bookings |-> [m \in Numbers |-> engagements'[c][m]]]
  <2>1. PICK table : table = [engagements[b] EXCEPT ![n] = row]
    OBVIOUS
  <2>2. \A c \in Bookings : engagements[c] = [m \in Numbers |-> engagements[c][m]]
    BY <1>1 DEF Listed
  <2>3. /\ table = [m \in Numbers |-> table[m]] /\ table[n] = row
        /\ \A m \in Numbers : m # n => table[m] = engagements[b][m]
    BY <2>1, <2>2
  <2>4. engagements = [c \in Bookings |-> engagements[c]]
    BY <1>1 DEF Listed
  <2>5. /\ engagements' = [c \in Bookings |-> engagements'[c]] /\ engagements'[b] = table
        /\ \A c \in Bookings : c # b => engagements'[c] = engagements[c]
    BY <2>1, <2>4
  <2>6. \A c \in Bookings : engagements'[c] = [m \in Numbers |-> engagements'[c][m]]
    BY <2>2, <2>3, <2>5
  <2> QED
    BY <2>3, <2>5, <2>6
<1>3. Listed'
  BY <1>1, <1>2 DEF Listed, IsEngagement
<1>4. trips' = trips /\ requests' = requests
  OBVIOUS
<1>5. Placed' /\ Asked'
  BY <1>4 DEF EngagementsInv, Placed, Asked
<1>6. Grouped(trips, engagements, b)
  BY DEF EngagementsInv
<1>7. \A m \in Numbers, purpose \in {"ARRIVAL", "TOUR"} :
        Asks(engagements', b, m, purpose) =>
          \/ Asks(engagements, b, m, purpose)
          \/ m = n /\ \A k \in Numbers \ {n} : ~ Asks(engagements, b, k, purpose)
  BY <1>2 DEF Asks
<1>8. \A purpose \in {"ARRIVAL", "TOUR"} : \A k, m \in Numbers :
        Asks(engagements, b, k, purpose) /\ Asks(engagements, b, m, purpose) => k = m
  BY <1>6 DEF Grouped
<1>9. \A purpose \in {"ARRIVAL", "TOUR"} : \A k, m \in Numbers :
        Asks(engagements', b, k, purpose) /\ Asks(engagements', b, m, purpose) => k = m
  BY <1>7, <1>8
<1>10. /\ \A m \in Numbers : engagements'[b][m] = NoRow <=> engagements[b][m] = NoRow
       /\ \A m \in Numbers : engagements'[b][m].driver = engagements[b][m].driver
  BY <1>2
<1>11. Grouped(trips', engagements', b)
  <2>1. Grouped(trips, engagements', b)
    BY <1>6, <1>9, <1>10 DEF Grouped, InGroup
  <2> QED
    BY <1>4, <2>1
<1>12. \A c \in Bookings : c # b => Grouped(trips', engagements', c)
  BY <1>2, <1>4, GroupedStill DEF EngagementsInv
<1>13. ASSUME NEW s \in Staff
       PROVE  Checked(s)'
  <2>1. PICK bs : bs = {b}
    OBVIOUS
  <2>2. \A c \in bs : <<"booking", c>> \notin LocksOf(s)
    BY <2>1 DEF BookingLocked
  <2>3. Knows(s) => trips[requests[s].trip] # NoRow
    BY TripIsThere DEF TripsInv, RequestsInv
  <2>4. \A c \in Bookings \ bs : engagements'[c] = engagements[c]
    BY <1>2, <2>1
  <2>5. Placed /\ Checked(s)
    BY DEF EngagementsInv
  <2> QED
    BY <1>4, <2>2, <2>3, <2>4, <2>5, CheckedStill
<1>14. KeepsBegun
  <2>1. ASSUME NEW c \in Bookings, NEW m \in Held(c)
        PROVE  /\ m \in Held(c)'
               /\ engagements'[c][m].driver = engagements[c][m].driver
               /\ engagements'[c][m].sections = engagements[c][m].sections
    <3>1. m \in Numbers
      BY HeldIsNumber
    <3>2. CASE c = b /\ m = n
      BY <1>2, <3>1, <3>2 DEF Held
    <3>3. CASE c # b \/ m # n
      BY <1>2, <3>1, <3>3 DEF Held
    <3> QED
      BY <3>2, <3>3
  <2>2. \A t \in Trips : trips[t] # NoRow =>
          [trips'[t] EXCEPT !.progress = trips[t].progress, !.version = trips[t].version] = trips[t]
    BY <1>4, SameProgress DEF TripsInv, AreTrips
  <2> QED
    BY <2>1, <2>2 DEF KeepsBegun
<1> QED
  BY <1>3, <1>5, <1>11, <1>12, <1>13, <1>14 DEF EngagementsInv

LEMMA BookingEngagements ==
  ASSUME TripsInv, EngagementsInv, NEW b \in Bookings, BookingStep(b)
  PROVE  EngagementsInv' /\ KeepsBegun
<1>1. UNCHANGED <<trips, requests>>
  BY DEF BookingStep, CreateBooking, UpdateBooking, ArchiveBooking, UpdateSections,
         StartFeedback, SubmitFeedback, IssueLink, RevokeLink, LinkExpires
<1>2. CASE UNCHANGED engagements
  BY <1>1, <1>2, NothingGrouped, NothingBegun DEF TripsInv
<1>3. ASSUME NEW n \in Numbers,
             \/ \E purposes : UpdateSections(b, n, purposes)
             \/ StartFeedback(b, n) \/ SubmitFeedback(b, n)
      PROVE  EngagementsInv' /\ KeepsBegun
  <2>1. ~ BookingLocked(b) /\ engagements[b][n] # NoRow
    BY <1>3 DEF UpdateSections, StartFeedback, SubmitFeedback, NoRow
  <2>2. engagements[b][n] = [status |-> engagements[b][n].status,
          driver |-> engagements[b][n].driver, sections |-> engagements[b][n].sections]
    BY <2>1 DEF EngagementsInv, Listed, IsEngagement
  <2>3. \A m \in Numbers : m \in Held(b) <=>
          engagements[b][m].status \in {"FEEDBACK_STARTED", "SUBMITTED"}
    BY DEF Held
  <2>4. CASE \E purposes : UpdateSections(b, n, purposes)
    <3>1. PICK purposes : UpdateSections(b, n, purposes)
      BY <2>4
    <3>2. PICK row : row = [status |-> engagements[b][n].status,
            driver |-> engagements[b][n].driver, sections |-> purposes]
      OBVIOUS
    <3>3. row = [engagements[b][n] EXCEPT !.sections = purposes]
      BY <2>2, <3>2
    <3>4. engagements' = [engagements EXCEPT ![b] = [engagements[b] EXCEPT ![n] = row]]
      BY <3>1, <3>3 DEF UpdateSections
    <3>5. row # NoRow /\ IsEngagement(row) /\ row.driver = engagements[b][n].driver
            /\ row.sections = purposes
      BY <3>2 DEF NoRow, IsEngagement
    <3>6. n \notin Held(b)
      BY <2>3, <3>1 DEF UpdateSections
    <3>7. \A purpose \in {"ARRIVAL", "TOUR"} : purpose \in purposes =>
            \A m \in Numbers \ {n} : ~ Asks(engagements, b, m, purpose)
      BY <3>1 DEF UpdateSections, Asks
    <3> QED
      BY <1>1, <2>1, <3>4, <3>5, <3>6, <3>7, EngagementWritten
  <2>5. CASE StartFeedback(b, n) \/ SubmitFeedback(b, n)
    <3>1. PICK status \in {"FEEDBACK_STARTED", "SUBMITTED"} :
            engagements' = [engagements EXCEPT ![b][n].status = status]
      BY <2>5 DEF StartFeedback, SubmitFeedback
    <3>2. PICK row : row = [status |-> status, driver |-> engagements[b][n].driver,
            sections |-> engagements[b][n].sections]
      OBVIOUS
    <3>3. row = [engagements[b][n] EXCEPT !.status = status]
      BY <2>2, <3>2
    <3>4. engagements' = [engagements EXCEPT ![b] = [engagements[b] EXCEPT ![n] = row]]
      BY <3>1, <3>3
    <3>5. row # NoRow /\ IsEngagement(row) /\ row.driver = engagements[b][n].driver
            /\ row.sections = engagements[b][n].sections /\ row.status = status
      BY <3>2 DEF NoRow, IsEngagement
    <3> QED
      BY <1>1, <2>1, <3>1, <3>4, <3>5, EngagementWritten
  <2> QED
    BY <1>3, <2>4, <2>5
<1> QED
  BY <1>2, <1>3 DEF BookingStep, CreateBooking, UpdateBooking, ArchiveBooking, IssueLink,
                    RevokeLink, LinkExpires

\* A row that differs in its progress and its version is the row again with these put back.
LEMMA OtherProgress ==
  ASSUME NEW row, IsTrip(row), NEW version, NEW reached, NEW new,
         new = [status |-> row.status, booking |-> row.booking, driver |-> row.driver,
                vehicle |-> row.vehicle, slot |-> row.slot, version |-> version,
                engagement |-> row.engagement, progress |-> reached]
  PROVE  [new EXCEPT !.progress = row.progress, !.version = row.version] = row
<1>1. IsTrip(new)
  BY DEF IsTrip
<1>2. new.status = row.status /\ new.booking = row.booking /\ new.driver = row.driver
        /\ new.vehicle = row.vehicle /\ new.slot = row.slot /\ new.engagement = row.engagement
  OBVIOUS
<1>3. PICK back : back = [new EXCEPT !.progress = row.progress, !.version = row.version]
  OBVIOUS
<1>4. back = [status |-> new.status, booking |-> new.booking, driver |-> new.driver,
              vehicle |-> new.vehicle, slot |-> new.slot, version |-> row.version,
              engagement |-> new.engagement, progress |-> row.progress]
  BY <1>1, <1>3 DEF IsTrip
<1>5. back = row
  BY <1>2, <1>4 DEF IsTrip
<1> QED
  BY <1>3, <1>5

LEMMA ReportEngagements ==
  ASSUME TripsInv, EngagementsInv, NEW t \in Trips, NEW reached,
         Report(t, reached) \/ SetProgress(t, reached)
  PROVE  EngagementsInv' /\ KeepsBegun
<1>1. t \in Live(trips) /\ UNCHANGED <<engagements, requests>>
  BY DEF Report, SetProgress
<1>2. IsTrip(trips[t]) /\ trips[t] # NoRow
  BY <1>1 DEF Live, TripsInv, AreTrips
<1>3. PICK version :
        /\ \A u \in Trips : u # t => trips'[u] = trips[u]
        /\ trips'[t] = [status |-> trips[t].status, booking |-> trips[t].booking,
                        driver |-> trips[t].driver, vehicle |-> trips[t].vehicle,
                        slot |-> trips[t].slot, version |-> version,
                        engagement |-> trips[t].engagement, progress |-> reached]
  <2>1. CASE Report(t, reached)
    BY <1>2, <2>1 DEF Report, TripsInv, AreTrips, IsTrip
  <2>2. CASE SetProgress(t, reached)
    <3>1. trips' = [trips EXCEPT ![t] =
            [trips[t] EXCEPT !.progress = reached, !.version = trips[t].version + 1]]
      BY <2>2 DEF SetProgress, TripsInv, AreTrips
    <3> QED
      BY <1>2, <3>1 DEF TripsInv, AreTrips, IsTrip
  <2> QED
    BY <2>1, <2>2
<1>4. IsTrip(trips'[t])
  BY <1>2, <1>3 DEF IsTrip
<1>5. \A u \in Trips : /\ trips'[u] = NoRow <=> trips[u] = NoRow
                       /\ trips'[u].status = trips[u].status /\ trips'[u].slot = trips[u].slot
                       /\ trips'[u].booking = trips[u].booking /\ trips'[u].driver = trips[u].driver
                       /\ trips'[u].engagement = trips[u].engagement
  <2>1. trips'[t] # NoRow
    BY <1>4, TripIsThere
  <2> QED
    BY <1>2, <1>3, <2>1
<1>6. Listed' /\ Placed' /\ Asked'
  BY <1>1, <1>5 DEF EngagementsInv, Listed, Placed, Asked
<1>7. ASSUME NEW b \in Bookings
      PROVE  Grouped(trips', engagements', b)
  <2>1. Mine(trips', b) = Mine(trips, b)
    BY <1>5 DEF Mine, Live
  <2>2. Mine(trips, b) \subseteq Trips
    BY DEF Mine, Live
  <2> QED
    BY <1>1, <1>5, <2>1, <2>2, GroupedStill DEF EngagementsInv
<1>8. ASSUME NEW s \in Staff
      PROVE  Checked(s)'
  <2>1. PICK bs : bs = {}
    OBVIOUS
  <2>2. Knows(s) => requests[s].trip \in Trips /\ trips[requests[s].trip] # NoRow
    BY TripIsThere DEF TripsInv, RequestsInv
  <2>3. Changes(s) => Knows(s)
    BY DEF Changes, Knows
  <2>4. Placed /\ Checked(s)
    BY DEF EngagementsInv
  <2>5. Knows(s) => trips'[requests[s].trip] # NoRow
                      /\ trips'[requests[s].trip].booking = trips[requests[s].trip].booking
    BY <1>5, <2>2
  <2>6. Changes(s) => trips'[requests[s].trip].engagement = trips[requests[s].trip].engagement
    BY <1>5, <2>2, <2>3
  <2>7. requests'[s] = requests[s] /\ \A b \in Bookings \ bs : engagements'[b] = engagements[b]
    BY <1>1
  <2>8. \A b \in bs : <<"booking", b>> \notin LocksOf(s)
    BY <2>1
  <2> QED
    BY <2>4, <2>5, <2>6, <2>7, <2>8, CheckedStill
<1>9. KeepsBegun
  <2>1. \A b : Held(b)' = Held(b)
    BY <1>1 DEF Held
  <2>2. ASSUME NEW u \in Trips, trips[u] # NoRow
        PROVE  [trips'[u] EXCEPT !.progress = trips[u].progress, !.version = trips[u].version]
                 = trips[u]
    <3>1. IsTrip(trips[u])
      BY <2>2 DEF TripsInv, AreTrips
    <3>2. CASE u = t
      <4>1. PICK new : new = trips'[t]
        OBVIOUS
      <4>2. [new EXCEPT !.progress = trips[t].progress, !.version = trips[t].version] = trips[t]
        <5>1. new = [status |-> trips[t].status, booking |-> trips[t].booking,
                     driver |-> trips[t].driver, vehicle |-> trips[t].vehicle,
                     slot |-> trips[t].slot, version |-> version,
                     engagement |-> trips[t].engagement, progress |-> reached]
          BY <1>3, <4>1
        <5> QED
          BY <1>2, <5>1, OtherProgress
      <4> QED
        BY <3>2, <4>1, <4>2
    <3>3. CASE u # t
      BY <1>3, <3>1, <3>3, SameProgress
    <3> QED
      BY <3>2, <3>3
  <2> QED
    BY <1>1, <2>1, <2>2 DEF KeepsBegun
<1> QED
  BY <1>6, <1>7, <1>8, <1>9 DEF EngagementsInv

LEMMA EngagementsInit == TInit => EngagementsInv
<1> SUFFICES ASSUME TInit PROVE EngagementsInv
  OBVIOUS
<1>1. \A b : Mine(trips, b) = {}
  BY DEF TInit, Mine, Live
<1>2. \A b, n : InGroup(trips, b, n) = {}
  BY <1>1 DEF InGroup
<1>3. Listed /\ Placed /\ Asked
  BY DEF TInit, Listed, Placed, Asked, IsEngagement
<1>4. \A s \in Staff : Checked(s)
  BY DEF TInit, Checked, Archives, Updates, Knows, Assigns, Changes, Idle
<1>5. \A b \in Bookings, n \in Numbers : engagements[b][n] = NoRow
  BY DEF TInit
<1>6. \A b \in Bookings : Grouped(trips, engagements, b)
  BY <1>1, <1>2, <1>5 DEF Grouped, Asks
<1> QED
  BY <1>3, <1>4, <1>6 DEF EngagementsInv

LEMMA EngagementsStep ==
  ASSUME MovesAlone, GrantsInv, EngagementsInv, [TNext]_tVars
  PROVE  EngagementsInv' /\ KeepsBegun
<1>1. TripsInv
  BY DEF GrantsInv
<1>2. CASE \E s \in Staff : TripStep(s)
  <2>1. PICK s \in Staff : TripStep(s)
    BY <1>2
  <2>2. CASE CommitCreate(s) \/ CommitUpdate(s) \/ CommitArchive(s)
    BY <1>1, <2>2, CreateEngagements, UpdateEngagements, ArchiveEngagements
  <2>3. CASE ~ (CommitCreate(s) \/ CommitUpdate(s) \/ CommitArchive(s))
    <3>1. UNCHANGED <<trips, engagements>>
      BY <2>1, <2>3 DEF TripStep, BeginCreate, BeginUpdate, AskArchive, BeginArchive, GiveUp
    <3> QED
      BY <1>1, <2>1, <2>3, <3>1, BeginChecked, NothingBegun DEF TripsInv
  <2> QED
    BY <2>2, <2>3
<1>3. CASE \E b \in Bookings : BookingStep(b)
  BY <1>1, <1>3, BookingEngagements
<1>4. CASE \E r \in Reports : Report(r[1], r[2]) \/ SetProgress(r[1], r[2])
  <2>1. PICK r \in Reports : Report(r[1], r[2]) \/ SetProgress(r[1], r[2])
    BY <1>4
  <2>2. r[1] \in Trips
    OBVIOUS
  <2> QED
    BY <1>1, <2>1, <2>2, ReportEngagements
<1>5. CASE UNCHANGED tVars
  BY <1>1, <1>5, NothingGrouped, NothingBegun DEF tVars, TripsInv
<1> QED
  BY <1>2, <1>3, <1>4, <1>5 DEF TNext

LEMMA OneAtMost ==
  ASSUME NEW S, \A x, y \in S : x = y
  PROVE  Cardinality(S) <= 1
<1>1. CASE S = {}
  BY <1>1, FS_EmptySet
<1>2. CASE S # {}
  <2>1. PICK x : S = {x}
    BY <1>2
  <2>2. Cardinality({x}) = 1
    BY FS_Singleton
  <2> QED
    BY <2>1, <2>2
<1> QED
  BY <1>1, <1>2

LEMMA EngagementsSuffice == EngagementsInv => EngagementsFollowTrips
<1> SUFFICES ASSUME EngagementsInv, NEW b \in Bookings
             PROVE
               LET mine == {t \in Live(trips) : trips[t].booking = b}
                   In(n) == {t \in mine : trips[t].engagement = n}
               IN
               /\ \A t \in mine : trips[t].engagement # Null
               /\ \A n \in Numbers : engagements[b][n] = NoRow <=> In(n) = {}
               /\ \A t, u \in mine :
                    trips[t].engagement < trips[u].engagement => Before(trips, t, u)
               /\ \A n \in Numbers : \A t \in In(n) : trips[t].driver = engagements[b][n].driver
               /\ \A purpose \in {"ARRIVAL", "TOUR"} :
                    Cardinality({n \in Numbers : engagements[b][n] # NoRow
                                                   /\ purpose \in engagements[b][n].sections}) <= 1
  BY DEF EngagementsFollowTrips
<1>1. Grouped(trips, engagements, b)
  BY DEF EngagementsInv
<1>2. /\ Mine(trips, b) = {t \in Live(trips) : trips[t].booking = b}
      /\ \A n : InGroup(trips, b, n) =
           {t \in {u \in Live(trips) : trips[u].booking = b} : trips[t].engagement = n}
  BY DEF Mine, InGroup
<1>3. Null \notin Nat
  BY DEF ToursAssumption
<1>4. \A t \in Mine(trips, b) : trips[t].engagement # Null
  BY <1>1, <1>3 DEF Grouped
<1>5. ASSUME NEW purpose \in {"ARRIVAL", "TOUR"}
      PROVE  Cardinality({n \in Numbers : engagements[b][n] # NoRow
                                            /\ purpose \in engagements[b][n].sections}) <= 1
  <2> DEFINE S == {n \in Numbers : engagements[b][n] # NoRow
                                     /\ purpose \in engagements[b][n].sections}
  <2>1. \A n, m \in S : n = m
    BY <1>1 DEF Grouped, Asks
  <2> HIDE DEF S
  <2>2. Cardinality(S) <= 1
    BY <2>1, OneAtMost
  <2> QED
    BY <2>2 DEF S
<1> QED
  BY <1>1, <1>2, <1>4, <1>5 DEF Grouped

\* Engagements follow the trips, whatever requests write at the same time and whenever feedback
\* begins, unless a trip is moved to another booking while a request to archive it waits:
\* rebuildEngagements() cuts the free trips of a booking where the driver changes, and numbers
\* the groups after those whose feedback has begun.
THEOREM ToursEngagementsFollowTrips ==
  ASSUME MovesAlone
  PROVE  TSpec => []EngagementsFollowTrips
<1>1. TInit => GrantsInv /\ EngagementsInv
  BY GrantsInit, EngagementsInit
<1>2. GrantsInv /\ EngagementsInv /\ [TNext]_tVars => GrantsInv' /\ EngagementsInv'
  BY GrantsStep, EngagementsStep
<1> QED
  BY <1>1, <1>2, EngagementsSuffice, PTL DEF TSpec

\* An engagement whose feedback has begun keeps its number, driver, sections and trips, under
\* the same condition: updates and archives refuse its trips (ensureTripEngagementEditable()).
THEOREM ToursBegunIsKept ==
  ASSUME MovesAlone
  PROVE  TSpec => BegunIsKept
<1>1. TInit => GrantsInv /\ EngagementsInv
  BY GrantsInit, EngagementsInit
<1>2. GrantsInv /\ EngagementsInv /\ [TNext]_tVars => GrantsInv' /\ EngagementsInv'
  BY GrantsStep, EngagementsStep
<1>3. GrantsInv /\ EngagementsInv /\ [TNext]_tVars =>
        [\A b \in Bookings : \A n \in Held(b) :
           /\ n \in Held(b)'
           /\ engagements'[b][n].driver = engagements[b][n].driver
           /\ engagements'[b][n].sections = engagements[b][n].sections
           /\ \A t \in Trips :
                (trips[t] # NoRow /\ trips[t].booking = b /\ trips[t].engagement = n) =>
                [trips'[t] EXCEPT !.progress = trips[t].progress,
                                  !.version = trips[t].version] = trips[t]]_tVars
  BY EngagementsStep DEF KeepsBegun
<1> QED
  BY <1>1, <1>2, <1>3, PTL DEF TSpec, BegunIsKept

-----------------------------------------------------------------------------
(* Timeline.  Its reports and its changes of progress are steps of Tours as far as Tours  *)
(* can see, so what is proved above holds of the composition.  A trip that does not exist  *)
(* yet has no history: that is what a created one is SCHEDULED by.                        *)

\* One row of progress.
Consistent(row) ==
  /\ row.startedAt \in Times \cup {Null} /\ row.completedAt \in Times \cup {Null}
  /\ row.status = "COMPLETED" <=> row.completedAt # Null
  /\ row.status = "CANCELLED" => row.startedAt = Null
  /\ (row.startedAt # Null /\ row.completedAt # Null) => row.startedAt <= row.completedAt

ReportsInv ==
  /\ progress = [t \in Trips |-> progress[t]]
  /\ events = [c \in ClientIds |-> events[c]]
  /\ calls = [d \in Drivers |-> calls[d]]
  /\ \A d \in Drivers : calls[d].pc = "waits" => calls[d].trip \in Trips
  /\ \A t \in Trips : Consistent(progress[t])
  /\ \A t \in Trips : trips[t] = NoRow => progress[t] = Planned /\ ~ HasReport(t)
  /\ \A t \in Trips : trips[t] # NoRow =>
       trips[t].progress = Summary(progress[t].status, HasReport(t))

\* What a request about trips leaves of the progress.
KeepsProgress(u) ==
  /\ trips[u] # NoRow => trips'[u] # NoRow /\ trips'[u].progress = trips[u].progress
  /\ (trips[u] = NoRow /\ trips'[u] # NoRow) => trips'[u].progress = "SCHEDULED"

LEMMA ProgressWritten ==
  ASSUME TripsInv, NEW t \in Trips, NEW row, IsTrip(row), row # NoRow,
         row.progress = IF trips[t] = NoRow THEN "SCHEDULED" ELSE trips[t].progress,
         NEW bs, Regroup([trips EXCEPT ![t] = row], bs)
  PROVE  \A u \in Trips : KeepsProgress(u)
<1>1. PICK rows : rows = [trips EXCEPT ![t] = row]
  OBVIOUS
<1>2. /\ rows = [u \in Trips |-> rows[u]]
      /\ rows[t] = row /\ \A u \in Trips : u # t => rows[u] = trips[u]
  BY <1>1 DEF TripsInv, AreTrips
<1>3. AreTrips(rows) /\ Regroup(rows, bs)
  BY <1>1, <1>2 DEF TripsInv, AreTrips
<1>4. /\ \A u \in Trips : (trips'[u] = NoRow <=> rows[u] = NoRow)
      /\ \A u \in Trips : rows[u] # NoRow => trips'[u].progress = rows[u].progress
  BY <1>3, Regrouping
<1>5. KeepsProgress(t)
  BY <1>2, <1>4 DEF KeepsProgress
<1>6. \A u \in Trips : u # t => KeepsProgress(u)
  BY <1>2, <1>4 DEF KeepsProgress
<1> QED
  BY <1>5, <1>6

LEMMA TripProgress ==
  ASSUME GrantsInv, NEW s \in Staff, TripStep(s)
  PROVE  \A u \in Trips : KeepsProgress(u)
<1>1. PICK t : t = requests[s].trip
  OBVIOUS
<1>2. CASE CommitCreate(s)
  <2>1. PICK row, bs : /\ row = Row(requests[s].to, 1, "SCHEDULED")
                       /\ Regroup([trips EXCEPT ![t] = row], bs)
    BY <1>1, <1>2 DEF CommitCreate
  <2>2. t \in Trips /\ trips[t] = NoRow
    BY <1>1, <1>2 DEF CommitCreate, Creates, GrantsInv, FreshInv
  <2>3. IsTrip(row) /\ row # NoRow /\ row.progress = "SCHEDULED"
    BY <2>1 DEF Row, IsTrip, NoRow
  <2> QED
    BY <2>1, <2>2, <2>3, ProgressWritten DEF GrantsInv
<1>3. CASE CommitUpdate(s)
  <2>1. PICK version, row, bs : /\ row = Row(requests[s].to, version, trips[t].progress)
                                /\ Regroup([trips EXCEPT ![t] = row], bs)
    BY <1>1, <1>3 DEF CommitUpdate
  <2>2. t \in Trips /\ trips[t] # NoRow
    <3>1. Knows(s)
      BY <1>3 DEF CommitUpdate, Knows
    <3>2. t \in Trips /\ IsTrip(trips[t])
      BY <1>1, <3>1 DEF GrantsInv, TripsInv, RequestsInv
    <3> QED
      BY <3>2 DEF IsTrip, NoRow
  <2>3. IsTrip(row) /\ row # NoRow /\ row.progress = trips[t].progress
    BY <2>1 DEF Row, IsTrip, NoRow
  <2> QED
    BY <2>1, <2>2, <2>3, ProgressWritten DEF GrantsInv
<1>4. CASE CommitArchive(s)
  <2>1. t \in Trips /\ IsTrip(trips[t]) /\ trips[t] # NoRow
    BY <1>1, <1>4 DEF CommitArchive, GrantsInv, TripsInv, RequestsInv, Knows, IsTrip, NoRow
  <2>2. PICK row : row = [trips[t] EXCEPT !.status = "ARCHIVED"]
    OBVIOUS
  <2>3. PICK bs : Regroup([trips EXCEPT ![t] = row], bs)
    <3>1. Regroup([trips EXCEPT ![t].status = "ARCHIVED"], {requests[s].read.booking})
      BY <1>1, <1>4 DEF CommitArchive
    <3>2. [trips EXCEPT ![t].status = "ARCHIVED"] = [trips EXCEPT ![t] = row]
      BY <2>2
    <3> QED
      BY <3>1, <3>2
  <2>4. row = [status |-> "ARCHIVED", booking |-> trips[t].booking,
               driver |-> trips[t].driver, vehicle |-> trips[t].vehicle,
               slot |-> trips[t].slot, version |-> trips[t].version,
               engagement |-> trips[t].engagement, progress |-> trips[t].progress]
    BY <2>1, <2>2 DEF IsTrip
  <2>5. IsTrip(row) /\ row # NoRow /\ row.progress = trips[t].progress
    BY <2>4 DEF IsTrip, NoRow
  <2> QED
    BY <2>1, <2>3, <2>5, ProgressWritten DEF GrantsInv
<1>5. CASE ~ (CommitCreate(s) \/ CommitUpdate(s) \/ CommitArchive(s))
  <2>1. UNCHANGED trips
    BY <1>5 DEF TripStep, BeginCreate, BeginUpdate, AskArchive, BeginArchive, GiveUp
  <2> QED
    BY <2>1 DEF KeepsProgress
<1> QED
  BY <1>2, <1>3, <1>4, <1>5

\* Steps that change neither progress nor reports.
LEMMA ReportsKept ==
  ASSUME ReportsInv, UNCHANGED <<progress, events>>, \A u \in Trips : KeepsProgress(u),
         calls' = [d \in Drivers |-> calls'[d]],
         \A d \in Drivers : calls'[d].pc = "waits" => calls'[d].trip \in Trips
  PROVE  ReportsInv'
<1>1. \A t \in Trips : HasReport(t)' <=> HasReport(t)
  BY DEF HasReport
<1>2. \A t \in Trips : Consistent(progress[t])'
  BY DEF ReportsInv, Consistent
<1>3. \A t \in Trips : trips'[t] = NoRow => progress'[t] = Planned /\ ~ HasReport(t)'
  BY <1>1 DEF ReportsInv, KeepsProgress
<1>4. ASSUME NEW t \in Trips, trips'[t] # NoRow
      PROVE  trips'[t].progress = Summary(progress'[t].status, HasReport(t)')
  <2>1. CASE trips[t] = NoRow
    <3>1. trips'[t].progress = "SCHEDULED" /\ progress[t] = Planned /\ ~ HasReport(t)
      BY <1>4, <2>1 DEF ReportsInv, KeepsProgress
    <3>2. progress'[t].status = "SCHEDULED" /\ ~ HasReport(t)'
      BY <1>1, <3>1 DEF Planned
    <3> QED
      BY <3>1, <3>2 DEF Summary
  <2>2. CASE trips[t] # NoRow
    <3>1. /\ trips'[t].progress = trips[t].progress
          /\ trips[t].progress = Summary(progress[t].status, HasReport(t))
      BY <2>2 DEF ReportsInv, KeepsProgress
    <3> QED
      BY <1>1, <3>1 DEF Summary
  <2> QED
    BY <2>1, <2>2
<1>5. /\ progress' = [t \in Trips |-> progress'[t]]
      /\ events' = [c \in ClientIds |-> events'[c]]
  BY DEF ReportsInv
<1> QED
  BY <1>2, <1>3, <1>4, <1>5 DEF ReportsInv, Summary

\* A report of a trip, or a change of its progress, that leaves a consistent row.
LEMMA ProgressTold ==
  ASSUME ReportsInv, NEW t \in Trips, NEW row, Consistent(row),
         progress' = [progress EXCEPT ![t] = row],
         events' = [c \in ClientIds |-> events'[c]],
         \A u \in Trips : u # t => (HasReport(u)' <=> HasReport(u)),
         trips'[t] # NoRow /\ trips'[t].progress = Summary(row.status, HasReport(t)'),
         \A u \in Trips : u # t => trips'[u] = trips[u],
         calls' = [d \in Drivers |-> calls'[d]],
         \A d \in Drivers : calls'[d].pc = "waits" => calls'[d].trip \in Trips
  PROVE  ReportsInv'
<1>1. /\ progress' = [u \in Trips |-> progress'[u]] /\ progress'[t] = row
      /\ \A u \in Trips : u # t => progress'[u] = progress[u]
  BY DEF ReportsInv
<1>2. \A u \in Trips : Consistent(progress[u])'
  BY <1>1 DEF ReportsInv, Consistent
<1>3. \A u \in Trips : trips'[u] = NoRow => progress'[u] = Planned /\ ~ HasReport(u)'
  BY <1>1 DEF ReportsInv
<1>4. ASSUME NEW u \in Trips, trips'[u] # NoRow
      PROVE  trips'[u].progress = Summary(progress'[u].status, HasReport(u)')
  <2>1. CASE u = t
    BY <1>1, <2>1
  <2>2. CASE u # t
    <3>1. /\ progress'[u] = progress[u] /\ trips'[u] = trips[u]
          /\ (HasReport(u)' <=> HasReport(u))
          /\ trips[u].progress = Summary(progress[u].status, HasReport(u))
      BY <1>1, <1>4, <2>2 DEF ReportsInv
    <3> QED
      BY <3>1 DEF Summary
  <2> QED
    BY <2>1, <2>2
<1> QED
  BY <1>1, <1>2, <1>3, <1>4 DEF ReportsInv, Summary

\* One report: what a milestone does to a consistent row that it is timely for.
LEMMA TimelyProgress ==
  ASSUME NEW row, Consistent(row), NEW m \in Message, Timely(row, m)
  PROVE  Consistent(Progressed(row, m))
<1> USE TimelineAssumption
<1>1. m.at \in Times /\ m.at \in Int /\ m.at # Null
  BY DEF Message, Times
<1>2. row.startedAt # Null => row.startedAt \in Int
  BY DEF Consistent, Times
<1>3. row.completedAt # Null => row.completedAt \in Int
  BY DEF Consistent, Times
<1>4. CASE m.kind = "TRIP_STARTED"
  <2>1. row.status = "COMPLETED" => m.at <= row.completedAt
    BY <1>4 DEF Timely, Milestones
  <2>2. PICK a : a = IF row.startedAt = Null \/ m.at < row.startedAt THEN m.at ELSE row.startedAt
    OBVIOUS
  <2>3. Progressed(row, m) =
          [status |-> IF row.status = "COMPLETED" THEN "COMPLETED" ELSE "IN_PROGRESS",
           startedAt |-> a, completedAt |-> row.completedAt]
    BY <1>4, <2>2 DEF Progressed
  <2>4. a \in Times \cup {Null} /\ a # Null
    BY <1>1, <2>2 DEF Consistent
  <2>5. row.completedAt # Null => a <= row.completedAt
    BY <1>1, <1>2, <1>3, <2>1, <2>2 DEF Consistent
  <2> QED
    BY <2>3, <2>4, <2>5 DEF Consistent
<1>5. CASE m.kind = "TRIP_COMPLETED"
  <2>1. Progressed(row, m) =
          [status |-> "COMPLETED", startedAt |-> row.startedAt, completedAt |-> m.at]
    BY <1>5 DEF Progressed
  <2>2. row.startedAt # Null => m.at >= row.startedAt
    BY <1>5 DEF Timely, Milestones
  <2> QED
    BY <1>1, <1>2, <2>1, <2>2 DEF Consistent
<1>6. CASE m.kind \notin {"TRIP_STARTED", "TRIP_COMPLETED"}
  <2>1. Progressed(row, m) = [status |-> row.status, startedAt |-> row.startedAt,
                              completedAt |-> row.completedAt]
    BY <1>6 DEF Progressed
  <2> QED
    BY <2>1 DEF Consistent
<1> QED
  BY <1>4, <1>5, <1>6

LEMMA CallsEnd ==
  ASSUME ReportsInv, NEW d \in Drivers, calls' = [calls EXCEPT ![d] = Idle]
  PROVE  /\ calls' = [e \in Drivers |-> calls'[e]]
         /\ \A e \in Drivers : calls'[e].pc = "waits" => calls'[e].trip \in Trips
  BY DEF ReportsInv, Idle

\* Under the lock a report is one of Tours: of a live trip in a booking nobody has locked.
LEMMA SubmitReports ==
  ASSUME GrantsInv, ReportsInv, NEW d \in Drivers, NEW by, NEW c \in ClientIds,
         NEW m \in Messages, Submit(d, by, c, m)
  PROVE  GrantsInv' /\ ReportsInv'
<1>1. PICK t, row : t = calls[d].trip /\ row = Progressed(progress[t], m)
  OBVIOUS
<1>2. t \in Trips /\ trips[t].status = "READY" /\ trips[t].booking = calls[d].booking
  BY <1>1 DEF Submit, Authorised, StillIn, ReportsInv
<1>3. trips[t] # NoRow /\ t \in Live(trips) /\ IsTrip(trips[t])
  BY <1>2 DEF Live, NoRow, GrantsInv, TripsInv, AreTrips
<1>4. PICK reached : reached = Summary(row.status, TRUE)
  OBVIOUS
<1>5. Report(t, reached)
  BY <1>1, <1>2, <1>3, <1>4 DEF Submit, Authorised, Report
<1>6. GrantsInv'
  BY <1>2, <1>5, ReportSafe, ReportGrants DEF GrantsInv
<1>7. Consistent(row)
  <2>1. Consistent(progress[t]) /\ Timely(progress[t], m) /\ m \in Message
    BY <1>1, <1>2, TimelineAssumption DEF Submit, ReportsInv
  <2> QED
    BY <1>1, <2>1, TimelyProgress
<1>8. PICK event : event.trip = t /\ event # NoRow /\ events' = [events EXCEPT ![c] = event]
  <2>1. PICK event : event =
          [status |-> "RECORDED", trip |-> t, booking |-> calls[d].booking, driver |-> d,
           version |-> trips[t].version, by |-> by, message |-> m]
    OBVIOUS
  <2>2. event.trip = t /\ event # NoRow
    BY <2>1 DEF NoRow
  <2>3. events' = [events EXCEPT ![c] = event]
    BY <1>1, <2>1 DEF Submit
  <2> QED
    BY <2>2, <2>3
<1>9. /\ events' = [o \in ClientIds |-> events'[o]] /\ events'[c] = event
      /\ \A o \in ClientIds : o # c => events'[o] = events[o]
  BY <1>8 DEF ReportsInv
<1>10. events[c] = NoRow
  BY DEF Submit, Unused
<1>11. HasReport(t)' /\ \A u \in Trips : u # t => (HasReport(u)' <=> HasReport(u))
  BY <1>8, <1>9, <1>10 DEF HasReport
<1>12. trips' = [trips EXCEPT ![t].progress = reached]
  BY <1>1, <1>4 DEF Submit
<1>13. /\ trips'[t] = [trips[t] EXCEPT !.progress = reached]
       /\ \A u \in Trips : u # t => trips'[u] = trips[u]
  BY <1>2, <1>12 DEF GrantsInv, TripsInv, AreTrips
<1>14. trips'[t].progress = reached
  BY <1>3, <1>13 DEF IsTrip
<1>15. trips'[t] # NoRow
  BY <1>2, <1>5, <1>3, <1>13 DEF IsTrip, NoRow
<1>16. progress' = [progress EXCEPT ![t] = row] /\ calls' = [calls EXCEPT ![d] = Idle]
  BY <1>1 DEF Submit
<1>17. reached = Summary(row.status, HasReport(t)')
  BY <1>4, <1>11 DEF Summary
<1>18. /\ calls' = [e \in Drivers |-> calls'[e]]
       /\ \A e \in Drivers : calls'[e].pc = "waits" => calls'[e].trip \in Trips
  BY <1>16, CallsEnd
<1>19. trips'[t] # NoRow /\ trips'[t].progress = Summary(row.status, HasReport(t)')
  BY <1>14, <1>15, <1>17
<1>20. t \in Trips /\ events' = [o \in ClientIds |-> events'[o]]
  BY <1>2, <1>9
<1>21. ReportsInv'
  BY <1>7, <1>11, <1>13, <1>16, <1>18, <1>19, <1>20, ProgressTold
<1> QED
  BY <1>6, <1>21

\* A row with another version and another progress.
Rewritten(row, version, reached) ==
  [status |-> row.status, booking |-> row.booking, driver |-> row.driver,
   vehicle |-> row.vehicle, slot |-> row.slot, version |-> version,
   engagement |-> row.engagement, progress |-> reached]

LEMMA TripRewritten ==
  ASSUME NEW row, IsTrip(row), NEW version, NEW reached, NEW new,
         \/ new = [row EXCEPT !.version = version, !.progress = reached]
         \/ new = [row EXCEPT !.progress = reached, !.version = version]
  PROVE  new = Rewritten(row, version, reached)
<1>1. CASE new = [row EXCEPT !.version = version, !.progress = reached]
  BY <1>1 DEF IsTrip, Rewritten
<1>2. CASE new = [row EXCEPT !.progress = reached, !.version = version]
  BY <1>2 DEF IsTrip, Rewritten
<1> QED
  BY <1>1, <1>2

\* An administrator's change of progress is one of Tours.
LEMMA ChangeReports ==
  ASSUME GrantsInv, ReportsInv, NEW t \in Trips,
         NEW status \in StaffStatuses, NEW now \in Times,
         ChangeProgress(t, status, now)
  PROVE  GrantsInv' /\ ReportsInv'
<1> USE TimelineAssumption
<1>1. PICK row, reached :
        /\ row = [status |-> status, startedAt |-> IF status = "IN_PROGRESS" THEN now ELSE Null,
                  completedAt |-> IF status = "COMPLETED" THEN now ELSE Null]
        /\ reached = Summary(status, HasReport(t))
  OBVIOUS
<1>2. trips[t] # NoRow /\ t \in Live(trips) /\ IsTrip(trips[t])
  BY DEF ChangeProgress, Live, GrantsInv, TripsInv, AreTrips
<1>3. PICK version : version = trips[t].version + 1
  OBVIOUS
<1>4. PICK next, old : next = Rewritten(old, version, reached) /\ old = trips[t]
  OBVIOUS
<1>5. trips' = [trips EXCEPT ![t] = next]
  <2>1. trips' = [trips EXCEPT ![t] = [trips[t] EXCEPT !.version = trips[t].version + 1,
                                                       !.progress = reached]]
    BY <1>1, <1>2 DEF ChangeProgress, HasReport, GrantsInv, TripsInv, AreTrips
  <2>2. PICK new : new = [trips[t] EXCEPT !.version = version, !.progress = reached]
    OBVIOUS
  <2>3. new = next
    <3>1. IsTrip(old) /\ new = [old EXCEPT !.version = version, !.progress = reached]
      BY <1>2, <1>4, <2>2
    <3> QED
      BY <1>4, <3>1, TripRewritten
  <2> QED
    BY <1>3, <2>1, <2>2, <2>3
<1>6. SetProgress(t, reached)
  <2>1. [trips EXCEPT ![t].progress = reached, ![t].version = @ + 1] = [trips EXCEPT ![t] = next]
    <3>1. PICK new : new = [trips[t] EXCEPT !.progress = reached, !.version = version]
      OBVIOUS
    <3>3. new = next
      <4>1. IsTrip(old) /\ new = [old EXCEPT !.progress = reached, !.version = version]
        BY <1>2, <1>4, <3>1
      <4> QED
        BY <1>4, <4>1, TripRewritten
    <3>2. [trips EXCEPT ![t].progress = reached, ![t].version = @ + 1]
            = [trips EXCEPT ![t] = [trips[t] EXCEPT !.progress = reached,
                                                    !.version = trips[t].version + 1]]
      BY <1>2 DEF GrantsInv, TripsInv, AreTrips
    <3> QED
      BY <1>3, <3>1, <3>2, <3>3
  <2> QED
    BY <1>2, <1>5, <2>1 DEF ChangeProgress, SetProgress
<1>7. GrantsInv'
  BY <1>6, ReportSafe, ReportGrants DEF GrantsInv
<1>8. Consistent(row)
  BY <1>1 DEF Consistent, StaffStatuses
<1>9. progress' = [progress EXCEPT ![t] = row] /\ UNCHANGED <<events, calls>>
  BY <1>1 DEF ChangeProgress
<1>10. \A u \in Trips : HasReport(u)' <=> HasReport(u)
  BY <1>9 DEF HasReport
<1>11. /\ trips'[t] = next /\ \A u \in Trips : u # t => trips'[u] = trips[u]
  BY <1>5 DEF GrantsInv, TripsInv, AreTrips
<1>12. trips'[t] # NoRow /\ trips'[t].progress = reached
  BY <1>4, <1>11 DEF Rewritten, NoRow
<1>13. reached = Summary(row.status, HasReport(t)')
  BY <1>1, <1>10 DEF Summary
<1>14. /\ events' = [c \in ClientIds |-> events'[c]]
       /\ calls' = [d \in Drivers |-> calls'[d]]
       /\ \A d \in Drivers : calls'[d].pc = "waits" => calls'[d].trip \in Trips
  BY <1>9 DEF ReportsInv
<1>15. ReportsInv'
  BY <1>8, <1>9, <1>10, <1>11, <1>12, <1>13, <1>14, ProgressTold
<1> QED
  BY <1>7, <1>15

LEMMA TourKeepsCalls ==
  ASSUME ReportsInv, UNCHANGED calls
  PROVE  /\ calls' = [d \in Drivers |-> calls'[d]]
         /\ \A d \in Drivers : calls'[d].pc = "waits" => calls'[d].trip \in Trips
  BY DEF ReportsInv

\* The steps of Tours that are in Timeline as they are.
LEMMA TourReports ==
  ASSUME GrantsInv, ReportsInv, TourStep
  PROVE  GrantsInv' /\ ReportsInv'
<1>1. UNCHANGED <<progress, events, calls>>
  BY DEF TourStep, tlOwn
<1>2. CASE \E s \in Staff : TripStep(s)
  <2>1. GrantsInv'
    BY <1>2, GrantsStep DEF TNext
  <2>2. \A u \in Trips : KeepsProgress(u)
    BY <1>2, TripProgress
  <2> QED
    BY <1>1, <2>1, <2>2, ReportsKept, TourKeepsCalls
<1>3. CASE \E b \in Bookings : BookingStep(b)
  <2>1. GrantsInv'
    BY <1>3, GrantsStep DEF TNext
  <2>2. UNCHANGED trips
    BY <1>3 DEF BookingStep, CreateBooking, UpdateBooking, ArchiveBooking, UpdateSections,
                StartFeedback, SubmitFeedback, IssueLink, RevokeLink, LinkExpires
  <2>3. \A u \in Trips : KeepsProgress(u)
    BY <2>2 DEF KeepsProgress
  <2> QED
    BY <1>1, <2>1, <2>3, ReportsKept, TourKeepsCalls
<1> QED
  BY <1>2, <1>3 DEF TourStep

\* Steps that see neither tours nor reports.
LEMMA OtherReports ==
  ASSUME GrantsInv, ReportsInv, UNCHANGED <<tVars, progress, events>>,
         \/ UNCHANGED calls
         \/ \E d \in Drivers : calls' = [calls EXCEPT ![d] = Idle]
         \/ \E d \in Drivers, t \in Trips : Call(d, t)
  PROVE  GrantsInv' /\ ReportsInv'
<1>1. GrantsInv'
  BY GrantsStep
<1>2. \A u \in Trips : KeepsProgress(u)
  BY DEF KeepsProgress, tVars
<1>3. CASE UNCHANGED calls
  BY <1>1, <1>2, <1>3, ReportsKept, TourKeepsCalls
<1>4. CASE \E d \in Drivers : calls' = [calls EXCEPT ![d] = Idle]
  BY <1>1, <1>2, <1>4, ReportsKept, CallsEnd
<1>5. CASE \E d \in Drivers, t \in Trips : Call(d, t)
  <2>1. /\ calls' = [d \in Drivers |-> calls'[d]]
        /\ \A d \in Drivers : calls'[d].pc = "waits" => calls'[d].trip \in Trips
    BY <1>5 DEF Call, ReportsInv
  <2> QED
    BY <1>1, <1>2, <2>1, ReportsKept
<1> QED
  BY <1>3, <1>4, <1>5

LEMMA ReportsInit == TLInit => GrantsInv /\ ReportsInv
<1> SUFFICES ASSUME TLInit PROVE GrantsInv /\ ReportsInv
  OBVIOUS
<1>1. GrantsInv
  BY GrantsInit DEF TLInit
<1>2. \A t \in Trips : trips[t] = NoRow /\ progress[t] = Planned /\ ~ HasReport(t)
  BY DEF TLInit, TInit, HasReport
<1>3. Consistent(Planned)
  BY DEF Consistent, Planned
<1>4. ReportsInv
  BY <1>2, <1>3 DEF TLInit, ReportsInv, Idle
<1> QED
  BY <1>1, <1>4

LEMMA ReportsStep == GrantsInv /\ ReportsInv /\ [TLNext]_tlVars => GrantsInv' /\ ReportsInv'
<1> SUFFICES ASSUME GrantsInv, ReportsInv, [TLNext]_tlVars PROVE GrantsInv' /\ ReportsInv'
  OBVIOUS
<1>1. CASE TourStep
  BY <1>1, TourReports
<1>2. CASE \E d \in Drivers : DriverStep(d)
  <2>1. PICK d \in Drivers : DriverStep(d)
    BY <1>2
  <2>2. CASE \E by \in {"LINK", "LOGIN"}, c \in ClientIds, m \in Messages : Submit(d, by, c, m)
    BY <2>2, SubmitReports
  <2>3. CASE \/ \E t \in Trips : Call(d, t)
             \/ CallFails(d)
             \/ \E by \in {"LINK", "LOGIN"}, p \in Photos :
                  CreatePhoto(d, by, p) \/ \E lost \in BOOLEAN : CompletePhoto(d, by, p, lost)
    <3>1. UNCHANGED <<tVars, progress, events>>
      BY <2>3 DEF Call, CallFails, CreatePhoto, CompletePhoto
    <3>2. \/ calls' = [calls EXCEPT ![d] = Idle]
          \/ \E t \in Trips : Call(d, t)
      BY <2>3 DEF CallFails, CreatePhoto, CompletePhoto
    <3> QED
      BY <3>1, <3>2, OtherReports
  <2> QED
    BY <2>1, <2>2, <2>3 DEF DriverStep
<1>3. CASE \E r \in Reports, status \in StaffStatuses, now \in Times :
             ChangeProgress(r[1], status, now)
  <2>1. PICK r \in Reports, status \in StaffStatuses, now \in Times :
               ChangeProgress(r[1], status, now)
    BY <1>3
  <2>2. r[1] \in Trips
    OBVIOUS
  <2> QED
    BY <2>1, <2>2, ChangeReports
<1>4. CASE \/ \E b \in Bookings : TourEnds(b)
           \/ \E p \in Photos : PhotoStep(p)
           \/ FindOrphans
           \/ UNCHANGED tlVars
  <2>1. UNCHANGED <<tVars, progress, events, calls>>
    BY <1>4 DEF TourEnds, PhotoStep, Upload, PhotoAges, SweepUpload, SweepPhoto, FindOrphans,
                tlVars, tVars
  <2> QED
    BY <2>1, OtherReports
<1> QED
  BY <1>1, <1>2, <1>3, <1>4 DEF TLNext

\* A trip that was cancelled or completed stays so, and keeps its end, unless staff change it.
Settled(t) ==
  (/\ progress[t].status \in {"CANCELLED", "COMPLETED"}
   /\ <<progress'[t].status, progress'[t].completedAt>>
        # <<progress[t].status, progress[t].completedAt>>)
  => trips'[t].version = trips[t].version + 1

\* One report, of a trip or of another one.
LEMMA SubmitSettled ==
  ASSUME ReportsInv, NEW d \in Drivers, NEW by, NEW c \in ClientIds, NEW m \in Messages,
         Submit(d, by, c, m), NEW t \in Trips
  PROVE  Settled(t)
<1>1. PICK u : u = calls[d].trip
  OBVIOUS
<1>2. progress' = [progress EXCEPT ![u] = Progressed(progress[u], m)] /\ Timely(progress[u], m)
  BY <1>1 DEF Submit
<1>3. progress = [v \in Trips |-> progress[v]]
  BY DEF ReportsInv
<1>4. CASE t # u
  BY <1>2, <1>3, <1>4 DEF Settled
<1>5. CASE t = u
  <2>1. progress'[t] = Progressed(progress[t], m)
    BY <1>2, <1>3, <1>5
  <2>2. CASE m.kind \notin Milestones
    <3>1. /\ progress'[t].status = progress[t].status
          /\ progress'[t].completedAt = progress[t].completedAt
      BY <2>1, <2>2 DEF Progressed, Milestones
    <3> QED
      BY <3>1 DEF Settled
  <2>3. CASE m.kind \in Milestones
    <3>1. /\ progress[t].status # "CANCELLED"
          /\ progress[t].status = "COMPLETED" => m.kind # "TRIP_COMPLETED"
      BY <1>2, <1>5, <2>3 DEF Timely
    <3>2. progress[t].status = "COMPLETED" =>
            /\ progress'[t].status = progress[t].status
            /\ progress'[t].completedAt = progress[t].completedAt
      BY <2>1, <3>1 DEF Progressed
    <3> QED
      BY <3>1, <3>2 DEF Settled
  <2> QED
    BY <2>2, <2>3
<1> QED
  BY <1>4, <1>5

\* A change by staff is one with a new version.
LEMMA ChangeSettled ==
  ASSUME GrantsInv, ReportsInv, NEW u \in Trips, NEW status, NEW now,
         ChangeProgress(u, status, now), NEW t \in Trips
  PROVE  Settled(t)
<1>1. CASE t # u
  <2>1. progress'[t] = progress[t]
    BY <1>1 DEF ChangeProgress, ReportsInv
  <2> QED
    BY <2>1 DEF Settled
<1>2. CASE t = u
  <2>1. trips[t] # NoRow /\ IsTrip(trips[t]) /\ trips = [v \in Trips |-> trips[v]]
    BY <1>2 DEF ChangeProgress, Live, GrantsInv, TripsInv, AreTrips
  <2>2. trips'[t].version = trips[t].version + 1
    BY <1>2, <2>1 DEF ChangeProgress, IsTrip
  <2> QED
    BY <2>2 DEF Settled
<1> QED
  BY <1>1, <1>2

LEMMA StepSettled ==
  ASSUME GrantsInv, ReportsInv, [TLNext]_tlVars, NEW t \in Trips
  PROVE  Settled(t)
<1>1. CASE UNCHANGED progress
  BY <1>1 DEF Settled
<1>2. CASE TourStep
  BY <1>1, <1>2 DEF TourStep, tlOwn
<1>3. CASE \E d \in Drivers : DriverStep(d)
  <2>1. PICK d \in Drivers : DriverStep(d)
    BY <1>3
  <2>2. CASE \E by \in {"LINK", "LOGIN"}, c \in ClientIds, m \in Messages : Submit(d, by, c, m)
    BY <2>2, SubmitSettled
  <2>3. CASE \/ \E u \in Trips : Call(d, u)
             \/ CallFails(d)
             \/ \E by \in {"LINK", "LOGIN"}, p \in Photos :
                  CreatePhoto(d, by, p) \/ \E lost \in BOOLEAN : CompletePhoto(d, by, p, lost)
    BY <1>1, <2>3 DEF Call, CallFails, CreatePhoto, CompletePhoto
  <2> QED
    BY <2>1, <2>2, <2>3 DEF DriverStep
<1>4. CASE \E r \in Reports, status \in StaffStatuses, now \in Times :
             ChangeProgress(r[1], status, now)
  <2>1. PICK r \in Reports, status \in StaffStatuses, now \in Times :
               ChangeProgress(r[1], status, now)
    BY <1>4
  <2>2. r[1] \in Trips
    OBVIOUS
  <2> QED
    BY <2>1, <2>2, ChangeSettled
<1>5. CASE \/ \E b \in Bookings : TourEnds(b)
           \/ \E p \in Photos : PhotoStep(p)
           \/ FindOrphans
           \/ UNCHANGED tlVars
  BY <1>1, <1>5 DEF TourEnds, PhotoStep, Upload, PhotoAges, SweepUpload, SweepPhoto, FindOrphans,
                    tlVars
<1> QED
  BY <1>2, <1>3, <1>4, <1>5 DEF TLNext

\* In whatever order reports arrive, late or again, and whatever an administrator sets, cancels or
\* reopens meanwhile: no step makes a trip end before it starts, an end is known exactly of the
\* completed ones, the trip says what its row of progress says, and no report takes a trip out of
\* what it was cancelled or completed to (submit() and setProgress()).
THEOREM TimelineTimesAgree == TLSpec => TimesAgree
<1>1. ReportsInv => \A t \in Trips : TimesOf(t)
  BY DEF ReportsInv, Consistent, TimesOf
<1>2. TLInit => GrantsInv /\ ReportsInv
  BY ReportsInit
<1>3. GrantsInv /\ ReportsInv /\ [TLNext]_tlVars => GrantsInv' /\ ReportsInv'
  BY ReportsStep
<1>4. ReportsInv' => \A t \in Trips : TimesOf(t)'
  <2>1. (\A t \in Trips : TimesOf(t))' <=> \A t \in Trips : TimesOf(t)'
    OBVIOUS
  <2> QED
    BY <1>1, <2>1, PTL
<1>5. GrantsInv /\ ReportsInv /\ [TLNext]_tlVars =>
        [\A t \in Trips :
           /\ TimesOf(t)'
           /\ (/\ progress[t].status \in {"CANCELLED", "COMPLETED"}
               /\ <<progress'[t].status, progress'[t].completedAt>>
                    # <<progress[t].status, progress[t].completedAt>>)
              => trips'[t].version = trips[t].version + 1]_tlVars
  BY <1>3, <1>4, StepSettled DEF Settled
<1> QED
  BY <1>2, <1>3, <1>5, PTL DEF TLSpec, TimesAgree

\* With the requests of drivers and the photos added, it is still so that no driver and no
\* vehicle is on two trips at once (validateAssignment).
THEOREM TimelineNoDoubleBooking == TLSpec => []NoDoubleBooking
<1>1. GrantsInv => NoDoubleBooking
  BY DEF GrantsInv, TripsInv
<1>2. TLInit => GrantsInv /\ ReportsInv
  BY ReportsInit
<1>3. GrantsInv /\ ReportsInv /\ [TLNext]_tlVars => GrantsInv' /\ ReportsInv'
  BY ReportsStep
<1> QED
  BY <1>1, <1>2, <1>3, PTL DEF TLSpec

\* A report made by a link is one the driver's assignment of that moment allows: GrantsAreOwn of
\* the composition (authorisedTrip() looks a grant up by trip and version).
THEOREM TimelineGrantsAreOwn == TLSpec => []GrantsAreOwn
<1>1. GrantsInv => GrantsAreOwn
  BY GrantsSuffice
<1>2. TLInit => GrantsInv /\ ReportsInv
  BY ReportsInit
<1>3. GrantsInv /\ ReportsInv /\ [TLNext]_tlVars => GrantsInv' /\ ReportsInv'
  BY ReportsStep
<1> QED
  BY <1>1, <1>2, <1>3, PTL DEF TLSpec

-----------------------------------------------------------------------------
(* Photos of a report *)

\* The columns of a photo.
Photo(row) ==
  row = [status |-> row.status, trip |-> row.trip, driver |-> row.driver,
         version |-> row.version, event |-> row.event, age |-> row.age, cleaned |-> row.cleaned]

PhotosInv ==
  /\ photos = [p \in Photos |-> photos[p]]
  /\ objects = [p \in Photos |-> objects[p]]
  /\ \A p \in Photos : photos[p] = NoRow \/ Photo(photos[p])
  /\ \A p \in Photos : photos[p].status = "ATTACHED" => photos[p].event \in ClientIds

\* What a step leaves of the photo of a report.
KeepsPhoto(p) ==
  photos[p].status = "ATTACHED" =>
    /\ photos'[p].status = "ATTACHED" /\ photos'[p].event = photos[p].event
    /\ "stored" \in objects[p] => "stored" \in objects'[p]

\* A step that gives each photo either what it had or another row.
LEMMA PhotosKept ==
  ASSUME PhotosInv, photos' = [p \in Photos |-> photos'[p]],
         objects' = [p \in Photos |-> objects'[p]],
         \A p \in Photos : photos'[p] = photos[p] \/ photos'[p] = NoRow
           \/ (Photo(photos'[p]) /\ (photos'[p].status = "ATTACHED" => photos'[p].event \in ClientIds)),
         \A p \in Photos : KeepsPhoto(p)
  PROVE  PhotosInv' /\ \A p \in Photos : KeepsPhoto(p)
<1>1. \A p \in Photos : photos'[p] = NoRow \/ Photo(photos'[p])
  BY DEF PhotosInv, Photo
<1>2. \A p \in Photos : photos'[p].status = "ATTACHED" => photos'[p].event \in ClientIds
  BY DEF PhotosInv, NoRow
<1> QED
  BY <1>1, <1>2 DEF PhotosInv, Photo

\* Steps that touch no photo, but perhaps the upload of one.
LEMMA PhotosUntouched ==
  ASSUME PhotosInv, UNCHANGED photos, objects' = [p \in Photos |-> objects'[p]],
         \A p \in Photos : "stored" \in objects[p] => "stored" \in objects'[p]
  PROVE  PhotosInv' /\ \A p \in Photos : KeepsPhoto(p)
<1>1. photos' = [p \in Photos |-> photos'[p]]
  BY DEF PhotosInv
<1>2. \A p \in Photos : KeepsPhoto(p)
  BY DEF KeepsPhoto
<1> QED
  BY <1>1, <1>2, PhotosKept

LEMMA SubmitPhotos ==
  ASSUME PhotosInv, NEW d \in Drivers, NEW by, NEW c \in ClientIds, NEW m, Submit(d, by, c, m)
  PROVE  PhotosInv' /\ \A p \in Photos : KeepsPhoto(p)
<1>1. /\ photos' = [p \in Photos |-> IF p \in m.photos
                                     THEN [photos[p] EXCEPT !.status = "ATTACHED", !.event = c]
                                     ELSE photos[p]]
      /\ objects' = objects /\ \A p \in m.photos : photos[p].status = "READY"
  BY DEF Submit, Usable
<1>2. ASSUME NEW p \in Photos, p \in m.photos
      PROVE  /\ Photo(photos'[p]) /\ photos'[p].event = c /\ KeepsPhoto(p)
  <2>1. photos[p].status = "READY" /\ Photo(photos[p])
    <3>1. photos[p].status = "READY"
      BY <1>1, <1>2
    <3>2. photos[p] # NoRow
      BY <3>1 DEF NoRow
    <3> QED
      BY <3>1, <3>2 DEF PhotosInv, Photo
  <2>2. photos'[p] = [photos[p] EXCEPT !.status = "ATTACHED", !.event = c]
    BY <1>1, <1>2
  <2>3. photos'[p] = [status |-> "ATTACHED", trip |-> photos[p].trip, driver |-> photos[p].driver,
                      version |-> photos[p].version, event |-> c, age |-> photos[p].age,
                      cleaned |-> photos[p].cleaned]
    BY <2>1, <2>2 DEF Photo
  <2> QED
    BY <2>1, <2>3 DEF Photo, KeepsPhoto
<1>3. ASSUME NEW p \in Photos, p \notin m.photos
      PROVE  photos'[p] = photos[p] /\ KeepsPhoto(p)
  BY <1>1, <1>3 DEF KeepsPhoto
<1>4. /\ photos' = [p \in Photos |-> photos'[p]]
      /\ objects' = [p \in Photos |-> objects'[p]]
  BY <1>1 DEF PhotosInv
<1>5. \A p \in Photos : photos'[p] = photos[p] \/ (Photo(photos'[p]) /\ photos'[p].event \in ClientIds)
  BY <1>2, <1>3
<1>6. \A p \in Photos : KeepsPhoto(p)
  BY <1>2, <1>3
<1> QED
  BY <1>4, <1>5, <1>6, PhotosKept

\* A step that writes one photo and its objects; one of a report keeps what the report needs.
LEMMA PhotoWritten ==
  ASSUME PhotosInv, NEW p \in Photos, NEW row, NEW kept,
         photos' = [photos EXCEPT ![p] = row], objects' = [objects EXCEPT ![p] = kept],
         row = NoRow \/ Photo(row),
         row.status = "ATTACHED" => photos[p].status = "ATTACHED",
         photos[p].status = "ATTACHED" =>
           /\ row.status = "ATTACHED" /\ row.event = photos[p].event
           /\ "stored" \in objects[p] => "stored" \in kept
  PROVE  PhotosInv' /\ \A q \in Photos : KeepsPhoto(q)
<1>1. /\ photos' = [q \in Photos |-> photos'[q]] /\ photos'[p] = row
      /\ objects' = [q \in Photos |-> objects'[q]] /\ objects'[p] = kept
      /\ \A q \in Photos : q # p => photos'[q] = photos[q] /\ objects'[q] = objects[q]
  BY DEF PhotosInv
<1>2. \A q \in Photos : KeepsPhoto(q)
  BY <1>1 DEF KeepsPhoto
<1>3. row.status = "ATTACHED" => row.event \in ClientIds
  BY DEF PhotosInv
<1>4. \A q \in Photos : photos'[q] = photos[q] \/ photos'[q] = NoRow
           \/ (Photo(photos'[q]) /\ (photos'[q].status = "ATTACHED" => photos'[q].event \in ClientIds))
  BY <1>1, <1>3
<1> QED
  BY <1>1, <1>2, <1>4, PhotosKept

\* A photo that is not there is no photo of a report.
LEMMA PhotoIsThere ==
  ASSUME PhotosInv, NEW p \in Photos, photos[p] # NoRow
  PROVE  Photo(photos[p])
  BY DEF PhotosInv, Photo

LEMMA CreatePhotos ==
  ASSUME PhotosInv, NEW d \in Drivers, NEW by, NEW p \in Photos, CreatePhoto(d, by, p)
  PROVE  PhotosInv' /\ \A q \in Photos : KeepsPhoto(q)
<1>1. PICK row : row =
        [status |-> "PENDING", trip |-> calls[d].trip, driver |-> d,
         version |-> trips[calls[d].trip].version, event |-> Null, age |-> "NEW",
         cleaned |-> FALSE]
  OBVIOUS
<1>2. /\ photos' = [photos EXCEPT ![p] = row] /\ objects' = [objects EXCEPT ![p] = objects[p]]
      /\ photos[p] = NoRow
  BY <1>1 DEF CreatePhoto, PhotosInv
<1>3. Photo(row) /\ row.status # "ATTACHED" /\ photos[p].status # "ATTACHED"
  BY <1>1, <1>2 DEF Photo, NoRow
<1> QED
  BY <1>2, <1>3, PhotoWritten

LEMMA CompletePhotos ==
  ASSUME PhotosInv, NEW d \in Drivers, NEW by, NEW p \in Photos, NEW lost,
         CompletePhoto(d, by, p, lost)
  PROVE  PhotosInv' /\ \A q \in Photos : KeepsPhoto(q)
<1>1. /\ photos[p].status = "PENDING" /\ objects' = [objects EXCEPT ![p] = {"stored"}]
      /\ photos' = photos \/ photos' = [photos EXCEPT ![p].status = "READY"]
  BY DEF CompletePhoto
<1>2. Photo(photos[p])
  BY <1>1, PhotoIsThere DEF NoRow
<1>3. PICK row : row \in {photos[p], [photos[p] EXCEPT !.status = "READY"]}
                 /\ photos' = [photos EXCEPT ![p] = row]
  BY <1>1 DEF PhotosInv
<1>4. Photo(row) /\ row.status # "ATTACHED"
  BY <1>1, <1>2, <1>3 DEF Photo
<1> QED
  BY <1>1, <1>3, <1>4, PhotoWritten

LEMMA AgePhotos ==
  ASSUME PhotosInv, NEW p \in Photos, PhotoAges(p)
  PROVE  PhotosInv' /\ \A q \in Photos : KeepsPhoto(q)
<1>1. Photo(photos[p])
  BY PhotoIsThere DEF PhotoAges
<1>2. PICK age, row : row = [photos[p] EXCEPT !.age = age] /\ photos' = [photos EXCEPT ![p] = row]
  BY DEF PhotoAges
<1>3. row = [status |-> photos[p].status, trip |-> photos[p].trip, driver |-> photos[p].driver,
             version |-> photos[p].version, event |-> photos[p].event, age |-> age,
             cleaned |-> photos[p].cleaned]
  BY <1>1, <1>2 DEF Photo
<1>4. Photo(row) /\ row.status = photos[p].status /\ row.event = photos[p].event
  BY <1>3 DEF Photo
<1>5. objects' = [objects EXCEPT ![p] = objects[p]]
  BY DEF PhotoAges, PhotosInv
<1> QED
  BY <1>2, <1>4, <1>5, PhotoWritten

LEMMA SweepUploads ==
  ASSUME PhotosInv, NEW p \in Photos, NEW lost, SweepUpload(p, lost)
  PROVE  PhotosInv' /\ \A q \in Photos : KeepsPhoto(q)
<1>1. Photo(photos[p])
  BY PhotoIsThere DEF SweepUpload
<1>2. PICK kept : kept = objects[p] \ {"upload"} /\ objects' = [objects EXCEPT ![p] = kept]
  BY DEF SweepUpload
<1>3. "stored" \in objects[p] => "stored" \in kept
  BY <1>2
<1>4. CASE photos' = photos
  <2>1. photos' = [photos EXCEPT ![p] = photos[p]]
    BY <1>4 DEF PhotosInv
  <2> QED
    BY <1>1, <1>2, <1>3, <2>1, PhotoWritten
<1>5. CASE photos' = [photos EXCEPT ![p].cleaned = TRUE]
  <2>1. PICK row : row = [photos[p] EXCEPT !.cleaned = TRUE] /\ photos' = [photos EXCEPT ![p] = row]
    BY <1>5
  <2>2. row = [status |-> photos[p].status, trip |-> photos[p].trip, driver |-> photos[p].driver,
               version |-> photos[p].version, event |-> photos[p].event, age |-> photos[p].age,
               cleaned |-> TRUE]
    BY <1>1, <2>1 DEF Photo
  <2>3. Photo(row) /\ row.status = photos[p].status /\ row.event = photos[p].event
    BY <2>2 DEF Photo
  <2> QED
    BY <1>2, <1>3, <2>1, <2>3, PhotoWritten
<1> QED
  BY <1>4, <1>5 DEF SweepUpload

\* The cleanup looks at the photo again under its lock: one that a report has by then is none
\* of those it deletes.
LEMMA SweepPhotos ==
  ASSUME PhotosInv, NEW p \in Photos, NEW lost, SweepPhoto(p, lost)
  PROVE  PhotosInv' /\ \A q \in Photos : KeepsPhoto(q)
<1>1. CASE Orphan(p)
  <2>1. photos[p].status # "ATTACHED"
    BY <1>1, TimelineAssumption DEF Orphan, PhotosInv
  <2>2. Photo(photos[p])
    BY <1>1, PhotoIsThere DEF Orphan
  <2>3. objects' = [objects EXCEPT ![p] = {}]
    BY <1>1 DEF SweepPhoto
  <2>4. CASE photos' = photos
    <3>1. photos' = [photos EXCEPT ![p] = photos[p]]
      BY <2>4 DEF PhotosInv
    <3> QED
      BY <2>1, <2>2, <2>3, <3>1, PhotoWritten
  <2>5. CASE photos' = [photos EXCEPT ![p] = NoRow]
    <3>1. NoRow.status # "ATTACHED"
      BY DEF NoRow
    <3> QED
      BY <2>1, <2>3, <2>5, <3>1, PhotoWritten
  <2> QED
    BY <1>1, <2>4, <2>5 DEF SweepPhoto
<1>2. CASE ~ Orphan(p)
  <2>1. UNCHANGED <<photos, objects>>
    BY <1>2 DEF SweepPhoto
  <2> QED
    BY <2>1, PhotosUntouched DEF PhotosInv
<1> QED
  BY <1>1, <1>2

LEMMA UploadPhotos ==
  ASSUME PhotosInv, NEW p \in Photos, Upload(p)
  PROVE  PhotosInv' /\ \A q \in Photos : KeepsPhoto(q)
<1>1. UNCHANGED photos /\ objects' = [objects EXCEPT ![p] = objects[p] \cup {"upload"}]
  BY DEF Upload
<1>2. \A q \in Photos : "stored" \in objects[q] => "stored" \in objects'[q]
  BY <1>1 DEF PhotosInv
<1>3. objects' = [q \in Photos |-> objects'[q]]
  BY <1>1 DEF PhotosInv
<1> QED
  BY <1>1, <1>2, <1>3, PhotosUntouched

LEMMA PhotosStep ==
  ASSUME PhotosInv, [TLNext]_tlVars
  PROVE  PhotosInv' /\ \A p \in Photos : KeepsPhoto(p)
<1>1. CASE \E d \in Drivers : DriverStep(d)
  <2>1. PICK d \in Drivers : DriverStep(d)
    BY <1>1
  <2>2. CASE \E by \in {"LINK", "LOGIN"}, c \in ClientIds, m \in Messages : Submit(d, by, c, m)
    BY <2>2, SubmitPhotos
  <2>3. CASE \E by \in {"LINK", "LOGIN"}, p \in Photos : CreatePhoto(d, by, p)
    BY <2>3, CreatePhotos
  <2>4. CASE \E by \in {"LINK", "LOGIN"}, p \in Photos, lost \in BOOLEAN :
               CompletePhoto(d, by, p, lost)
    BY <2>4, CompletePhotos
  <2>5. CASE (\E t \in Trips : Call(d, t)) \/ CallFails(d)
    <3>1. UNCHANGED <<photos, objects>>
      BY <2>5 DEF Call, CallFails
    <3> QED
      BY <3>1, PhotosUntouched DEF PhotosInv
  <2> QED
    BY <2>1, <2>2, <2>3, <2>4, <2>5 DEF DriverStep
<1>2. CASE \E p \in Photos : PhotoStep(p)
  <2>1. PICK p \in Photos : PhotoStep(p)
    BY <1>2
  <2> QED
    BY <2>1, UploadPhotos, AgePhotos, SweepUploads, SweepPhotos DEF PhotoStep
<1>3. CASE \/ TourStep
           \/ \E r \in Reports, status \in StaffStatuses, now \in Times :
                ChangeProgress(r[1], status, now)
           \/ \E b \in Bookings : TourEnds(b)
           \/ FindOrphans
           \/ UNCHANGED tlVars
  <2>1. UNCHANGED <<photos, objects>>
    BY <1>3 DEF TourStep, tlOwn, ChangeProgress, TourEnds, FindOrphans, tlVars
  <2> QED
    BY <2>1, PhotosUntouched, SMTT(30) DEF PhotosInv
<1> QED
  BY <1>1, <1>2, <1>3 DEF TLNext

\* No cleanup, no second completion and no other report takes the image from a photo that a
\* report has, or the photo from its report, though the cleanup has found its photos before
\* (cleanupPhotos() reads the photo again under its lock).
THEOREM TimelineAttachedStays == TLSpec => AttachedStays
<1>1. TLInit => PhotosInv
  BY DEF TLInit, PhotosInv, NoRow
<1>2. PhotosInv /\ [TLNext]_tlVars => PhotosInv'
  BY PhotosStep
<1>3. PhotosInv /\ [TLNext]_tlVars =>
        [\A p \in Photos : photos[p].status = "ATTACHED" =>
           /\ photos'[p].status = "ATTACHED" /\ photos'[p].event = photos[p].event
           /\ "stored" \in objects[p] => "stored" \in objects'[p]]_tlVars
  BY PhotosStep DEF KeepsPhoto
<1> QED
  BY <1>1, <1>2, <1>3, PTL DEF TLSpec, AttachedStays
=============================================================================
