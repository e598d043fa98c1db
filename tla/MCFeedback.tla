----------------------------- MODULE MCFeedback -----------------------------
(* A small instance of Feedback for TLC. *)
EXTENDS Feedback, TLC

CONSTANTS p1, g1, g2, c1, v1, v2, e1, e2

\* A picture, or a form with one, is about: then one guest answers the first version by one
\* link, and no editor does anything.
Drawn ==
  \/ pictures[p1] # NoPaper
  \/ \E g \in Guests : forms[g] # Resting /\ forms[g].picture # NoPicture
OneGuest ==
  /\ versions[v2] = NoPaper /\ forms[g2] = Resting /\ tokens = 1 /\ consent = 1
  /\ edits = [o \in Editors |-> Resting]
  /\ \A c \in FormIds : submissions[c] # NoPaper => c = c1 /\ submissions[c].status = "NORMAL"

\* The second editor replaces the questions of the first version, and is late or not.
Late ==
  edits[e2] # Resting =>
    /\ edits[e2].pc = "replace" /\ edits[e2].version = v1 /\ edits[e2].questions = "B"
    /\ versions[v1].questions = "A" /\ versions[v2] = NoPaper /\ consent = 1
    /\ tokens < 2 /\ forms[g2] = Resting /\ edits[e1].pc \in {"resting", "publish"}
    /\ \A c \in FormIds : submissions[c].status # "ARCHIVED"
    /\ Cardinality({c \in FormIds : submissions[c] # NoPaper}) <= 1

\* Guests about to submit a form of which they leave something out.
LeavesOut ==
  {g \in Guests : forms[g] # Resting /\ forms[g].answers # DOMAIN forms[g].questions}

\* A link is made when a version is published; drafts are not thrown away; the first guest
\* is the one whose answer is archived, and who may leave out what need not be answered, of the
\* first version and link.
Small ==
  /\ \A v \in Versions : versions[v] # NoPaper => versions[v].status # "ARCHIVED"
  /\ \A q \in Papers : papers[q] # NoPaper => papers[q].status = "ACTIVE"
  /\ consent = 2 => versions[v2] # NoPaper
  /\ versions[v2] # NoPaper => versions[v2].questions # "B" /\ versions[v1].status # "DRAFT"
  /\ (\E e \in Rides : handoffs[e] # NoPaper) => Published("DRIVER") # {}
  /\ \A c \in FormIds : submissions[c] # NoPaper => submissions[c].status # "FLAGGED"
  /\ forms[g2] # Resting => forms[g2].id # c1
  /\ \A c \in FormIds : submissions[c].status = "ARCHIVED" => submissions[c].guest = g1
  /\ Drawn => OneGuest
  /\ Late
  /\ LeavesOut # {} =>
       /\ ~ Drawn /\ LeavesOut = {g1} /\ versions[v2] = NoPaper /\ tokens = 1
       /\ \A k \in DOMAIN forms[g1].questions \ forms[g1].answers :
            forms[g1].questions[k] \in Optional
  /\ \A c \in FormIds : (submissions[c] # NoPaper /\ submissions[c].answered = {}) =>
       versions[v2] = NoPaper /\ tokens = 1
=============================================================================
