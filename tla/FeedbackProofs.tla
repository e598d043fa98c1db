--------------------------- MODULE FeedbackProofs ---------------------------
(***************************************************************************)
(* Theorems about Feedback, for any subjects, versions, rides, guests,      *)
(* forms, pictures and requests that complete them.                         *)
(***************************************************************************)
EXTENDS Feedback, FiniteSetTheorems, TLAPS

USE FeedbackAssumption

-----------------------------------------------------------------------------
(* The columns of the tables, and what requests in progress know *)

IsVersion(row) ==
  row = [status |-> row.status, paper |-> row.paper, subject |-> row.subject,
         number |-> row.number, questions |-> row.questions]
IsCollection(row) == row = [status |-> row.status, sections |-> row.sections]
IsHandoff(row) ==
  row = [status |-> row.status, token |-> row.token, expired |-> row.expired,
         multiple |-> row.multiple, consent |-> row.consent, versions |-> row.versions]
IsSubmission(row) ==
  row = [status |-> row.status, ride |-> row.ride, guest |-> row.guest,
         multiple |-> row.multiple, consent |-> row.consent, versions |-> row.versions,
         questions |-> row.questions, answered |-> row.answered, picture |-> row.picture]
IsPicture(row) ==
  row = [status |-> row.status, ride |-> row.ride, age |-> row.age, cleaned |-> row.cleaned]
IsObject(row) == row = [upload |-> row.upload, stored |-> row.stored]

\* Versions are never deleted, so what an editor is about to change or retire is there.
Exists(v) == v \in Versions /\ versions[v] # NoPaper
PapersInv ==
  /\ versions = [v \in Versions |-> versions[v]]
  /\ edits = [o \in Editors |-> edits[o]]
  /\ \A v \in Versions : versions[v] = NoPaper \/ IsVersion(versions[v])
  /\ \A o \in Editors : edits[o].pc = "replace" => Exists(edits[o].version)
  /\ \A o \in Editors : edits[o].pc = "archive" => \A v \in edits[o].retires : Exists(v)

LinksTyped ==
  /\ collections = [e \in Rides |-> collections[e]]
  /\ handoffs = [e \in Rides |-> handoffs[e]]
  /\ \A e \in Rides : IsCollection(collections[e])
  /\ \A e \in Rides : handoffs[e] = NoPaper \/ IsHandoff(handoffs[e])
AnswersTyped ==
  /\ forms = [g \in Guests |-> forms[g]]
  /\ \A g \in Guests : forms[g].pc = "filled" =>
       /\ forms[g].ride \in Rides /\ forms[g].id \in FormIds
       /\ forms[g].picture \in Pictures \cup {NoPicture}
  /\ submissions = [c \in FormIds |-> submissions[c]]
  /\ \A c \in FormIds : submissions[c] # NoPaper =>
       IsSubmission(submissions[c]) /\ submissions[c].ride \in Rides
PicturesTyped ==
  /\ pictures = [p \in Pictures |-> pictures[p]]
  /\ store = [p \in Pictures |-> store[p]]
  /\ completers = [w \in Completers |-> completers[w]]
  /\ \A p \in Pictures : pictures[p] = NoPaper \/ IsPicture(pictures[p])
  /\ \A p \in Pictures : IsObject(store[p])
  /\ \A w \in Completers : completers[w] = Resting \/
       (completers[w] = [pc |-> completers[w].pc, picture |-> completers[w].picture]
          /\ completers[w].picture \in Pictures)
  /\ sweeper = Resting \/
       (sweeper = [pc |-> sweeper.pc, picture |-> sweeper.picture] /\ sweeper.picture \in Pictures)

-----------------------------------------------------------------------------
(* What is asked of a ride, and what an answer is to *)

\* A link asks for the sections of its collection, of versions that there are.
Asks(e) ==
  /\ DOMAIN handoffs[e].versions = collections[e].sections
  /\ \A k \in DOMAIN handoffs[e].versions : Exists(handoffs[e].versions[k])

AnswerFits(c) ==
  /\ handoffs[submissions[c].ride] # NoPaper
  /\ collections[submissions[c].ride].status \in {"FEEDBACK_STARTED", "SUBMITTED"}
  /\ submissions[c].versions = handoffs[submissions[c].ride].versions
  /\ submissions[c].consent = handoffs[submissions[c].ride].consent
  /\ submissions[c].multiple = handoffs[submissions[c].ride].multiple
  /\ submissions[c].answered \subseteq DOMAIN submissions[c].versions
  /\ \A k \in submissions[c].answered :
       submissions[c].questions[k] = versions[submissions[c].versions[k]].questions
  /\ IF submissions[c].multiple
     THEN \A d \in Answered(submissions[c].ride) \ {c} : submissions[d].guest # submissions[c].guest
     ELSE /\ Answered(submissions[c].ride) = {c}
          /\ handoffs[submissions[c].ride].status = "CONSUMED"
          /\ collections[submissions[c].ride].status = "SUBMITTED"

AnswersInv ==
  /\ \A e \in Rides : handoffs[e] # NoPaper => Asks(e)
  /\ \A e \in Rides : collections[e].status = "SUBMITTED" => handoffs[e] # NoPaper
  /\ \A c \in FormIds : submissions[c] # NoPaper => AnswerFits(c)

FeedbackInv == PapersInv /\ LinksTyped /\ AnswersTyped /\ AnswersInv

\* What a step leaves of an answer, of its ride, and of the questions it is to.
KeepsAnswer(c) ==
  /\ submissions'[c] # NoPaper
  /\ submissions'[c].ride = submissions[c].ride /\ submissions'[c].guest = submissions[c].guest
  /\ submissions'[c].multiple = submissions[c].multiple
  /\ submissions'[c].consent = submissions[c].consent
  /\ submissions'[c].versions = submissions[c].versions
  /\ submissions'[c].questions = submissions[c].questions
  /\ submissions'[c].answered = submissions[c].answered
  /\ submissions'[c].picture = submissions[c].picture
SameAnswers ==
  \A c \in FormIds :
    IF submissions[c] = NoPaper THEN submissions'[c] = NoPaper ELSE KeepsAnswer(c)
KeepsRide(e) ==
  /\ handoffs'[e] # NoPaper
  /\ handoffs'[e].versions = handoffs[e].versions
  /\ handoffs'[e].consent = handoffs[e].consent
  /\ handoffs'[e].multiple = handoffs[e].multiple
  /\ handoffs[e].status = "CONSUMED" => handoffs'[e].status = "CONSUMED"
  /\ collections'[e].sections = collections[e].sections
  /\ collections'[e].status \in {"FEEDBACK_STARTED", "SUBMITTED"}
  /\ collections[e].status = "SUBMITTED" => collections'[e].status = "SUBMITTED"
KeepsVersions ==
  \A v \in Versions : versions[v] # NoPaper =>
    /\ versions'[v] # NoPaper
    /\ v \in VersionsAnswered => versions'[v].questions = versions[v].questions

LEMMA AnsweredSame ==
  ASSUME SameAnswers, NEW e
  PROVE  Answered(e)' = Answered(e)
  BY DEF SameAnswers, KeepsAnswer, Answered

LEMMA AnswersStay ==
  ASSUME FeedbackInv, SameAnswers, KeepsVersions,
         \A e \in Rides : Answered(e) # {} => KeepsRide(e)
  PROVE  \A c \in FormIds : submissions'[c] # NoPaper => AnswerFits(c)'
<1> SUFFICES ASSUME NEW c \in FormIds, submissions'[c] # NoPaper PROVE AnswerFits(c)'
  OBVIOUS
<1>1. submissions[c] # NoPaper /\ KeepsAnswer(c)
  BY DEF SameAnswers
<1>2. PICK e \in Rides : e = submissions[c].ride
  BY <1>1 DEF FeedbackInv, AnswersTyped
<1>3. c \in Answered(e)
  BY <1>1, <1>2 DEF Answered
<1>4. KeepsRide(e) /\ AnswerFits(c) /\ Asks(e)
  BY <1>1, <1>2, <1>3 DEF FeedbackInv, AnswersInv, AnswerFits
<1>5. submissions'[c].ride = e
  BY <1>1, <1>2 DEF KeepsAnswer
<1>6. ASSUME NEW k \in submissions[c].answered
      PROVE  submissions'[c].questions[k] = versions'[submissions'[c].versions[k]].questions
  <2>1. PICK v : v = submissions[c].versions[k]
    OBVIOUS
  <2>2. v \in VersionsAnswered
    BY <1>1, <2>1 DEF VersionsAnswered
  <2>3. v \in Versions /\ versions[v] # NoPaper
    BY <1>2, <1>4, <2>1 DEF Asks, Exists, AnswerFits
  <2>4. versions'[v].questions = versions[v].questions
    BY <2>2, <2>3 DEF KeepsVersions
  <2> QED
    BY <1>1, <1>4, <2>1, <2>4 DEF KeepsAnswer, AnswerFits
<1>7. Answered(e)' = Answered(e)
  BY AnsweredSame
<1>8. \A d \in Answered(e) : submissions'[d].guest = submissions[d].guest
  BY SMTT(30) DEF Answered, SameAnswers, KeepsAnswer
<1>9. IF submissions'[c].multiple
      THEN \A d \in Answered(e)' \ {c} : submissions'[d].guest # submissions'[c].guest
      ELSE /\ Answered(e)' = {c} /\ handoffs'[e].status = "CONSUMED"
           /\ collections'[e].status = "SUBMITTED"
  BY <1>1, <1>2, <1>3, <1>4, <1>7, <1>8, SMTT(30) DEF KeepsAnswer, KeepsRide, AnswerFits
<1>10. /\ handoffs'[e] # NoPaper /\ collections'[e].status \in {"FEEDBACK_STARTED", "SUBMITTED"}
       /\ submissions'[c].versions = handoffs'[e].versions
       /\ submissions'[c].consent = handoffs'[e].consent
       /\ submissions'[c].multiple = handoffs'[e].multiple
  BY <1>1, <1>2, <1>4 DEF KeepsAnswer, KeepsRide, AnswerFits
<1>11. /\ submissions'[c].answered = submissions[c].answered
       /\ submissions'[c].answered \subseteq DOMAIN submissions'[c].versions
  BY <1>1, <1>4 DEF KeepsAnswer, AnswerFits
<1>12. Answered(submissions[c].ride)' = Answered(e)'
  BY <1>5 DEF Answered
<1> QED
  BY <1>5, <1>6, <1>9, <1>10, <1>11, <1>12 DEF AnswerFits

-----------------------------------------------------------------------------
(* Editors.  No step of theirs takes a version away, or changes the questions of one that was *)
(* answered.                                                                                *)

VersionsStay ==
  /\ versions' = [v \in Versions |-> versions'[v]]
  /\ \A v \in Versions :
       \/ versions'[v] = versions[v]
       \/ IsVersion(versions'[v]) /\ versions'[v] # NoPaper

LEMMA ExistsStays ==
  ASSUME VersionsStay, NEW v, Exists(v)
  PROVE  Exists(v)'
  BY DEF VersionsStay, Exists

\* An editor's request that ends, or that remembers versions that there are.
LEMMA EditsKept ==
  ASSUME PapersInv, VersionsStay, edits' = [o \in Editors |-> edits'[o]],
         \A o \in Editors :
           \/ edits'[o] = edits[o]
           \/ edits'[o].pc = "replace" /\ Exists(edits'[o].version)
           \/ edits'[o].pc = "archive" /\ \A v \in edits'[o].retires : Exists(v)
           \/ edits'[o].pc \notin {"replace", "archive"}
  PROVE  PapersInv'
<1>1. \A v \in Versions : versions'[v] = NoPaper \/ IsVersion(versions'[v])
  BY DEF PapersInv, VersionsStay
<1>2. ASSUME NEW o \in Editors, edits'[o].pc = "replace"
      PROVE  edits'[o].version \in Versions /\ versions'[edits'[o].version] # NoPaper
  <2>1. PICK v : v = edits'[o].version
    OBVIOUS
  <2>2. Exists(v)
    BY <1>2, <2>1 DEF PapersInv
  <2>3. v \in Versions /\ versions'[v] # NoPaper
    BY <2>2, ExistsStays DEF Exists
  <2> QED
    BY <2>1, <2>3
<1>3. ASSUME NEW o \in Editors, edits'[o].pc = "archive", NEW v \in edits'[o].retires
      PROVE  v \in Versions /\ versions'[v] # NoPaper
  <2>1. Exists(v)
    BY <1>3 DEF PapersInv
  <2> QED
    BY <2>1, ExistsStays DEF Exists
<1>4. versions' = [v \in Versions |-> versions'[v]]
  BY DEF VersionsStay
<1>5. \A v \in Versions : (versions[v] = NoPaper \/ IsVersion(versions[v]))'
  BY <1>1 DEF IsVersion
<1> QED
  BY <1>2, <1>3, <1>4, <1>5 DEF PapersInv, Exists

\* A row with another status or with other questions is a row.
WithStatus(row, status) == [row EXCEPT !.status = status]
LEMMA VersionChanged ==
  ASSUME NEW row, IsVersion(row), NEW status, status # "NONE"
  PROVE  /\ IsVersion(WithStatus(row, status)) /\ WithStatus(row, status) # NoPaper
         /\ WithStatus(row, status).questions = row.questions
<1>1. PICK new : new = [status |-> status, paper |-> row.paper, subject |-> row.subject,
                        number |-> row.number, questions |-> row.questions]
  OBVIOUS
<1>2. WithStatus(row, status) = new
  BY <1>1 DEF WithStatus, IsVersion
<1>3. IsVersion(new) /\ new # NoPaper /\ new.questions = row.questions
  BY <1>1 DEF IsVersion, NoPaper
<1> QED
  BY <1>2, <1>3

\* Statuses of some versions change.
LEMMA StatusesChange ==
  ASSUME PapersInv, versions' = [v \in Versions |-> versions'[v]],
         \A v \in Versions :
           \/ versions'[v] = versions[v]
           \/ versions[v] # NoPaper /\ \E status : status # "NONE"
                /\ versions'[v] = WithStatus(versions[v], status)
  PROVE  VersionsStay /\ KeepsVersions
<1>1. ASSUME NEW v \in Versions, versions'[v] # versions[v]
      PROVE  /\ IsVersion(versions'[v]) /\ versions'[v] # NoPaper
             /\ versions'[v].questions = versions[v].questions
  BY <1>1, VersionChanged DEF PapersInv
<1> QED
  BY <1>1 DEF VersionsStay, KeepsVersions

LEMMA NewVersion ==
  ASSUME PapersInv, NEW v \in Versions, versions[v] = NoPaper, NEW row, IsVersion(row),
         row # NoPaper, versions' = [versions EXCEPT ![v] = row]
  PROVE  VersionsStay /\ KeepsVersions
  BY DEF PapersInv, VersionsStay, KeepsVersions

LEMMA SameVersions ==
  ASSUME PapersInv, UNCHANGED versions
  PROVE  VersionsStay /\ KeepsVersions
  BY DEF PapersInv, VersionsStay, KeepsVersions

LEMMA EditorPapers ==
  ASSUME PapersInv, NEW o \in Editors, EditorStep(o, VersionsAnswered)
  PROVE  PapersInv' /\ VersionsStay /\ KeepsVersions
<1>1. CASE \E q \in Papers : BeginArchivePaper(o, q)
  <2>1. PICK q \in Papers : BeginArchivePaper(o, q)
    BY <1>1
  <2>2. PICK retires, row :
          /\ retires = {v \in VersionsOf(q) : versions[v].status = "ACTIVE"}
          /\ row = [pc |-> "archive", paper |-> q, retires |-> retires]
    OBVIOUS
  <2>3. row.pc = "archive" /\ \A v \in row.retires : Exists(v)
    BY <2>2 DEF VersionsOf, Exists
  <2>6. edits' = [edits EXCEPT ![o] = row]
    BY <2>1, <2>2 DEF BeginArchivePaper
  <2>4. VersionsStay /\ KeepsVersions
    BY <2>1, SameVersions DEF BeginArchivePaper
  <2>5. /\ edits' = [a \in Editors |-> edits'[a]] /\ edits'[o] = row
        /\ \A a \in Editors : a # o => edits'[a] = edits[a]
    BY <2>6 DEF PapersInv
  <2> QED
    BY <2>3, <2>4, <2>5, EditsKept
<1>2. CASE \E v \in Versions, questions \in Contents \ {Blank} : AskDraft(o, "replace", v, questions)
  <2>1. PICK v \in Versions, questions \in Contents \ {Blank} : AskDraft(o, "replace", v, questions)
    BY <1>2
  <2>2. PICK row : /\ row.pc = "replace" /\ row.version = v /\ edits' = [edits EXCEPT ![o] = row]
    BY <2>1 DEF AskDraft
  <2>3. Exists(v)
    BY <2>1 DEF AskDraft, Exists, NoPaper
  <2>4. VersionsStay /\ KeepsVersions
    BY <2>1, SameVersions DEF AskDraft
  <2>5. /\ edits' = [a \in Editors |-> edits'[a]] /\ edits'[o] = row
        /\ \A a \in Editors : a # o => edits'[a] = edits[a]
    BY <2>2 DEF PapersInv
  <2> QED
    BY <2>2, <2>3, <2>4, <2>5, EditsKept
<1>3. ASSUME VersionsStay, KeepsVersions, NEW row, row.pc \notin {"replace", "archive"},
             edits' = [edits EXCEPT ![o] = row]
      PROVE  PapersInv' /\ VersionsStay /\ KeepsVersions
  <2>1. /\ edits' = [a \in Editors |-> edits'[a]] /\ edits'[o] = row
        /\ \A a \in Editors : a # o => edits'[a] = edits[a]
    BY <1>3 DEF PapersInv
  <2> QED
    BY <1>3, <2>1, EditsKept
<1>4. CASE \/ \E q \in Papers : AskNewDraft(o, q)
           \/ \E v \in Versions : AskDraft(o, "publish", v, Blank) \/ AskDraft(o, "discard", v, Blank)
           \/ EditFails(o)
  <2>1. UNCHANGED versions
    BY <1>4 DEF AskNewDraft, AskDraft, EditFails
  <2>2. PICK row : row.pc \notin {"replace", "archive"} /\ edits' = [edits EXCEPT ![o] = row]
    BY <1>4 DEF AskNewDraft, AskDraft, EditFails, Resting
  <2> QED
    BY <1>3, <2>1, <2>2, SameVersions
<1>5. Resting.pc \notin {"replace", "archive"}
  BY DEF Resting
<1>6. CASE ArchivePaper(o)
  <2>1. versions' = [v \in Versions |->
          IF v \in edits[o].retires THEN WithStatus(versions[v], "RETIRED")
          ELSE IF v \in VersionsOf(edits[o].paper) /\ versions[v].status = "DRAFT"
          THEN WithStatus(versions[v], "ARCHIVED") ELSE versions[v]]
    BY <1>6 DEF ArchivePaper, WithStatus
  <2>2. \A v \in edits[o].retires : Exists(v)
    BY <1>6 DEF ArchivePaper, PapersInv
  <2>3. \A v \in Versions :
           \/ versions'[v] = versions[v]
           \/ versions[v] # NoPaper /\ \E status : status # "NONE"
                /\ versions'[v] = WithStatus(versions[v], status)
    BY <2>1, <2>2 DEF Exists, VersionsOf
  <2>4. VersionsStay /\ KeepsVersions
    BY <2>1, <2>3, StatusesChange
  <2>5. edits' = [edits EXCEPT ![o] = Resting]
    BY <1>6 DEF ArchivePaper
  <2> QED
    BY <1>3, <1>5, <2>4, <2>5
<1>7. CASE \E v \in Versions : CreateDraft(o, v)
  <2>1. PICK v \in Versions : CreateDraft(o, v)
    BY <1>7
  <2>2. PICK row :
          /\ row = [status |-> "DRAFT", paper |-> edits[o].paper,
                    subject |-> papers[edits[o].paper].subject,
                    number |-> edits[o].number, questions |-> edits[o].questions]
          /\ versions' = [versions EXCEPT ![v] = row] /\ versions[v] = NoPaper
          /\ edits' = [edits EXCEPT ![o] = Resting]
    BY <2>1 DEF CreateDraft
  <2>3. IsVersion(row) /\ row # NoPaper
    BY <2>2 DEF IsVersion, NoPaper
  <2>4. VersionsStay /\ KeepsVersions
    BY <2>2, <2>3, NewVersion
  <2> QED
    BY <1>3, <1>5, <2>2, <2>4
<1>8. CASE edits[o].pc = "replace" /\ edits[o].version \notin VersionsAnswered /\ Replace(o)
  <2>1. PICK v : v = edits[o].version
    OBVIOUS
  <2>2. v \in Versions /\ versions[v] # NoPaper /\ IsVersion(versions[v])
    BY <1>8, <2>1 DEF PapersInv, Exists
  <2>3. PICK row : /\ row = [versions[v] EXCEPT !.questions = edits[o].questions]
                   /\ versions' = [versions EXCEPT ![v] = row]
                   /\ edits' = [edits EXCEPT ![o] = Resting]
    BY <1>8, <2>1 DEF Replace
  <2>4. row = [status |-> versions[v].status, paper |-> versions[v].paper,
               subject |-> versions[v].subject, number |-> versions[v].number,
               questions |-> edits[o].questions]
    BY <2>2, <2>3 DEF IsVersion
  <2>5. IsVersion(row) /\ row # NoPaper
    BY <2>4 DEF IsVersion, NoPaper
  <2>6. /\ versions' = [w \in Versions |-> versions'[w]] /\ versions'[v] = row
        /\ \A w \in Versions : w # v => versions'[w] = versions[w]
    BY <2>2, <2>3 DEF PapersInv
  <2>7. VersionsStay
    BY <2>5, <2>6 DEF VersionsStay
  <2>8. KeepsVersions
    BY <1>8, <2>1, <2>5, <2>6 DEF KeepsVersions
  <2> QED
    BY <1>3, <1>5, <2>3, <2>7, <2>8
<1>9. CASE Publish(o)
  <2>1. PICK v : v = edits[o].version
    OBVIOUS
  <2>2. /\ versions[v].status = "DRAFT"
        /\ versions' = [w \in Versions |->
             IF w = v THEN WithStatus(versions[w], "ACTIVE")
             ELSE IF w \in Published(versions[v].subject)
             THEN WithStatus(versions[w], "RETIRED") ELSE versions[w]]
    BY <1>9, <2>1 DEF Publish, WithStatus
  <2>3. \A w \in Versions : w = v \/ w \in Published(versions[v].subject) => versions[w] # NoPaper
    BY <2>2 DEF Published, NoPaper
  <2>4. \A w \in Versions :
           \/ versions'[w] = versions[w]
           \/ versions[w] # NoPaper /\ \E status : status # "NONE"
                /\ versions'[w] = WithStatus(versions[w], status)
    BY <2>2, <2>3
  <2>5. VersionsStay /\ KeepsVersions
    BY <2>2, <2>4, StatusesChange
  <2>6. edits' = [edits EXCEPT ![o] = Resting]
    BY <1>9 DEF Publish
  <2> QED
    BY <1>3, <1>5, <2>5, <2>6
<1>10. CASE ArchiveDraft(o)
  <2>1. PICK v : v = edits[o].version
    OBVIOUS
  <2>2. edits' = [edits EXCEPT ![o] = Resting]
    BY <1>10 DEF ArchiveDraft
  <2>3. \/ versions' = versions
        \/ /\ versions[v].status = "DRAFT"
           /\ versions' = [versions EXCEPT ![v] = WithStatus(versions[v], "ARCHIVED")]
    BY <1>10, <2>1 DEF ArchiveDraft, WithStatus
  <2>4. /\ versions' = [w \in Versions |-> versions'[w]]
        /\ \A w \in Versions :
           \/ versions'[w] = versions[w]
           \/ versions[w] # NoPaper /\ \E status : status # "NONE"
                /\ versions'[w] = WithStatus(versions[w], status)
    BY <2>3 DEF PapersInv, NoPaper
  <2>5. VersionsStay /\ KeepsVersions
    BY <2>4, StatusesChange
  <2> QED
    BY <1>3, <1>5, <2>2, <2>5
<1> QED
  BY <1>1, <1>2, <1>4, <1>6, <1>7, <1>8, <1>9, <1>10 DEF EditorStep

LEMMA PaperPapers ==
  ASSUME PapersInv, PaperStep
  PROVE  PapersInv' /\ VersionsStay /\ KeepsVersions
<1>1. CASE \E q \in Papers, s \in Subjects, v \in Versions : CreatePaper(q, s, v)
  <2>1. PICK q \in Papers, s \in Subjects, v \in Versions : CreatePaper(q, s, v)
    BY <1>1
  <2>2. PICK row :
          /\ row = [status |-> "DRAFT", paper |-> q, subject |-> s, number |-> 1,
                    questions |-> Blank]
          /\ versions' = [versions EXCEPT ![v] = row] /\ versions[v] = NoPaper
          /\ UNCHANGED edits
    BY <2>1 DEF CreatePaper
  <2>3. IsVersion(row) /\ row # NoPaper
    BY <2>2 DEF IsVersion, NoPaper
  <2>4. VersionsStay /\ KeepsVersions
    BY <2>2, <2>3, NewVersion
  <2>5. edits' = [o \in Editors |-> edits'[o]] /\ \A o \in Editors : edits'[o] = edits[o]
    BY <2>2 DEF PapersInv
  <2> QED
    BY <2>4, <2>5, EditsKept
<1>2. CASE \E o \in Editors : EditorStep(o, VersionsAnswered)
  BY <1>2, EditorPapers
<1>3. CASE CreateConsent
  <2>1. VersionsStay /\ KeepsVersions /\ UNCHANGED edits
    BY <1>3, SameVersions DEF CreateConsent
  <2>2. edits' = [o \in Editors |-> edits'[o]] /\ \A o \in Editors : edits'[o] = edits[o]
    BY <2>1 DEF PapersInv
  <2> QED
    BY <2>1, <2>2, EditsKept
<1> QED
  BY <1>1, <1>2, <1>3 DEF PaperStep

-----------------------------------------------------------------------------
(* Links.  A step changes the row of one ride; what is answered of it stays asked. *)

LEMMA PapersKept ==
  ASSUME PapersInv, UNCHANGED <<versions, edits>>
  PROVE  PapersInv'
  BY DEF PapersInv, Exists

LEMMA AnswersTypedKept ==
  ASSUME AnswersTyped, UNCHANGED <<forms, submissions>>
  PROVE  AnswersTyped'
  BY DEF AnswersTyped

LEMMA RideKept ==
  ASSUME NEW e, UNCHANGED <<collections, handoffs>>, handoffs[e] # NoPaper,
         collections[e].status \in {"FEEDBACK_STARTED", "SUBMITTED"}
  PROVE  KeepsRide(e)
  BY DEF KeepsRide

\* Rides that have answers have a link, and have begun.
LEMMA AnsweredBegan ==
  ASSUME FeedbackInv, NEW e \in Rides, Answered(e) # {}
  PROVE  handoffs[e] # NoPaper /\ collections[e].status \in {"FEEDBACK_STARTED", "SUBMITTED"}
<1>1. PICK c \in FormIds : submissions[c] # NoPaper /\ submissions[c].ride = e
  BY DEF Answered
<1> QED
  BY <1>1 DEF FeedbackInv, AnswersInv, AnswerFits

Fitting(e, col, link) ==
  /\ IsCollection(col) /\ (link = NoPaper \/ IsHandoff(link))
  /\ link # NoPaper => /\ DOMAIN link.versions = col.sections
                       /\ \A k \in DOMAIN link.versions : Exists(link.versions[k])
  /\ col.status = "SUBMITTED" => link # NoPaper
  /\ Answered(e) # {} =>
       /\ link # NoPaper /\ link.versions = handoffs[e].versions
       /\ link.consent = handoffs[e].consent /\ link.multiple = handoffs[e].multiple
       /\ handoffs[e].status = "CONSUMED" => link.status = "CONSUMED"
       /\ col.sections = collections[e].sections
       /\ col.status \in {"FEEDBACK_STARTED", "SUBMITTED"}
       /\ collections[e].status = "SUBMITTED" => col.status = "SUBMITTED"

LEMMA RideChanged ==
  ASSUME FeedbackInv, NEW e \in Rides, NEW col, NEW link, Fitting(e, col, link),
         collections' = [collections EXCEPT ![e] = col],
         handoffs' = [handoffs EXCEPT ![e] = link],
         UNCHANGED <<versions, edits, forms, submissions>>
  PROVE  FeedbackInv'
<1>1. /\ collections' = [x \in Rides |-> collections'[x]] /\ collections'[e] = col
      /\ \A x \in Rides : x # e => collections'[x] = collections[x]
  BY DEF FeedbackInv, LinksTyped
<1>2. /\ handoffs' = [x \in Rides |-> handoffs'[x]] /\ handoffs'[e] = link
      /\ \A x \in Rides : x # e => handoffs'[x] = handoffs[x]
  BY DEF FeedbackInv, LinksTyped
<1>3. PapersInv' /\ AnswersTyped'
  BY PapersKept, AnswersTypedKept DEF FeedbackInv
<1>4. \A x \in Rides : IsCollection(collections'[x]) /\ (handoffs'[x] = NoPaper \/ IsHandoff(handoffs'[x]))
  BY <1>1, <1>2 DEF FeedbackInv, LinksTyped, Fitting
<1>5. LinksTyped'
  BY <1>1, <1>2, <1>4 DEF LinksTyped, IsCollection, IsHandoff
<1>6. ASSUME NEW x \in Rides, handoffs'[x] # NoPaper
      PROVE  Asks(x)'
  <2>1. CASE x = e
    BY <1>1, <1>2, <1>6, <2>1 DEF Asks, Exists, Fitting
  <2>2. CASE x # e
    BY <1>1, <1>2, <1>6, <2>2 DEF Asks, Exists, FeedbackInv, AnswersInv
  <2> QED
    BY <2>1, <2>2
<1>7. \A x \in Rides : collections'[x].status = "SUBMITTED" => handoffs'[x] # NoPaper
  BY <1>1, <1>2 DEF FeedbackInv, AnswersInv, Fitting
<1>8. ASSUME NEW x \in Rides, Answered(x) # {}
      PROVE  KeepsRide(x)
  <2>1. CASE x = e
    BY <1>1, <1>2, <1>8, <2>1 DEF KeepsRide, Fitting
  <2>2. CASE x # e
    <3>1. handoffs[x] # NoPaper /\ collections[x].status \in {"FEEDBACK_STARTED", "SUBMITTED"}
      BY <1>8, AnsweredBegan
    <3> QED
      BY <1>1, <1>2, <2>2, <3>1 DEF KeepsRide
  <2> QED
    BY <2>1, <2>2
<1>9. SameAnswers /\ KeepsVersions
  BY DEF SameAnswers, KeepsAnswer, KeepsVersions
<1>10. \A c \in FormIds : submissions'[c] # NoPaper => AnswerFits(c)'
  BY <1>8, <1>9, AnswersStay
<1>11. AnswersInv'
  BY <1>6, <1>7, <1>10 DEF AnswersInv
<1> QED
  BY <1>3, <1>5, <1>11 DEF FeedbackInv

\* The sections of a ride that has not begun change, and its link goes.
LEMMA ResectionFits ==
  ASSUME FeedbackInv, NEW e \in Rides, NEW secs, Resection(e, secs)
  PROVE  FeedbackInv'
<1>1. PICK col : col = [collections[e] EXCEPT !.sections = secs]
  OBVIOUS
<1>2. IsCollection(collections[e]) /\ collections[e].status = "READY"
  BY DEF Resection, FeedbackInv, LinksTyped
<1>3. col = [status |-> "READY", sections |-> secs]
  BY <1>1, <1>2 DEF IsCollection
<1>4. Answered(e) = {}
  BY <1>2, AnsweredBegan
<1>5. Fitting(e, col, NoPaper)
  BY <1>3, <1>4 DEF Fitting, IsCollection
<1>6. /\ collections' = [collections EXCEPT ![e] = col]
      /\ handoffs' = [handoffs EXCEPT ![e] = NoPaper]
      /\ UNCHANGED <<versions, edits, forms, submissions>>
  BY <1>1 DEF Resection, paperVars
<1> QED
  BY <1>5, <1>6, RideChanged

\* A ride whose collection stays as it is.
LEMMA LinkChanged ==
  ASSUME FeedbackInv, NEW e \in Rides, NEW link, Fitting(e, collections[e], link),
         UNCHANGED collections, handoffs' = [handoffs EXCEPT ![e] = link],
         UNCHANGED <<versions, edits, forms, submissions>>
  PROVE  FeedbackInv'
<1>1. collections' = [collections EXCEPT ![e] = collections[e]]
  BY DEF FeedbackInv, LinksTyped
<1>2. PICK col : col = collections[e]
  OBVIOUS
<1> QED
  BY <1>1, <1>2, RideChanged

\* The link a ride has, open or for another token, asks what it asked.
LEMMA SameQuestionsFit ==
  ASSUME FeedbackInv, NEW e \in Rides, handoffs[e] # NoPaper, NEW token, NEW expired,
         NEW multiple, NEW link,
         link = [status |-> handoffs[e].status, token |-> token, expired |-> expired,
                 multiple |-> multiple, consent |-> handoffs[e].consent,
                 versions |-> handoffs[e].versions],
         collections[e].status # "READY" => multiple = handoffs[e].multiple
  PROVE  Fitting(e, collections[e], link)
<1>1. IsCollection(collections[e]) /\ Asks(e)
  BY DEF FeedbackInv, LinksTyped, AnswersInv
<1>2. IsHandoff(link) /\ link # NoPaper
  BY DEF IsHandoff, NoPaper
<1>3. Answered(e) # {} =>
        collections[e].status \in {"FEEDBACK_STARTED", "SUBMITTED"} /\ multiple = handoffs[e].multiple
  BY AnsweredBegan
<1> QED
  BY <1>1, <1>2, <1>3 DEF Fitting, Asks

LEMMA IssueFits ==
  ASSUME FeedbackInv, NEW e \in Rides, NEW multiple, Issue(e, multiple)
  PROVE  FeedbackInv'
<1>1. /\ UNCHANGED collections /\ UNCHANGED <<versions, edits, forms, submissions>>
      /\ collections[e].status \in {"READY", "FEEDBACK_STARTED"}
      /\ handoffs[e] # NoPaper /\ collections[e].status # "READY" => multiple = handoffs[e].multiple
  BY DEF Issue, ModeAllowed, paperVars
<1>2. handoffs[e] # NoPaper => IsHandoff(handoffs[e])
  BY DEF FeedbackInv, LinksTyped
<1>3. CASE handoffs[e] # NoPaper /\ handoffs' = [handoffs EXCEPT ![e].multiple = multiple]
  <2>1. PICK link : link = [handoffs[e] EXCEPT !.multiple = multiple]
    OBVIOUS
  <2>2. link = [status |-> handoffs[e].status, token |-> handoffs[e].token,
                expired |-> handoffs[e].expired, multiple |-> multiple,
                consent |-> handoffs[e].consent, versions |-> handoffs[e].versions]
    BY <1>2, <1>3, <2>1 DEF IsHandoff
  <2>3. Fitting(e, collections[e], link)
    BY <1>1, <1>3, <2>2, SameQuestionsFit
  <2> QED
    BY <1>1, <1>3, <2>1, <2>3, LinkChanged
<1>4. CASE /\ Renews(e)
           /\ handoffs' = [handoffs EXCEPT ![e].token = tokens + 1, ![e].expired = FALSE]
  <2>1. handoffs[e] # NoPaper /\ collections[e].status = "FEEDBACK_STARTED"
    BY <1>4 DEF Renews
  <2>2. PICK link : link = [handoffs[e] EXCEPT !.token = tokens + 1, !.expired = FALSE]
    OBVIOUS
  <2>3. link = [status |-> handoffs[e].status, token |-> tokens + 1, expired |-> FALSE,
                multiple |-> handoffs[e].multiple, consent |-> handoffs[e].consent,
                versions |-> handoffs[e].versions]
    BY <1>2, <2>1, <2>2 DEF IsHandoff
  <2>4. handoffs' = [handoffs EXCEPT ![e] = link]
    BY <1>4, <2>2 DEF FeedbackInv, LinksTyped
  <2>5. Fitting(e, collections[e], link)
    BY <2>1, <2>3, SameQuestionsFit
  <2> QED
    BY <1>1, <2>4, <2>5, LinkChanged
<1>5. CASE /\ ~ Renews(e)
           /\ \A s \in collections[e].sections : Published(s) # {}
           /\ handoffs' = [handoffs EXCEPT ![e] =
                [status |-> "OPEN", token |-> tokens + 1, expired |-> FALSE,
                 multiple |-> multiple, consent |-> consent,
                 versions |-> [s \in collections[e].sections |-> CHOOSE v \in Published(s) : TRUE]]]
  <2>1. PICK asked : asked = [s \in collections[e].sections |-> CHOOSE v \in Published(s) : TRUE]
    OBVIOUS
  <2>2. PICK link : link = [status |-> "OPEN", token |-> tokens + 1, expired |-> FALSE,
                            multiple |-> multiple, consent |-> consent, versions |-> asked]
    OBVIOUS
  <2>3. handoffs' = [handoffs EXCEPT ![e] = link]
    BY <1>5, <2>1, <2>2
  <2>4. DOMAIN link.versions = collections[e].sections
    BY <2>1, <2>2
  <2>5. ASSUME NEW k \in collections[e].sections
        PROVE  Exists(link.versions[k])
    <3>1. link.versions[k] = CHOOSE v \in Published(k) : TRUE
      BY <2>1, <2>2
    <3>2. link.versions[k] \in Published(k)
      BY <1>5, <3>1
    <3> QED
      BY <3>2 DEF Published, Exists, NoPaper
  <2>6. IsHandoff(link) /\ link # NoPaper /\ IsCollection(collections[e])
    BY <2>2 DEF IsHandoff, NoPaper, FeedbackInv, LinksTyped
  <2>7. Answered(e) = {}
    <3>1. ~ Renews(e) /\ collections[e].status # "SUBMITTED"
      BY <1>1, <1>5
    <3>2. Answered(e) # {} => Renews(e)
      BY <3>1, AnsweredBegan DEF Renews
    <3> QED
      BY <3>1, <3>2
  <2>8. Fitting(e, collections[e], link)
    BY <2>4, <2>5, <2>6, <2>7 DEF Fitting
  <2> QED
    BY <1>1, <2>3, <2>8, LinkChanged
<1> QED
  BY <1>3, <1>4, <1>5 DEF Issue

LEMMA OverFits ==
  ASSUME FeedbackInv, NEW e \in Rides, LinkIsOver(e)
  PROVE  FeedbackInv'
<1>1. /\ UNCHANGED collections /\ UNCHANGED <<versions, edits, forms, submissions>>
      /\ handoffs[e] # NoPaper /\ IsHandoff(handoffs[e])
  BY DEF LinkIsOver, paperVars, FeedbackInv, LinksTyped
<1>2. PICK link : link = [handoffs[e] EXCEPT !.expired = TRUE]
  OBVIOUS
<1>3. link = [status |-> handoffs[e].status, token |-> handoffs[e].token,
              expired |-> TRUE, multiple |-> handoffs[e].multiple,
              consent |-> handoffs[e].consent, versions |-> handoffs[e].versions]
  BY <1>1, <1>2 DEF IsHandoff
<1>4. Fitting(e, collections[e], link)
  BY <1>1, <1>3, SameQuestionsFit
<1>5. handoffs' = [handoffs EXCEPT ![e] = link]
  BY <1>2 DEF LinkIsOver
<1> QED
  BY <1>1, <1>4, <1>5, LinkChanged

LEMMA BeginFits ==
  ASSUME FeedbackInv, NEW e \in Rides, Begin(e)
  PROVE  FeedbackInv'
<1>1. /\ handoffs[e] # NoPaper /\ IsHandoff(handoffs[e]) /\ Asks(e)
      /\ IsCollection(collections[e]) /\ collections[e].status = "READY"
  BY DEF Begin, FeedbackInv, LinksTyped, AnswersInv
<1>2. PICK col : col = [collections[e] EXCEPT !.status = "FEEDBACK_STARTED"]
  OBVIOUS
<1>3. col = [status |-> "FEEDBACK_STARTED", sections |-> collections[e].sections]
  BY <1>1, <1>2 DEF IsCollection
<1>4. PICK link : link = handoffs[e]
  OBVIOUS
<1>5. Fitting(e, col, link)
  BY <1>1, <1>3, <1>4, AnsweredBegan DEF Fitting, IsCollection, Asks
<1>6. /\ collections' = [collections EXCEPT ![e] = col]
      /\ handoffs' = [handoffs EXCEPT ![e] = link]
      /\ UNCHANGED <<versions, edits, forms, submissions>>
  BY <1>2, <1>4 DEF Begin, paperVars, FeedbackInv, LinksTyped
<1> QED
  BY <1>5, <1>6, RideChanged

LEMMA CloseFits ==
  ASSUME FeedbackInv, NEW e \in Rides, Close(e)
  PROVE  FeedbackInv'
<1>1. handoffs[e] # NoPaper /\ IsCollection(collections[e])
  BY DEF Close, NoPaper, FeedbackInv, LinksTyped
<1>2. IsHandoff(handoffs[e]) /\ Asks(e)
  BY <1>1 DEF FeedbackInv, LinksTyped, AnswersInv
<1>3. PICK col, link : /\ col = [collections[e] EXCEPT !.status = "SUBMITTED"]
                       /\ link = [handoffs[e] EXCEPT !.status = "CONSUMED"]
  OBVIOUS
<1>4. col = [status |-> "SUBMITTED", sections |-> collections[e].sections]
  BY <1>1, <1>3 DEF IsCollection
<1>5. link = [status |-> "CONSUMED", token |-> handoffs[e].token,
              expired |-> handoffs[e].expired, multiple |-> handoffs[e].multiple,
              consent |-> handoffs[e].consent, versions |-> handoffs[e].versions]
  BY <1>2, <1>3 DEF IsHandoff
<1>6. IsCollection(col) /\ IsHandoff(link) /\ link # NoPaper
  BY <1>4, <1>5 DEF IsCollection, IsHandoff, NoPaper
<1>7. Fitting(e, col, link)
  BY <1>2, <1>4, <1>5, <1>6 DEF Fitting, Asks
<1>8. /\ collections' = [collections EXCEPT ![e] = col]
      /\ handoffs' = [handoffs EXCEPT ![e] = link]
      /\ UNCHANGED <<versions, edits, forms, submissions>>
  BY <1>3 DEF Close, paperVars
<1> QED
  BY <1>7, <1>8, RideChanged

LEMMA LinkStepFits ==
  ASSUME FeedbackInv, NEW e \in Rides, LinkStep(e)
  PROVE  FeedbackInv'
  BY ResectionFits, IssueFits, OverFits, BeginFits, CloseFits DEF LinkStep

-----------------------------------------------------------------------------
(* Questionnaires change while rides are answered, and guests answer *)

LEMMA SameRidesKept ==
  ASSUME FeedbackInv, UNCHANGED <<collections, handoffs>>
  PROVE  /\ \A e \in Rides : Answered(e) # {} => KeepsRide(e)
         /\ LinksTyped'
         /\ \A e \in Rides : collections'[e].status = "SUBMITTED" => handoffs'[e] # NoPaper
<1>1. \A e \in Rides : Answered(e) # {} => KeepsRide(e)
  BY AnsweredBegan, RideKept
<1> QED
  BY <1>1 DEF FeedbackInv, LinksTyped, AnswersInv

LEMMA PaperFits ==
  ASSUME FeedbackInv, PaperStep
  PROVE  FeedbackInv'
<1>1. PapersInv' /\ VersionsStay /\ KeepsVersions
  BY PaperPapers DEF FeedbackInv
<1>2. UNCHANGED <<collections, handoffs, forms, submissions>>
  BY DEF PaperStep, linkVars
<1>3. AnswersTyped'
  BY <1>2, AnswersTypedKept DEF FeedbackInv
<1>4. ASSUME NEW e \in Rides, handoffs'[e] # NoPaper
      PROVE  Asks(e)'
  <2>1. Asks(e)
    BY <1>2, <1>4 DEF FeedbackInv, AnswersInv
  <2>2. ASSUME NEW k \in DOMAIN handoffs[e].versions
        PROVE  Exists(handoffs[e].versions[k])'
    <3>1. PICK v : v = handoffs[e].versions[k]
      OBVIOUS
    <3>2. Exists(v)
      BY <2>1, <3>1 DEF Asks
    <3>3. v \in Versions /\ versions'[v] # NoPaper
      BY <1>1, <3>2, ExistsStays DEF Exists
    <3>4. handoffs'[e].versions[k] = v
      BY <1>2, <3>1
    <3> QED
      BY <3>1, <3>3, <3>4, <1>2 DEF Exists
  <2>3. DOMAIN handoffs'[e].versions = collections'[e].sections
    BY <1>2, <2>1 DEF Asks
  <2>4. \A k \in DOMAIN handoffs'[e].versions :
          handoffs'[e].versions[k] \in Versions /\ versions'[handoffs'[e].versions[k]] # NoPaper
    BY <1>2, <2>2 DEF Exists
  <2> QED
    BY <2>3, <2>4 DEF Asks, Exists
<1>5. SameAnswers
  BY <1>2 DEF SameAnswers, KeepsAnswer
<1>6. /\ LinksTyped' /\ \A e \in Rides : Answered(e) # {} => KeepsRide(e)
      /\ \A e \in Rides : collections'[e].status = "SUBMITTED" => handoffs'[e] # NoPaper
  BY <1>2, SameRidesKept
<1>7. \A c \in FormIds : submissions'[c] # NoPaper => AnswerFits(c)'
  BY <1>1, <1>5, <1>6, AnswersStay
<1>8. AnswersInv'
  BY <1>4, <1>6, <1>7 DEF AnswersInv
<1> QED
  BY <1>1, <1>3, <1>6, <1>8 DEF FeedbackInv

\* Versions and links as they are, and answers with at most another status.
LEMMA AnswersKept ==
  ASSUME FeedbackInv, UNCHANGED <<versions, edits, collections, handoffs>>, AnswersTyped',
         SameAnswers
  PROVE  FeedbackInv'
<1>1. PapersInv'
  BY PapersKept DEF FeedbackInv
<1>2. KeepsVersions
  BY DEF KeepsVersions
<1>3. /\ LinksTyped' /\ \A e \in Rides : Answered(e) # {} => KeepsRide(e)
      /\ \A e \in Rides : collections'[e].status = "SUBMITTED" => handoffs'[e] # NoPaper
  BY SameRidesKept
<1>4. \A c \in FormIds : submissions'[c] # NoPaper => AnswerFits(c)'
  BY <1>2, <1>3, AnswersStay
<1>5. \A e \in Rides : handoffs'[e] # NoPaper => Asks(e)'
  BY DEF FeedbackInv, AnswersInv, Asks, Exists
<1>6. AnswersInv'
  BY <1>3, <1>4, <1>5 DEF AnswersInv
<1> QED
  BY <1>1, <1>3, <1>6 DEF FeedbackInv

LEMMA SameAnswersIfUnchanged ==
  ASSUME UNCHANGED submissions
  PROVE  SameAnswers
  BY DEF SameAnswers, KeepsAnswer

LEMMA FillFits ==
  ASSUME FeedbackInv, NEW g \in Guests, NEW e \in Rides, NEW c \in FormIds,
         NEW p \in Pictures \cup {NoPicture},
         NEW answers \in SUBSET Subjects, Fill(g, e, c, p, answers)
  PROVE  FeedbackInv'
<1>1. PICK form : /\ form.ride = e /\ form.id = c /\ form.picture = p
                  /\ forms' = [forms EXCEPT ![g] = form]
  BY DEF Fill
<1>2. UNCHANGED <<versions, edits, collections, handoffs, submissions>>
  BY DEF Fill, paperVars, linkVars
<1>3. /\ forms' = [x \in Guests |-> forms'[x]] /\ forms'[g] = form
      /\ \A x \in Guests : x # g => forms'[x] = forms[x]
  BY <1>1 DEF FeedbackInv, AnswersTyped
<1>4. \A x \in Guests : forms'[x].pc = "filled" =>
        /\ forms'[x].ride \in Rides /\ forms'[x].id \in FormIds
        /\ forms'[x].picture \in Pictures \cup {NoPicture}
  BY <1>1, <1>3 DEF FeedbackInv, AnswersTyped
<1>5. AnswersTyped'
  BY <1>2, <1>3, <1>4 DEF FeedbackInv, AnswersTyped
<1> QED
  BY <1>2, <1>5, SameAnswersIfUnchanged, AnswersKept

LEMMA DiscardFits ==
  ASSUME FeedbackInv, NEW g \in Guests, Discard(g)
  PROVE  FeedbackInv'
<1>1. UNCHANGED <<versions, edits, collections, handoffs, submissions>>
  BY DEF Discard, paperVars, linkVars
<1>2. /\ forms' = [x \in Guests |-> forms'[x]] /\ forms'[g] = Resting
      /\ \A x \in Guests : x # g => forms'[x] = forms[x]
  BY DEF Discard, FeedbackInv, AnswersTyped
<1>3. AnswersTyped'
  BY <1>1, <1>2 DEF FeedbackInv, AnswersTyped, Resting
<1> QED
  BY <1>1, <1>3, SameAnswersIfUnchanged, AnswersKept

LEMMA ReviewFits ==
  ASSUME FeedbackInv, NEW c \in FormIds, NEW state \in {"NORMAL", "FLAGGED", "ARCHIVED"},
         Review(c, state)
  PROVE  FeedbackInv' /\ SameAnswers
<1>1. UNCHANGED <<versions, edits, collections, handoffs, forms>>
  BY DEF Review, paperVars, linkVars
<1>2. PICK row : row = [submissions[c] EXCEPT !.status = state]
  OBVIOUS
<1>3. submissions[c] # NoPaper /\ IsSubmission(submissions[c]) /\ submissions[c].ride \in Rides
  BY DEF Review, FeedbackInv, AnswersTyped
<1>4. row = [status |-> state, ride |-> submissions[c].ride, guest |-> submissions[c].guest,
             multiple |-> submissions[c].multiple, consent |-> submissions[c].consent,
             versions |-> submissions[c].versions, questions |-> submissions[c].questions,
             answered |-> submissions[c].answered, picture |-> submissions[c].picture]
  BY <1>2, <1>3 DEF IsSubmission
<1>5. IsSubmission(row) /\ row # NoPaper
  BY <1>4 DEF IsSubmission, NoPaper
<1>6. /\ submissions' = [x \in FormIds |-> submissions'[x]] /\ submissions'[c] = row
      /\ \A x \in FormIds : x # c => submissions'[x] = submissions[x]
  BY <1>2 DEF Review, FeedbackInv, AnswersTyped
<1>7. SameAnswers
  BY <1>3, <1>4, <1>5, <1>6 DEF SameAnswers, KeepsAnswer
<1>8. \A x \in FormIds : submissions'[x] # NoPaper =>
        IsSubmission(submissions'[x]) /\ submissions'[x].ride \in Rides
  BY <1>3, <1>4, <1>5, <1>6 DEF FeedbackInv, AnswersTyped
<1>9. AnswersTyped'
  BY <1>1, <1>6, <1>8, SMTT(30) DEF FeedbackInv, AnswersTyped, IsSubmission
<1> QED
  BY <1>1, <1>7, <1>9, AnswersKept

-----------------------------------------------------------------------------
(* A new answer *)

LEMMA PostRow ==
  ASSUME FeedbackInv, NEW g \in Guests, Post(g), NEW e, NEW c, e = forms[g].ride, c = forms[g].id
  PROVE  /\ e \in Rides /\ c \in FormIds /\ submissions[c] = NoPaper
         /\ handoffs[e] # NoPaper /\ IsHandoff(handoffs[e]) /\ handoffs[e].status = "OPEN"
         /\ handoffs[e].token = forms[g].token /\ ~ handoffs[e].expired
         /\ collections[e].status = "FEEDBACK_STARTED" /\ IsCollection(collections[e]) /\ Asks(e)
         /\ MayAnswer(e, g)
         /\ forms[g].questions =
              [s \in DOMAIN handoffs[e].versions |-> versions[handoffs[e].versions[s]].questions]
         /\ forms[g].answers \subseteq DOMAIN handoffs[e].versions
<1>1. e \in Rides /\ c \in FormIds
  BY DEF Post, FeedbackInv, AnswersTyped
<1>2. handoffs[e] # NoPaper /\ collections[e].status = "FEEDBACK_STARTED"
  BY DEF Post, LinkHolds
<1>3. IsHandoff(handoffs[e]) /\ IsCollection(collections[e]) /\ Asks(e)
  BY <1>1, <1>2 DEF FeedbackInv, LinksTyped, AnswersInv
<1>4. /\ handoffs[e].status = "OPEN" /\ submissions[c] = NoPaper
      /\ handoffs[e].token = forms[g].token /\ ~ handoffs[e].expired
  BY ZenonT(40) DEF Post, LinkHolds
<1>5. MayAnswer(e, g)
  BY ZenonT(40) DEF Post
<1>6. /\ forms[g].questions =
           [s \in DOMAIN handoffs[e].versions |-> versions[handoffs[e].versions[s]].questions]
      /\ forms[g].answers \subseteq DOMAIN handoffs[e].versions
  BY DEF Post
<1> QED
  BY <1>1, <1>2, <1>3, <1>4, <1>5, <1>6

LEMMA PostAdds ==
  ASSUME FeedbackInv, NEW g \in Guests, Post(g), NEW e, NEW c, e = forms[g].ride, c = forms[g].id
  PROVE  /\ submissions' = [x \in FormIds |-> submissions'[x]]
         /\ \A x \in FormIds : x # c => submissions'[x] = submissions[x]
         /\ IsSubmission(submissions'[c]) /\ submissions'[c] # NoPaper
         /\ submissions'[c].ride = e /\ submissions'[c].guest = g
         /\ submissions'[c].multiple = handoffs[e].multiple
         /\ submissions'[c].consent = handoffs[e].consent
         /\ submissions'[c].versions = handoffs[e].versions
         /\ submissions'[c].questions = forms[g].questions
         /\ submissions'[c].answered = forms[g].answers
         /\ submissions'[c].picture = forms[g].picture
<1>1. PICK row :
        row = [status |-> "NORMAL", ride |-> e, guest |-> g, multiple |-> handoffs[e].multiple,
               consent |-> handoffs[e].consent, versions |-> handoffs[e].versions,
               questions |-> forms[g].questions, answered |-> forms[g].answers,
               picture |-> forms[g].picture]
  OBVIOUS
<1>2. submissions' = [submissions EXCEPT ![c] = row]
  BY <1>1 DEF Post
<1>3. c \in FormIds
  BY DEF Post, FeedbackInv, AnswersTyped
<1>4. /\ submissions' = [x \in FormIds |-> submissions'[x]] /\ submissions'[c] = row
      /\ \A x \in FormIds : x # c => submissions'[x] = submissions[x]
  BY <1>2, <1>3 DEF FeedbackInv, AnswersTyped
<1>5. IsSubmission(row) /\ row # NoPaper
  BY <1>1 DEF IsSubmission, NoPaper
<1> QED
  BY <1>1, <1>4, <1>5

\* The rows of links and collections after Post, all of them.
LEMMA PostRides ==
  ASSUME FeedbackInv, NEW g \in Guests, Post(g), NEW e, e = forms[g].ride
  PROVE  /\ LinksTyped'
         /\ \A x \in Rides : x # e => handoffs'[x] = handoffs[x] /\ collections'[x] = collections[x]
         /\ collections'[e].sections = collections[e].sections
         /\ handoffs'[e] # NoPaper /\ handoffs'[e].versions = handoffs[e].versions
         /\ handoffs'[e].consent = handoffs[e].consent
         /\ handoffs'[e].multiple = handoffs[e].multiple
         /\ IF handoffs[e].multiple
            THEN handoffs'[e] = handoffs[e] /\ collections'[e] = collections[e]
            ELSE handoffs'[e].status = "CONSUMED" /\ collections'[e].status = "SUBMITTED"
<1>1. /\ e \in Rides /\ handoffs[e] # NoPaper /\ IsHandoff(handoffs[e])
      /\ IsCollection(collections[e])
  <2>1. PICK c : c = forms[g].id
    OBVIOUS
  <2> QED
    BY <2>1, PostRow
<1>2. CASE handoffs[e].multiple
  <2>1. UNCHANGED <<collections, handoffs>>
    BY <1>2 DEF Post
  <2> QED
    BY <1>1, <1>2, <2>1 DEF FeedbackInv, LinksTyped
<1>3. CASE ~ handoffs[e].multiple
  <2>1. PICK col, link : /\ col = [collections[e] EXCEPT !.status = "SUBMITTED"]
                         /\ link = [handoffs[e] EXCEPT !.status = "CONSUMED"]
    OBVIOUS
  <2>2. col = [status |-> "SUBMITTED", sections |-> collections[e].sections]
    BY <1>1, <2>1 DEF IsCollection
  <2>3. link = [status |-> "CONSUMED", token |-> handoffs[e].token,
                expired |-> handoffs[e].expired, multiple |-> handoffs[e].multiple,
                consent |-> handoffs[e].consent, versions |-> handoffs[e].versions]
    BY <1>1, <2>1 DEF IsHandoff
  <2>4. /\ collections' = [collections EXCEPT ![e] = col]
        /\ handoffs' = [handoffs EXCEPT ![e] = link]
    BY <1>3, <2>1 DEF Post
  <2>5. /\ collections' = [x \in Rides |-> collections'[x]] /\ collections'[e] = col
        /\ handoffs' = [x \in Rides |-> handoffs'[x]] /\ handoffs'[e] = link
        /\ \A x \in Rides : x # e => handoffs'[x] = handoffs[x] /\ collections'[x] = collections[x]
    BY <1>1, <2>4 DEF FeedbackInv, LinksTyped
  <2>6. IsCollection(col) /\ IsHandoff(link) /\ link # NoPaper
    BY <2>2, <2>3 DEF IsCollection, IsHandoff, NoPaper
  <2>7. \A x \in Rides : IsCollection(collections'[x]) /\ (handoffs'[x] = NoPaper \/ IsHandoff(handoffs'[x]))
    BY <2>5, <2>6 DEF FeedbackInv, LinksTyped
  <2>8. LinksTyped'
    BY <2>5, <2>7 DEF LinksTyped, IsCollection, IsHandoff
  <2> QED
    BY <1>3, <2>2, <2>3, <2>5, <2>6, <2>8
<1> QED
  BY <1>2, <1>3

LEMMA PostFits ==
  ASSUME FeedbackInv, NEW g \in Guests, Post(g)
  PROVE  FeedbackInv'
<1>1. PICK e, c, h : e = forms[g].ride /\ c = forms[g].id /\ h = handoffs[e]
  OBVIOUS
<1>2. PICK row :
        /\ IsSubmission(row) /\ row # NoPaper /\ row.ride = e /\ row.guest = g
        /\ row.multiple = h.multiple /\ row.consent = h.consent /\ row.versions = h.versions
        /\ row.questions = forms[g].questions /\ row.answered = forms[g].answers
        /\ submissions'[c] = row
  BY <1>1, PostAdds
<1>3. /\ e \in Rides /\ c \in FormIds /\ submissions[c] = NoPaper /\ h # NoPaper /\ h.status = "OPEN"
      /\ collections[e].status = "FEEDBACK_STARTED" /\ Asks(e) /\ MayAnswer(e, g)
      /\ forms[g].questions = [s \in DOMAIN h.versions |-> versions[h.versions[s]].questions]
      /\ forms[g].answers \subseteq DOMAIN h.versions
  BY <1>1, PostRow
<1>4. /\ LinksTyped'
      /\ \A x \in Rides : x # e => handoffs'[x] = handoffs[x] /\ collections'[x] = collections[x]
      /\ collections'[e].sections = collections[e].sections
      /\ handoffs'[e] # NoPaper /\ handoffs'[e].versions = h.versions
      /\ handoffs'[e].consent = h.consent /\ handoffs'[e].multiple = h.multiple
      /\ IF h.multiple THEN handoffs'[e] = h /\ collections'[e] = collections[e]
         ELSE handoffs'[e].status = "CONSUMED" /\ collections'[e].status = "SUBMITTED"
  BY <1>1, PostRides
<1>5. UNCHANGED <<versions, edits>> /\ forms' \in {forms, [forms EXCEPT ![g] = Resting]}
  BY DEF Post, paperVars
<1>6. PapersInv'
  BY <1>5, PapersKept DEF FeedbackInv
<1>7. /\ submissions' = [x \in FormIds |-> submissions'[x]] /\ submissions'[c] = row
      /\ \A x \in FormIds : x # c => submissions'[x] = submissions[x]
  BY <1>1, <1>2, PostAdds
<1>9. /\ forms' = [x \in Guests |-> forms'[x]]
      /\ \A x \in Guests : forms'[x] = forms[x] \/ forms'[x].pc # "filled"
  BY <1>5 DEF FeedbackInv, AnswersTyped, Resting
<1>10. AnswersTyped'
  <2>1. \A x \in Guests : forms'[x].pc = "filled" =>
          /\ forms'[x].ride \in Rides /\ forms'[x].id \in FormIds
          /\ forms'[x].picture \in Pictures \cup {NoPicture}
    BY <1>9 DEF FeedbackInv, AnswersTyped
  <2>2. \A x \in FormIds : submissions'[x] # NoPaper =>
          IsSubmission(submissions'[x]) /\ submissions'[x].ride \in Rides
    BY <1>2, <1>3, <1>7 DEF FeedbackInv, AnswersTyped
  <2> QED
    BY <1>7, <1>9, <2>1, <2>2 DEF AnswersTyped, IsSubmission
<1>11. /\ Answered(e)' = Answered(e) \cup {c} /\ c \notin Answered(e)
       /\ \A x : x # e => Answered(x)' = Answered(x)
  BY <1>2, <1>3, <1>7 DEF Answered
<1>12. ASSUME NEW x \in Rides, handoffs'[x] # NoPaper
       PROVE  Asks(x)'
  <2>1. CASE x = e
    <3>1. DOMAIN handoffs[e].versions = collections[e].sections
      BY <1>3 DEF Asks
    <3>2. \A k \in DOMAIN handoffs[e].versions : Exists(handoffs[e].versions[k])
      BY <1>3 DEF Asks
    <3>3. /\ handoffs'[e].versions = handoffs[e].versions
          /\ collections'[e].sections = collections[e].sections
      BY <1>1, <1>4
    <3> QED
      BY <1>5, <2>1, <3>1, <3>2, <3>3 DEF Asks, Exists
  <2>2. CASE x # e
    BY <1>4, <1>5, <1>12, <2>2 DEF Asks, Exists, FeedbackInv, AnswersInv
  <2> QED
    BY <2>1, <2>2
<1>13. \A x \in Rides : collections'[x].status = "SUBMITTED" => handoffs'[x] # NoPaper
  BY <1>4 DEF FeedbackInv, AnswersInv
<1>14. AnswerFits(c)'
  <2>1. /\ submissions'[c].ride = e /\ submissions'[c].versions = h.versions
        /\ submissions'[c].consent = h.consent /\ submissions'[c].multiple = h.multiple
        /\ submissions'[c].questions = forms[g].questions /\ submissions'[c].guest = g
        /\ submissions'[c].answered = forms[g].answers
    BY <1>2, <1>7
  <2>2. /\ submissions'[c].answered \subseteq DOMAIN submissions'[c].versions
        /\ \A k \in submissions'[c].answered :
             submissions'[c].questions[k] = versions'[submissions'[c].versions[k]].questions
    BY <1>3, <1>5, <2>1
  <2>3. collections'[e].status \in {"FEEDBACK_STARTED", "SUBMITTED"}
    BY <1>3, <1>4
  <2>4. ASSUME h.multiple, NEW d \in Answered(e)' \ {c}
        PROVE  submissions'[d].guest # g
    <3>1. d \in Answered(e) /\ d \in FormIds /\ d # c
      BY <1>11, <2>4, SMTT(30) DEF Answered
    <3>2. submissions[d].guest # g
      BY <1>1, <1>3, <2>4, <3>1, SMTT(30) DEF MayAnswer
    <3> QED
      BY <1>7, <3>1, <3>2
  <2>5. ~ h.multiple => Answered(e)' = {c}
    BY <1>1, <1>3, <1>11 DEF MayAnswer
  <2>6. Answered(submissions[c].ride)' = Answered(e)'
    BY <2>1 DEF Answered
  <2> QED
    BY <1>4, <2>1, <2>2, <2>3, <2>4, <2>5, <2>6 DEF AnswerFits
<1>15. ASSUME NEW x \in FormIds, x # c, submissions'[x] # NoPaper
       PROVE  AnswerFits(x)'
  <2>1. submissions'[x] = submissions[x] /\ submissions[x] # NoPaper /\ AnswerFits(x)
    BY <1>7, <1>15 DEF FeedbackInv, AnswersInv
  <2>2. PICK r \in Rides : r = submissions[x].ride
    BY <2>1 DEF FeedbackInv, AnswersTyped
  <2>3. Answered(submissions[x].ride)' = Answered(r)'
    BY <2>1, <2>2 DEF Answered
  <2>4. \A d \in Answered(r) : submissions'[d] = submissions[d]
    BY <1>3, <1>7 DEF Answered
  <2>5. CASE r # e
    <3>1. Answered(r)' = Answered(r)
      BY <1>11, <2>5
    <3>2. handoffs'[r] = handoffs[r] /\ collections'[r] = collections[r]
      BY <1>4, <2>5
    <3> QED
      BY <1>5, <2>1, <2>2, <2>3, <2>4, <3>1, <3>2 DEF AnswerFits
  <2>6. CASE r = e
    <3>1. x \in Answered(e)
      BY <2>1, <2>2, <2>6 DEF Answered
    <3>2. h.multiple /\ handoffs'[e] = h /\ collections'[e] = collections[e]
      BY <1>1, <1>3, <1>4, <3>1 DEF MayAnswer
    <3>3. submissions[x].multiple = h.multiple /\ submissions[x].guest # g
      BY <1>1, <1>3, <2>1, <2>2, <2>6, <3>1, <3>2 DEF MayAnswer, AnswerFits
    <3>4. \A d \in Answered(e)' \ {x} : submissions'[d].guest # submissions[x].guest
      BY <1>2, <1>7, <1>11, <2>1, <2>2, <2>4, <2>6, <3>2, <3>3 DEF AnswerFits
    <3>5. /\ handoffs[e] # NoPaper
          /\ collections[e].status \in {"FEEDBACK_STARTED", "SUBMITTED"}
          /\ submissions[x].versions = h.versions /\ submissions[x].consent = h.consent
          /\ submissions[x].answered \subseteq DOMAIN submissions[x].versions
          /\ \A k \in submissions[x].answered :
               submissions[x].questions[k] = versions[submissions[x].versions[k]].questions
      BY <1>1, <2>1, <2>2, <2>6 DEF AnswerFits
    <3>6. Answered(submissions[x].ride)' = Answered(e)'
      BY <2>3, <2>6
    <3>7. submissions'[x].ride = e /\ submissions'[x] = submissions[x] /\ versions' = versions
      BY <1>5, <2>1, <2>2, <2>6
    <3> QED
      BY <1>1, <3>2, <3>3, <3>4, <3>5, <3>6, <3>7 DEF AnswerFits
  <2> QED
    BY <2>5, <2>6
<1>16. AnswersInv'
  BY <1>12, <1>13, <1>14, <1>15 DEF AnswersInv
<1> QED
  BY <1>4, <1>6, <1>10, <1>16 DEF FeedbackInv

LEMMA PicturesFrame ==
  ASSUME FeedbackInv, UNCHANGED pictureFrame
  PROVE  FeedbackInv'
<1>1. UNCHANGED <<versions, edits, collections, handoffs, forms, submissions>>
  BY DEF pictureFrame, paperVars, linkVars
<1> QED
  BY <1>1, AnswersTypedKept, SameAnswersIfUnchanged, AnswersKept DEF FeedbackInv

LEMMA PictureStepFrame ==
  ASSUME \/ \E p \in Pictures : PictureStep(p)
         \/ \E w \in Completers : CompleterStep(w)
         \/ EraseStale \/ DropStale \/ SweeperDies
  PROVE  UNCHANGED pictureFrame
<1>1. ASSUME NEW p \in Pictures, PictureStep(p)
      PROVE  UNCHANGED pictureFrame
  BY <1>1 DEF PictureStep, AddPicture, SendPicture, PictureAges, ClaimStale, SweepUploads
<1>2. ASSUME NEW w \in Completers, CompleterStep(w)
      PROVE  UNCHANGED pictureFrame
  BY <1>2 DEF CompleterStep, Claim, ReadUpload, WriteImage, ClearUpload, StorageFails, Finish,
       Erase, CompleterDies
<1>3. CASE EraseStale \/ DropStale \/ SweeperDies
  BY <1>3 DEF EraseStale, DropStale, SweeperDies
<1> QED
  BY <1>1, <1>2, <1>3

LEMMA FeedbackStep ==
  ASSUME FeedbackInv, [FNext]_fVars
  PROVE  FeedbackInv'
<1>1. CASE PaperStep
  BY <1>1, PaperFits
<1>2. ASSUME NEW e \in Rides, LinkStep(e)
      PROVE  FeedbackInv'
  BY <1>2, LinkStepFits
<1>3. ASSUME NEW g \in Guests, GuestStep(g)
      PROVE  FeedbackInv'
  BY <1>3, FillFits, PostFits, DiscardFits DEF GuestStep
<1>4. ASSUME NEW c \in FormIds, NEW state \in {"NORMAL", "FLAGGED", "ARCHIVED"}, Review(c, state)
      PROVE  FeedbackInv'
  BY <1>4, ReviewFits
<1>5. CASE \/ \E p \in Pictures : PictureStep(p)
           \/ \E w \in Completers : CompleterStep(w)
           \/ EraseStale \/ DropStale \/ SweeperDies
  BY <1>5, PictureStepFrame, PicturesFrame
<1>6. CASE UNCHANGED fVars
  <2>1. UNCHANGED pictureFrame
    BY <1>6 DEF fVars, pictureFrame, paperVars, linkVars
  <2> QED
    BY <2>1, PicturesFrame
<1> QED
  BY <1>1, <1>2, <1>3, <1>4, <1>5, <1>6 DEF FNext

LEMMA FeedbackStart ==
  ASSUME FInit
  PROVE  FeedbackInv
<1>1. PapersInv
  BY DEF FInit, PaperInit, PapersInv, NoPaper, Resting, IsVersion, Exists
<1>2. /\ collections \in [Rides -> {[status |-> "READY", sections |-> Subjects]}]
      /\ handoffs = [e \in Rides |-> NoPaper]
  BY DEF FInit
<1>3. \A e \in Rides : collections[e] = [status |-> "READY", sections |-> Subjects]
  BY <1>2
<1>4. LinksTyped
  BY <1>2, <1>3 DEF LinksTyped, IsCollection
<1>5. AnswersTyped
  BY DEF FInit, AnswersTyped, Resting
<1>6. AnswersInv
  BY <1>2, <1>3 DEF FInit, AnswersInv
<1> QED
  BY <1>1, <1>4, <1>5, <1>6 DEF FeedbackInv

LEMMA FeedbackAlways == FSpec => []FeedbackInv
<1>1. FInit => FeedbackInv
  BY FeedbackStart
<1>2. FeedbackInv /\ [FNext]_fVars => FeedbackInv'
  BY FeedbackStep
<1> QED
  BY <1>1, <1>2, PTL DEF FSpec

\* Every answer of a ride is to the questions of its link, under its consent and in its mode,
\* whatever is published, renewed or asked for again between the answers; one phone answers a
\* group's link once, and an individual's link is used up by its one answer.
THEOREM FeedbackAnsweredAsAsked == FSpec => []AnsweredAsAsked
<1>1. FeedbackInv => AnsweredAsAsked
  <2> SUFFICES ASSUME FeedbackInv PROVE AnsweredAsAsked
    OBVIOUS
  <2>1. ASSUME NEW c \in FormIds, submissions[c] # NoPaper
        PROVE  AnswerFits(c) /\ DOMAIN submissions[c].versions = collections[submissions[c].ride].sections
    <3>1. AnswerFits(c) /\ submissions[c].ride \in Rides
      BY <2>1 DEF FeedbackInv, AnswersInv, AnswersTyped
    <3>2. Asks(submissions[c].ride)
      BY <3>1 DEF FeedbackInv, AnswersInv, AnswerFits
    <3> QED
      BY <3>1, <3>2 DEF Asks, AnswerFits
  <2> QED
    BY <2>1 DEF AnsweredAsAsked, AnswerFits
<1> QED
  BY <1>1, FeedbackAlways, PTL

-----------------------------------------------------------------------------
(* What is over *)

ClosedStays(e) ==
  /\ collections'[e] = collections[e]
  /\ handoffs'[e] = [handoffs[e] EXCEPT !.expired = handoffs'[e].expired]
  /\ Answered(e)' = Answered(e)
ByTheLinkAsItIs ==
  \A g \in Guests, c \in FormIds :
    (submissions[c] = NoPaper /\ submissions'[c] # NoPaper /\ submissions'[c].guest = g) =>
      /\ handoffs[forms[g].ride].token = forms[g].token
      /\ handoffs[forms[g].ride].status = "OPEN" /\ ~ handoffs[forms[g].ride].expired

\* A closed collection has a link, whose row is one.
LEMMA ClosedHasLink ==
  ASSUME FeedbackInv, NEW e \in Rides, collections[e].status = "SUBMITTED"
  PROVE  IsHandoff(handoffs[e])
  BY DEF FeedbackInv, LinksTyped, AnswersInv

LEMMA ExpiryOfHandoff ==
  ASSUME NEW row, IsHandoff(row), NEW new, new = row
  PROVE  new = [row EXCEPT !.expired = new.expired]
  BY DEF IsHandoff

LEMMA NothingAnswered ==
  ASSUME SameAnswers
  PROVE  ByTheLinkAsItIs /\ \A e \in Rides : Answered(e)' = Answered(e)
  BY AnsweredSame DEF SameAnswers, ByTheLinkAsItIs

LEMMA RideUntouched ==
  ASSUME FeedbackInv, NEW e \in Rides, collections[e].status = "SUBMITTED",
         collections'[e] = collections[e], handoffs'[e] = handoffs[e],
         Answered(e)' = Answered(e)
  PROVE  ClosedStays(e)
  BY ClosedHasLink, ExpiryOfHandoff DEF ClosedStays

LEMMA LinkStepCloses ==
  ASSUME FeedbackInv, NEW x \in Rides, LinkStep(x), NEW e \in Rides,
         collections[e].status = "SUBMITTED"
  PROVE  ByTheLinkAsItIs /\ ClosedStays(e)
<1>1. UNCHANGED submissions
  BY DEF LinkStep, Resection, Issue, LinkIsOver, Begin, Close
<1>2. ByTheLinkAsItIs /\ Answered(e)' = Answered(e)
  BY <1>1, SameAnswersIfUnchanged, NothingAnswered
<1>3. CASE x # e
  <2>1. collections'[e] = collections[e] /\ handoffs'[e] = handoffs[e]
    <3>1. ASSUME NEW secs, Resection(x, secs)
          PROVE  collections'[e] = collections[e] /\ handoffs'[e] = handoffs[e]
      BY <1>3, <3>1 DEF Resection, FeedbackInv, LinksTyped
    <3>2. ASSUME NEW multiple, Issue(x, multiple)
          PROVE  collections'[e] = collections[e] /\ handoffs'[e] = handoffs[e]
      BY <1>3, <3>2 DEF Issue, FeedbackInv, LinksTyped
    <3>3. CASE LinkIsOver(x) \/ Begin(x) \/ Close(x)
      BY <1>3, <3>3 DEF LinkIsOver, Begin, Close, FeedbackInv, LinksTyped
    <3> QED
      BY <3>1, <3>2, <3>3 DEF LinkStep
  <2> QED
    BY <1>2, <2>1, RideUntouched
<1>4. CASE x = e
  <2>1. LinkIsOver(e)
    BY <1>4 DEF LinkStep, Resection, Issue, Begin, Close
  <2>2. /\ collections'[e] = collections[e]
        /\ handoffs'[e] = [handoffs[e] EXCEPT !.expired = TRUE]
    BY <2>1 DEF LinkIsOver, FeedbackInv, LinksTyped
  <2>3. IsHandoff(handoffs[e])
    BY ClosedHasLink
  <2>4. handoffs'[e].expired = TRUE
    BY <2>2, <2>3 DEF IsHandoff
  <2> QED
    BY <1>2, <2>2, <2>4 DEF ClosedStays
<1> QED
  BY <1>3, <1>4

LEMMA PostCloses ==
  ASSUME FeedbackInv, NEW g \in Guests, Post(g), NEW x \in Rides,
         collections[x].status = "SUBMITTED"
  PROVE  ByTheLinkAsItIs /\ ClosedStays(x)
<1>1. PICK e, c : e = forms[g].ride /\ c = forms[g].id
  OBVIOUS
<1>3. /\ collections[e].status = "FEEDBACK_STARTED" /\ handoffs[e].status = "OPEN"
      /\ handoffs[e].token = forms[g].token /\ ~ handoffs[e].expired
  BY <1>1, PostRow
<1>4. handoffs'[x] = handoffs[x] /\ collections'[x] = collections[x]
  BY <1>1, <1>3, PostRides
<1>5. /\ submissions'[c].guest = g /\ submissions'[c].ride = e /\ submissions[c] = NoPaper
      /\ \A y \in FormIds : y # c => submissions'[y] = submissions[y]
  <2>1. submissions[c] = NoPaper
    BY <1>1 DEF Post
  <2> QED
    BY <1>1, <2>1, PostAdds
<1>6. Answered(x)' = Answered(x)
  BY <1>3, <1>5 DEF Answered
<1>7. ByTheLinkAsItIs
  BY <1>1, <1>3, <1>5 DEF ByTheLinkAsItIs
<1> QED
  BY <1>4, <1>6, <1>7, RideUntouched

\* PostCloses of a closed ride; there need not be one.
LEMMA PostByTheLink ==
  ASSUME FeedbackInv, NEW g \in Guests, Post(g)
  PROVE  ByTheLinkAsItIs
<1>1. PICK e, c : e = forms[g].ride /\ c = forms[g].id
  OBVIOUS
<1>2. /\ handoffs[e].status = "OPEN" /\ handoffs[e].token = forms[g].token
      /\ ~ handoffs[e].expired
  BY <1>1, PostRow
<1>3. submissions'[c].guest = g /\ \A y \in FormIds : y # c => submissions'[y] = submissions[y]
  BY <1>1, PostAdds
<1> QED
  BY <1>1, <1>2, <1>3 DEF ByTheLinkAsItIs

\* The steps that leave links alone, and answers but for what staff make of them.
LEMMA OtherStepsKeep ==
  ASSUME FeedbackInv,
         \/ PaperStep
         \/ \E g \in Guests : Discard(g)
         \/ \E g \in Guests, e \in Rides, c \in FormIds, p \in Pictures \cup {NoPicture} :
              \E answers \in SUBSET Subjects : Fill(g, e, c, p, answers)
         \/ \E c \in FormIds, state \in {"NORMAL", "FLAGGED", "ARCHIVED"} : Review(c, state)
         \/ UNCHANGED pictureFrame
  PROVE  UNCHANGED <<collections, handoffs>> /\ SameAnswers
<1>1. CASE PaperStep
  BY <1>1, SameAnswersIfUnchanged DEF PaperStep, linkVars
<1>2. ASSUME NEW g \in Guests, Discard(g)
      PROVE  UNCHANGED <<collections, handoffs>> /\ SameAnswers
  BY <1>2, SameAnswersIfUnchanged DEF Discard, linkVars
<1>3. ASSUME NEW g \in Guests, NEW e \in Rides, NEW c \in FormIds,
             NEW p \in Pictures \cup {NoPicture},
         NEW answers \in SUBSET Subjects, Fill(g, e, c, p, answers)
      PROVE  UNCHANGED <<collections, handoffs>> /\ SameAnswers
  BY <1>3, SameAnswersIfUnchanged DEF Fill, linkVars
<1>4. ASSUME NEW c \in FormIds, NEW state \in {"NORMAL", "FLAGGED", "ARCHIVED"}, Review(c, state)
      PROVE  UNCHANGED <<collections, handoffs>> /\ SameAnswers
  BY <1>4, ReviewFits DEF Review, linkVars
<1>5. CASE UNCHANGED pictureFrame
  BY <1>5, SameAnswersIfUnchanged DEF pictureFrame, linkVars
<1> QED
  BY <1>1, <1>2, <1>3, <1>4, <1>5

LEMMA NextCases ==
  ASSUME [FNext]_fVars
  PROVE  \/ \E e \in Rides : LinkStep(e)
         \/ \E g \in Guests : Post(g)
         \/ PaperStep
         \/ \E g \in Guests : Discard(g)
         \/ \E g \in Guests, e \in Rides, c \in FormIds, p \in Pictures \cup {NoPicture} :
              \E answers \in SUBSET Subjects : Fill(g, e, c, p, answers)
         \/ \E c \in FormIds, state \in {"NORMAL", "FLAGGED", "ARCHIVED"} : Review(c, state)
         \/ UNCHANGED pictureFrame
<1>1. UNCHANGED fVars => UNCHANGED pictureFrame
  BY DEF fVars, pictureFrame, paperVars, linkVars
<1> QED
  BY <1>1, PictureStepFrame DEF FNext, GuestStep

\* An answer comes by the link as it is under the lock, never as it was when the guest read the
\* form; after a collection is closed its status, its link but for the expiry, and the answers
\* it has are what they were.
THEOREM FeedbackClosedIsClosed == FSpec => ClosedIsClosed
<1>1. ASSUME FeedbackInv, [FNext]_fVars
      PROVE  ByTheLinkAsItIs /\ \A e \in Rides : collections[e].status = "SUBMITTED" => ClosedStays(e)
  <2>1. ASSUME NEW x \in Rides, LinkStep(x)
        PROVE  ByTheLinkAsItIs /\ \A e \in Rides : collections[e].status = "SUBMITTED" => ClosedStays(e)
    <3>1. UNCHANGED submissions
      BY <2>1 DEF LinkStep, Resection, Issue, LinkIsOver, Begin, Close
    <3> QED
      BY <1>1, <2>1, <3>1, SameAnswersIfUnchanged, NothingAnswered, LinkStepCloses
  <2>2. ASSUME NEW g \in Guests, Post(g)
        PROVE  ByTheLinkAsItIs /\ \A e \in Rides : collections[e].status = "SUBMITTED" => ClosedStays(e)
    BY <1>1, <2>2, PostCloses, PostByTheLink
  <2>3. ASSUME UNCHANGED <<collections, handoffs>>, SameAnswers
        PROVE  ByTheLinkAsItIs /\ \A e \in Rides : collections[e].status = "SUBMITTED" => ClosedStays(e)
    BY <1>1, <2>3, NothingAnswered, RideUntouched
  <2> QED
    BY <1>1, <2>1, <2>2, <2>3, NextCases, OtherStepsKeep
<1>2. ASSUME FeedbackInv, [FNext]_fVars
      PROVE  [/\ \A g \in Guests, c \in FormIds :
                   (submissions[c] = NoPaper /\ submissions'[c] # NoPaper /\ submissions'[c].guest = g) =>
                     /\ handoffs[forms[g].ride].token = forms[g].token
                     /\ handoffs[forms[g].ride].status = "OPEN" /\ ~ handoffs[forms[g].ride].expired
              /\ \A e \in Rides : collections[e].status = "SUBMITTED" =>
                   /\ collections'[e] = collections[e]
                   /\ handoffs'[e] = [handoffs[e] EXCEPT !.expired = handoffs'[e].expired]
                   /\ Answered(e)' = Answered(e)]_fVars
  BY <1>1, <1>2 DEF ByTheLinkAsItIs, ClosedStays
<1> QED
  BY <1>2, FeedbackAlways, PTL DEF FSpec, ClosedIsClosed

-----------------------------------------------------------------------------
(* Pictures.  A picture that was rejected or deleted never comes back, and only such ones are  *)
(* erased, though a request or the script may be late.                                        *)

Gone == {"REJECTED", "DELETED"}
HasPicture(c, p) == submissions[c] # NoPaper /\ submissions[c].picture = p
With(p) == {c \in FormIds : HasPicture(c, p)}

PictureFits(p) ==
  /\ pictures[p].status \in {"READY", "ATTACHED"} => store[p].stored
  /\ IF pictures[p].status = "ATTACHED" THEN \E c \in FormIds : With(p) = {c} ELSE With(p) = {}
CompleterFits(w) ==
  /\ completers[w].pc = "erase" => pictures[completers[w].picture].status \in Gone
  /\ completers[w].pc \in {"clear", "record"} =>
       \/ store[completers[w].picture].stored
       \/ pictures[completers[w].picture].status \in Gone
SweeperFits ==
  sweeper.pc \in {"erase", "drop"} => pictures[sweeper.picture].status \in Gone

PicturesInv ==
  /\ PicturesTyped
  /\ \A p \in Pictures : PictureFits(p)
  /\ \A w \in Completers : CompleterFits(w)
  /\ SweeperFits

\* A step of a picture that attaches none.
PictureMoves(p) ==
  /\ pictures[p].status \in Gone => pictures'[p].status \in Gone
  /\ pictures'[p].status = "ATTACHED" <=> pictures[p].status = "ATTACHED"
  /\ pictures'[p].status = "READY" => pictures[p].status = "READY" \/ store'[p].stored
  /\ store[p].stored => store'[p].stored \/ pictures'[p].status \in Gone

LEMMA WithSame ==
  ASSUME SameAnswers, NEW p
  PROVE  With(p)' = With(p)
  BY DEF SameAnswers, KeepsAnswer, With, HasPicture

\* A request or a script that goes on with what it knew.
LEMMA KnownStays ==
  ASSUME PicturesInv, NEW w \in Completers, completers'[w] = completers[w],
         \A p \in Pictures :
           /\ pictures[p].status \in Gone => pictures'[p].status \in Gone
           /\ store[p].stored => store'[p].stored \/ pictures'[p].status \in Gone
  PROVE  CompleterFits(w)'
<1>1. CASE completers[w] = Resting
  BY <1>1 DEF CompleterFits, Resting
<1>2. CASE completers[w] # Resting
  <2>1. PICK p \in Pictures : p = completers[w].picture
    BY <1>2 DEF PicturesInv, PicturesTyped
  <2>2. CompleterFits(w)
    BY DEF PicturesInv
  <2> QED
    BY <2>1, <2>2 DEF CompleterFits
<1> QED
  BY <1>1, <1>2

LEMMA SweeperKnows ==
  ASSUME PicturesInv, UNCHANGED sweeper,
         \A p \in Pictures : pictures[p].status \in Gone => pictures'[p].status \in Gone
  PROVE  SweeperFits'
<1>1. CASE sweeper = Resting
  BY <1>1 DEF SweeperFits, Resting
<1>2. CASE sweeper # Resting
  <2>1. PICK p \in Pictures : p = sweeper.picture
    BY <1>2 DEF PicturesInv, PicturesTyped
  <2> QED
    BY <2>1 DEF PicturesInv, SweeperFits
<1> QED
  BY <1>1, <1>2

LEMMA PicturesMove ==
  ASSUME PicturesInv, PicturesTyped', SameAnswers,
         \A p \in Pictures : PictureMoves(p),
         \A w \in Completers : completers'[w] = completers[w] \/ CompleterFits(w)',
         UNCHANGED sweeper \/ SweeperFits'
  PROVE  PicturesInv'
<1>1. ASSUME NEW p \in Pictures
      PROVE  PictureFits(p)'
  <2>1. With(p)' = With(p)
    BY WithSame
  <2>2. PictureFits(p) /\ PictureMoves(p)
    BY DEF PicturesInv
  <2>3. pictures'[p].status \in {"READY", "ATTACHED"} => store'[p].stored
    BY <2>2 DEF PictureFits, PictureMoves, Gone
  <2> QED
    BY <2>1, <2>2, <2>3 DEF PictureFits, PictureMoves
<1>2. \A w \in Completers : CompleterFits(w)'
  BY KnownStays DEF PictureMoves
<1>3. SweeperFits'
  BY SweeperKnows DEF PictureMoves
<1> QED
  BY <1>1, <1>2, <1>3 DEF PicturesInv

\* The parts of PicturesTyped, each with the one change that a step makes to it.
PictureRows ==
  /\ pictures = [p \in Pictures |-> pictures[p]]
  /\ \A p \in Pictures : pictures[p] = NoPaper \/ IsPicture(pictures[p])
ObjectRows ==
  /\ store = [p \in Pictures |-> store[p]]
  /\ \A p \in Pictures : IsObject(store[p])
IsAt(row) == row = [pc |-> row.pc, picture |-> row.picture] /\ row.picture \in Pictures
CompleterRows ==
  /\ completers = [w \in Completers |-> completers[w]]
  /\ \A w \in Completers : completers[w] = Resting \/ IsAt(completers[w])
SweeperRow == sweeper = Resting \/ IsAt(sweeper)

LEMMA TypedInParts ==
  /\ PicturesTyped <=> PictureRows /\ ObjectRows /\ CompleterRows /\ SweeperRow
  /\ PicturesTyped' <=> PictureRows' /\ ObjectRows' /\ CompleterRows' /\ SweeperRow'
  BY DEF PicturesTyped, PictureRows, ObjectRows, CompleterRows, SweeperRow, IsAt

LEMMA PictureSet ==
  ASSUME PictureRows, NEW p \in Pictures, NEW row, row = NoPaper \/ IsPicture(row),
         pictures' = [pictures EXCEPT ![p] = row]
  PROVE  /\ PictureRows' /\ pictures'[p] = row
         /\ \A x \in Pictures : x # p => pictures'[x] = pictures[x]
<1>1. /\ pictures' = [x \in Pictures |-> pictures'[x]] /\ pictures'[p] = row
      /\ \A x \in Pictures : x # p => pictures'[x] = pictures[x]
  BY DEF PictureRows
<1>2. \A x \in Pictures : pictures'[x] = NoPaper \/ IsPicture(pictures'[x])
  BY <1>1 DEF PictureRows
<1> QED
  BY <1>1, <1>2 DEF PictureRows, IsPicture

LEMMA ObjectSet ==
  ASSUME ObjectRows, NEW p \in Pictures, NEW row, IsObject(row),
         store' = [store EXCEPT ![p] = row]
  PROVE  /\ ObjectRows' /\ store'[p] = row
         /\ \A x \in Pictures : x # p => store'[x] = store[x]
<1>1. /\ store' = [x \in Pictures |-> store'[x]] /\ store'[p] = row
      /\ \A x \in Pictures : x # p => store'[x] = store[x]
  BY DEF ObjectRows
<1>2. \A x \in Pictures : IsObject(store'[x])
  BY <1>1 DEF ObjectRows
<1> QED
  BY <1>1, <1>2 DEF ObjectRows, IsObject

LEMMA CompleterSet ==
  ASSUME CompleterRows, NEW w \in Completers, NEW row, row = Resting \/ IsAt(row),
         completers' = [completers EXCEPT ![w] = row]
  PROVE  /\ CompleterRows' /\ completers'[w] = row
         /\ \A x \in Completers : x # w => completers'[x] = completers[x]
<1>1. /\ completers' = [x \in Completers |-> completers'[x]] /\ completers'[w] = row
      /\ \A x \in Completers : x # w => completers'[x] = completers[x]
  BY DEF CompleterRows
<1>2. \A x \in Completers : completers'[x] = Resting \/ IsAt(completers'[x])
  BY <1>1 DEF CompleterRows
<1> QED
  BY <1>1, <1>2 DEF CompleterRows, IsAt

LEMMA RowsUnchanged ==
  /\ PictureRows /\ UNCHANGED pictures => PictureRows'
  /\ ObjectRows /\ UNCHANGED store => ObjectRows'
  /\ CompleterRows /\ UNCHANGED completers => CompleterRows'
  /\ SweeperRow /\ UNCHANGED sweeper => SweeperRow'
  BY DEF PictureRows, ObjectRows, CompleterRows, SweeperRow

\* A picture with another status.
LEMMA PictureStatus ==
  ASSUME NEW row, IsPicture(row), NEW status
  PROVE  IsPicture(WithStatus(row, status)) /\ WithStatus(row, status).status = status
<1>1. PICK new : new = [status |-> status, ride |-> row.ride, age |-> row.age,
                        cleaned |-> row.cleaned]
  OBVIOUS
<1>2. WithStatus(row, status) = new
  BY <1>1 DEF WithStatus, IsPicture
<1> QED
  BY <1>1, <1>2 DEF IsPicture

LEMMA SameIfFrame ==
  ASSUME UNCHANGED pictureFrame
  PROVE  SameAnswers
  BY SameAnswersIfUnchanged DEF pictureFrame

LEMMA PictureIsRow ==
  ASSUME PicturesInv, NEW p \in Pictures, pictures[p] # NoPaper
  PROVE  IsPicture(pictures[p])
  BY DEF PicturesInv, PicturesTyped

LEMMA Inside ==
  ASSUME PicturesInv
  PROVE  PictureRows /\ ObjectRows /\ CompleterRows /\ SweeperRow
  BY TypedInParts DEF PicturesInv

\* A picture's row changes; requests and the script do what they did.
LEMMA RowMoves ==
  ASSUME PicturesInv, UNCHANGED <<store, completers, sweeper>>, SameAnswers,
         NEW p \in Pictures, NEW row, IsPicture(row), pictures' = [pictures EXCEPT ![p] = row],
         pictures[p].status \in Gone => row.status \in Gone,
         row.status = "ATTACHED" <=> pictures[p].status = "ATTACHED",
         row.status = "READY" => pictures[p].status = "READY"
  PROVE  PicturesInv'
<1>1. /\ PictureRows' /\ pictures'[p] = row
      /\ \A x \in Pictures : x # p => pictures'[x] = pictures[x]
  BY Inside, PictureSet
<1>2. PicturesTyped'
  BY <1>1, Inside, TypedInParts, RowsUnchanged
<1>3. \A x \in Pictures : PictureMoves(x)
  BY <1>1 DEF PictureMoves
<1> QED
  BY <1>2, <1>3, PicturesMove

\* An object changes, of a picture that is not erased unless it is gone.
LEMMA ObjectMoves ==
  ASSUME PicturesInv, UNCHANGED <<pictures, completers, sweeper>>, SameAnswers,
         NEW p \in Pictures, NEW row, IsObject(row), store' = [store EXCEPT ![p] = row],
         store[p].stored => row.stored \/ pictures[p].status \in Gone
  PROVE  PicturesInv'
<1>1. /\ ObjectRows' /\ store'[p] = row
      /\ \A x \in Pictures : x # p => store'[x] = store[x]
  BY Inside, ObjectSet
<1>2. PicturesTyped'
  BY <1>1, Inside, TypedInParts, RowsUnchanged
<1>3. \A x \in Pictures : PictureMoves(x)
  BY <1>1 DEF PictureMoves
<1> QED
  BY <1>2, <1>3, PicturesMove

LEMMA AddKeepsPictures ==
  ASSUME PicturesInv, NEW e \in Rides, NEW p \in Pictures, AddPicture(e, p)
  PROVE  PicturesInv'
<1>1. PICK row : /\ row = [status |-> "PENDING", ride |-> e, age |-> "NEW", cleaned |-> FALSE]
                 /\ pictures' = [pictures EXCEPT ![p] = row]
  BY DEF AddPicture
<1>2. IsPicture(row) /\ row.status = "PENDING"
  BY <1>1 DEF IsPicture
<1>3. pictures[p] = NoPaper /\ UNCHANGED pictureFrame /\ UNCHANGED <<store, completers, sweeper>>
  BY DEF AddPicture
<1>4. pictures[p].status = "NONE" /\ SameAnswers
  BY <1>3, SameIfFrame DEF NoPaper
<1> QED
  BY <1>1, <1>2, <1>3, <1>4, RowMoves DEF Gone

LEMMA SendKeepsPictures ==
  ASSUME PicturesInv, NEW p \in Pictures, NEW object, SendPicture(p, object)
  PROVE  PicturesInv'
<1>1. PICK row : row = [store[p] EXCEPT !.upload = object]
  OBVIOUS
<1>2. IsObject(store[p])
  BY DEF PicturesInv, PicturesTyped
<1>3. row = [upload |-> object, stored |-> store[p].stored]
  BY <1>1, <1>2 DEF IsObject
<1>4. IsObject(row) /\ row.stored = store[p].stored
  BY <1>3 DEF IsObject
<1>5. /\ store' = [store EXCEPT ![p] = row]
      /\ UNCHANGED pictureFrame /\ UNCHANGED <<pictures, completers, sweeper>>
  BY <1>1 DEF SendPicture
<1> QED
  BY <1>4, <1>5, SameIfFrame, ObjectMoves

LEMMA AgeKeepsPictures ==
  ASSUME PicturesInv, NEW p \in Pictures, PictureAges(p)
  PROVE  PicturesInv'
<1>1. PICK age : age = IF pictures[p].age = "NEW" THEN "EXPIRED" ELSE "OLD"
  OBVIOUS
<1>2. PICK row : row = [pictures[p] EXCEPT !.age = age]
  OBVIOUS
<1>3. IsPicture(pictures[p])
  BY PictureIsRow DEF PictureAges
<1>4. row = [status |-> pictures[p].status, ride |-> pictures[p].ride, age |-> age,
             cleaned |-> pictures[p].cleaned]
  BY <1>2, <1>3 DEF IsPicture
<1>5. IsPicture(row) /\ row.status = pictures[p].status
  BY <1>4 DEF IsPicture
<1>6. /\ pictures' = [pictures EXCEPT ![p] = row]
      /\ UNCHANGED pictureFrame /\ UNCHANGED <<store, completers, sweeper>>
  BY <1>1, <1>2 DEF PictureAges
<1> QED
  BY <1>5, <1>6, SameIfFrame, RowMoves

\* A good upload that is swept, and its row.
LEMMA SweepKeepsPictures ==
  ASSUME PicturesInv, NEW p \in Pictures, NEW lost, SweepUploads(p, lost)
  PROVE  PicturesInv'
<1>1. PICK object, row : /\ object = [store[p] EXCEPT !.upload = "none"]
                         /\ row = IF lost THEN pictures[p] ELSE [pictures[p] EXCEPT !.cleaned = TRUE]
  OBVIOUS
<1>2. IsObject(store[p]) /\ IsPicture(pictures[p])
  BY PictureIsRow DEF PicturesInv, PicturesTyped, SweepUploads, NoPaper
<1>3. object = [upload |-> "none", stored |-> store[p].stored]
  BY <1>1, <1>2 DEF IsObject
<1>4. IsObject(object) /\ object.stored = store[p].stored
  BY <1>3 DEF IsObject
<1>5. IsPicture(row) /\ row.status = pictures[p].status
  <2>1. CASE lost
    BY <1>1, <1>2, <2>1
  <2>2. CASE ~ lost
    <3>1. row = [status |-> pictures[p].status, ride |-> pictures[p].ride,
                 age |-> pictures[p].age, cleaned |-> TRUE]
      BY <1>1, <1>2, <2>2 DEF IsPicture
    <3> QED
      BY <3>1 DEF IsPicture
  <2> QED
    BY <2>1, <2>2
<1>6. /\ store' = [store EXCEPT ![p] = object] /\ pictures' = [pictures EXCEPT ![p] = row]
      /\ UNCHANGED pictureFrame /\ UNCHANGED <<completers, sweeper>>
  BY <1>1, Inside DEF SweepUploads, PictureRows
<1>7. /\ PictureRows' /\ pictures'[p] = row
      /\ \A x \in Pictures : x # p => pictures'[x] = pictures[x]
  BY <1>5, <1>6, Inside, PictureSet
<1>8. /\ ObjectRows' /\ store'[p] = object
      /\ \A x \in Pictures : x # p => store'[x] = store[x]
  BY <1>4, <1>6, Inside, ObjectSet
<1>9. PicturesTyped'
  BY <1>6, <1>7, <1>8, Inside, TypedInParts, RowsUnchanged
<1>10. \A x \in Pictures : PictureMoves(x)
  BY <1>4, <1>5, <1>7, <1>8 DEF PictureMoves
<1> QED
  BY <1>6, <1>9, <1>10, SameIfFrame, PicturesMove

-----------------------------------------------------------------------------
(* The script *)

LEMMA ClaimStaleKeepsPictures ==
  ASSUME PicturesInv, NEW p \in Pictures, ClaimStale(p)
  PROVE  PicturesInv'
<1>1. IsPicture(pictures[p]) /\ pictures[p].status # "ATTACHED"
  BY PictureIsRow DEF ClaimStale, NoPaper
<1>2. PICK row : row = WithStatus(pictures[p], "REJECTED")
  OBVIOUS
<1>3. IsPicture(row) /\ row.status = "REJECTED"
  BY <1>1, <1>2, PictureStatus
<1>4. /\ pictures' = [pictures EXCEPT ![p] = row]
      /\ sweeper' = [pc |-> "erase", picture |-> p]
      /\ UNCHANGED pictureFrame /\ UNCHANGED <<store, completers>>
  BY <1>2 DEF ClaimStale, WithStatus
<1>5. /\ PictureRows' /\ pictures'[p] = row
      /\ \A x \in Pictures : x # p => pictures'[x] = pictures[x]
  BY <1>3, <1>4, Inside, PictureSet
<1>6. SweeperRow' /\ SweeperFits'
  BY <1>3, <1>4, <1>5 DEF SweeperRow, IsAt, SweeperFits, Gone
<1>7. PicturesTyped'
  BY <1>4, <1>5, <1>6, Inside, TypedInParts, RowsUnchanged
<1>8. \A x \in Pictures : PictureMoves(x)
  BY <1>1, <1>3, <1>4, <1>5 DEF PictureMoves, Gone
<1> QED
  BY <1>4, <1>6, <1>7, <1>8, SameIfFrame, PicturesMove

LEMMA EraseStaleKeepsPictures ==
  ASSUME PicturesInv, EraseStale
  PROVE  PicturesInv'
<1>1. sweeper # Resting /\ sweeper.pc = "erase"
  BY DEF EraseStale, Resting
<1>2. PICK p \in Pictures : p = sweeper.picture /\ sweeper = [pc |-> "erase", picture |-> p]
  BY <1>1, Inside DEF SweeperRow, IsAt
<1>3. pictures[p].status \in Gone
  BY <1>1, <1>2 DEF PicturesInv, SweeperFits
<1>4. /\ store' = [store EXCEPT ![p] = Nothing]
      /\ UNCHANGED pictureFrame /\ UNCHANGED <<pictures, completers>>
  BY <1>2 DEF EraseStale
<1>5. sweeper' = [pc |-> "drop", picture |-> p]
  BY <1>2 DEF EraseStale
<1>6. ObjectRows' /\ \A x \in Pictures : x # p => store'[x] = store[x]
  BY <1>4, Inside, ObjectSet DEF IsObject, Nothing
<1>7. SweeperRow' /\ SweeperFits'
  BY <1>3, <1>4, <1>5 DEF SweeperRow, IsAt, SweeperFits
<1>8. PicturesTyped'
  BY <1>4, <1>6, <1>7, Inside, TypedInParts, RowsUnchanged
<1>9. \A x \in Pictures : PictureMoves(x)
  BY <1>3, <1>4, <1>6 DEF PictureMoves
<1> QED
  BY <1>4, <1>7, <1>8, <1>9, SameIfFrame, PicturesMove

LEMMA DropStaleKeepsPictures ==
  ASSUME PicturesInv, DropStale
  PROVE  PicturesInv'
<1>1. sweeper # Resting /\ sweeper.pc = "drop"
  BY DEF DropStale, Resting
<1>2. PICK p \in Pictures : p = sweeper.picture
  BY <1>1, Inside DEF SweeperRow, IsAt
<1>3. sweeper' = Resting /\ UNCHANGED pictureFrame /\ UNCHANGED <<store, completers>>
  BY DEF DropStale
<1>4. SweeperRow' /\ SweeperFits'
  BY <1>3 DEF SweeperRow, SweeperFits, Resting
<1>5. CASE pictures[p].status = "REJECTED"
  <2>1. PICK row : row = WithStatus(pictures[p], "DELETED")
    OBVIOUS
  <2>2. IsPicture(row) /\ row.status = "DELETED"
    BY <1>5, <2>1, PictureIsRow, PictureStatus DEF NoPaper
  <2>3. pictures' = [pictures EXCEPT ![p] = row]
    BY <1>2, <1>5, <2>1 DEF DropStale, WithStatus
  <2>4. /\ PictureRows' /\ pictures'[p] = row
        /\ \A x \in Pictures : x # p => pictures'[x] = pictures[x]
    BY <2>2, <2>3, Inside, PictureSet
  <2>5. PicturesTyped'
    BY <1>3, <1>4, <2>4, Inside, TypedInParts, RowsUnchanged
  <2>6. \A x \in Pictures : PictureMoves(x)
    BY <1>3, <1>5, <2>2, <2>4 DEF PictureMoves, Gone
  <2> QED
    BY <1>3, <1>4, <2>5, <2>6, SameIfFrame, PicturesMove
<1>6. CASE pictures[p].status # "REJECTED"
  <2>1. UNCHANGED pictures
    BY <1>2, <1>6 DEF DropStale
  <2>2. PicturesTyped'
    BY <1>3, <1>4, <2>1, Inside, TypedInParts, RowsUnchanged
  <2>3. \A x \in Pictures : PictureMoves(x)
    BY <1>3, <2>1 DEF PictureMoves
  <2> QED
    BY <1>3, <1>4, <2>2, <2>3, SameIfFrame, PicturesMove
<1> QED
  BY <1>5, <1>6

LEMMA SweeperDiesKeepsPictures ==
  ASSUME PicturesInv, SweeperDies
  PROVE  PicturesInv'
<1>1. sweeper' = Resting /\ UNCHANGED pictureFrame /\ UNCHANGED <<pictures, store, completers>>
  BY DEF SweeperDies
<1>2. SweeperRow' /\ SweeperFits'
  BY <1>1 DEF SweeperRow, SweeperFits, Resting
<1>3. PicturesTyped'
  BY <1>1, <1>2, Inside, TypedInParts, RowsUnchanged
<1>4. \A x \in Pictures : PictureMoves(x)
  BY <1>1 DEF PictureMoves
<1> QED
  BY <1>1, <1>2, <1>3, <1>4, SameIfFrame, PicturesMove

-----------------------------------------------------------------------------
(* Requests that complete a picture *)

LEMMA BusyCompleter ==
  ASSUME PicturesInv, NEW w \in Completers, completers[w] # Resting
  PROVE  \E p \in Pictures : completers[w] = [pc |-> completers[w].pc, picture |-> p]
  BY Inside DEF CompleterRows, IsAt

\* A request goes on to another step of its own; nothing else changes.
LEMMA RequestMoves ==
  ASSUME PicturesInv, UNCHANGED <<pictures, store, sweeper>>, SameAnswers,
         NEW w \in Completers, NEW row, row = Resting \/ IsAt(row),
         completers' = [completers EXCEPT ![w] = row],
         row.pc \notin {"erase", "clear"},
         row.pc = "record" => store[row.picture].stored
  PROVE  PicturesInv'
<1>1. /\ CompleterRows' /\ completers'[w] = row
      /\ \A x \in Completers : x # w => completers'[x] = completers[x]
  BY Inside, CompleterSet
<1>2. CompleterFits(w)'
  BY <1>1 DEF CompleterFits
<1>3. PicturesTyped'
  BY <1>1, Inside, TypedInParts, RowsUnchanged
<1>4. \A x \in Pictures : PictureMoves(x)
  BY DEF PictureMoves
<1> QED
  BY <1>1, <1>2, <1>3, <1>4, PicturesMove

LEMMA ClaimKeepsPictures ==
  ASSUME PicturesInv, NEW w \in Completers, NEW p \in Pictures, Claim(w, p)
  PROVE  PicturesInv'
<1>1. IsPicture(pictures[p]) /\ pictures[p].status \in {"PENDING", "PROCESSING"}
  BY PictureIsRow DEF Claim, NoPaper
<1>2. PICK row : row = WithStatus(pictures[p], "PROCESSING")
  OBVIOUS
<1>3. IsPicture(row) /\ row.status = "PROCESSING"
  BY <1>1, <1>2, PictureStatus
<1>4. PICK at : at = [pc |-> "read", picture |-> p]
  OBVIOUS
<1>5. /\ pictures' = [pictures EXCEPT ![p] = row] /\ completers' = [completers EXCEPT ![w] = at]
      /\ UNCHANGED pictureFrame /\ UNCHANGED <<store, sweeper>>
  BY <1>2, <1>4 DEF Claim, WithStatus
<1>6. /\ PictureRows' /\ pictures'[p] = row
      /\ \A x \in Pictures : x # p => pictures'[x] = pictures[x]
  BY <1>3, <1>5, Inside, PictureSet
<1>7. IsAt(at) /\ at.pc = "read"
  BY <1>4 DEF IsAt
<1>8. /\ CompleterRows' /\ completers'[w] = at
      /\ \A x \in Completers : x # w => completers'[x] = completers[x]
  BY <1>5, <1>7, Inside, CompleterSet
<1>9. CompleterFits(w)'
  BY <1>7, <1>8 DEF CompleterFits
<1>10. PicturesTyped'
  BY <1>5, <1>6, <1>8, Inside, TypedInParts, RowsUnchanged
<1>11. \A x \in Pictures : PictureMoves(x)
  BY <1>1, <1>3, <1>5, <1>6 DEF PictureMoves, Gone
<1> QED
  BY <1>5, <1>8, <1>9, <1>10, <1>11, SameIfFrame, PicturesMove

LEMMA ReadKeepsPictures ==
  ASSUME PicturesInv, NEW w \in Completers, ReadUpload(w)
  PROVE  PicturesInv'
<1>1. completers[w] # Resting
  BY DEF ReadUpload, Resting
<1>2. PICK p \in Pictures : completers[w] = [pc |-> completers[w].pc, picture |-> p]
  BY <1>1, BusyCompleter
<1>3. completers[w].picture = p
  BY <1>2
<1>4. PICK pc : pc = IF store[p].upload = "good" THEN "write"
                     ELSE IF store[p].upload = "bad" THEN "reject"
                     ELSE IF store[p].stored THEN "record" ELSE "return"
  OBVIOUS
<1>5. PICK row : row = [completers[w] EXCEPT !.pc = pc]
  OBVIOUS
<1>6. row = [pc |-> pc, picture |-> p]
  BY <1>2, <1>5
<1>7. /\ completers' = [completers EXCEPT ![w] = row]
      /\ UNCHANGED pictureFrame /\ UNCHANGED <<pictures, store, sweeper>>
  BY <1>3, <1>4, <1>5 DEF ReadUpload
<1>8. /\ IsAt(row) /\ row.pc \notin {"erase", "clear"}
      /\ row.pc = "record" => store[row.picture].stored
  BY <1>4, <1>6 DEF IsAt
<1> QED
  BY <1>7, <1>8, SameIfFrame, RequestMoves

LEMMA WriteKeepsPictures ==
  ASSUME PicturesInv, NEW w \in Completers, WriteImage(w)
  PROVE  PicturesInv'
<1>1. completers[w] # Resting
  BY DEF WriteImage, Resting
<1>2. PICK p \in Pictures : completers[w] = [pc |-> completers[w].pc, picture |-> p]
  BY <1>1, BusyCompleter
<1>3. completers[w].picture = p /\ IsObject(store[p])
  BY <1>2, Inside DEF ObjectRows
<1>4. PICK at, row : /\ at = [completers[w] EXCEPT !.pc = "clear"]
                     /\ row = [store[p] EXCEPT !.stored = TRUE]
  OBVIOUS
<1>5. at = [pc |-> "clear", picture |-> p] /\ row = [upload |-> store[p].upload, stored |-> TRUE]
  BY <1>2, <1>3, <1>4 DEF IsObject
<1>6. IsAt(at) /\ at.pc = "clear" /\ at.picture = p /\ IsObject(row) /\ row.stored
  BY <1>5 DEF IsAt, IsObject
<1>7. /\ completers' = [completers EXCEPT ![w] = at] /\ store' = [store EXCEPT ![p] = row]
      /\ UNCHANGED pictureFrame /\ UNCHANGED <<pictures, sweeper>>
  BY <1>3, <1>4 DEF WriteImage
<1>8. ObjectRows' /\ store'[p] = row /\ \A x \in Pictures : x # p => store'[x] = store[x]
  BY <1>6, <1>7, Inside, ObjectSet
<1>9. /\ CompleterRows' /\ completers'[w] = at
      /\ \A x \in Completers : x # w => completers'[x] = completers[x]
  BY <1>6, <1>7, Inside, CompleterSet
<1>10. CompleterFits(w)'
  BY <1>6, <1>8, <1>9 DEF CompleterFits
<1>11. PicturesTyped'
  BY <1>7, <1>8, <1>9, Inside, TypedInParts, RowsUnchanged
<1>12. \A x \in Pictures : PictureMoves(x)
  BY <1>6, <1>7, <1>8 DEF PictureMoves
<1> QED
  BY <1>7, <1>9, <1>10, <1>11, <1>12, SameIfFrame, PicturesMove

LEMMA ClearKeepsPictures ==
  ASSUME PicturesInv, NEW w \in Completers, ClearUpload(w)
  PROVE  PicturesInv'
<1>1. completers[w] # Resting /\ completers[w].pc = "clear"
  BY DEF ClearUpload, Resting
<1>2. PICK p \in Pictures : completers[w] = [pc |-> completers[w].pc, picture |-> p]
  BY <1>1, BusyCompleter
<1>3. completers[w].picture = p /\ IsObject(store[p])
  BY <1>2, Inside DEF ObjectRows
<1>4. PICK at, row : /\ at = [completers[w] EXCEPT !.pc = "record"]
                     /\ row = [store[p] EXCEPT !.upload = "none"]
  OBVIOUS
<1>5. /\ at = [pc |-> "record", picture |-> p]
      /\ row = [upload |-> "none", stored |-> store[p].stored]
  BY <1>2, <1>3, <1>4 DEF IsObject
<1>6. /\ IsAt(at) /\ at.pc = "record" /\ at.picture = p
      /\ IsObject(row) /\ row.stored = store[p].stored
  BY <1>5 DEF IsAt, IsObject
<1>7. /\ completers' = [completers EXCEPT ![w] = at] /\ store' = [store EXCEPT ![p] = row]
      /\ UNCHANGED pictureFrame /\ UNCHANGED <<pictures, sweeper>>
  BY <1>3, <1>4 DEF ClearUpload
<1>8. ObjectRows' /\ store'[p] = row /\ \A x \in Pictures : x # p => store'[x] = store[x]
  BY <1>6, <1>7, Inside, ObjectSet
<1>9. /\ CompleterRows' /\ completers'[w] = at
      /\ \A x \in Completers : x # w => completers'[x] = completers[x]
  BY <1>6, <1>7, Inside, CompleterSet
<1>10. store[p].stored \/ pictures[p].status \in Gone
  BY <1>1, <1>3 DEF PicturesInv, CompleterFits
<1>11. CompleterFits(w)'
  BY <1>6, <1>7, <1>8, <1>9, <1>10 DEF CompleterFits
<1>12. PicturesTyped'
  BY <1>7, <1>8, <1>9, Inside, TypedInParts, RowsUnchanged
<1>13. \A x \in Pictures : PictureMoves(x)
  BY <1>6, <1>7, <1>8 DEF PictureMoves
<1> QED
  BY <1>7, <1>9, <1>11, <1>12, <1>13, SameIfFrame, PicturesMove

LEMMA FailKeepsPictures ==
  ASSUME PicturesInv, NEW w \in Completers, StorageFails(w)
  PROVE  PicturesInv'
<1>1. completers[w] # Resting
  BY DEF StorageFails, Resting
<1>2. PICK p \in Pictures : completers[w] = [pc |-> completers[w].pc, picture |-> p]
  BY <1>1, BusyCompleter
<1>3. PICK row : row = [completers[w] EXCEPT !.pc = "return"]
  OBVIOUS
<1>4. row = [pc |-> "return", picture |-> p]
  BY <1>2, <1>3
<1>5. IsAt(row) /\ row.pc = "return"
  BY <1>4 DEF IsAt
<1>6. /\ completers' = [completers EXCEPT ![w] = row]
      /\ UNCHANGED pictureFrame /\ UNCHANGED <<pictures, store, sweeper>>
  BY <1>3 DEF StorageFails
<1> QED
  BY <1>5, <1>6, SameIfFrame, RequestMoves

LEMMA DieKeepsPictures ==
  ASSUME PicturesInv, NEW w \in Completers, CompleterDies(w)
  PROVE  PicturesInv'
<1>1. /\ completers' = [completers EXCEPT ![w] = Resting]
      /\ UNCHANGED pictureFrame /\ UNCHANGED <<pictures, store, sweeper>>
  BY DEF CompleterDies
<1>2. PICK row : row = Resting
  OBVIOUS
<1>3. row.pc = "resting"
  BY <1>2 DEF Resting
<1> QED
  BY <1>1, <1>2, <1>3, SameIfFrame, RequestMoves

LEMMA EraseKeepsPictures ==
  ASSUME PicturesInv, NEW w \in Completers, Erase(w)
  PROVE  PicturesInv'
<1>1. completers[w] # Resting /\ completers[w].pc = "erase"
  BY DEF Erase, Resting
<1>2. PICK p \in Pictures : completers[w] = [pc |-> completers[w].pc, picture |-> p]
  BY <1>1, BusyCompleter
<1>3. completers[w].picture = p
  BY <1>2
<1>4. pictures[p].status \in Gone
  BY <1>1, <1>3 DEF PicturesInv, CompleterFits
<1>5. PICK rest : rest = Resting
  OBVIOUS
<1>6. /\ store' = [store EXCEPT ![p] = Nothing]
      /\ completers' = [completers EXCEPT ![w] = rest]
      /\ UNCHANGED pictureFrame /\ UNCHANGED <<pictures, sweeper>>
  BY <1>3, <1>5 DEF Erase
<1>7. ObjectRows' /\ \A x \in Pictures : x # p => store'[x] = store[x]
  BY <1>6, Inside, ObjectSet DEF IsObject, Nothing
<1>8. /\ CompleterRows' /\ completers'[w] = rest
      /\ \A x \in Completers : x # w => completers'[x] = completers[x]
  BY <1>5, <1>6, Inside, CompleterSet
<1>9. CompleterFits(w)'
  BY <1>5, <1>8 DEF CompleterFits, Resting
<1>10. PicturesTyped'
  BY <1>6, <1>7, <1>8, Inside, TypedInParts, RowsUnchanged
<1>11. \A x \in Pictures : PictureMoves(x)
  BY <1>4, <1>6, <1>7 DEF PictureMoves
<1> QED
  BY <1>6, <1>8, <1>9, <1>10, <1>11, SameIfFrame, PicturesMove

\* What a picture that is still being processed becomes; one that is not is left.
LEMMA FinishKeepsPictures ==
  ASSUME PicturesInv, NEW w \in Completers, Finish(w)
  PROVE  PicturesInv'
<1>1. completers[w].pc \in {"record", "reject", "return"}
  BY DEF Finish, Outcome
<1>2. completers[w] # Resting
  BY <1>1 DEF Resting
<1>3. PICK p \in Pictures : completers[w] = [pc |-> completers[w].pc, picture |-> p]
  BY <1>2, BusyCompleter
<1>4. completers[w].picture = p
  BY <1>3
<1>5. PICK at : at = IF Rejects(w) THEN [pc |-> "erase", picture |-> p] ELSE Resting
  OBVIOUS
<1>6. /\ completers' = [completers EXCEPT ![w] = at]
      /\ UNCHANGED pictureFrame /\ UNCHANGED <<store, sweeper>>
  BY <1>4, <1>5 DEF Finish
<1>7. at = Resting \/ IsAt(at)
  BY <1>5 DEF IsAt
<1>8. /\ CompleterRows' /\ completers'[w] = at
      /\ \A x \in Completers : x # w => completers'[x] = completers[x]
  BY <1>6, <1>7, Inside, CompleterSet
<1>9. CASE pictures[p].status = "PROCESSING"
  <2>1. PICK status : status = Outcome[completers[w].pc]
    OBVIOUS
  <2>2. /\ status \in {"READY", "REJECTED", "PENDING"}
        /\ status = "READY" <=> completers[w].pc = "record"
        /\ completers[w].pc = "reject" => status = "REJECTED"
    BY <1>1, <2>1 DEF Outcome
  <2>3. PICK row : row = WithStatus(pictures[p], status)
    OBVIOUS
  <2>4. IsPicture(pictures[p])
    BY <1>9, PictureIsRow DEF NoPaper
  <2>5. IsPicture(row) /\ row.status = status
    BY <2>3, <2>4, PictureStatus
  <2>6. pictures' = [pictures EXCEPT ![p] = row]
    BY <1>4, <1>9, <2>1, <2>3 DEF Finish, WithStatus
  <2>7. /\ PictureRows' /\ pictures'[p] = row
        /\ \A x \in Pictures : x # p => pictures'[x] = pictures[x]
    BY <2>5, <2>6, Inside, PictureSet
  <2>8. status = "READY" => store[p].stored
    BY <1>4, <1>9, <2>2 DEF PicturesInv, CompleterFits, Gone
  <2>9. CompleterFits(w)'
    <3>1. CASE Rejects(w)
      <4>1. at.pc = "erase" /\ at.picture = p /\ status = "REJECTED"
        BY <1>5, <2>2, <3>1 DEF Rejects
      <4> QED
        BY <1>8, <2>5, <2>7, <4>1 DEF CompleterFits, Gone
    <3>2. CASE ~ Rejects(w)
      BY <1>5, <1>8, <3>2 DEF CompleterFits, Resting
    <3> QED
      BY <3>1, <3>2
  <2>10. PicturesTyped'
    BY <1>6, <1>8, <2>7, Inside, TypedInParts, RowsUnchanged
  <2>11. \A x \in Pictures : PictureMoves(x)
    BY <1>6, <1>9, <2>2, <2>5, <2>7, <2>8 DEF PictureMoves, Gone
  <2> QED
    BY <1>6, <1>8, <2>9, <2>10, <2>11, SameIfFrame, PicturesMove
<1>10. CASE pictures[p].status # "PROCESSING"
  <2>1. UNCHANGED pictures /\ at = Resting
    BY <1>4, <1>5, <1>10 DEF Finish, Rejects
  <2>2. at.pc = "resting"
    BY <2>1 DEF Resting
  <2> QED
    BY <1>6, <1>7, <2>1, <2>2, SameIfFrame, RequestMoves
<1> QED
  BY <1>9, <1>10

-----------------------------------------------------------------------------
(* An answer attaches a picture that is ready *)

LEMMA PostKeepsPictures ==
  ASSUME FeedbackInv, PicturesInv, NEW g \in Guests, Post(g)
  PROVE  PicturesInv'
<1>1. PICK e, c, p : e = forms[g].ride /\ c = forms[g].id /\ p = forms[g].picture
  OBVIOUS
<1>2. PICK row : row # NoPaper /\ row.picture = p /\ submissions'[c] = row
  BY <1>1, PostAdds
<1>3. c \in FormIds /\ submissions[c] = NoPaper
  BY <1>1 DEF Post, FeedbackInv, AnswersTyped
<1>4. p \in Pictures \cup {NoPicture}
  BY <1>1 DEF Post, FeedbackInv, AnswersTyped
<1>5. /\ submissions'[c] = row /\ row # NoPaper
      /\ \A x \in FormIds : x # c => submissions'[x] = submissions[x]
  BY <1>1, <1>2, PostAdds
<1>6. UNCHANGED <<store, completers, sweeper>>
  BY DEF Post
<1>7. ASSUME NEW x \in Pictures, x # p
      PROVE  With(x)' = With(x)
  BY <1>2, <1>3, <1>5, <1>7 DEF With, HasPicture
<1>8. CASE p = NoPicture
  <2>1. UNCHANGED pictures /\ p \notin Pictures
    BY <1>1, <1>8 DEF Post
  <2>2. PicturesTyped'
    BY <1>6, <2>1, Inside, TypedInParts, RowsUnchanged
  <2>3. ASSUME NEW x \in Pictures
        PROVE  PictureFits(x)'
    <3>1. With(x)' = With(x)
      BY <1>7, <2>1
    <3>2. PictureFits(x)
      BY DEF PicturesInv
    <3> QED
      BY <1>6, <2>1, <3>1, <3>2 DEF PictureFits
  <2>4. (\A w \in Completers : CompleterFits(w)') /\ SweeperFits'
    BY <1>6, <2>1 DEF PicturesInv, CompleterFits, SweeperFits
  <2> QED
    BY <2>2, <2>3, <2>4 DEF PicturesInv
<1>9. CASE p # NoPicture
  <2>1. p \in Pictures /\ pictures[p].status = "READY"
    BY <1>1, <1>4, <1>9 DEF Post
  <2>2. PICK new : new = WithStatus(pictures[p], "ATTACHED")
    OBVIOUS
  <2>3. IsPicture(new) /\ new.status = "ATTACHED"
    BY <2>1, <2>2, PictureIsRow, PictureStatus DEF NoPaper
  <2>4. pictures' = [pictures EXCEPT ![p] = new]
    BY <1>1, <1>9, <2>2 DEF Post, WithStatus
  <2>5. /\ PictureRows' /\ pictures'[p] = new
        /\ \A x \in Pictures : x # p => pictures'[x] = pictures[x]
    BY <2>1, <2>3, <2>4, Inside, PictureSet
  <2>6. PicturesTyped'
    BY <1>6, <2>5, Inside, TypedInParts, RowsUnchanged
  <2>7. With(p) = {} /\ store[p].stored
    BY <2>1 DEF PicturesInv, PictureFits
  <2>8. With(p)' = {c}
    BY <1>2, <1>3, <1>5, <2>7 DEF With, HasPicture
  <2>9. ASSUME NEW x \in Pictures
        PROVE  PictureFits(x)'
    <3>1. CASE x = p
      BY <1>3, <1>6, <2>3, <2>5, <2>7, <2>8, <3>1 DEF PictureFits
    <3>2. CASE x # p
      <4>1. With(x)' = With(x)
        BY <1>7, <3>2
      <4>2. PictureFits(x) /\ pictures'[x] = pictures[x]
        BY <2>5, <3>2 DEF PicturesInv
      <4> QED
        BY <1>6, <4>1, <4>2 DEF PictureFits
    <3> QED
      BY <3>1, <3>2
  <2>10. \A x \in Pictures :
           /\ pictures[x].status \in Gone => pictures'[x].status \in Gone
           /\ store[x].stored => store'[x].stored
    BY <1>6, <2>1, <2>5 DEF Gone
  <2>11. (\A w \in Completers : CompleterFits(w)') /\ SweeperFits'
    BY <1>6, <2>10, KnownStays, SweeperKnows
  <2> QED
    BY <2>6, <2>9, <2>11 DEF PicturesInv
<1> QED
  BY <1>8, <1>9

LEMMA PicturesKept ==
  ASSUME PicturesInv, UNCHANGED pictureVars, SameAnswers
  PROVE  PicturesInv'
<1>1. UNCHANGED <<pictures, store, completers, sweeper>>
  BY DEF pictureVars
<1>2. PicturesTyped'
  BY <1>1, Inside, TypedInParts, RowsUnchanged
<1>3. \A x \in Pictures : PictureMoves(x)
  BY <1>1 DEF PictureMoves
<1> QED
  BY <1>1, <1>2, <1>3, PicturesMove

LEMMA PicturesStep ==
  ASSUME FeedbackInv, PicturesInv, [FNext]_fVars
  PROVE  PicturesInv'
<1>1. CASE PaperStep
  BY <1>1, SameAnswersIfUnchanged, PicturesKept DEF PaperStep
<1>2. ASSUME NEW e \in Rides, LinkStep(e)
      PROVE  PicturesInv'
  <2>1. UNCHANGED submissions /\ UNCHANGED pictureVars
    BY <1>2 DEF LinkStep, Resection, Issue, LinkIsOver, Begin, Close
  <2> QED
    BY <2>1, SameAnswersIfUnchanged, PicturesKept
<1>3. ASSUME NEW g \in Guests, GuestStep(g)
      PROVE  PicturesInv'
  <2>1. CASE Post(g)
    BY <2>1, PostKeepsPictures
  <2>2. CASE ~ Post(g)
    <3>1. UNCHANGED submissions /\ UNCHANGED pictureVars
      BY <1>3, <2>2 DEF GuestStep, Fill, Discard
    <3> QED
      BY <3>1, SameAnswersIfUnchanged, PicturesKept
  <2> QED
    BY <2>1, <2>2
<1>4. ASSUME NEW c \in FormIds, NEW state \in {"NORMAL", "FLAGGED", "ARCHIVED"}, Review(c, state)
      PROVE  PicturesInv'
  <2>1. UNCHANGED pictureVars
    BY <1>4 DEF Review
  <2> QED
    BY <1>4, <2>1, ReviewFits, PicturesKept
<1>5. ASSUME NEW p \in Pictures, PictureStep(p)
      PROVE  PicturesInv'
  BY <1>5, AddKeepsPictures, SendKeepsPictures, AgeKeepsPictures, ClaimStaleKeepsPictures,
     SweepKeepsPictures DEF PictureStep
<1>6. ASSUME NEW w \in Completers, CompleterStep(w)
      PROVE  PicturesInv'
  BY <1>6, ClaimKeepsPictures, ReadKeepsPictures, WriteKeepsPictures, ClearKeepsPictures,
     FailKeepsPictures, FinishKeepsPictures, EraseKeepsPictures, DieKeepsPictures DEF CompleterStep
<1>7. CASE EraseStale \/ DropStale \/ SweeperDies
  BY <1>7, EraseStaleKeepsPictures, DropStaleKeepsPictures, SweeperDiesKeepsPictures
<1>8. CASE UNCHANGED fVars
  BY <1>8, SameAnswersIfUnchanged, PicturesKept DEF fVars, pictureVars
<1> QED
  BY <1>1, <1>2, <1>3, <1>4, <1>5, <1>6, <1>7, <1>8 DEF FNext

LEMMA PicturesStart ==
  ASSUME FInit
  PROVE  PicturesInv
<1>1. /\ pictures = [p \in Pictures |-> NoPaper] /\ store = [p \in Pictures |-> Nothing]
      /\ completers = [w \in Completers |-> Resting] /\ sweeper = Resting
      /\ submissions = [c \in FormIds |-> NoPaper]
  BY DEF FInit
<1>2. PicturesTyped
  BY <1>1 DEF PicturesTyped, IsObject, Nothing
<1>3. \A p \in Pictures : PictureFits(p)
  BY <1>1 DEF PictureFits, With, HasPicture, NoPaper
<1>4. (\A w \in Completers : CompleterFits(w)) /\ SweeperFits
  BY <1>1 DEF CompleterFits, SweeperFits, Resting
<1> QED
  BY <1>2, <1>3, <1>4 DEF PicturesInv

\* However requests and the script overtake each other and die, the pictures, their objects and the
\* answers agree (completePhotoUpload(), submit(), cleanup-photo-uploads.ts).
THEOREM FeedbackPictures == FSpec => [](FeedbackInv /\ PicturesInv)
<1>1. FInit => FeedbackInv /\ PicturesInv
  BY FeedbackStart, PicturesStart
<1>2. FeedbackInv /\ PicturesInv /\ [FNext]_fVars => FeedbackInv' /\ PicturesInv'
  BY FeedbackStep, PicturesStep
<1> QED
  BY <1>1, <1>2, PTL DEF FSpec

\* However many requests complete a picture at once, wherever they or the script die: a picture
\* that is ready or attached has its image, and it is attached to exactly one answer.
THEOREM FeedbackAttachedHasImage == FSpec => []AttachedHasImage
<1>1. PicturesInv => AttachedHasImage
  <2> SUFFICES ASSUME PicturesInv, NEW p \in Pictures
               PROVE  /\ pictures[p].status \in {"READY", "ATTACHED"} => store[p].stored
                      /\ pictures[p].status = "ATTACHED" <=>
                           Cardinality({c \in FormIds : submissions[c] # NoPaper
                                                        /\ submissions[c].picture = p}) = 1
    BY DEF AttachedHasImage
  <2>1. PictureFits(p)
    BY DEF PicturesInv
  <2>2. With(p) = {c \in FormIds : submissions[c] # NoPaper /\ submissions[c].picture = p}
    BY DEF With, HasPicture
  <2>3. pictures[p].status = "ATTACHED" => Cardinality(With(p)) = 1
    BY <2>1, FS_Singleton DEF PictureFits
  <2>4. pictures[p].status # "ATTACHED" => Cardinality(With(p)) = 0
    BY <2>1, FS_EmptySet DEF PictureFits
  <2> QED
    BY <2>1, <2>2, <2>3, <2>4 DEF PictureFits
<1> QED
  BY <1>1, FeedbackPictures, PTL
=============================================================================
