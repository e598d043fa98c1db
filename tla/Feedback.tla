------------------------------ MODULE Feedback ------------------------------
(***************************************************************************)
(* What passengers answer at the end of a ride (src/src/modules/feedback): the   *)
(* link of an engagement, its questions, the answers, and the picture that may be  *)
(* added.  Composes Questionnaires, whose published versions the answers are to.    *)
(*                                                                         *)
(* Everything that changes a collection takes the lock of its booking and of its     *)
(* engagement, so it is one step; a guest reads the form before.  Pictures are        *)
(* completed outside a transaction, by requests that can die, and swept by a script.   *)
(***************************************************************************)
EXTENDS Questionnaires

CONSTANTS
  Rides,       \* booking_driver_engagements
  Guests,      \* passengers, by their phone
  FormIds,     \* clientSubmissionId
  Pictures,
  Completers,  \* requests that complete an upload
  MaxToken,    \* bound of the tokens made
  Optional,    \* sets of questions of which none has to be answered
  NoPicture

ASSUME FeedbackAssumption ==
  MaxToken \in Nat /\ NoPicture \notin Pictures /\ Optional \subseteq Contents

VARIABLES
  collections,  \* status and feedback sections of engagements
  handoffs,     \* feedback_handoffs and their sections
  tokens,       \* number of tokens made
  forms,        \* forms guests have been given, until they are submitted
  submissions,  \* feedback_submissions, by client id
  pictures,     \* feedback_photos
  store,        \* objects in the storage, of each picture
  completers,   \* requests that complete an upload
  sweeper       \* scripts/cleanup-photo-uploads.ts

linkVars == <<collections, handoffs, tokens>>
pictureVars == <<pictures, store, completers, sweeper>>
fVars == <<papers, versions, consent, edits, collections, handoffs, tokens, forms, submissions,
           pictures, store, completers, sweeper>>

HandoffRow ==
  [status : {"OPEN", "CONSUMED"}, token : 1 .. MaxToken, expired : BOOLEAN, multiple : BOOLEAN,
   versions : UNION {[secs -> Versions] : secs \in SUBSET Subjects}, consent : 1 .. MaxConsent]
PictureRow ==
  [status : {"PENDING", "PROCESSING", "READY", "ATTACHED", "REJECTED", "DELETED"}, ride : Rides,
   age : {"NEW", "EXPIRED", "OLD"}, cleaned : BOOLEAN]
Objects == [upload : {"none", "good", "bad"}, stored : BOOLEAN]
Nothing == [upload |-> "none", stored |-> FALSE]

Answered(e) == {c \in FormIds : submissions[c] # NoPaper /\ submissions[c].ride = e}
Opened(e) == handoffs[e].status = "OPEN" /\ ~ handoffs[e].expired

-----------------------------------------------------------------------------
(* Links *)

\* The sections of an engagement change, or its trips are regrouped: only before feedback
\* has begun, and the link goes.
Resection(e, secs) ==
  /\ collections[e].status = "READY"
  /\ collections' = [collections EXCEPT ![e].sections = secs]
  /\ handoffs' = [handoffs EXCEPT ![e] = NoPaper]
  /\ UNCHANGED <<paperVars, tokens, forms, submissions, pictureVars>>

ModeAllowed(e, multiple) ==
  (collections[e].status # "READY" /\ handoffs[e] # NoPaper) => multiple = handoffs[e].multiple

\* A renewed link keeps the questions that were asked.
BugRenewedIsNew(e) == FALSE
Renews(e) == handoffs[e] # NoPaper /\ collections[e].status = "FEEDBACK_STARTED"

\* issueHandoff()
Issue(e, multiple) ==
  /\ collections[e].status \in {"READY", "FEEDBACK_STARTED"}
  /\ Answered(e) # {} => handoffs[e].status = "OPEN" /\ handoffs[e].multiple
  /\ ModeAllowed(e, multiple)
  /\ \/ /\ handoffs[e] # NoPaper /\ Opened(e)
        /\ handoffs' = [handoffs EXCEPT ![e].multiple = multiple]
        /\ UNCHANGED tokens
     \/ /\ handoffs[e] = NoPaper \/ ~ Opened(e)
        /\ tokens < MaxToken /\ tokens' = tokens + 1
        /\ \/ /\ Renews(e) /\ handoffs[e].status = "OPEN"
              /\ handoffs' = [handoffs EXCEPT ![e].token = tokens + 1, ![e].expired = FALSE]
           \/ /\ ~ Renews(e)
              /\ collections[e].sections # {} /\ consent > 0
              /\ \A s \in collections[e].sections : Published(s) # {}
              /\ handoffs' = [handoffs EXCEPT ![e] =
                   [status |-> "OPEN", token |-> tokens + 1, expired |-> FALSE,
                    multiple |-> multiple, consent |-> consent,
                    versions |-> [s \in collections[e].sections |-> CHOOSE v \in Published(s) : TRUE]]]
  /\ UNCHANGED <<paperVars, collections, forms, submissions, pictureVars>>

LinkIsOver(e) ==
  /\ handoffs[e] # NoPaper /\ ~ handoffs[e].expired
  /\ handoffs' = [handoffs EXCEPT ![e].expired = TRUE]
  /\ UNCHANGED <<paperVars, collections, tokens, forms, submissions, pictureVars>>

\* start(): a passenger begins, which cannot be undone; beginning again changes nothing.
Begin(e) ==
  /\ handoffs[e] # NoPaper /\ Opened(e) /\ collections[e].status = "READY"
  /\ collections' = [collections EXCEPT ![e].status = "FEEDBACK_STARTED"]
  /\ UNCHANGED <<paperVars, handoffs, tokens, forms, submissions, pictureVars>>

\* closeHandoff() of a group's link.  The table refuses to close one nobody began.
Close(e) ==
  /\ handoffs[e].status = "OPEN" /\ handoffs[e].multiple
  /\ collections[e].status = "FEEDBACK_STARTED"
  /\ handoffs' = [handoffs EXCEPT ![e].status = "CONSUMED"]
  /\ collections' = [collections EXCEPT ![e].status = "SUBMITTED"]
  /\ UNCHANGED <<paperVars, tokens, forms, submissions, pictureVars>>

-----------------------------------------------------------------------------
(* Answers *)

\* getContext(), and the guest answers some sections of what it was given.
Fill(g, e, c, p, answers) ==
  /\ forms[g] = Resting
  /\ handoffs[e] # NoPaper /\ Opened(e)
  /\ collections[e].status \in {"READY", "FEEDBACK_STARTED"}
  /\ forms' = [forms EXCEPT ![g] =
       [pc |-> "filled", ride |-> e, token |-> handoffs[e].token, id |-> c, picture |-> p,
        answers |-> answers,
        questions |-> [s \in DOMAIN handoffs[e].versions |-> versions[handoffs[e].versions[s]].questions]]]
  /\ UNCHANGED <<paperVars, linkVars, submissions, pictureVars>>
Discard(g) ==
  /\ forms[g] # Resting
  /\ forms' = [forms EXCEPT ![g] = Resting]
  /\ UNCHANGED <<paperVars, linkVars, submissions, pictureVars>>

\* Archived answers count: nobody answers twice.
MayAnswer(e, g) ==
  IF handoffs[e].multiple THEN \A c \in Answered(e) : submissions[c].guest # g
                          ELSE Answered(e) = {}

\* submit(), with the link read again under the lock.  An id that was used is answered as
\* before, or refused: nothing changes.  Rows of answers are written of the sections that the
\* guest answered; the questions it was shown are kept of all.
BugLinkNotReadAgain(g) == handoffs[forms[g].ride] # NoPaper
LinkHolds(g) ==
  LET h == handoffs[forms[g].ride] IN
  h # NoPaper /\ h.token = forms[g].token /\ h.status = "OPEN" /\ ~ h.expired
Post(g) ==
  LET e == forms[g].ride
      c == forms[g].id
      p == forms[g].picture
      h == handoffs[e]
  IN
  /\ forms[g].pc = "filled"
  /\ submissions[c] = NoPaper
  /\ LinkHolds(g) /\ collections[e].status = "FEEDBACK_STARTED"
  /\ MayAnswer(e, g)
  /\ forms[g].questions = [s \in DOMAIN h.versions |-> versions[h.versions[s]].questions]
  /\ forms[g].answers \subseteq DOMAIN h.versions
  /\ \A s \in DOMAIN h.versions \ forms[g].answers : forms[g].questions[s] \in Optional
  /\ p # NoPicture => pictures[p].status = "READY" /\ pictures[p].ride = e
  /\ submissions' = [submissions EXCEPT ![c] =
       [status |-> "NORMAL", ride |-> e, guest |-> g, multiple |-> h.multiple, consent |-> h.consent,
        versions |-> h.versions, questions |-> forms[g].questions,
        answered |-> forms[g].answers, picture |-> p]]
  /\ pictures' = IF p = NoPicture THEN pictures ELSE [pictures EXCEPT ![p].status = "ATTACHED"]
  /\ collections' = IF h.multiple THEN collections
                    ELSE [collections EXCEPT ![e].status = "SUBMITTED"]
  /\ handoffs' = IF h.multiple THEN handoffs ELSE [handoffs EXCEPT ![e].status = "CONSUMED"]
  /\ forms' \in {forms, [forms EXCEPT ![g] = Resting]}
  /\ UNCHANGED <<paperVars, tokens, store, completers, sweeper>>

\* updateReviewState()
Review(c, state) ==
  /\ submissions[c] # NoPaper /\ submissions[c].status \notin {state, "ARCHIVED"}
  /\ submissions' = [submissions EXCEPT ![c].status = state]
  /\ UNCHANGED <<paperVars, linkVars, forms, pictureVars>>

-----------------------------------------------------------------------------
(* Pictures *)

pictureFrame == <<paperVars, linkVars, forms, submissions>>

\* createPhotoUpload()
AddPicture(e, p) ==
  /\ handoffs[e] # NoPaper /\ Opened(e) /\ collections[e].status = "FEEDBACK_STARTED"
  /\ pictures[p] = NoPaper
  /\ pictures' = [pictures EXCEPT ![p] =
       [status |-> "PENDING", ride |-> e, age |-> "NEW", cleaned |-> FALSE]]
  /\ UNCHANGED <<pictureFrame, store, completers, sweeper>>

\* The passenger's device uploads, as often as it likes while the URL is good.
SendPicture(p, object) ==
  /\ pictures[p] # NoPaper /\ pictures[p].age = "NEW"
  /\ store' = [store EXCEPT ![p].upload = object]
  /\ UNCHANGED <<pictureFrame, pictures, completers, sweeper>>
PictureAges(p) ==
  /\ pictures[p] # NoPaper /\ pictures[p].age # "OLD"
  /\ pictures' = [pictures EXCEPT ![p].age = IF @ = "NEW" THEN "EXPIRED" ELSE "OLD"]
  /\ UNCHANGED <<pictureFrame, store, completers, sweeper>>

\* completePhotoUpload(): claims the picture, also one that another request has claimed.
Claim(w, p) ==
  /\ completers[w] = Resting
  /\ pictures[p].status \in {"PENDING", "PROCESSING"} /\ Opened(pictures[p].ride)
  /\ pictures' = [pictures EXCEPT ![p].status = "PROCESSING"]
  /\ completers' = [completers EXCEPT ![w] = [pc |-> "read", picture |-> p]]
  /\ UNCHANGED <<pictureFrame, store, sweeper>>

\* sanitize(): without an upload, the image may be there from an earlier attempt.
ReadUpload(w) ==
  LET o == store[completers[w].picture] IN
  /\ completers[w].pc = "read"
  /\ completers' = [completers EXCEPT ![w].pc =
       IF o.upload = "good" THEN "write" ELSE IF o.upload = "bad" THEN "reject"
       ELSE IF o.stored THEN "record" ELSE "return"]
  /\ UNCHANGED <<pictureFrame, pictures, store, sweeper>>
WriteImage(w) ==
  /\ completers[w].pc = "write"
  /\ store' = [store EXCEPT ![completers[w].picture].stored = TRUE]
  /\ completers' = [completers EXCEPT ![w].pc = "clear"]
  /\ UNCHANGED <<pictureFrame, pictures, sweeper>>
ClearUpload(w) ==
  /\ completers[w].pc = "clear"
  /\ store' = [store EXCEPT ![completers[w].picture].upload = "none"]
  /\ completers' = [completers EXCEPT ![w].pc = "record"]
  /\ UNCHANGED <<pictureFrame, pictures, sweeper>>
StorageFails(w) ==
  /\ completers[w].pc \in {"read", "write", "clear"}
  /\ completers' = [completers EXCEPT ![w].pc = "return"]
  /\ UNCHANGED <<pictureFrame, pictures, store, sweeper>>

\* The three ends of a completion, each of a picture that is still being processed.
Outcome == [record |-> "READY", reject |-> "REJECTED", return |-> "PENDING"]
BugErasedAnyway(w) == completers[w].pc = "reject"
Rejects(w) ==
  completers[w].pc = "reject" /\ pictures[completers[w].picture].status = "PROCESSING"
Finish(w) ==
  LET p == completers[w].picture IN
  /\ completers[w].pc \in DOMAIN Outcome
  /\ pictures' = IF pictures[p].status = "PROCESSING"
                 THEN [pictures EXCEPT ![p].status = Outcome[completers[w].pc]] ELSE pictures
  /\ completers' = [completers EXCEPT ![w] =
                      IF Rejects(w) THEN [pc |-> "erase", picture |-> p] ELSE Resting]
  /\ UNCHANGED <<pictureFrame, store, sweeper>>
Erase(w) ==
  /\ completers[w].pc = "erase"
  /\ store' = [store EXCEPT ![completers[w].picture] = Nothing]
  /\ completers' = [completers EXCEPT ![w] = Resting]
  /\ UNCHANGED <<pictureFrame, pictures, sweeper>>
CompleterDies(w) ==
  /\ completers[w] # Resting
  /\ completers' = [completers EXCEPT ![w] = Resting]
  /\ UNCHANGED <<pictureFrame, pictures, store, sweeper>>

\* The script: uploads of URLs that are no longer good, then pictures nobody attached.
SweepUploads(p, lost) ==
  /\ pictures[p].status \notin {"NONE", "DELETED"}
  /\ pictures[p].age # "NEW" /\ ~ pictures[p].cleaned
  /\ store' = [store EXCEPT ![p].upload = "none"]
  /\ pictures' = IF lost THEN pictures ELSE [pictures EXCEPT ![p].cleaned = TRUE]
  /\ UNCHANGED <<pictureFrame, completers, sweeper>>
ClaimStale(p) ==
  /\ sweeper = Resting
  /\ pictures[p].status \notin {"NONE", "ATTACHED", "DELETED"} /\ pictures[p].age = "OLD"
  /\ pictures' = [pictures EXCEPT ![p].status = "REJECTED"]
  /\ sweeper' = [pc |-> "erase", picture |-> p]
  /\ UNCHANGED <<pictureFrame, store, completers>>
EraseStale ==
  /\ sweeper.pc = "erase"
  /\ store' = [store EXCEPT ![sweeper.picture] = Nothing]
  /\ sweeper' = [sweeper EXCEPT !.pc = "drop"]
  /\ UNCHANGED <<pictureFrame, pictures, completers>>
DropStale ==
  /\ sweeper.pc = "drop"
  /\ pictures' = IF pictures[sweeper.picture].status = "REJECTED"
                 THEN [pictures EXCEPT ![sweeper.picture].status = "DELETED"] ELSE pictures
  /\ sweeper' = Resting
  /\ UNCHANGED <<pictureFrame, store, completers>>
SweeperDies ==
  /\ sweeper # Resting /\ sweeper' = Resting
  /\ UNCHANGED <<pictureFrame, pictures, store, completers>>

-----------------------------------------------------------------------------
FInit ==
  /\ PaperInit
  /\ collections \in [Rides -> {[status |-> "READY", sections |-> Subjects]}]
  /\ handoffs = [e \in Rides |-> NoPaper]
  /\ tokens = 0
  /\ forms = [g \in Guests |-> Resting]
  /\ submissions = [c \in FormIds |-> NoPaper]
  /\ pictures = [p \in Pictures |-> NoPaper]
  /\ store = [p \in Pictures |-> Nothing]
  /\ completers = [w \in Completers |-> Resting]
  /\ sweeper = Resting

\* The versions whose questions rows of answers refer to.
VersionsAnswered ==
  UNION {{submissions[c].versions[s] : s \in submissions[c].answered} :
         c \in {k \in FormIds : submissions[k] # NoPaper}}

PaperStep ==
  /\ \/ \E q \in Papers, s \in Subjects, v \in Versions : CreatePaper(q, s, v)
     \/ \E o \in Editors : EditorStep(o, VersionsAnswered)
     \/ CreateConsent
  /\ UNCHANGED <<linkVars, forms, submissions, pictureVars>>
LinkStep(e) ==
  \/ \E secs \in SUBSET Subjects \ {{}} : Resection(e, secs)
  \/ \E multiple \in BOOLEAN : Issue(e, multiple)
  \/ LinkIsOver(e) \/ Begin(e) \/ Close(e)
GuestStep(g) ==
  \/ \E e \in Rides, c \in FormIds, p \in Pictures \cup {NoPicture} :
       \E answers \in SUBSET Subjects : Fill(g, e, c, p, answers)
  \/ Post(g) \/ Discard(g)
PictureStep(p) ==
  \/ \E e \in Rides : AddPicture(e, p)
  \/ \E object \in {"good", "bad"} : SendPicture(p, object)
  \/ PictureAges(p) \/ ClaimStale(p)
  \/ \E lost \in BOOLEAN : SweepUploads(p, lost)
CompleterStep(w) ==
  \/ \E p \in Pictures : Claim(w, p)
  \/ ReadUpload(w) \/ WriteImage(w) \/ ClearUpload(w) \/ StorageFails(w)
  \/ Finish(w) \/ Erase(w) \/ CompleterDies(w)

FNext ==
  \/ PaperStep
  \/ \E e \in Rides : LinkStep(e)
  \/ \E g \in Guests : GuestStep(g)
  \/ \E c \in FormIds, state \in {"NORMAL", "FLAGGED", "ARCHIVED"} : Review(c, state)
  \/ \E p \in Pictures : PictureStep(p)
  \/ \E w \in Completers : CompleterStep(w)
  \/ EraseStale \/ DropStale \/ SweeperDies

FSpec == FInit /\ [][FNext]_fVars

-----------------------------------------------------------------------------
(* Properties *)

\* The answers of a collection are to the versions, under the consent and in the mode of its
\* link, though the link is renewed, versions are published and the mode is asked for again
\* between them, and the version of every section that was answered has the questions the
\* guest was shown; an individual's link has one answer and is used up by it, and a group's
\* has one of each phone.
AnsweredAsAsked ==
  \A c \in FormIds : submissions[c] # NoPaper =>
    LET s == submissions[c]
        h == handoffs[s.ride]
    IN
    /\ h # NoPaper /\ collections[s.ride].status \in {"FEEDBACK_STARTED", "SUBMITTED"}
    /\ s.versions = h.versions /\ s.consent = h.consent /\ s.multiple = h.multiple
    /\ DOMAIN s.versions = collections[s.ride].sections
    /\ \A k \in s.answered : s.questions[k] = versions[s.versions[k]].questions
    /\ IF s.multiple
       THEN \A d \in Answered(s.ride) \ {c} : submissions[d].guest # s.guest
       ELSE Answered(s.ride) = {c} /\ h.status = "CONSUMED"
            /\ collections[s.ride].status = "SUBMITTED"

\* "renewal/closure must never race a new response" (feedback.service.ts): an answer comes
\* by the link as it is, not as it was when the guest read the form, and after a collection
\* is closed nothing of it changes but what staff make of its answers.
ClosedIsClosed ==
  [][/\ \A g \in Guests, c \in FormIds :
          (submissions[c] = NoPaper /\ submissions'[c] # NoPaper /\ submissions'[c].guest = g) =>
            /\ handoffs[forms[g].ride].token = forms[g].token
            /\ handoffs[forms[g].ride].status = "OPEN" /\ ~ handoffs[forms[g].ride].expired
     /\ \A e \in Rides : collections[e].status = "SUBMITTED" =>
          /\ collections'[e] = collections[e]
          /\ handoffs'[e] = [handoffs[e] EXCEPT !.expired = handoffs'[e].expired]
          /\ Answered(e)' = Answered(e)]_fVars

\* Whatever requests and scripts that complete, reject and sweep a picture do at once, and
\* wherever they die: a picture that is ready or attached has its image, and it is attached
\* to one answer.
AttachedHasImage ==
  \A p \in Pictures :
    /\ pictures[p].status \in {"READY", "ATTACHED"} => store[p].stored
    /\ pictures[p].status = "ATTACHED" <=>
         Cardinality({c \in FormIds : submissions[c] # NoPaper /\ submissions[c].picture = p}) = 1
=============================================================================
