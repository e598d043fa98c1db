--------------------------- MODULE Questionnaires ---------------------------
(***************************************************************************)
(* The questionnaires passengers answer, and the consent they give            *)
(* (src/src/modules/questionnaires).  A questionnaire has versions; one version  *)
(* of each subject is published at a time.                                       *)
(*                                                                         *)
(* Editors' requests read before they begin the transaction that writes, so       *)
(* each has a step for what it reads and one for its transaction.  Feedback, which      *)
(* is composed of these steps and its own, has the specification.                       *)
(***************************************************************************)
EXTENDS Integers, FiniteSets, FiniteSetsExt

CONSTANTS
  Subjects,      \* purposes of questionnaires
  Papers, Versions,
  Contents,      \* sets of questions a version can have
  Blank,         \* that of a new questionnaire
  Sound,         \* those that can be published
  Editors,       \* requests of editors that can be in progress at once
  MaxConsent     \* bound of the versions of the consent

ASSUME QuestionnairesAssumption ==
  Blank \in Contents /\ Sound \subseteq Contents \ {Blank} /\ MaxConsent \in Nat

VARIABLES
  papers,    \* questionnaires
  versions,  \* questionnaire_versions, with their questions
  consent,   \* consent_versions: the number of the active one, or 0
  edits      \* editors' requests in progress

paperVars == <<papers, versions, consent, edits>>

NoPaper == [status |-> "NONE"]
Resting == [pc |-> "resting"]

PaperRow == [status : {"ACTIVE", "ARCHIVED"}, subject : Subjects]
VersionRow ==
  [status : {"DRAFT", "ACTIVE", "RETIRED", "ARCHIVED"}, paper : Papers, subject : Subjects,
   number : 1 .. Cardinality(Versions), questions : Contents]

VersionsOf(q) == {v \in Versions : versions[v] # NoPaper /\ versions[v].paper = q}
Published(s) == {v \in Versions : versions[v].status = "ACTIVE" /\ versions[v].subject = s}
Latest(q) == CHOOSE v \in VersionsOf(q) : \A w \in VersionsOf(q) : versions[w].number <= versions[v].number

\* An archive that has begun has the rows of the published versions it found.
HeldBack(v) == \E e \in Editors : edits[e].pc = "archive" /\ v \in edits[e].retires

-----------------------------------------------------------------------------
\* create(), under the lock of the subject.
CreatePaper(q, s, v) ==
  /\ papers[q] = NoPaper /\ versions[v] = NoPaper
  /\ \A p \in Papers : ~ (papers[p].status = "ACTIVE" /\ papers[p].subject = s)
  /\ papers' = [papers EXCEPT ![q] = [status |-> "ACTIVE", subject |-> s]]
  /\ versions' = [versions EXCEPT ![v] =
       [status |-> "DRAFT", paper |-> q, subject |-> s, number |-> 1, questions |-> Blank]]
  /\ UNCHANGED <<consent, edits>>

\* archive(): one transaction of three statements, of which the last sees what others commit
\* after the second.
BeginArchivePaper(e, q) ==
  /\ edits[e] = Resting /\ papers[q] # NoPaper
  /\ \A o \in Editors : ~ (edits[o].pc = "archive" /\ edits[o].paper = q)
  /\ edits' = [edits EXCEPT ![e] =
       [pc |-> "archive", paper |-> q,
        retires |-> {v \in VersionsOf(q) : versions[v].status = "ACTIVE"}]]
  /\ UNCHANGED <<papers, versions, consent>>
ArchivePaper(e) ==
  /\ edits[e].pc = "archive"
  /\ papers' = [papers EXCEPT ![edits[e].paper].status = "ARCHIVED"]
  /\ versions' = [v \in Versions |->
       IF v \in edits[e].retires THEN [versions[v] EXCEPT !.status = "RETIRED"]
       ELSE IF v \in VersionsOf(edits[e].paper) /\ versions[v].status = "DRAFT"
       THEN [versions[v] EXCEPT !.status = "ARCHIVED"] ELSE versions[v]]
  /\ edits' = [edits EXCEPT ![e] = Resting]
  /\ UNCHANGED consent

\* assertDraft(), which begins every change of a draft.
AskDraft(e, pc, v, questions) ==
  /\ edits[e] = Resting
  /\ versions[v].status = "DRAFT" /\ papers[versions[v].paper].status # "ARCHIVED"
  /\ pc = "publish" => versions[v].questions \in Sound
  /\ edits' = [edits EXCEPT ![e] = [pc |-> pc, version |-> v, questions |-> questions]]
  /\ UNCHANGED <<papers, versions, consent>>

\* replaceQuestions()
Replace(e) ==
  /\ edits[e].pc = "replace"
  /\ versions' = [versions EXCEPT ![edits[e].version].questions = edits[e].questions]
  /\ edits' = [edits EXCEPT ![e] = Resting]
  /\ UNCHANGED <<papers, consent>>

\* publish(), under the lock of the subject.
Publish(e) ==
  LET v == edits[e].version IN
  /\ edits[e].pc = "publish" /\ versions[v].status = "DRAFT"
  /\ \A w \in Published(versions[v].subject) : ~ HeldBack(w)
  /\ versions' = [w \in Versions |->
       IF w = v THEN [versions[w] EXCEPT !.status = "ACTIVE"]
       ELSE IF w \in Published(versions[v].subject)
       THEN [versions[w] EXCEPT !.status = "RETIRED"] ELSE versions[w]]
  /\ edits' = [edits EXCEPT ![e] = Resting]
  /\ UNCHANGED <<papers, consent>>

ArchiveDraft(e) ==
  LET v == edits[e].version IN
  /\ edits[e].pc = "discard"
  /\ versions' = IF versions[v].status = "DRAFT"
                 THEN [versions EXCEPT ![v].status = "ARCHIVED"] ELSE versions
  /\ edits' = [edits EXCEPT ![e] = Resting]
  /\ UNCHANGED <<papers, consent>>

\* createDraft(), of the questions of the latest version.
AskNewDraft(e, q) ==
  /\ edits[e] = Resting /\ papers[q] # NoPaper
  /\ \A v \in VersionsOf(q) : versions[v].status # "DRAFT"
  /\ edits' = [edits EXCEPT ![e] =
       [pc |-> "draft", paper |-> q, number |-> versions[Latest(q)].number + 1,
        questions |-> versions[Latest(q)].questions]]
  /\ UNCHANGED <<papers, versions, consent>>
CreateDraft(e, v) ==
  LET q == edits[e].paper IN
  /\ edits[e].pc = "draft" /\ versions[v] = NoPaper
  /\ \A w \in VersionsOf(q) : versions[w].number # edits[e].number
  /\ versions' = [versions EXCEPT ![v] =
       [status |-> "DRAFT", paper |-> q, subject |-> papers[q].subject,
        number |-> edits[e].number, questions |-> edits[e].questions]]
  /\ edits' = [edits EXCEPT ![e] = Resting]
  /\ UNCHANGED <<papers, consent>>

EditFails(e) ==
  /\ edits[e] # Resting
  /\ edits' = [edits EXCEPT ![e] = Resting]
  /\ UNCHANGED <<papers, versions, consent>>

\* createConsent() retires the active version.
CreateConsent ==
  /\ consent < MaxConsent
  /\ consent' = consent + 1
  /\ UNCHANGED <<papers, versions, edits>>

-----------------------------------------------------------------------------
PaperInit ==
  /\ papers = [q \in Papers |-> NoPaper]
  /\ versions = [v \in Versions |-> NoPaper]
  /\ consent = 0
  /\ edits = [e \in Editors |-> Resting]

\* What an editor does.  Rows of answers refer to the questions of the versions in answered,
\* and restrict that replaceQuestions() deletes them; nothing else keeps it from a version
\* that was published after assertDraft().
EditorStep(e, answered) ==
  \/ \E q \in Papers : BeginArchivePaper(e, q) \/ AskNewDraft(e, q)
  \/ ArchivePaper(e)
  \/ \E v \in Versions :
       \/ \E questions \in Contents \ {Blank} : AskDraft(e, "replace", v, questions)
       \/ AskDraft(e, "publish", v, Blank) \/ AskDraft(e, "discard", v, Blank)
       \/ CreateDraft(e, v)
  \/ edits[e].pc = "replace" /\ edits[e].version \notin answered /\ Replace(e)
  \/ Publish(e) \/ ArchiveDraft(e) \/ EditFails(e)
=============================================================================
