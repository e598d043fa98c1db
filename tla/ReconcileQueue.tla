--------------------------- MODULE ReconcileQueue ---------------------------
(***************************************************************************)
(* The reconciliation queue: when the orders of Gateway are checked         *)
(* (src/src/modules/core/application/payment-reconciliation.ts).            *)
(*                                                                         *)
(* Every payment order has a job.  Workers lease jobs that are due, check    *)
(* the order at the gateway and schedule the next check; notifications of    *)
(* the gateway and requests of staff or customers make a job due at once,     *)
(* also while a worker is at it.  A worker may crash or be slower than its    *)
(* lease, so two of them may check an order at a time.                      *)
(*                                                                         *)
(* What a check learns is the news of the order, the results of its payments  *)
(* so far, and whether it is still open (READY or CREATING, or a payment      *)
(* that is not resolved).  Time is the actions Due, Expire and Age.          *)
(***************************************************************************)
EXTENDS Integers, FiniteSets

CONSTANTS
  Orders,
  Workers,      \* workers of the queue
  Requests,     \* requests to reconcile that run at a time
  Limit,        \* failures in a row that flag an order: 10
  MaxNews,      \* bound of the model on the results of the payments of one order
  MaxRevision,  \* bound of the model: no request is made beyond this revision
  Null

ASSUME QueueAssumption ==
  /\ Limit \in Nat \ {0} /\ MaxNews \in Nat /\ MaxRevision \in Nat
  /\ Workers \cap Requests = {}
  /\ Null \notin Workers

VARIABLES
  jobs,         \* core.payment_reconciliation_jobs
  runs,         \* the running checks
  known,        \* what the rows of the order say
  flagged,      \* orders with reviewRequiredAt
  old,          \* orders created more than closedRecheckDays ago
  accepted,     \* core.payment_webhook_events
  remote,       \* the gateway: the news of each order and whether it is open
  hooks         \* notifications on their way

db == <<jobs, known, flagged, accepted>>
vars == <<db, runs, old, remote, hooks>>

Checks == Workers \cup Requests
Facts == [news : 0 .. MaxNews, open : BOOLEAN]
Job ==
  [next : {"now", "later", "never"}, revision : Nat, token : Workers \cup {Null},
   leased : BOOLEAN, failures : 0 .. Limit]

Idle ==
  [pc |-> "idle", order |-> Null, revision |-> 0, failures |-> 0, saw |-> Null,
   earlier |-> {}, stale |-> FALSE]
At(c, pc) == runs[c].pc = pc
Observes(c, o) == runs[c].pc \in {"fetch", "record"} /\ runs[c].order = o

-----------------------------------------------------------------------------
(* The queue *)

BugRevisionKept(job) == [job EXCEPT !.next = "now"]
Enqueued(job) == [job EXCEPT !.next = "now", !.revision = @ + 1]
Enqueue(o) == jobs' = [jobs EXCEPT ![o] = Enqueued(@)]

\* The check of o by c begins: it takes the time of the database, and learns nothing any more
\* once an observation that began after it is committed.
Begin(c, o, run) ==
  runs' = [q \in Checks |->
    IF q = c THEN [run EXCEPT !.pc = "fetch", !.order = o,
                              !.earlier = {q2 \in Checks \ {c} : Observes(q2, o)}]
    ELSE [runs[q] EXCEPT !.earlier = @ \ {c}]]

\* A worker leases a job that is due and not leased, skipping rows others have locked.
Claimable(o) == jobs[o].next = "now" /\ (jobs[o].token = Null \/ ~ jobs[o].leased)
Claim(w, o) ==
  /\ runs[w] = Idle
  /\ Claimable(o)
  /\ jobs' = [jobs EXCEPT ![o].token = w, ![o].leased = TRUE]
  /\ Begin(w, o, [Idle EXCEPT !.revision = jobs[o].revision, !.failures = jobs[o].failures])
  /\ UNCHANGED <<known, flagged, accepted, old, remote, hooks>>

\* reconcile() of a request: it schedules a follow-up before it checks the order itself.
Ask(q, o) ==
  /\ runs[q] = Idle
  /\ jobs[o].revision < MaxRevision
  /\ Enqueue(o)
  /\ Begin(q, o, Idle)
  /\ UNCHANGED <<known, flagged, accepted, old, remote, hooks>>

Fetch(c) ==
  /\ At(c, "fetch")
  /\ runs' = [runs EXCEPT ![c].pc = "record", ![c].saw = remote[runs[c].order]]
  /\ UNCHANGED <<db, old, remote, hooks>>

\* The transaction of reconcile(): results are final, and closed orders stay closed.
Newer(facts, saw) ==
  [news |-> IF saw.news > facts.news THEN saw.news ELSE facts.news,
   open |-> facts.open /\ saw.open]
Recorded(c) ==
  IF runs[c].stale THEN known[runs[c].order] ELSE Newer(known[runs[c].order], runs[c].saw)
\* Observations of the order that began before c's, when c's is committed.
Overtaken(c) ==
  {q \in runs[c].earlier : ~ runs[c].stale /\ Observes(q, runs[c].order)}

Record(c) ==
  /\ At(c, "record")
  /\ known' = [known EXCEPT ![runs[c].order] = Recorded(c)]
  /\ runs' = [q \in Checks |->
       IF q # c THEN [runs[q] EXCEPT !.stale = @ \/ q \in Overtaken(c), !.earlier = @ \ {c}]
       ELSE IF c \in Requests THEN Idle
       ELSE [Idle EXCEPT !.pc = "complete", !.order = runs[c].order,
                         !.revision = runs[c].revision, !.saw = Recorded(c)]]
  /\ UNCHANGED <<jobs, flagged, accepted, old, remote, hooks>>

\* The gateway cannot be reached, or its answer is invalid.  The tenth failure in a row flags
\* the order; the next check is later.
Fail(w) ==
  LET failures == IF runs[w].failures < Limit THEN runs[w].failures + 1 ELSE Limit IN
  /\ w \in Workers /\ runs[w].pc \in {"fetch", "record"}
  /\ flagged' = IF failures = Limit THEN flagged \cup {runs[w].order} ELSE flagged
  /\ runs' = [q \in Checks |->
       IF q # w THEN [runs[q] EXCEPT !.earlier = @ \ {w}]
       ELSE [Idle EXCEPT !.pc = "complete", !.order = runs[w].order,
                         !.revision = runs[w].revision, !.failures = failures]]
  /\ UNCHANGED <<jobs, known, accepted, old, remote, hooks>>

\* The last statement of the worker: WHERE lease_token is its own, and now if the revision is
\* not the one it claimed.
BugNotFenced(w) == TRUE
Fenced(w) == jobs[runs[w].order].token = w

BugScheduleOverwritten(job, revision, next) == next
Schedule(job, revision, next) == IF job.revision = revision THEN next ELSE "now"

Complete(w) ==
  LET o == runs[w].order
      again == runs[w].saw = Null \/ runs[w].saw.open \/ o \notin old
  IN
  /\ At(w, "complete")
  /\ jobs' = IF ~ Fenced(w) THEN jobs
             ELSE [jobs EXCEPT ![o] =
                    [jobs[o] EXCEPT
                       !.next = Schedule(jobs[o], runs[w].revision,
                                         IF again THEN "later" ELSE "never"),
                       !.token = Null, !.leased = FALSE, !.failures = runs[w].failures]]
  /\ runs' = [runs EXCEPT ![w] = Idle]
  /\ UNCHANGED <<known, flagged, accepted, old, remote, hooks>>

Crash(c) ==
  /\ runs[c] # Idle
  /\ runs' = [q \in Checks |->
       IF q = c THEN Idle ELSE [runs[q] EXCEPT !.earlier = @ \ {c}]]
  /\ UNCHANGED <<db, old, remote, hooks>>

-----------------------------------------------------------------------------
(* Time *)

Due(o) ==
  /\ jobs[o].next = "later"
  /\ jobs' = [jobs EXCEPT ![o].next = "now"]
  /\ UNCHANGED <<runs, known, flagged, accepted, old, remote, hooks>>

Expire(o) ==
  /\ jobs[o].leased
  /\ jobs' = [jobs EXCEPT ![o].leased = FALSE]
  /\ UNCHANGED <<runs, known, flagged, accepted, old, remote, hooks>>

Age(o) ==
  /\ o \notin old
  /\ old' = old \cup {o}
  /\ UNCHANGED <<db, runs, remote, hooks>>

-----------------------------------------------------------------------------
(* The gateway, and its notifications *)

News(o) ==
  /\ remote[o].news < MaxNews
  /\ remote' = [remote EXCEPT ![o].news = @ + 1]
  /\ hooks' = hooks \cup {<<o, remote[o].news + 1>>}
  /\ UNCHANGED <<db, runs, old>>

Close(o) ==
  /\ remote[o].open
  /\ remote' = [remote EXCEPT ![o].open = FALSE]
  /\ UNCHANGED <<db, runs, old, hooks>>

\* receivePaymentWebhook(): a notification that is known already changes nothing.  Without the
\* acknowledgement, which may be lost, the gateway repeats it.
Receive(o, n) ==
  /\ <<o, n>> \in hooks
  /\ IF n \in accepted[o] THEN UNCHANGED <<jobs, accepted>>
     ELSE Enqueue(o) /\ accepted' = [accepted EXCEPT ![o] = @ \cup {n}]
  /\ hooks' \in {hooks, hooks \ {<<o, n>>}}
  /\ UNCHANGED <<runs, known, flagged, old, remote>>

Lose(o, n) ==
  /\ <<o, n>> \in hooks
  /\ hooks' = hooks \ {<<o, n>>}
  /\ UNCHANGED <<db, runs, old, remote>>

-----------------------------------------------------------------------------
Init ==
  /\ jobs = [o \in Orders |-> [next |-> "now", revision |-> 0, token |-> Null,
                               leased |-> FALSE, failures |-> 0]]
  /\ runs = [c \in Checks |-> Idle]
  /\ known = [o \in Orders |-> [news |-> 0, open |-> TRUE]]
  /\ flagged = {} /\ old = {}
  /\ accepted = [o \in Orders |-> {}]
  /\ remote = [o \in Orders |-> [news |-> 0, open |-> TRUE]]
  /\ hooks = {}

WorkerStep(w) == (\E o \in Orders : Claim(w, o)) \/ Fetch(w) \/ Record(w) \/ Complete(w)
RequestStep(q) == (\E o \in Orders : Ask(q, o)) \/ Fetch(q) \/ Record(q)
Time == \E o \in Orders : Due(o) \/ Expire(o) \/ Age(o)
Environment ==
  \E o \in Orders :
    \/ News(o) \/ Close(o)
    \/ \E n \in 1 .. MaxNews : Receive(o, n) \/ Lose(o, n)

Next ==
  \/ \E w \in Workers : WorkerStep(w) \/ Fail(w)
  \/ \E q \in Requests : RequestStep(q)
  \/ \E c \in Checks : Crash(c)
  \/ Time
  \/ Environment

Spec == Init /\ [][Next]_vars

\* The workers poll the queue for ever (startPaymentReconciliationWorker), time passes, and
\* from some time on the gateway answers and no worker crashes.
WorkerFails == \E w \in Workers : Fail(w) \/ Crash(w)
Fairness ==
  /\ \A w \in Workers : WF_vars(WorkerStep(w))
  /\ \A o \in Orders : WF_vars(Due(o)) /\ WF_vars(Expire(o))
  /\ <>[][~ WorkerFails]_vars
FairSpec == Spec /\ Fairness

-----------------------------------------------------------------------------
(* Properties *)

\* The columns of commercial.schema.ts, and a lease has a token.
TypeOK ==
  /\ jobs \in [Orders -> Job]
  /\ known \in [Orders -> Facts] /\ remote \in [Orders -> Facts]
  /\ accepted \in [Orders -> SUBSET (1 .. MaxNews)]
  /\ \A o \in Orders : jobs[o].leased => jobs[o].token # Null

\* An order that is open, or whose accepted notification has not been followed by a check that
\* saw its result, stays scheduled, whichever workers, requests and notifications overlap.
NothingForgotten ==
  \A o \in Orders :
    (known[o].open \/ \E n \in accepted[o] : n > known[o].news) => jobs[o].next # "never"

\* Until its time runs out, a lease is ended by its holder only: a slow worker that has lost its
\* lease neither frees nor takes that of another.
LeaseIsKept ==
  [][\A o \in Orders, w \in Workers :
       (jobs[o].token = w /\ jobs[o].leased /\ runs[w].order = o /\ runs'[w] = runs[w]) =>
         jobs'[o].token = w]_vars

\* The result of a payment whose notification was accepted is recorded in the end.
AcceptedIsRecorded ==
  \A o \in Orders : \A n \in 1 .. MaxNews : n \in accepted[o] ~> known[o].news >= n
=============================================================================
