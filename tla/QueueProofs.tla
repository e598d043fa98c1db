----------------------------- MODULE QueueProofs -----------------------------
(***************************************************************************)
(* Theorems about ReconcileQueue, for every number of orders, workers,      *)
(* requests, results and failures.                                          *)
(***************************************************************************)
EXTENDS ReconcileQueue, TLAPS

USE QueueAssumption

-----------------------------------------------------------------------------
(* The invariants *)

\* What a check remembers.
Run ==
  [pc : {"idle", "fetch", "record", "complete"}, order : Orders \cup {Null}, revision : Nat,
   failures : 0 .. Limit, saw : Facts \cup {Null}, earlier : SUBSET Checks, stale : BOOLEAN]

RunsOK ==
  /\ runs \in [Checks -> Run]
  /\ \A c \in Checks :
       /\ ~ At(c, "idle") => runs[c].order \in Orders
       /\ At(c, "record") => runs[c].saw \in Facts
       /\ At(c, "complete") => c \in Workers
  /\ hooks \subseteq Orders \X (1 .. MaxNews)

Typed == TypeOK /\ RunsOK

\* No notification is ahead of the gateway.
NewsIsOld ==
  /\ \A h \in hooks : h[2] <= remote[h[1]].news
  /\ \A o \in Orders : \A n \in accepted[o] : n <= remote[o].news

\* A worker's check is of a revision its job has had.
RevisionsBehind ==
  \A w \in Workers : ~ At(w, "idle") => runs[w].revision <= jobs[runs[w].order].revision

\* Nothing was asked of the order since the worker leased its job.
Unasked(w) == ~ At(w, "idle") /\ runs[w].revision = jobs[runs[w].order].revision

\* A worker that may schedule no further check has learned, or another check has recorded,
\* everything that was accepted; so has whoever may still make the worker's observation stale.
Learned ==
  \A w \in Workers : Unasked(w) => \A n \in accepted[runs[w].order] :
    /\ (At(w, "record") \/ (At(w, "complete") /\ runs[w].saw # Null)) => n <= runs[w].saw.news
    /\ runs[w].stale => n <= known[runs[w].order].news
    /\ \A q \in Checks :
         (At(q, "record") /\ runs[q].order = runs[w].order /\ w \in runs[q].earlier) =>
           n <= runs[q].saw.news

\* What a worker completes with is in the rows of the order, which only grow.
SawRecorded ==
  \A w \in Workers : (At(w, "complete") /\ runs[w].saw # Null) =>
    /\ runs[w].saw \in Facts
    /\ runs[w].saw.news <= known[runs[w].order].news
    /\ known[runs[w].order].open => runs[w].saw.open

QueueInv == NewsIsOld /\ RevisionsBehind /\ Learned /\ SawRecorded /\ NothingForgotten

-----------------------------------------------------------------------------
(* Type correctness *)

LEMMA InitTyped == Init => Typed
  BY DEF Init, Typed, TypeOK, RunsOK, Job, Facts, Run, Idle, At, Checks

LEMMA IdleIsARun ==
  /\ Idle \in Run
  /\ Idle.pc = "idle" /\ Idle.saw = Null /\ ~ Idle.stale /\ Idle.earlier = {}
<1>1. Idle \in Run
  BY DEF Idle, Run
<1> QED
  BY <1>1 DEF Idle

\* The run of q after a check by c has begun or ended without a result.
Withdrawn(q, c) ==
  /\ runs'[q].pc = runs[q].pc /\ runs'[q].order = runs[q].order
  /\ runs'[q].saw = runs[q].saw /\ runs'[q].revision = runs[q].revision
  /\ runs'[q].stale = runs[q].stale /\ runs'[q].earlier = runs[q].earlier \ {c}

LEMMA WithdrawnRun ==
  ASSUME NEW q \in Checks, NEW c \in Checks, runs[q] \in Run,
         runs'[q] = [runs[q] EXCEPT !.earlier = runs[q].earlier \ {c}]
  PROVE  runs'[q] \in Run /\ Withdrawn(q, c)
  BY DEF Run, Withdrawn

\* A check that begins.
LEMMA BeginIsTyped ==
  ASSUME RunsOK, NEW c \in Checks, NEW o \in Orders, NEW run \in Run, Begin(c, o, run)
  PROVE  /\ runs' \in [Checks -> Run]
         /\ runs'[c].pc = "fetch" /\ runs'[c].order = o /\ runs'[c].revision = run.revision
         /\ runs'[c].stale = run.stale
         /\ \A q \in Checks \ {c} : Withdrawn(q, c)
<1> DEFINE E == {q2 \in Checks \ {c} : Observes(q2, o)}
           new == [run EXCEPT !.pc = "fetch", !.order = o, !.earlier = E]
<1>1. E \in SUBSET Checks
  OBVIOUS
<1>2. /\ new \in Run /\ new.pc = "fetch" /\ new.order = o
      /\ new.revision = run.revision /\ new.stale = run.stale
  BY <1>1 DEF Run
<1>3. runs' = [q \in Checks |->
        IF q = c THEN new ELSE [runs[q] EXCEPT !.earlier = runs[q].earlier \ {c}]]
  BY DEF Begin
<1> HIDE DEF new
<1>4. \A q \in Checks \ {c} : runs'[q] \in Run /\ Withdrawn(q, c)
  BY <1>3, WithdrawnRun DEF RunsOK
<1> QED
  BY <1>2, <1>3, <1>4

LEMMA EnqueuedIsAJob ==
  ASSUME NEW job \in Job
  PROVE  /\ Enqueued(job) \in Job
         /\ Enqueued(job).next = "now" /\ Enqueued(job).revision = job.revision + 1
         /\ Enqueued(job).token = job.token /\ Enqueued(job).leased = job.leased
<1> DEFINE a == [job EXCEPT !.next = "now"]
           b == [a EXCEPT !.revision = job.revision + 1]
<1>1. job.revision \in Nat /\ job.revision + 1 \in Nat
  BY DEF Job
<1>2. a \in Job /\ a.next = "now" /\ a.token = job.token /\ a.leased = job.leased
  BY DEF Job
<1>3. /\ b \in Job /\ b.revision = job.revision + 1
      /\ b.next = a.next /\ b.token = a.token /\ b.leased = a.leased
  BY <1>1, <1>2 DEF Job
<1>4. Enqueued(job) = b
  BY DEF Enqueued
<1> HIDE DEF a, b
<1> QED
  BY <1>2, <1>3, <1>4

LEMMA EnqueueIsTyped ==
  ASSUME TypeOK, NEW o \in Orders, Enqueue(o)
  PROVE  /\ jobs' \in [Orders -> Job]
         /\ \A p \in Orders : jobs'[p].leased => jobs'[p].token # Null
         /\ \A p \in Orders \ {o} : jobs'[p] = jobs[p]
         /\ jobs'[o].next = "now" /\ jobs'[o].revision = jobs[o].revision + 1
         /\ jobs'[o].token = jobs[o].token /\ jobs'[o].leased = jobs[o].leased
<1> DEFINE row == Enqueued(jobs[o])
<1>1. jobs[o] \in Job
  BY DEF TypeOK
<1>2. /\ row \in Job
      /\ row.next = "now" /\ row.revision = jobs[o].revision + 1
      /\ row.token = jobs[o].token /\ row.leased = jobs[o].leased
  BY <1>1, EnqueuedIsAJob
<1>3. jobs' = [jobs EXCEPT ![o] = row]
  BY DEF Enqueue
<1> HIDE DEF row
<1> QED
  BY <1>2, <1>3 DEF TypeOK

LEMMA NewerIsFacts ==
  ASSUME NEW facts \in Facts, NEW saw \in Facts
  PROVE  /\ Newer(facts, saw) \in Facts
         /\ facts.news <= Newer(facts, saw).news /\ saw.news <= Newer(facts, saw).news
         /\ Newer(facts, saw).open => facts.open /\ saw.open
  BY DEF Newer, Facts

LEMMA ClaimTyped ==
  ASSUME Typed, NEW w \in Workers, NEW o \in Orders, Claim(w, o)
  PROVE  Typed'
<1> USE DEF Typed
<1> DEFINE run == [Idle EXCEPT !.revision = jobs[o].revision, !.failures = jobs[o].failures]
<1>1. jobs[o] \in Job /\ w \in Checks /\ w # Null
  BY DEF TypeOK, Checks
<1>2. run \in Run
  BY <1>1 DEF Idle, Run, Job
<1>3. /\ runs' \in [Checks -> Run]
      /\ runs'[w].pc = "fetch" /\ runs'[w].order = o
      /\ \A q \in Checks \ {w} : Withdrawn(q, w)
  <2>1. Begin(w, o, run)
    BY DEF Claim
  <2> QED
    BY <1>1, <1>2, <2>1, BeginIsTyped
<1>4. TypeOK'
  BY <1>1 DEF Claim, TypeOK, Job
<1>5. RunsOK'
  BY <1>1, <1>3 DEF Claim, RunsOK, Withdrawn, At
<1> QED
  BY <1>4, <1>5

LEMMA AskTyped ==
  ASSUME Typed, NEW q \in Requests, NEW o \in Orders, Ask(q, o)
  PROVE  Typed'
<1> USE DEF Typed
<1>1. q \in Checks
  BY DEF Checks
<1>2. /\ runs' \in [Checks -> Run]
      /\ runs'[q].pc = "fetch" /\ runs'[q].order = o
      /\ \A p \in Checks \ {q} : Withdrawn(p, q)
  BY <1>1, BeginIsTyped, IdleIsARun DEF Ask
<1>3. TypeOK'
  BY EnqueueIsTyped DEF Ask, TypeOK
<1>4. RunsOK'
  BY <1>1, <1>2 DEF Ask, RunsOK, Withdrawn, At
<1> QED
  BY <1>3, <1>4

LEMMA FetchTyped ==
  ASSUME Typed, NEW c \in Checks, Fetch(c)
  PROVE  Typed'
<1> USE DEF Typed
<1>1. runs[c] \in Run /\ runs[c].order \in Orders /\ remote[runs[c].order] \in Facts
  BY DEF RunsOK, TypeOK, Fetch, At
<1>2. TypeOK'
  BY DEF Fetch, db, TypeOK
<1>3. RunsOK'
  BY <1>1 DEF Fetch, db, RunsOK, Run, At
<1> QED
  BY <1>2, <1>3

\* What is left of a run: of the others' when a check records or ends, and of its own.
Overtake(run, s, es) == [run EXCEPT !.stale = s, !.earlier = es]
Completing(o, v, saw) ==
  [Idle EXCEPT !.pc = "complete", !.order = o, !.revision = v, !.saw = saw]
Failed(o, v, failures) ==
  [Idle EXCEPT !.pc = "complete", !.order = o, !.revision = v, !.failures = failures]

LEMMA OvertakenRun ==
  ASSUME NEW run \in Run, NEW s \in BOOLEAN, NEW es \in SUBSET Checks
  PROVE  /\ Overtake(run, s, es) \in Run
         /\ Overtake(run, s, es).pc = run.pc /\ Overtake(run, s, es).order = run.order
         /\ Overtake(run, s, es).saw = run.saw
         /\ Overtake(run, s, es).revision = run.revision
         /\ Overtake(run, s, es).stale <=> s
         /\ Overtake(run, s, es).earlier = es
<1> DEFINE a == [run EXCEPT !.stale = s]
           b == [a EXCEPT !.earlier = es]
<1>1. /\ a \in Run /\ a.pc = run.pc /\ a.order = run.order /\ a.saw = run.saw
      /\ a.revision = run.revision
  BY DEF Run
<1>2. a.stale <=> s
  BY DEF Run
<1>3. /\ b \in Run /\ b.pc = a.pc /\ b.order = a.order /\ b.saw = a.saw
      /\ b.revision = a.revision /\ b.earlier = es
  BY <1>1 DEF Run
<1>4. b.stale <=> a.stale
  BY <1>1 DEF Run
<1>5. Overtake(run, s, es) = b
  BY DEF Overtake
<1> HIDE DEF a, b
<1> QED
  BY <1>1, <1>2, <1>3, <1>4, <1>5

LEMMA CompletedRun ==
  ASSUME NEW o \in Orders, NEW v \in Nat, NEW saw \in Facts
  PROVE  /\ Completing(o, v, saw) \in Run
         /\ Completing(o, v, saw).pc = "complete" /\ Completing(o, v, saw).order = o
         /\ Completing(o, v, saw).revision = v /\ Completing(o, v, saw).saw = saw
         /\ ~ Completing(o, v, saw).stale
<1> DEFINE a == [Idle EXCEPT !.pc = "complete"]
           b == [a EXCEPT !.order = o]
           c == [b EXCEPT !.revision = v]
           d == [c EXCEPT !.saw = saw]
<1>1. a \in Run /\ a.pc = "complete" /\ a.stale = Idle.stale
  BY IdleIsARun DEF Run
<1>2. b \in Run /\ b.pc = a.pc /\ b.order = o /\ b.stale = a.stale
  BY <1>1 DEF Run
<1>3. /\ c \in Run /\ c.pc = b.pc /\ c.order = b.order /\ c.revision = v
      /\ c.stale = b.stale
  BY <1>2 DEF Run
<1>4. /\ d \in Run /\ d.pc = c.pc /\ d.order = c.order /\ d.revision = c.revision
      /\ d.saw = saw /\ d.stale = c.stale
  BY <1>3 DEF Run
<1>5. Completing(o, v, saw) = d
  BY DEF Completing
<1> HIDE DEF a, b, c, d
<1> QED
  BY <1>1, <1>2, <1>3, <1>4, <1>5, IdleIsARun

LEMMA FailedRun ==
  ASSUME NEW o \in Orders, NEW v \in Nat, NEW failures \in 0 .. Limit
  PROVE  /\ Failed(o, v, failures) \in Run
         /\ Failed(o, v, failures).pc = "complete" /\ Failed(o, v, failures).order = o
         /\ Failed(o, v, failures).revision = v /\ Failed(o, v, failures).saw = Null
         /\ ~ Failed(o, v, failures).stale
<1> DEFINE a == [Idle EXCEPT !.pc = "complete"]
           b == [a EXCEPT !.order = o]
           c == [b EXCEPT !.revision = v]
           d == [c EXCEPT !.failures = failures]
<1>1. a \in Run /\ a.pc = "complete" /\ a.saw = Idle.saw /\ a.stale = Idle.stale
  BY IdleIsARun DEF Run
<1>2. b \in Run /\ b.pc = a.pc /\ b.order = o /\ b.saw = a.saw /\ b.stale = a.stale
  BY <1>1 DEF Run
<1>3. /\ c \in Run /\ c.pc = b.pc /\ c.order = b.order /\ c.revision = v
      /\ c.saw = b.saw /\ c.stale = b.stale
  BY <1>2 DEF Run
<1>4. /\ d \in Run /\ d.pc = c.pc /\ d.order = c.order /\ d.revision = c.revision
      /\ d.saw = c.saw /\ d.stale = c.stale
  BY <1>3 DEF Run
<1>5. Failed(o, v, failures) = d
  BY DEF Failed
<1> HIDE DEF a, b, c, d
<1> QED
  BY <1>1, <1>2, <1>3, <1>4, <1>5, IdleIsARun

\* What a step of Record does to the runs.
LEMMA RecordRuns ==
  ASSUME Typed, NEW c \in Checks, Record(c)
  PROVE  /\ runs[c] \in Run /\ runs[c].order \in Orders
         /\ runs[c].saw \in Facts /\ Recorded(c) \in Facts
         /\ runs' \in [Checks -> Run]
         /\ \A q \in Checks \ {c} :
              /\ runs'[q].pc = runs[q].pc /\ runs'[q].order = runs[q].order
              /\ runs'[q].saw = runs[q].saw /\ runs'[q].revision = runs[q].revision
              /\ runs'[q].stale <=> (runs[q].stale \/ q \in Overtaken(c))
              /\ runs'[q].earlier = runs[q].earlier \ {c}
         /\ \/ runs'[c] = Idle
            \/ /\ c \in Workers
               /\ runs'[c].pc = "complete" /\ runs'[c].order = runs[c].order
               /\ runs'[c].revision = runs[c].revision /\ runs'[c].saw = Recorded(c)
               /\ ~ runs'[c].stale
<1> DEFINE o == runs[c].order
           done == Completing(o, runs[c].revision, Recorded(c))
           Stale(q) == runs[q].stale \/ q \in Overtaken(c)
           Other(q) == Overtake(runs[q], Stale(q), runs[q].earlier \ {c})
<1>1. runs[c] \in Run /\ o \in Orders /\ runs[c].saw \in Facts /\ known[o] \in Facts
  BY DEF Typed, RunsOK, TypeOK, Record, At
<1>2. Recorded(c) \in Facts
  BY <1>1, NewerIsFacts DEF Recorded
<1>3. /\ done \in Run /\ done.pc = "complete" /\ done.order = o
      /\ done.revision = runs[c].revision /\ done.saw = Recorded(c) /\ ~ done.stale
  <2>1. runs[c].revision \in Nat
    BY <1>1 DEF Run
  <2> QED
    BY <1>1, <1>2, <2>1, CompletedRun
<1>4. ASSUME NEW q \in Checks
      PROVE  /\ Other(q) \in Run
             /\ Other(q).pc = runs[q].pc /\ Other(q).order = runs[q].order
             /\ Other(q).saw = runs[q].saw /\ Other(q).revision = runs[q].revision
             /\ Other(q).stale <=> Stale(q)
             /\ Other(q).earlier = runs[q].earlier \ {c}
  <2>1. runs[q] \in Run
    BY DEF Typed, RunsOK
  <2>2. Stale(q) \in BOOLEAN /\ runs[q].earlier \ {c} \in SUBSET Checks
    BY <2>1 DEF Run
  <2> HIDE DEF Stale
  <2> QED
    BY <2>1, <2>2, OvertakenRun
<1>5. runs' = [q \in Checks |->
        IF q # c THEN Other(q) ELSE IF c \in Requests THEN Idle ELSE done]
  BY DEF Record, Overtake, Completing
<1>6. c \notin Requests => c \in Workers
  BY DEF Checks
<1> HIDE DEF Other, done, Stale
<1>7. runs' \in [Checks -> Run]
  BY <1>3, <1>4, <1>5, IdleIsARun
<1>8. \A q \in Checks \ {c} : runs'[q] = Other(q)
  BY <1>5
<1>9. runs'[c] = IF c \in Requests THEN Idle ELSE done
  BY <1>5
<1>10. \A q \in Checks \ {c} :
              /\ runs'[q].pc = runs[q].pc /\ runs'[q].order = runs[q].order
              /\ runs'[q].saw = runs[q].saw /\ runs'[q].revision = runs[q].revision
              /\ runs'[q].stale <=> (runs[q].stale \/ q \in Overtaken(c))
              /\ runs'[q].earlier = runs[q].earlier \ {c}
  BY <1>4, <1>8, Zenon DEF Stale
<1> QED
  BY <1>1, <1>2, <1>3, <1>6, <1>7, <1>9, <1>10, Zenon

LEMMA RecordTyped ==
  ASSUME Typed, NEW c \in Checks, Record(c)
  PROVE  Typed'
<1>1. TypeOK'
  BY RecordRuns, ZenonT(40) DEF Record, TypeOK, Typed
<1>2. RunsOK'
  <2>1. hooks' = hooks /\ Idle.pc = "idle"
    BY DEF Record, Idle
  <2> QED
    BY <2>1, RecordRuns DEF Typed, RunsOK, At
<1> QED
  BY <1>1, <1>2 DEF Typed

LEMMA FailRuns ==
  ASSUME Typed, NEW w \in Workers, Fail(w)
  PROVE  /\ w \in Checks /\ runs[w] \in Run /\ runs[w].order \in Orders
         /\ runs' \in [Checks -> Run]
         /\ \A q \in Checks \ {w} : Withdrawn(q, w)
         /\ runs'[w].pc = "complete" /\ runs'[w].order = runs[w].order
         /\ runs'[w].revision = runs[w].revision /\ runs'[w].saw = Null
         /\ ~ runs'[w].stale
<1> DEFINE failures == IF runs[w].failures < Limit THEN runs[w].failures + 1 ELSE Limit
           done == Failed(runs[w].order, runs[w].revision, failures)
<1>1. w \in Checks /\ runs[w] \in Run /\ runs[w].order \in Orders
  BY DEF Typed, RunsOK, Fail, At, Checks
<1>2. failures \in 0 .. Limit /\ runs[w].revision \in Nat
  BY <1>1 DEF Run
<1>3. runs' = [q \in Checks |->
        IF q # w THEN [runs[q] EXCEPT !.earlier = runs[q].earlier \ {w}] ELSE done]
  BY DEF Fail, Failed
<1> HIDE DEF failures
<1>4. /\ done \in Run /\ done.pc = "complete" /\ done.order = runs[w].order
      /\ done.revision = runs[w].revision /\ done.saw = Null /\ ~ done.stale
  BY <1>1, <1>2, FailedRun
<1> HIDE DEF done
<1>5. \A q \in Checks : runs[q] \in Run
  BY DEF Typed, RunsOK
<1>6. runs'[w] = done
  BY <1>1, <1>3
<1>7. ASSUME NEW q \in Checks \ {w}
      PROVE  runs'[q] \in Run /\ Withdrawn(q, w)
  <2>1. runs'[q] = [runs[q] EXCEPT !.earlier = runs[q].earlier \ {w}]
    BY <1>3
  <2> QED
    BY <1>1, <1>5, <2>1, WithdrawnRun
<1>8. runs' \in [Checks -> Run]
  BY <1>3, <1>4, <1>6, <1>7
<1> QED
  BY <1>1, <1>4, <1>6, <1>7, <1>8

LEMMA FailTyped ==
  ASSUME Typed, NEW w \in Workers, Fail(w)
  PROVE  Typed'
<1>1. TypeOK'
  BY DEF Fail, TypeOK, Typed
<1>2. RunsOK'
  <2>1. hooks' = hooks
    BY DEF Fail
  <2> QED
    BY <2>1, FailRuns DEF Typed, RunsOK, At, Withdrawn
<1> QED
  BY <1>1, <1>2 DEF Typed

LEMMA CompleteTyped ==
  ASSUME Typed, NEW w \in Workers, Complete(w)
  PROVE  Typed'
<1> USE DEF Typed
<1> DEFINE o == runs[w].order
           next == Schedule(jobs[o], runs[w].revision,
                     IF runs[w].saw = Null \/ runs[w].saw.open \/ o \notin old
                     THEN "later" ELSE "never")
           a == [jobs[o] EXCEPT !.next = next]
           b == [a EXCEPT !.token = Null]
           c == [b EXCEPT !.leased = FALSE]
           d == [c EXCEPT !.failures = runs[w].failures]
<1>1. w \in Checks /\ runs[w] \in Run /\ o \in Orders /\ jobs[o] \in Job
  BY DEF RunsOK, TypeOK, Complete, At, Checks
<1>2. next \in {"now", "later", "never"}
  BY DEF Schedule
<1>3. runs[w].failures \in 0 .. Limit
  BY <1>1 DEF Run
<1>4. jobs' = IF ~ Fenced(w) THEN jobs ELSE [jobs EXCEPT ![o] = d]
  BY DEF Complete
<1> HIDE DEF next
<1>5. a \in Job
  BY <1>1, <1>2 DEF Job
<1>6. b \in Job
  BY <1>5 DEF Job
<1>7. c \in Job /\ ~ c.leased
  BY <1>6 DEF Job
<1>8. d \in Job /\ d.leased = c.leased
  BY <1>3, <1>7 DEF Job
<1> HIDE DEF c, d
<1>9. TypeOK'
  BY <1>1, <1>4, <1>7, <1>8 DEF Complete, TypeOK
<1>10. RunsOK'
  BY <1>1, IdleIsARun DEF Complete, RunsOK, At
<1> QED
  BY <1>9, <1>10

LEMMA CrashRuns ==
  ASSUME Typed, NEW c \in Checks, Crash(c)
  PROVE  /\ runs' \in [Checks -> Run]
         /\ runs'[c] = Idle
         /\ \A q \in Checks \ {c} : Withdrawn(q, c)
<1>1. \A q \in Checks \ {c} : runs'[q] \in Run /\ Withdrawn(q, c)
  BY WithdrawnRun DEF Crash, Typed, RunsOK
<1> QED
  BY <1>1, IdleIsARun DEF Crash

LEMMA CrashTyped ==
  ASSUME Typed, NEW c \in Checks, Crash(c)
  PROVE  Typed'
<1>1. TypeOK'
  BY DEF Crash, Typed, TypeOK, db
<1>2. RunsOK'
  <2>1. hooks' = hooks
    BY DEF Crash
  <2> QED
    BY <2>1, CrashRuns, IdleIsARun DEF Typed, RunsOK, At, Withdrawn
<1> QED
  BY <1>1, <1>2 DEF Typed

LEMMA TimeTyped ==
  ASSUME Typed, NEW o \in Orders, Due(o) \/ Expire(o) \/ Age(o)
  PROVE  Typed'
<1> USE DEF Typed
<1>1. CASE Due(o)
  BY <1>1 DEF Due, TypeOK, RunsOK, Job, At
<1>2. CASE Expire(o)
  BY <1>2, ZenonT(40) DEF Expire, TypeOK, RunsOK, Job, At
<1>3. CASE Age(o)
  BY <1>3 DEF Age, db, TypeOK, RunsOK, At
<1> QED
  BY <1>1, <1>2, <1>3

LEMMA NewsIsFacts ==
  ASSUME Typed, NEW o \in Orders, News(o)
  PROVE  /\ remote' \in [Orders -> Facts]
         /\ remote[o].news + 1 \in 1 .. MaxNews
         /\ remote'[o].news = remote[o].news + 1
         /\ \A p \in Orders \ {o} : remote'[p] = remote[p]
<1>1. remote[o] \in Facts
  BY DEF Typed, TypeOK
<1>2. remote[o].news \in Nat /\ remote[o].news + 1 \in 0 .. MaxNews
  BY <1>1 DEF Facts, News
<1>3. [remote[o] EXCEPT !.news = remote[o].news + 1] \in Facts
  BY <1>1, <1>2 DEF Facts
<1> QED
  BY <1>1, <1>2, <1>3 DEF News, Typed, TypeOK, Facts

LEMMA CloseIsFacts ==
  ASSUME Typed, NEW o \in Orders, Close(o)
  PROVE  /\ remote' \in [Orders -> Facts]
         /\ \A p \in Orders : remote'[p].news = remote[p].news
  BY DEF Close, Typed, TypeOK, Facts

LEMMA EnvironmentTyped ==
  ASSUME Typed, Environment
  PROVE  Typed'
<1> USE DEF Typed
<1>1. ASSUME NEW o \in Orders, News(o)
      PROVE  Typed'
  <2>1. /\ UNCHANGED <<jobs, known, accepted, runs>>
        /\ hooks' = hooks \cup {<<o, remote[o].news + 1>>}
    BY <1>1 DEF News, db
  <2>2. remote' \in [Orders -> Facts] /\ remote[o].news + 1 \in 1 .. MaxNews
    BY <1>1, NewsIsFacts
  <2> QED
    BY <2>1, <2>2 DEF TypeOK, RunsOK, At
<1>2. ASSUME NEW o \in Orders, Close(o)
      PROVE  Typed'
  BY <1>2, CloseIsFacts DEF Close, db, TypeOK, RunsOK, At
<1>3. ASSUME NEW o \in Orders, NEW n \in 1 .. MaxNews, Receive(o, n)
      PROVE  Typed'
  <2>1. accepted' \in [Orders -> SUBSET (1 .. MaxNews)]
    BY <1>3 DEF Receive, TypeOK
  <2>2. /\ jobs' \in [Orders -> Job]
        /\ \A p \in Orders : jobs'[p].leased => jobs'[p].token # Null
    BY <1>3, EnqueueIsTyped DEF Receive, TypeOK
  <2> QED
    BY <1>3, <2>1, <2>2 DEF Receive, TypeOK, RunsOK, At
<1>4. ASSUME NEW o \in Orders, NEW n \in 1 .. MaxNews, Lose(o, n)
      PROVE  Typed'
  BY <1>4 DEF Lose, db, TypeOK, RunsOK, At
<1> QED
  BY <1>1, <1>2, <1>3, <1>4 DEF Environment

LEMMA NextTyped ==
  ASSUME Typed, [Next]_vars
  PROVE  Typed'
<1> USE DEF Checks
<1>1. CASE UNCHANGED vars
  BY <1>1 DEF vars, db, Typed, TypeOK, RunsOK, At
<1>2. CASE Next
  BY <1>2, ClaimTyped, AskTyped, FetchTyped, RecordTyped, FailTyped, CompleteTyped, CrashTyped,
     TimeTyped, EnvironmentTyped DEF Next, WorkerStep, RequestStep, Time
<1> QED
  BY <1>1, <1>2

-----------------------------------------------------------------------------
(* What is accepted is learned *)

LEMMA InitInv == Init => QueueInv
  BY IdleIsARun
     DEF Init, QueueInv, NewsIsOld, RevisionsBehind, Learned, SawRecorded, NothingForgotten, At,
         Unasked, Checks

\* The run of a worker and what it saw are of their types.
LEMMA WorkerRun ==
  ASSUME Typed, NEW w \in Workers
  PROVE  /\ w \in Checks /\ runs[w] \in Run /\ runs[w].revision \in Nat
         /\ ~ At(w, "idle") => /\ runs[w].order \in Orders
                               /\ jobs[runs[w].order] \in Job
                               /\ jobs[runs[w].order].revision \in Nat
         /\ At(w, "record") => runs[w].saw \in Facts
  BY DEF Typed, TypeOK, RunsOK, Run, Job, Checks

LEMMA ClaimInv ==
  ASSUME Typed, QueueInv, NEW w \in Workers, NEW o \in Orders, Claim(w, o)
  PROVE  QueueInv'
<1> USE DEF QueueInv
<1> DEFINE run == [Idle EXCEPT !.revision = jobs[o].revision, !.failures = jobs[o].failures]
<1>1. jobs[o] \in Job /\ w \in Checks /\ jobs[o].revision \in Nat
  BY DEF Typed, TypeOK, Job, Checks
<1>2. run \in Run /\ run.revision = jobs[o].revision /\ run.stale = FALSE
  BY <1>1 DEF Idle, Run, Job
<1>3. /\ runs'[w].pc = "fetch" /\ runs'[w].order = o
      /\ runs'[w].revision = jobs[o].revision /\ ~ runs'[w].stale
      /\ \A q \in Checks \ {w} : Withdrawn(q, w)
  <2>1. Begin(w, o, run)
    BY DEF Claim
  <2> HIDE DEF run
  <2> QED
    BY <1>1, <1>2, <2>1, BeginIsTyped DEF Typed
<1>4. /\ UNCHANGED <<known, accepted, remote, hooks>>
      /\ \A p \in Orders : jobs'[p].revision = jobs[p].revision /\ jobs'[p].next = jobs[p].next
  BY DEF Claim, Typed, TypeOK, Job
<1>5. NewsIsOld'
  BY <1>4 DEF NewsIsOld
<1>6. RevisionsBehind'
  BY <1>1, <1>3, <1>4, WorkerRun DEF RevisionsBehind, Withdrawn, At
<1>7. Learned'
  <2> SUFFICES ASSUME NEW v \in Workers, Unasked(v)', NEW n \in accepted[runs'[v].order]
               PROVE  /\ (At(v, "record")' \/ (At(v, "complete")' /\ runs'[v].saw # Null)) =>
                           n <= runs'[v].saw.news
                      /\ runs'[v].stale => n <= known[runs'[v].order].news
                      /\ \A q \in Checks :
                           (At(q, "record")' /\ runs'[q].order = runs'[v].order
                              /\ v \in runs'[q].earlier) => n <= runs'[q].saw.news
    BY <1>4 DEF Learned
  <2>1. CASE v = w
    BY <1>3, <2>1 DEF At, Withdrawn
  <2>2. CASE v # w
    <3>1. v \in Checks \ {w} /\ Withdrawn(v, w)
      BY <1>3, <2>2 DEF Checks
    <3>2. Unasked(v) /\ runs[v].order \in Orders
      BY <1>4, <3>1, WorkerRun DEF Unasked, Withdrawn, At
    <3>3. n \in accepted[runs[v].order]
      BY <3>1 DEF Withdrawn
    <3> QED
      BY <1>3, <3>1, <3>2, <3>3 DEF Learned, At, Withdrawn
  <2> QED
    BY <2>1, <2>2
<1>8. SawRecorded'
  BY <1>3, <1>4 DEF SawRecorded, At, Withdrawn, Checks
<1>9. NothingForgotten'
  BY <1>4 DEF NothingForgotten
<1> QED
  BY <1>5, <1>6, <1>7, <1>8, <1>9

LEMMA AskInv ==
  ASSUME Typed, QueueInv, NEW c \in Requests, NEW o \in Orders, Ask(c, o)
  PROVE  QueueInv'
<1> USE DEF QueueInv
<1>1. c \in Checks /\ c \notin Workers
  BY DEF Checks
<1>2. /\ runs'[c].pc = "fetch"
      /\ \A q \in Checks \ {c} : Withdrawn(q, c)
  BY <1>1, BeginIsTyped, IdleIsARun DEF Ask, Typed
<1>3. UNCHANGED <<known, accepted, remote, hooks>>
  BY DEF Ask
<1>4. /\ jobs'[o].next = "now" /\ jobs'[o].revision = jobs[o].revision + 1
      /\ \A p \in Orders \ {o} : jobs'[p] = jobs[p]
  BY EnqueueIsTyped DEF Ask, Typed
<1>5. jobs[o].revision \in Nat
  BY DEF Typed, TypeOK, Job
<1>6. NewsIsOld'
  BY <1>3 DEF NewsIsOld
<1>7. RevisionsBehind'
  BY <1>1, <1>2, <1>4, <1>5, WorkerRun DEF RevisionsBehind, Withdrawn, At
<1>8. Learned'
  <2> SUFFICES ASSUME NEW v \in Workers, Unasked(v)', NEW n \in accepted[runs'[v].order]
               PROVE  /\ (At(v, "record")' \/ (At(v, "complete")' /\ runs'[v].saw # Null)) =>
                           n <= runs'[v].saw.news
                      /\ runs'[v].stale => n <= known[runs'[v].order].news
                      /\ \A q \in Checks :
                           (At(q, "record")' /\ runs'[q].order = runs'[v].order
                              /\ v \in runs'[q].earlier) => n <= runs'[q].saw.news
    BY <1>3 DEF Learned
  <2>1. v \in Checks \ {c} /\ Withdrawn(v, c)
    BY <1>1, <1>2 DEF Checks
  <2>2. ~ At(v, "idle") /\ runs[v].order \in Orders
    BY <2>1, WorkerRun DEF Unasked, Withdrawn, At
  <2>3. runs[v].order # o
    <3>1. runs[v].revision = runs'[v].revision /\ runs[v].order = runs'[v].order
      BY <2>1 DEF Withdrawn
    <3>2. runs[v].revision <= jobs[runs[v].order].revision
      BY <2>2 DEF RevisionsBehind
    <3> QED
      BY <1>4, <1>5, <3>1, <3>2, WorkerRun DEF Unasked
  <2>4. Unasked(v) /\ n \in accepted[runs[v].order]
    BY <1>4, <2>1, <2>2, <2>3 DEF Unasked, Withdrawn, At
  <2> QED
    BY <1>2, <2>1, <2>4 DEF Learned, At, Withdrawn
<1>9. SawRecorded'
  BY <1>1, <1>2, <1>3 DEF SawRecorded, At, Withdrawn, Checks
<1>10. NothingForgotten'
  BY <1>3, <1>4 DEF NothingForgotten
<1> QED
  BY <1>6, <1>7, <1>8, <1>9, <1>10

LEMMA FetchInv ==
  ASSUME Typed, QueueInv, NEW c \in Checks, Fetch(c)
  PROVE  QueueInv'
<1> USE DEF QueueInv
<1>1. UNCHANGED <<jobs, known, accepted, remote, hooks>>
  BY DEF Fetch, db
<1>2. runs[c] \in Run /\ runs[c].pc = "fetch" /\ runs[c].order \in Orders
  BY DEF Fetch, Typed, RunsOK, At
<1>3. /\ runs'[c].pc = "record" /\ runs'[c].saw = remote[runs[c].order]
      /\ runs'[c].order = runs[c].order /\ runs'[c].revision = runs[c].revision
      /\ runs'[c].stale = runs[c].stale /\ runs'[c].earlier = runs[c].earlier
      /\ \A q \in Checks \ {c} : runs'[q] = runs[q]
  BY <1>2 DEF Fetch, Typed, RunsOK, Run
<1>4. RevisionsBehind'
  BY <1>1, <1>2, <1>3, WorkerRun DEF RevisionsBehind, At
<1>5. Learned'
  <2> SUFFICES ASSUME NEW v \in Workers, Unasked(v)', NEW n \in accepted[runs'[v].order]
               PROVE  /\ (At(v, "record")' \/ (At(v, "complete")' /\ runs'[v].saw # Null)) =>
                           n <= runs'[v].saw.news
                      /\ runs'[v].stale => n <= known[runs'[v].order].news
                      /\ \A q \in Checks :
                           (At(q, "record")' /\ runs'[q].order = runs'[v].order
                              /\ v \in runs'[q].earlier) => n <= runs'[q].saw.news
    BY <1>1 DEF Learned
  <2>1. v \in Checks /\ runs'[v].order = runs[v].order
    BY <1>3, WorkerRun
  <2>2. Unasked(v) /\ runs[v].order \in Orders
    BY <1>1, <1>2, <1>3, WorkerRun DEF Unasked, At
  <2>3. n \in accepted[runs[v].order] /\ n <= remote[runs[v].order].news
    BY <2>1, <2>2 DEF NewsIsOld
  <2> QED
    BY <1>2, <1>3, <2>1, <2>2, <2>3 DEF Learned, At
<1>6. SawRecorded'
  BY <1>1, <1>2, <1>3, WorkerRun DEF SawRecorded, At
<1> QED
  BY <1>1, <1>4, <1>5, <1>6 DEF NewsIsOld, NothingForgotten

LEMMA RecordInv ==
  ASSUME Typed, QueueInv, NEW c \in Checks, Record(c)
  PROVE  QueueInv'
<1> USE DEF QueueInv
<1> DEFINE o == runs[c].order
<1>1. UNCHANGED <<jobs, accepted, remote, hooks>>
  BY DEF Record
<1>2. runs[c].pc = "record" /\ o \in Orders /\ runs[c].saw \in Facts /\ known[o] \in Facts
  BY DEF Record, Typed, TypeOK, RunsOK, At
<1>3. known'[o] = Recorded(c) /\ \A p \in Orders \ {o} : known'[p] = known[p]
  BY <1>2 DEF Record, Typed, TypeOK
<1>4. /\ Recorded(c) \in Facts
      /\ known[o].news <= Recorded(c).news
      /\ Recorded(c).open => known[o].open
      /\ ~ runs[c].stale => runs[c].saw.news <= Recorded(c).news
  <2>1. runs[c].stale => Recorded(c) = known[o]
    BY DEF Recorded
  <2>2. ~ runs[c].stale => Recorded(c) = Newer(known[o], runs[c].saw)
    BY DEF Recorded
  <2>3. known[o].news <= known[o].news
    BY <1>2 DEF Facts
  <2> HIDE DEF o
  <2> QED
    BY <1>2, <2>1, <2>2, <2>3, NewerIsFacts
<1>5. \A p \in Orders : known[p].news \in Nat /\ known'[p].news \in Nat
                        /\ known[p].news <= known'[p].news /\ (known'[p].open => known[p].open)
  BY <1>2, <1>3, <1>4 DEF Typed, TypeOK, Facts
<1>6. /\ \A q \in Checks \ {c} :
           /\ runs'[q].pc = runs[q].pc /\ runs'[q].order = runs[q].order
           /\ runs'[q].saw = runs[q].saw /\ runs'[q].revision = runs[q].revision
           /\ runs'[q].stale <=> (runs[q].stale \/ q \in Overtaken(c))
           /\ runs'[q].earlier = runs[q].earlier \ {c}
      /\ runs'[c] = Idle \/ (/\ c \in Workers
           /\ runs'[c].pc = "complete" /\ runs'[c].order = o
           /\ runs'[c].revision = runs[c].revision /\ runs'[c].saw = Recorded(c)
           /\ ~ runs'[c].stale)
      /\ runs'[c].pc # "record"
  BY RecordRuns, IdleIsARun
<1>7. RevisionsBehind'
  BY <1>1, <1>2, <1>6, WorkerRun, IdleIsARun DEF RevisionsBehind, At
<1>8. Learned'
  <2> SUFFICES ASSUME NEW v \in Workers, Unasked(v)', NEW n \in accepted[runs'[v].order]
               PROVE  /\ (At(v, "record")' \/ (At(v, "complete")' /\ runs'[v].saw # Null)) =>
                           n <= runs'[v].saw.news
                      /\ runs'[v].stale => n <= known'[runs'[v].order].news
                      /\ \A q \in Checks :
                           (At(q, "record")' /\ runs'[q].order = runs'[v].order
                              /\ v \in runs'[q].earlier) => n <= runs'[q].saw.news
    BY <1>1 DEF Learned
  <2>1. v \in Checks /\ runs'[v].order = runs[v].order /\ Unasked(v)
    BY <1>1, <1>2, <1>6, IdleIsARun, WorkerRun DEF Unasked, At
  <2>2. runs[v].order \in Orders /\ n \in accepted[runs[v].order] /\ n \in Nat
    BY <2>1, WorkerRun DEF Unasked, Typed, TypeOK
  <2>3. CASE v = c
    <3>1. n <= Recorded(c).news
      <4>1. runs[c].stale => n <= known[o].news
        BY <2>1, <2>2, <2>3 DEF Learned
      <4>2. n <= runs[c].saw.news
        BY <1>2, <2>1, <2>2, <2>3 DEF Learned, At
      <4> QED
        BY <1>2, <1>4, <2>2, <4>1, <4>2 DEF Facts
    <3>2. runs'[c] # Idle
      BY <2>3, IdleIsARun DEF Unasked, At
    <3> QED
      BY <1>6, <2>3, <3>1, <3>2 DEF At
  <2>4. CASE v # c
    <3>1. runs'[v].stale => n <= known'[runs[v].order].news
      <4>1. CASE runs[v].stale
        <5>1. n <= known[runs[v].order].news
          BY <2>1, <2>2, <4>1 DEF Learned
        <5> QED
          BY <1>5, <2>2, <5>1
      <4>2. CASE v \in Overtaken(c)
        <5>1. v \in runs[c].earlier /\ ~ runs[c].stale /\ runs[v].order = o
          BY <4>2 DEF Overtaken, Observes
        <5>2. n <= runs[c].saw.news
          BY <1>2, <2>1, <2>2, <5>1 DEF Learned, At
        <5> QED
          BY <1>2, <1>3, <1>4, <2>2, <5>1, <5>2 DEF Facts
      <4> QED
        BY <1>6, <2>1, <2>4, <4>1, <4>2
    <3>2. (At(v, "record")' \/ (At(v, "complete")' /\ runs'[v].saw # Null)) =>
             n <= runs'[v].saw.news
      BY <1>6, <2>1, <2>2, <2>4 DEF Learned, At
    <3>3. ASSUME NEW q \in Checks, At(q, "record")', runs'[q].order = runs'[v].order,
                 v \in runs'[q].earlier
          PROVE  n <= runs'[q].saw.news
      <4>1. q # c
        BY <1>6, <3>3 DEF At
      <4> QED
        BY <1>6, <2>1, <2>2, <3>3, <4>1 DEF Learned, At
    <3> QED
      BY <2>1, <3>1, <3>2, <3>3
  <2> QED
    BY <2>3, <2>4
<1>9. SawRecorded'
  <2> SUFFICES ASSUME NEW w \in Workers, At(w, "complete")', runs'[w].saw # Null
               PROVE  /\ runs'[w].saw \in Facts
                      /\ runs'[w].saw.news <= known'[runs'[w].order].news
                      /\ known'[runs'[w].order].open => runs'[w].saw.open
    BY DEF SawRecorded
  <2>1. CASE w = c
    BY <1>3, <1>4, <1>6, <2>1, IdleIsARun DEF At, Facts
  <2>2. CASE w # c
    <3>1. w \in Checks \ {c}
      BY <2>2 DEF Checks
    <3>2. At(w, "complete") /\ runs[w].saw # Null /\ runs[w].order \in Orders
      BY <1>6, <3>1 DEF At, Typed, RunsOK
    <3>3. /\ runs[w].saw \in Facts
          /\ runs[w].saw.news <= known[runs[w].order].news
          /\ known[runs[w].order].open => runs[w].saw.open
      BY <3>2 DEF SawRecorded
    <3>4. runs[w].saw.news \in Nat
      BY <3>3 DEF Facts
    <3> QED
      BY <1>5, <1>6, <3>1, <3>2, <3>3, <3>4
  <2> QED
    BY <2>1, <2>2
<1>10. NothingForgotten'
  <2> SUFFICES ASSUME NEW p \in Orders,
                      known'[p].open \/ \E n \in accepted[p] : n > known'[p].news
               PROVE  jobs[p].next # "never"
    BY <1>1 DEF NothingForgotten
  <2>1. \A n \in accepted[p] : n \in Nat
    BY DEF Typed, TypeOK
  <2>2. known[p].open \/ \E n \in accepted[p] : n > known[p].news
    BY <1>5, <2>1
  <2> QED
    BY <2>2 DEF NothingForgotten
<1> QED
  BY <1>1, <1>7, <1>8, <1>9, <1>10 DEF NewsIsOld

\* A check that ends without a result, whoever made it, leaves the others what they know.
LEMMA EndInv ==
  ASSUME Typed, QueueInv, NEW c \in Checks, UNCHANGED <<jobs, known, accepted, remote, hooks>>,
         \A q \in Checks \ {c} : Withdrawn(q, c),
         runs'[c].pc \in {"idle", "complete"}, ~ runs'[c].stale, runs'[c].saw = Null,
         runs'[c].pc = "complete" =>
           /\ ~ At(c, "idle") /\ runs'[c].order = runs[c].order
           /\ runs'[c].revision = runs[c].revision
  PROVE  QueueInv'
<1> USE DEF QueueInv
<1>1. RevisionsBehind'
  BY WorkerRun DEF RevisionsBehind, Withdrawn, At
<1>2. Learned'
  <2> SUFFICES ASSUME NEW v \in Workers, Unasked(v)', NEW n \in accepted[runs'[v].order]
               PROVE  /\ (At(v, "record")' \/ (At(v, "complete")' /\ runs'[v].saw # Null)) =>
                           n <= runs'[v].saw.news
                      /\ runs'[v].stale => n <= known[runs'[v].order].news
                      /\ \A q \in Checks :
                           (At(q, "record")' /\ runs'[q].order = runs'[v].order
                              /\ v \in runs'[q].earlier) => n <= runs'[q].saw.news
    BY DEF Learned
  <2>1. v \in Checks /\ Unasked(v) /\ n \in accepted[runs[v].order]
    BY WorkerRun DEF Unasked, Withdrawn, At
  <2>2. CASE v = c
    BY <2>1, <2>2 DEF Withdrawn, At
  <2>3. CASE v # c
    BY <2>1, <2>3 DEF Learned, Withdrawn, At
  <2> QED
    BY <2>2, <2>3
<1>3. SawRecorded'
  BY WorkerRun DEF SawRecorded, Withdrawn, At
<1> QED
  BY <1>1, <1>2, <1>3 DEF NewsIsOld, NothingForgotten

LEMMA FailInv ==
  ASSUME Typed, QueueInv, NEW w \in Workers, Fail(w)
  PROVE  QueueInv'
<1>1. UNCHANGED <<jobs, known, accepted, remote, hooks>> /\ ~ At(w, "idle")
  BY DEF Fail, At
<1> QED
  BY <1>1, FailRuns, EndInv

LEMMA CrashInv ==
  ASSUME Typed, QueueInv, NEW c \in Checks, Crash(c)
  PROVE  QueueInv'
<1>1. UNCHANGED <<jobs, known, accepted, remote, hooks>>
  BY DEF Crash, db
<1> QED
  BY <1>1, CrashRuns, IdleIsARun, EndInv

\* The worker that completes schedules no further check only when nothing is left to learn.
LEMMA CompleteInv ==
  ASSUME Typed, QueueInv, NEW w \in Workers, Complete(w)
  PROVE  QueueInv'
<1> USE DEF QueueInv
<1> DEFINE o == runs[w].order
<1>1. /\ w \in Checks /\ At(w, "complete") /\ o \in Orders /\ jobs[o] \in Job
      /\ runs[w] \in Run
  BY WorkerRun DEF Complete, At
<1>2. UNCHANGED <<known, accepted, remote, hooks>>
  BY DEF Complete
<1>3. runs'[w] = Idle /\ \A q \in Checks \ {w} : runs'[q] = runs[q]
  BY <1>1 DEF Complete, Typed, RunsOK
<1>4. /\ \A p \in Orders : jobs'[p].revision = jobs[p].revision
      /\ \A p \in Orders \ {o} : jobs'[p] = jobs[p]
      /\ jobs'[o].next = "never" =>
           \/ jobs[o].next = "never"
           \/ /\ jobs[o].revision = runs[w].revision
              /\ runs[w].saw # Null /\ ~ runs[w].saw.open
  <2> DEFINE again == runs[w].saw = Null \/ runs[w].saw.open \/ o \notin old
             next == Schedule(jobs[o], runs[w].revision, IF again THEN "later" ELSE "never")
             row == [jobs[o] EXCEPT !.next = next, !.token = Null, !.leased = FALSE,
                                    !.failures = runs[w].failures]
  <2>1. row.next = next /\ row.revision = jobs[o].revision
    <3> HIDE DEF next
    <3> QED
      BY <1>1 DEF Job
  <2>2. next = "never" => jobs[o].revision = runs[w].revision /\ ~ again
    BY DEF Schedule
  <2>3. jobs' = IF ~ Fenced(w) THEN jobs ELSE [jobs EXCEPT ![o] = row]
    BY DEF Complete
  <2> HIDE DEF row, next
  <2> QED
    BY <1>1, <2>1, <2>2, <2>3 DEF Typed, TypeOK
<1>5. NewsIsOld'
  BY <1>2 DEF NewsIsOld
<1>6. RevisionsBehind'
  BY <1>1, <1>3, <1>4, WorkerRun, IdleIsARun DEF RevisionsBehind, At
<1>7. Learned'
  <2> SUFFICES ASSUME NEW v \in Workers, Unasked(v)', NEW n \in accepted[runs'[v].order]
               PROVE  /\ (At(v, "record")' \/ (At(v, "complete")' /\ runs'[v].saw # Null)) =>
                           n <= runs'[v].saw.news
                      /\ runs'[v].stale => n <= known[runs'[v].order].news
                      /\ \A q \in Checks :
                           (At(q, "record")' /\ runs'[q].order = runs'[v].order
                              /\ v \in runs'[q].earlier) => n <= runs'[q].saw.news
    BY <1>2 DEF Learned
  <2>1. v \in Checks \ {w}
    BY <1>3, IdleIsARun, WorkerRun DEF Unasked, At
  <2>2. Unasked(v) /\ n \in accepted[runs[v].order]
    BY <1>3, <1>4, <2>1, WorkerRun DEF Unasked, At
  <2> QED
    BY <1>3, <2>1, <2>2, IdleIsARun DEF Learned, At
<1>8. SawRecorded'
  BY <1>2, <1>3, IdleIsARun, WorkerRun DEF SawRecorded, At
<1>9. NothingForgotten'
  <2> SUFFICES ASSUME NEW p \in Orders, jobs'[p].next = "never"
               PROVE  ~ known[p].open /\ \A n \in accepted[p] : ~ (n > known[p].news)
    BY <1>2 DEF NothingForgotten
  <2>1. CASE jobs[p].next = "never"
    BY <2>1 DEF NothingForgotten
  <2>2. CASE jobs[p].next # "never"
    <3>1. p = o /\ Unasked(w) /\ runs[w].saw # Null /\ ~ runs[w].saw.open
      BY <1>1, <1>4, <2>2 DEF Unasked, At
    <3>2. /\ runs[w].saw \in Facts /\ runs[w].saw.news <= known[o].news
          /\ ~ known[o].open
      BY <1>1, <3>1 DEF SawRecorded
    <3>3. \A n \in accepted[o] : n <= runs[w].saw.news
      BY <1>1, <3>1 DEF Learned
    <3>4. known[o].news \in Nat /\ runs[w].saw.news \in Nat /\ accepted[o] \subseteq Nat
      BY <1>1, <3>2 DEF Typed, TypeOK, Facts
    <3> QED
      BY <3>1, <3>2, <3>3, <3>4
  <2> QED
    BY <2>1, <2>2
<1> QED
  BY <1>5, <1>6, <1>7, <1>8, <1>9

\* Time, and what happens at the gateway.
LEMMA TimeInv ==
  ASSUME Typed, QueueInv, NEW o \in Orders, Due(o) \/ Expire(o) \/ Age(o)
  PROVE  QueueInv'
<1> USE DEF QueueInv
<1>1. UNCHANGED <<runs, known, accepted, remote, hooks>>
  BY DEF Due, Expire, Age, db
<1>2. \A p \in Orders :
        /\ jobs'[p].revision = jobs[p].revision
        /\ jobs'[p].next = jobs[p].next \/ jobs'[p].next = "now"
  BY DEF Due, Expire, Age, db, Typed, TypeOK, Job
<1>3. RevisionsBehind'
  BY <1>1, <1>2, WorkerRun DEF RevisionsBehind, At
<1>4. Learned'
  BY <1>1, <1>2, WorkerRun DEF Learned, Unasked, At
<1>5. SawRecorded' /\ NewsIsOld'
  BY <1>1 DEF SawRecorded, NewsIsOld, At
<1>6. NothingForgotten'
  BY <1>1, <1>2 DEF NothingForgotten
<1> QED
  BY <1>3, <1>4, <1>5, <1>6

LEMMA GatewayInv ==
  ASSUME Typed, QueueInv, NEW o \in Orders,
         \/ News(o) \/ Close(o)
         \/ \E n \in 1 .. MaxNews : Lose(o, n)
  PROVE  QueueInv'
<1> USE DEF QueueInv
<1>1. UNCHANGED <<runs, jobs, known, accepted>>
  BY DEF News, Close, Lose, db
<1>2. RevisionsBehind' /\ Learned' /\ SawRecorded' /\ NothingForgotten'
  BY <1>1 DEF RevisionsBehind, Learned, SawRecorded, NothingForgotten, Unasked, At
<1>3. NewsIsOld'
  <2>1. CASE News(o)
    <3>1. \A p \in Orders : remote[p].news <= remote'[p].news /\ remote[p].news \in Nat
                            /\ remote'[p].news \in Nat
      BY <2>1, NewsIsFacts DEF Typed, TypeOK, Facts
    <3>2. hooks' = hooks \cup {<<o, remote[o].news + 1>>}
      BY <2>1 DEF News
    <3>3. remote'[o].news = remote[o].news + 1
      BY <2>1, NewsIsFacts
    <3>4. \A h \in hooks' : h[2] <= remote'[h[1]].news
      BY <3>1, <3>2, <3>3 DEF NewsIsOld, Typed, RunsOK
    <3>5. \A p \in Orders : \A n \in accepted[p] : n <= remote'[p].news
      BY <3>1 DEF NewsIsOld, Typed, TypeOK
    <3> QED
      BY <1>1, <3>4, <3>5 DEF NewsIsOld
  <2>2. CASE Close(o)
    BY <1>1, <2>2, CloseIsFacts DEF NewsIsOld, Close, Typed, RunsOK
  <2>3. ASSUME NEW n \in 1 .. MaxNews, Lose(o, n)
        PROVE  NewsIsOld'
    BY <2>3 DEF NewsIsOld, Lose, db
  <2> QED
    BY <2>1, <2>2, <2>3
<1> QED
  BY <1>2, <1>3

\* A notification that is accepted makes every check that is under way one of an old revision.
LEMMA ReceiveInv ==
  ASSUME Typed, QueueInv, NEW o \in Orders, NEW n \in 1 .. MaxNews, Receive(o, n)
  PROVE  QueueInv'
<1> USE DEF QueueInv
<1>1. UNCHANGED <<runs, known, remote>> /\ hooks' \subseteq hooks /\ <<o, n>> \in hooks
  BY DEF Receive
<1>2. CASE UNCHANGED <<jobs, accepted>>
  BY <1>1, <1>2
     DEF NewsIsOld, RevisionsBehind, Learned, SawRecorded, NothingForgotten, Unasked, At
<1>3. CASE Enqueue(o) /\ accepted' = [accepted EXCEPT ![o] = accepted[o] \cup {n}]
  <2>1. /\ jobs'[o].next = "now" /\ jobs'[o].revision = jobs[o].revision + 1
        /\ \A p \in Orders \ {o} : jobs'[p] = jobs[p] /\ accepted'[p] = accepted[p]
        /\ accepted'[o] = accepted[o] \cup {n}
    BY <1>3, EnqueueIsTyped DEF Typed, TypeOK
  <2>2. jobs[o].revision \in Nat
    BY DEF Typed, TypeOK, Job
  <2>3. NewsIsOld'
    BY <1>1, <2>1 DEF NewsIsOld
  <2>4. RevisionsBehind'
    BY <1>1, <2>1, <2>2, WorkerRun DEF RevisionsBehind, At
  <2>5. Learned'
    <3> SUFFICES ASSUME NEW v \in Workers, Unasked(v)'
                 PROVE  Unasked(v) /\ accepted'[runs[v].order] = accepted[runs[v].order]
      BY <1>1 DEF Learned, At
    <3>1. ~ At(v, "idle") /\ runs[v].order \in Orders
      BY <1>1, WorkerRun DEF Unasked, At
    <3>2. runs[v].order # o
      BY <1>1, <2>1, <2>2, <3>1, WorkerRun DEF Unasked, RevisionsBehind
    <3> QED
      BY <1>1, <2>1, <3>1, <3>2 DEF Unasked
  <2>6. SawRecorded'
    BY <1>1 DEF SawRecorded, At
  <2>7. NothingForgotten'
    BY <1>1, <2>1 DEF NothingForgotten
  <2> QED
    BY <2>3, <2>4, <2>5, <2>6, <2>7
<1> QED
  BY <1>2, <1>3 DEF Receive

LEMMA NextInv ==
  ASSUME Typed, QueueInv, [Next]_vars
  PROVE  QueueInv'
<1> USE DEF Checks
<1>1. CASE UNCHANGED vars
  BY <1>1 DEF vars, db, QueueInv, NewsIsOld, RevisionsBehind, Learned, SawRecorded,
              NothingForgotten, Unasked, At
<1>2. CASE Next
  BY <1>2, ClaimInv, AskInv, FetchInv, RecordInv, FailInv, CompleteInv, CrashInv, TimeInv,
     GatewayInv, ReceiveInv DEF Next, WorkerStep, RequestStep, Time, Environment
<1> QED
  BY <1>1, <1>2

\* The rows of the queue and what the running checks remember keep their columns.
THEOREM QueueTyped == Spec => []Typed
<1>1. Init => Typed
  BY InitTyped
<1>2. Typed /\ [Next]_vars => Typed'
  BY NextTyped
<1> QED
  BY <1>1, <1>2, PTL DEF Spec

LEMMA QueueInvariant == Spec => []QueueInv
<1>1. Init => QueueInv
  BY InitInv
<1>2. Typed /\ QueueInv /\ [Next]_vars => QueueInv'
  BY NextInv
<1> QED
  BY <1>1, <1>2, QueueTyped, PTL DEF Spec

\* However many workers, requests, notifications and crashes overlap, an order that is open or
\* has an accepted notification nobody has followed up stays scheduled.
THEOREM QueueForgetsNothing == Spec => []NothingForgotten
<1>1. QueueInv => NothingForgotten
  BY DEF QueueInv
<1> QED
  BY <1>1, QueueInvariant, PTL

-----------------------------------------------------------------------------
(* Leases *)

\* What a step does to a lease that has not run out.
LEMMA StepKeepsLease ==
  ASSUME Typed, [Next]_vars, NEW o \in Orders, NEW w \in Workers,
         jobs[o].token = w, jobs[o].leased, runs[w].order = o, runs'[w] = runs[w]
  PROVE  jobs'[o].token = w
<1>1. w # Null /\ w \in Checks /\ jobs[o] \in Job
  BY DEF Typed, TypeOK, Checks
<1>2. CASE jobs' = jobs
  BY <1>2
<1>3. ASSUME NEW v \in Workers, NEW p \in Orders, Claim(v, p)
      PROVE  jobs'[o].token = w
  <2>1. p # o
    BY <1>1, <1>3 DEF Claim, Claimable
  <2> QED
    BY <1>3, <2>1 DEF Claim, Typed, TypeOK
<1>4. ASSUME NEW p \in Orders, Enqueue(p)
      PROVE  jobs'[o].token = w
  BY <1>4, EnqueueIsTyped DEF Typed
<1>5. ASSUME NEW v \in Workers, Complete(v)
      PROVE  jobs'[o].token = w
  <2>1. v # w
    <3>1. runs[v].pc = "complete" /\ (v = w => runs'[v] = Idle)
      BY <1>1, <1>5 DEF Complete, At, Typed, RunsOK
    <3> QED
      BY <3>1, IdleIsARun
  <2>2. runs[v].order # o \/ ~ Fenced(v)
    BY <2>1 DEF Fenced
  <2> QED
    BY <1>5, <2>2 DEF Complete, Typed, TypeOK
<1>6. ASSUME NEW p \in Orders, Due(p) \/ Expire(p)
      PROVE  jobs'[o].token = w
  BY <1>6 DEF Due, Expire, Typed, TypeOK, Job
<1>7. CASE Next
  <2>1. \/ jobs' = jobs
        \/ \E v \in Workers, p \in Orders : Claim(v, p)
        \/ \E p \in Orders : Enqueue(p)
        \/ \E v \in Workers : Complete(v)
        \/ \E p \in Orders : Due(p) \/ Expire(p)
    BY <1>7 DEF Next, WorkerStep, RequestStep, Time, Environment, Ask, Fetch, Record, Fail, Crash,
                Age, News, Close, Receive, Lose, db
  <2> QED
    BY <1>2, <1>3, <1>4, <1>5, <1>6, <2>1
<1> QED
  BY <1>2, <1>7 DEF vars, db

\* Until its time runs out, a lease is ended by nobody but its holder.
THEOREM QueueKeepsLeases == Spec => LeaseIsKept
<1>1. Typed /\ [Next]_vars =>
        [\A o \in Orders, w \in Workers :
           (jobs[o].token = w /\ jobs[o].leased /\ runs[w].order = o /\ runs'[w] = runs[w]) =>
             jobs'[o].token = w]_vars
  BY StepKeepsLease
<1> QED
  BY <1>1, QueueTyped, PTL DEF Spec, LeaseIsKept
=============================================================================
