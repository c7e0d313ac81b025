------------------------------ MODULE JobQueue ------------------------------
(***************************************************************************)
(* Requests on their way to a slot, in batched mode (src/server/server_15, *)
(* server_16).  A client thread owns its job on its stack, appends it to   *)
(* the queue and waits for it; dispatch_jobs_locked gives the oldest job   *)
(* to the best idle slot; the slot's worker thread takes it, runs          *)
(* generate_job, signals the client and frees the slot.                    *)
(*                                                                         *)
(* A critical section of s->mu is one action; threads blocked on s->cv are *)
(* in qAsleep until a broadcast.  How well a slot suits a job depends on   *)
(* the sessions, which this module does not know: score is an argument.    *)
(***************************************************************************)
EXTENDS Slots, Sequences, Functions

CONSTANTS Jobs, NoJob,
          Leaving,        \* in JobService: a slot whose job is done and that is still busy
          ScoreValues     \* what job_slot_score may return

ASSUME NoJobAssumption == NoJob \notin Jobs
ASSUME LeavingAssumption == Leaving \notin Jobs \cup {NoJob}
ASSUME ScoreAssumption == ScoreValues \subseteq Int /\ ScoreValues # {}

VARIABLES
    queue,      \* s->head .. s->tail
    stopping,   \* s->stopping
    assigned,   \* slot->assigned
    busy,       \* slot->busy
    wpc,        \* where each slot_worker_main is
    cur,        \* the job it runs
    jpc,        \* where each client_main is with its job
    qAsleep     \* workers blocked in pthread_cond_wait(&s->cv)

queueVars == <<queue, stopping, assigned, busy, wpc, cur, jpc, qAsleep>>

\* "waiting" is !j.done after a successful enqueue; "gone" is client_done
JobPcs == {"new", "parsing", "waiting", "done", "gone"}
WorkerPcs == {"wait", "run", "release", "exit"}

QueueTypeOK ==
    /\ queue \in Seq(Jobs)
    /\ stopping \in BOOLEAN
    /\ assigned \in [Slots -> Jobs \cup {NoJob}]
    /\ busy \in [Slots -> BOOLEAN]
    /\ wpc \in [Slots -> WorkerPcs]
    /\ cur \in [Slots -> Jobs \cup {NoJob}]
    /\ jpc \in [Jobs -> JobPcs]
    /\ qAsleep \subseteq Slots

QueueInit ==
    /\ queue = <<>>
    /\ stopping = FALSE
    /\ assigned = [s \in Slots |-> NoJob]
    /\ busy = [s \in Slots |-> FALSE]
    /\ wpc = [s \in Slots |-> "wait"]
    /\ cur = [s \in Slots |-> NoJob]
    /\ jpc = [j \in Jobs |-> "new"]
    /\ qAsleep = {}

-----------------------------------------------------------------------------
(* dispatch_jobs_locked                                                    *)

\* The slot the inner loop ends with: the best score, the first of equals
BestSlot(s, idle, j, score) ==
    /\ s \in idle
    /\ \A t \in idle : score[j][t] < score[j][s] \/ (score[j][t] = score[j][s] /\ s <= t)

\* Jobs leave q from the head, each to the best slot still idle, until the
\* queue or the idle slots run out.  b is slot->busy as the caller leaves it.
Dispatch(q, b, score) ==
    LET idle == {s \in Slots : ~b[s] /\ assigned[s] = NoJob}
    IN  \E n \in 0..Len(q) : \E to \in [1..n -> idle] :
          /\ \A i \in 1..n : BestSlot(to[i], idle \ {to[m] : m \in 1..i - 1}, q[i], score)
          /\ n = Len(q) \/ idle = Range(to)
          /\ queue' = SubSeq(q, n + 1, Len(q))
          /\ assigned' = [s \in Slots |-> IF s \in Range(to)
                                          THEN q[CHOOSE i \in 1..n : to[i] = s]
                                          ELSE assigned[s]]
          /\ busy' = [s \in Slots |-> b[s] \/ s \in Range(to)]

\* pthread_cond_broadcast(&s->cv), once per job dispatched
DispatchWakes == queue' # queue

-----------------------------------------------------------------------------
(* client_main                                                             *)

\* accept, s->clients++, and the request is read and parsed
ClientConnect(j) ==
    /\ jpc[j] = "new"
    /\ jpc' = [jpc EXCEPT ![j] = "parsing"]
    /\ UNCHANGED <<queue, stopping, assigned, busy, wpc, cur, qAsleep>>

\* A bad request is answered by the client thread itself
ClientError(j) ==
    /\ jpc[j] = "parsing"
    /\ jpc' = [jpc EXCEPT ![j] = "gone"]
    /\ UNCHANGED <<queue, stopping, assigned, busy, wpc, cur, qAsleep>>

\* enqueue returns false: 503, "server shutting down"
EnqueueRefused(j) ==
    /\ jpc[j] = "parsing"
    /\ stopping
    /\ jpc' = [jpc EXCEPT ![j] = "gone"]
    /\ UNCHANGED <<queue, stopping, assigned, busy, wpc, cur, qAsleep>>

\* Mutant: the job is linked in at the head
EnqueueFirst(j, score) ==
    /\ jpc[j] = "parsing"
    /\ ~stopping
    /\ jpc' = [jpc EXCEPT ![j] = "waiting"]
    /\ Dispatch(<<j>> \o queue, busy, score)
    /\ qAsleep' = {}
    /\ UNCHANGED <<stopping, wpc, cur>>

Enqueue(j, score) ==
    /\ jpc[j] = "parsing"
    /\ ~stopping
    /\ jpc' = [jpc EXCEPT ![j] = "waiting"]
    /\ Dispatch(Append(queue, j), busy, score)
    /\ qAsleep' = {}
    /\ UNCHANGED <<stopping, wpc, cur>>

\* j.done was seen; the job dies with the client's stack frame
ClientDone(j) ==
    /\ jpc[j] = "done"
    /\ jpc' = [jpc EXCEPT ![j] = "gone"]
    /\ UNCHANGED <<queue, stopping, assigned, busy, wpc, cur, qAsleep>>

-----------------------------------------------------------------------------
(* slot_worker_main                                                        *)

WorkerSleep(s) ==
    /\ wpc[s] = "wait" /\ s \notin qAsleep
    /\ assigned[s] = NoJob
    /\ ~stopping \/ queue # <<>>
    /\ qAsleep' = qAsleep \cup {s}
    /\ UNCHANGED <<queue, stopping, assigned, busy, wpc, cur, jpc>>

WorkerExit(s) ==
    /\ wpc[s] = "wait" /\ s \notin qAsleep
    /\ assigned[s] = NoJob /\ stopping /\ queue = <<>>
    /\ wpc' = [wpc EXCEPT ![s] = "exit"]
    /\ UNCHANGED <<queue, stopping, assigned, busy, cur, jpc, qAsleep>>

\* Mutant: slot->assigned is not cleared
WorkerTakeKeeps(s) ==
    /\ wpc[s] = "wait" /\ s \notin qAsleep
    /\ assigned[s] # NoJob
    /\ cur' = [cur EXCEPT ![s] = assigned[s]]
    /\ wpc' = [wpc EXCEPT ![s] = "run"]
    /\ UNCHANGED <<queue, stopping, assigned, busy, jpc, qAsleep>>

WorkerTake(s) ==
    /\ wpc[s] = "wait" /\ s \notin qAsleep
    /\ assigned[s] # NoJob
    /\ cur' = [cur EXCEPT ![s] = assigned[s]]
    /\ assigned' = [assigned EXCEPT ![s] = NoJob]
    /\ wpc' = [wpc EXCEPT ![s] = "run"]
    /\ UNCHANGED <<queue, stopping, busy, jpc, qAsleep>>

\* generate_job returned: j->done = true is the worker's last touch of the job
WorkerSignal(s) ==
    /\ wpc[s] = "run"
    /\ jpc' = [jpc EXCEPT ![cur[s]] = "done"]
    /\ cur' = [cur EXCEPT ![s] = NoJob]
    /\ wpc' = [wpc EXCEPT ![s] = "release"]
    /\ UNCHANGED <<queue, stopping, assigned, busy, qAsleep>>

\* slot->busy = false, then dispatch
WorkerRelease(s, score) ==
    /\ wpc[s] = "release"
    /\ Dispatch(queue, [busy EXCEPT ![s] = FALSE], score)
    /\ wpc' = [wpc EXCEPT ![s] = "wait"]
    /\ qAsleep' = IF DispatchWakes THEN {} ELSE qAsleep
    /\ UNCHANGED <<stopping, cur, jpc>>

\* Mutant: the waiting workers are not woken
QueueStopSilent ==
    /\ ~stopping
    /\ stopping' = TRUE
    /\ UNCHANGED <<queue, assigned, busy, wpc, cur, jpc, qAsleep>>

\* main: s.stopping = true
QueueStop ==
    /\ ~stopping
    /\ stopping' = TRUE
    /\ qAsleep' = {}
    /\ UNCHANGED <<queue, assigned, busy, wpc, cur, jpc>>

-----------------------------------------------------------------------------
(* A dispatch finds at most one job that a slot is idle for (after enqueue *)
(* the queue was empty or no slot idle, after a release one slot is idle), *)
(* so one job's scores are enough.                                         *)

Scores == {[j \in Jobs |-> preference] : preference \in [Slots -> ScoreValues]}

QueueNext ==
    \/ \E j \in Jobs : \/ ClientConnect(j) \/ ClientError(j) \/ ClientDone(j)
                       \/ EnqueueRefused(j)
                       \/ \E score \in Scores : Enqueue(j, score)
    \/ \E s \in Slots : \/ WorkerSleep(s) \/ WorkerExit(s) \/ WorkerTake(s) \/ WorkerSignal(s)
                        \/ \E score \in Scores : WorkerRelease(s, score)
    \/ QueueStop

QueueSpec == QueueInit /\ [][QueueNext]_queueVars

-----------------------------------------------------------------------------
(* Properties                                                              *)

\* The places that hold a reference to a job
HeldByQueue(j) == \E i \in DOMAIN queue : queue[i] = j
HeldBySlot(j, s) == assigned[s] = j \/ cur[s] = j

\* A job that its client waits for is referenced from exactly one place, and
\* no other job from anywhere: nothing runs twice or is dropped, and no
\* thread reaches a job whose client's stack frame may be gone.
JobHeldOnce ==
    \A j \in Jobs :
        /\ (jpc[j] = "waiting") <=> (HeldByQueue(j) \/ \E s \in Slots : HeldBySlot(j, s))
        /\ HeldByQueue(j) => \A s \in Slots : ~HeldBySlot(j, s)
        /\ \A s, t \in Slots : HeldBySlot(j, s) /\ HeldBySlot(j, t) => s = t
        /\ \A i, k \in DOMAIN queue : queue[i] = j /\ queue[k] = j => i = k

\* What a slot is doing for the queue, from the assignment to the release
Doing(s) ==
    IF assigned[s] # NoJob THEN assigned[s]
    ELSE CASE wpc[s] = "run" -> cur[s] [] wpc[s] = "release" -> Leaving [] OTHER -> NoJob

Service == INSTANCE JobService WITH
    Servers <- Slots, Free <- NoJob, Leaving <- Leaving,
    line <- queue, serving <- [s \in Slots |-> Doing(s)],
    finished <- {j \in Jobs : jpc[j] \in {"done", "gone"}}

\* The queue implements JobService: first come, first served whatever the
\* scores, one job per slot at a time, none given out twice or lost, and no
\* slot without a job while one waits (dispatch_jobs_locked, enqueue,
\* slot_worker_main).
ServiceImplemented == Service!ServiceSpec
=============================================================================
