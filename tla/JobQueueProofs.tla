--------------------------- MODULE JobQueueProofs ---------------------------
(***************************************************************************)
(* The job queue for every number of slots, every set of jobs and every    *)
(* score: each waiting job is held in exactly one place, and the queue     *)
(* implements JobService.                                                  *)
(***************************************************************************)
EXTENDS JobQueue, FiniteSetTheorems, TLAPS

\* What slot->busy, slot->assigned and the worker's position say about each other
SlotsAgree ==
    \A s \in Slots :
        /\ assigned[s] # NoJob => wpc[s] = "wait"
        /\ (cur[s] # NoJob) <=> (wpc[s] = "run")
        /\ busy[s] <=> (assigned[s] # NoJob \/ wpc[s] \in {"run", "release"})
        /\ wpc[s] = "exit" => stopping /\ queue = <<>>

QueueInv == QueueTypeOK /\ SlotsAgree /\ JobHeldOnce

\* JobHeldOnce of a queue q and client positions at that are not stored yet
LineHeldOnce(q, at) ==
    \A j \in Jobs :
        /\ (at[j] = "waiting") <=> ((\E i \in DOMAIN q : q[i] = j) \/ \E s \in Slots : HeldBySlot(j, s))
        /\ (\E i \in DOMAIN q : q[i] = j) => \A s \in Slots : ~HeldBySlot(j, s)
        /\ \A s, t \in Slots : HeldBySlot(j, s) /\ HeldBySlot(j, t) => s = t
        /\ \A i, k \in DOMAIN q : q[i] = j /\ q[k] = j => i = k

IdleSlots(b) == {s \in Slots : ~b[s] /\ assigned[s] = NoJob}

\* The first n jobs of q go to the slots of to, one each
GivenOut(q, b, n, to) ==
    /\ n = Len(q) \/ IdleSlots(b) = Range(to)
    /\ queue' = SubSeq(q, n + 1, Len(q))
    /\ Len(queue') = Len(q) - n /\ \A i \in 1..Len(q) - n : queue'[i] = q[n + i]
    /\ \A i \in 1..n : assigned'[to[i]] = q[i]
    /\ \A s \in Slots : s \notin Range(to) => assigned'[s] = assigned[s]
    /\ \A s \in Slots : busy'[s] <=> b[s] \/ s \in Range(to)

\* dispatch_jobs_locked gives no slot two jobs, and what it writes has the right types
LEMMA DispatchGives ==
    ASSUME QueueTypeOK, NEW q \in Seq(Jobs), NEW b \in [Slots -> BOOLEAN], NEW score, Dispatch(q, b, score)
    PROVE  /\ queue' \in Seq(Jobs)
           /\ assigned' \in [Slots -> Jobs \cup {NoJob}] /\ busy' \in [Slots -> BOOLEAN]
           /\ \E n \in 0..Len(q) : \E to \in Injection(1..n, IdleSlots(b)) : GivenOut(q, b, n, to)
<1>0. PICK n \in 0..Len(q) : \E to \in [1..n -> IdleSlots(b)] :
        /\ \A i \in 1..n : BestSlot(to[i], IdleSlots(b) \ {to[m] : m \in 1..i - 1}, q[i], score)
        /\ n = Len(q) \/ IdleSlots(b) = Range(to)
        /\ queue' = SubSeq(q, n + 1, Len(q))
        /\ assigned' = [s \in Slots |-> IF s \in Range(to)
                                        THEN q[CHOOSE i \in 1..n : to[i] = s]
                                        ELSE assigned[s]]
        /\ busy' = [s \in Slots |-> b[s] \/ s \in Range(to)]
  BY DEF Dispatch, IdleSlots
<1>1. PICK to \in [1..n -> IdleSlots(b)] :
        /\ \A i \in 1..n : BestSlot(to[i], IdleSlots(b) \ {to[m] : m \in 1..i - 1}, q[i], score)
        /\ n = Len(q) \/ IdleSlots(b) = Range(to)
        /\ queue' = SubSeq(q, n + 1, Len(q))
        /\ assigned' = [s \in Slots |-> IF s \in Range(to)
                                        THEN q[CHOOSE i \in 1..n : to[i] = s]
                                        ELSE assigned[s]]
        /\ busy' = [s \in Slots |-> b[s] \/ s \in Range(to)]
  BY <1>0
<1>2. \A i, k \in 1..n : i < k => to[i] # to[k]
  <2> SUFFICES ASSUME NEW i \in 1..n, NEW k \in 1..n, i < k PROVE to[i] # to[k]
    OBVIOUS
  <2>1. to[k] \notin {to[m] : m \in 1..k - 1}
    BY <1>1 DEF BestSlot
  <2>2. i \in 1..k - 1
    OBVIOUS
  <2>3. QED BY <2>1, <2>2
<1>3. to \in Injection(1..n, IdleSlots(b))
  <2>1. \A i, k \in DOMAIN to : to[i] = to[k] => i = k
    BY <1>2
  <2>2. QED BY <2>1 DEF Injection, IsInjective
<1>4. n \in Nat /\ Len(q) \in Nat /\ n <= Len(q)
  OBVIOUS
<1>5. /\ queue' \in Seq(Jobs) /\ Len(queue') = Len(q) - n
      /\ \A i \in 1..Len(q) - n : queue'[i] = q[n + i]
  BY <1>1, <1>4
<1>6. \A s \in Range(to) : \E i \in 1..n : to[i] = s
  BY DEF Range
<1>7. \A i \in 1..n : to[i] \in Range(to) /\ to[i] \in Slots
  BY DEF Range, IdleSlots
<1>8. \A i \in 1..n : assigned'[to[i]] = q[i]
  <2> SUFFICES ASSUME NEW i \in 1..n PROVE assigned'[to[i]] = q[i]
    OBVIOUS
  <2>1. (CHOOSE k \in 1..n : to[k] = to[i]) = i
    BY <1>2
  <2>2. QED BY <1>1, <1>7, <2>1
<1>9. assigned' \in [Slots -> Jobs \cup {NoJob}]
  <2> SUFFICES ASSUME NEW s \in Slots PROVE assigned'[s] \in Jobs \cup {NoJob}
    BY <1>1
  <2>1. CASE s \in Range(to)
    BY <2>1, <1>6, <1>8, <1>4
  <2>2. CASE s \notin Range(to)
    BY <2>2, <1>1 DEF QueueTypeOK
  <2>3. QED BY <2>1, <2>2
<1>10. busy' \in [Slots -> BOOLEAN]
  BY <1>1
<1>11. GivenOut(q, b, n, to)
  BY <1>1, <1>5, <1>8 DEF GivenOut
<1>12. QED BY <1>1, <1>3, <1>4, <1>5, <1>9, <1>10, <1>11

\* After a dispatch every job is where LineHeldOnce says it was, in the queue or in the one
\* slot it went to
LEMMA DispatchHoldsOnce ==
    ASSUME QueueTypeOK, NEW q \in Seq(Jobs), NEW b \in [Slots -> BOOLEAN], NEW score,
           Dispatch(q, b, score), UNCHANGED cur, LineHeldOnce(q, jpc')
    PROVE  JobHeldOnce'
<1>0. PICK n \in 0..Len(q) : \E to \in Injection(1..n, IdleSlots(b)) : GivenOut(q, b, n, to)
  BY DispatchGives
<1>1. PICK to \in Injection(1..n, IdleSlots(b)) : GivenOut(q, b, n, to)
  BY <1>0
<1>2. /\ n \in Nat /\ Len(q) \in Nat /\ n <= Len(q) /\ DOMAIN q = 1..Len(q)
      /\ to \in [1..n -> IdleSlots(b)] /\ \A i, k \in 1..n : to[i] = to[k] => i = k
      /\ queue' \in Seq(Jobs)
  BY DispatchGives DEF Injection, IsInjective
<1>3. \A s \in Range(to) : \E i \in 1..n : s = to[i]
  BY <1>2 DEF Range
<1>3a. \A i \in 1..n : to[i] \in Range(to) /\ to[i] \in Slots /\ assigned[to[i]] = NoJob
  BY <1>2 DEF Range, IdleSlots
<1> SUFFICES ASSUME NEW j \in Jobs
             PROVE  /\ (jpc'[j] = "waiting") <=> (HeldByQueue(j)' \/ \E s \in Slots : HeldBySlot(j, s)')
                    /\ HeldByQueue(j)' => \A s \in Slots : ~HeldBySlot(j, s)'
                    /\ \A s, t \in Slots : HeldBySlot(j, s)' /\ HeldBySlot(j, t)' => s = t
                    /\ \A i, k \in DOMAIN queue' : queue'[i] = j /\ queue'[k] = j => i = k
  BY DEF JobHeldOnce
<1>3b. Len(queue') = Len(q) - n /\ \A i \in 1..Len(q) - n : queue'[i] = q[n + i]
  BY <1>1 DEF GivenOut
<1>4. DOMAIN queue' = 1..Len(q) - n
  <2>1. DOMAIN queue' = 1..Len(queue')
    BY <1>2
  <2>2. QED BY <2>1, <1>3b
<1>5. \A i \in 1..Len(q) - n : n + i \in 1..Len(q) /\ queue'[i] = q[n + i]
  <2>1. \A i \in 1..Len(q) - n : n + i \in 1..Len(q)
    BY <1>2
  <2>2. QED BY <2>1, <1>3b
<1>6. HeldByQueue(j)' <=> \E i \in 1..Len(q) : n < i /\ q[i] = j
  <2>1. ASSUME NEW i \in 1..Len(q), n < i, q[i] = j PROVE HeldByQueue(j)'
    <3>1. i - n \in 1..Len(q) - n /\ n + (i - n) = i
      BY <2>1, <1>2
    <3>2. queue'[i - n] = j
      BY <3>1, <1>5, <2>1
    <3>3. QED BY <3>1, <3>2, <1>4 DEF HeldByQueue
  <2>2. ASSUME HeldByQueue(j)' PROVE \E i \in 1..Len(q) : n < i /\ q[i] = j
    <3>1. PICK i \in 1..Len(q) - n : queue'[i] = j
      BY <2>2, <1>4 DEF HeldByQueue
    <3>2. q[n + i] = j /\ n + i \in 1..Len(q)
      BY <3>1, <1>5
    <3>3. i \in Int /\ n < n + i
      BY <1>2
    <3>4. QED BY <3>2, <3>3
  <2>3. QED BY <2>1, <2>2
<1>7. \A s \in Slots : HeldBySlot(j, s)' <=>
          (\E i \in 1..n : to[i] = s /\ q[i] = j) \/ HeldBySlot(j, s)
  <2> SUFFICES ASSUME NEW s \in Slots
               PROVE  HeldBySlot(j, s)' <=> (\E i \in 1..n : to[i] = s /\ q[i] = j) \/ HeldBySlot(j, s)
    OBVIOUS
  <2>1. CASE s \in Range(to)
    <3>1. PICK i \in 1..n : s = to[i]
      BY <2>1, <1>3
    <3>2. assigned'[s] = q[i] /\ assigned[s] = NoJob
      BY <3>1, <1>1, <1>3a DEF GivenOut
    <3>3. \A k \in 1..n : to[k] = s => k = i
      BY <3>1, <1>2
    <3>4. QED BY <3>1, <3>2, <3>3, NoJobAssumption DEF HeldBySlot
  <2>2. CASE s \notin Range(to)
    <3>1. \A k \in 1..n : to[k] # s
      BY <2>2, <1>3a
    <3>2. assigned'[s] = assigned[s]
      BY <2>2, <1>1 DEF GivenOut
    <3>3. QED BY <3>1, <3>2 DEF HeldBySlot
  <2>3. QED BY <2>1, <2>2
<1>8. /\ (jpc'[j] = "waiting") <=> ((\E i \in 1..Len(q) : q[i] = j) \/ \E s \in Slots : HeldBySlot(j, s))
      /\ (\E i \in 1..Len(q) : q[i] = j) => \A s \in Slots : ~HeldBySlot(j, s)
      /\ \A s, t \in Slots : HeldBySlot(j, s) /\ HeldBySlot(j, t) => s = t
      /\ \A i, k \in 1..Len(q) : q[i] = j /\ q[k] = j => i = k
  BY <1>2 DEF LineHeldOnce
<1>9. (\E i \in 1..Len(q) : q[i] = j) <=>
          (\E i \in 1..Len(q) : n < i /\ q[i] = j) \/ (\E i \in 1..n : q[i] = j)
  BY <1>2
<1>10. \A i \in 1..n : i \in 1..Len(q) /\ ~(n < i)
  BY <1>2
<1>11. (jpc'[j] = "waiting") <=> (HeldByQueue(j)' \/ \E s \in Slots : HeldBySlot(j, s)')
  <2>1. (\E i \in 1..n : q[i] = j) <=> \E s \in Slots : \E i \in 1..n : to[i] = s /\ q[i] = j
    BY <1>3a
  <2>2. QED BY <1>6, <1>7, <1>8, <1>9, <2>1
<1>12. HeldByQueue(j)' => \A s \in Slots : ~HeldBySlot(j, s)'
  BY <1>6, <1>7, <1>8, <1>10
<1>13. \A s, t \in Slots : HeldBySlot(j, s)' /\ HeldBySlot(j, t)' => s = t
  BY <1>7, <1>8, <1>10
<1>14. ASSUME NEW i \in DOMAIN queue', NEW k \in DOMAIN queue', queue'[i] = j, queue'[k] = j PROVE i = k
  <2>1. n + i = n + k
    BY <1>14, <1>4, <1>5, <1>8, <1>2
  <2>2. QED BY <2>1, <1>2, <1>4
<1>15. QED BY <1>11, <1>12, <1>13, <1>14

-----------------------------------------------------------------------------
(* The invariant, operation by operation.  The score of a dispatch is any  *)
(* value: who calls these operations, with which score, is left open.      *)

\* A dispatch leaves the slots consistent when the caller's view of busy was
LEMMA DispatchKeepsSlots ==
    ASSUME QueueTypeOK, NEW q \in Seq(Jobs), NEW b \in [Slots -> BOOLEAN], NEW score,
           Dispatch(q, b, score), UNCHANGED <<cur, stopping>>, QueueTypeOK',
           \A s \in Slots :
              /\ assigned[s] # NoJob => wpc'[s] = "wait"
              /\ (cur[s] # NoJob) <=> (wpc'[s] = "run")
              /\ b[s] <=> (assigned[s] # NoJob \/ wpc'[s] \in {"run", "release"})
              /\ wpc'[s] = "exit" => stopping /\ q = <<>>
    PROVE  SlotsAgree'
<1>0. PICK n \in 0..Len(q) : \E to \in Injection(1..n, IdleSlots(b)) : GivenOut(q, b, n, to)
  BY DispatchGives
<1>1. PICK to \in Injection(1..n, IdleSlots(b)) : GivenOut(q, b, n, to)
  BY <1>0
<1>2. to \in [1..n -> IdleSlots(b)] /\ n \in Nat /\ n <= Len(q)
  BY DEF Injection
<1> SUFFICES ASSUME NEW s \in Slots
             PROVE  /\ assigned'[s] # NoJob => wpc'[s] = "wait"
                    /\ (cur'[s] # NoJob) <=> (wpc'[s] = "run")
                    /\ busy'[s] <=> (assigned'[s] # NoJob \/ wpc'[s] \in {"run", "release"})
                    /\ wpc'[s] = "exit" => stopping' /\ queue' = <<>>
  BY DEF SlotsAgree
<1>3. wpc'[s] = "exit" => stopping' /\ queue' = <<>>
  <2> SUFFICES ASSUME wpc'[s] = "exit" PROVE stopping' /\ queue' = <<>>
    OBVIOUS
  <2>1. q = <<>> /\ Len(q) = 0 /\ n = 0
    BY <1>2
  <2>2. Len(queue') = 0 /\ queue' \in Seq(Jobs)
    BY <1>1, <2>1, DispatchGives DEF GivenOut
  <2>3. queue' = <<>>
    BY <2>2
  <2> QED BY <2>3
<1>4. CASE s \in Range(to)
  <2>1. PICK i \in 1..n : to[i] = s
    BY <1>2, <1>4 DEF Range
  <2>2. assigned'[s] = q[i] /\ busy'[s]
    BY <1>1, <1>4, <2>1 DEF GivenOut
  <2>3. q[i] \in Jobs /\ q # <<>>
    BY <1>2
  <2>4. assigned'[s] # NoJob
    BY <2>2, <2>3, NoJobAssumption
  <2>5. ~b[s] /\ assigned[s] = NoJob
    BY <1>2, <2>1 DEF IdleSlots
  <2>6. wpc'[s] = "wait"
    BY <2>5, <2>3 DEF QueueTypeOK, WorkerPcs
  <2> QED BY <2>2, <2>4, <2>6, <1>3
<1>5. CASE s \notin Range(to)
  <2>1. assigned'[s] = assigned[s] /\ (busy'[s] <=> b[s])
    BY <1>1, <1>5 DEF GivenOut
  <2> QED BY <2>1, <1>3
<1> QED BY <1>4, <1>5

\* The steps of a client that change no queue: accept, a bad request, a refused one, the end
LEMMA ClientKeepsQueue ==
    ASSUME QueueInv, NEW j \in Jobs,
           ClientConnect(j) \/ ClientError(j) \/ EnqueueRefused(j) \/ ClientDone(j)
    PROVE  QueueInv'
<1>1. \E pc \in JobPcs : /\ pc # "waiting" /\ jpc[j] # "waiting" /\ jpc' = [jpc EXCEPT ![j] = pc]
                         /\ UNCHANGED <<queue, stopping, assigned, busy, wpc, cur, qAsleep>>
  BY DEF ClientConnect, ClientError, EnqueueRefused, ClientDone, JobPcs
<1>2. QueueTypeOK' /\ SlotsAgree'
  BY <1>1 DEF QueueInv, QueueTypeOK, SlotsAgree
<1>3. JobHeldOnce'
  BY <1>1 DEF QueueInv, QueueTypeOK, JobHeldOnce, HeldByQueue, HeldBySlot
<1> QED BY <1>2, <1>3 DEF QueueInv

\* enqueue: the new job is the last of the queue before the dispatch
LEMMA EnqueueKeepsQueue ==
    ASSUME QueueInv, NEW j \in Jobs, NEW score, Enqueue(j, score)
    PROVE  QueueInv'
<1> DEFINE q == Append(queue, j)
<1>1. /\ QueueTypeOK /\ q \in Seq(Jobs) /\ busy \in [Slots -> BOOLEAN] /\ Dispatch(q, busy, score)
      /\ jpc[j] = "parsing" /\ jpc' = [jpc EXCEPT ![j] = "waiting"]
      /\ UNCHANGED <<stopping, wpc, cur>> /\ qAsleep' = {} /\ ~stopping
  BY DEF QueueInv, QueueTypeOK, Enqueue
<1>2. QueueTypeOK'
  <2>1. queue' \in Seq(Jobs) /\ assigned' \in [Slots -> Jobs \cup {NoJob}] /\ busy' \in [Slots -> BOOLEAN]
    BY <1>1, DispatchGives
  <2> QED BY <1>1, <2>1 DEF QueueTypeOK, JobPcs
<1>3. /\ Len(queue) \in Nat /\ DOMAIN queue = 1..Len(queue) /\ DOMAIN q = 1..Len(queue) + 1
      /\ q[Len(queue) + 1] = j /\ \A i \in 1..Len(queue) : q[i] = queue[i]
  BY DEF QueueInv, QueueTypeOK
<1>4. LineHeldOnce(q, jpc')
  <2> HIDE DEF q
  <2>1. ~HeldByQueue(j) /\ \A s \in Slots : ~HeldBySlot(j, s)
    BY <1>1 DEF QueueInv, JobHeldOnce
  <2>2. \A i \in 1..Len(queue) : queue[i] # j
    BY <1>3, <2>1 DEF HeldByQueue
  <2>3. \A i \in DOMAIN q : i \in 1..Len(queue) \/ i = Len(queue) + 1
    BY <1>3
  <2>3a. Len(queue) + 1 \in DOMAIN q /\ \A i \in 1..Len(queue) : i \in DOMAIN q
    BY <1>3
  <2> SUFFICES ASSUME NEW k \in Jobs
               PROVE  /\ (jpc'[k] = "waiting") <=> ((\E i \in DOMAIN q : q[i] = k) \/ \E s \in Slots : HeldBySlot(k, s))
                      /\ (\E i \in DOMAIN q : q[i] = k) => \A s \in Slots : ~HeldBySlot(k, s)
                      /\ \A s, t \in Slots : HeldBySlot(k, s) /\ HeldBySlot(k, t) => s = t
                      /\ \A i, m \in DOMAIN q : q[i] = k /\ q[m] = k => i = m
    BY DEF LineHeldOnce
  <2>4. CASE k = j
    <3>1. jpc'[k] = "waiting" /\ q[Len(queue) + 1] = k
      BY <1>1, <1>3, <2>4 DEF QueueInv, QueueTypeOK
    <3>2. \A i \in DOMAIN q : q[i] = k => i = Len(queue) + 1
      BY <1>3, <2>2, <2>3, <2>4
    <3> QED BY <2>1, <2>3a, <2>4, <3>1, <3>2
  <2>5. CASE k # j
    <3>1. jpc'[k] = jpc[k]
      BY <1>1, <2>5 DEF QueueInv, QueueTypeOK
    <3>2. \A i \in DOMAIN q : q[i] = k <=> i \in 1..Len(queue) /\ queue[i] = k
      BY <1>3, <2>3, <2>5
    <3>3. (\E i \in DOMAIN q : q[i] = k) <=> HeldByQueue(k)
      BY <1>3, <2>3a, <3>2 DEF HeldByQueue
    <3>4. /\ (jpc[k] = "waiting") <=> (HeldByQueue(k) \/ \E s \in Slots : HeldBySlot(k, s))
          /\ HeldByQueue(k) => \A s \in Slots : ~HeldBySlot(k, s)
          /\ \A s, t \in Slots : HeldBySlot(k, s) /\ HeldBySlot(k, t) => s = t
          /\ \A i, m \in 1..Len(queue) : queue[i] = k /\ queue[m] = k => i = m
      BY <1>3 DEF QueueInv, JobHeldOnce
    <3> QED BY <3>1, <3>2, <3>3, <3>4
  <2> QED BY <2>4, <2>5
<1> HIDE DEF q
<1>5. JobHeldOnce'
  BY <1>1, <1>4, DispatchHoldsOnce
<1>6. SlotsAgree'
  <2>1. \A s \in Slots :
              /\ assigned[s] # NoJob => wpc'[s] = "wait"
              /\ (cur[s] # NoJob) <=> (wpc'[s] = "run")
              /\ busy[s] <=> (assigned[s] # NoJob \/ wpc'[s] \in {"run", "release"})
              /\ wpc'[s] = "exit" => stopping /\ q = <<>>
    BY <1>1 DEF QueueInv, SlotsAgree
  <2> QED BY <1>1, <1>2, <2>1, DispatchKeepsSlots
<1> QED BY <1>2, <1>5, <1>6 DEF QueueInv

\* slot->busy = false and the dispatch after it
LEMMA ReleaseKeepsQueue ==
    ASSUME QueueInv, NEW s \in Slots, NEW score, WorkerRelease(s, score)
    PROVE  QueueInv'
<1> DEFINE b == [busy EXCEPT ![s] = FALSE]
<1>1. /\ QueueTypeOK /\ queue \in Seq(Jobs) /\ b \in [Slots -> BOOLEAN] /\ Dispatch(queue, b, score)
      /\ wpc[s] = "release" /\ wpc' = [wpc EXCEPT ![s] = "wait"]
      /\ UNCHANGED <<stopping, cur, jpc>> /\ qAsleep' \in {{}, qAsleep}
  BY DEF QueueInv, QueueTypeOK, WorkerRelease
<1>2. QueueTypeOK'
  <2> HIDE DEF b
  <2>1. queue' \in Seq(Jobs) /\ assigned' \in [Slots -> Jobs \cup {NoJob}] /\ busy' \in [Slots -> BOOLEAN]
    BY <1>1, DispatchGives
  <2> QED BY <1>1, <2>1 DEF QueueTypeOK, WorkerPcs
<1>3. LineHeldOnce(queue, jpc')
  BY <1>1 DEF QueueInv, LineHeldOnce, JobHeldOnce, HeldByQueue
<1>4. JobHeldOnce'
  <2> HIDE DEF b
  <2> QED BY <1>1, <1>3, DispatchHoldsOnce
<1>5. SlotsAgree'
  <2>1. \A t \in Slots :
              /\ assigned[t] # NoJob => wpc'[t] = "wait"
              /\ (cur[t] # NoJob) <=> (wpc'[t] = "run")
              /\ b[t] <=> (assigned[t] # NoJob \/ wpc'[t] \in {"run", "release"})
              /\ wpc'[t] = "exit" => stopping /\ queue = <<>>
    BY <1>1 DEF QueueInv, QueueTypeOK, SlotsAgree
  <2> HIDE DEF b
  <2> QED BY <1>1, <1>2, <2>1, DispatchKeepsSlots
<1> QED BY <1>2, <1>4, <1>5 DEF QueueInv

\* The other steps of slot_worker_main, and main's stopping = true
LEMMA WorkerKeepsQueue ==
    ASSUME QueueInv, NEW s \in Slots,
           WorkerSleep(s) \/ WorkerExit(s) \/ WorkerTake(s) \/ WorkerSignal(s) \/ QueueStop
    PROVE  QueueInv'
<1> USE DEF QueueInv
<1>1. CASE WorkerSleep(s) \/ WorkerExit(s) \/ QueueStop
  <2>1. QueueTypeOK' BY <1>1 DEF WorkerSleep, WorkerExit, QueueStop, QueueTypeOK, WorkerPcs
  <2>2. SlotsAgree' BY <1>1 DEF WorkerSleep, WorkerExit, QueueStop, QueueTypeOK, SlotsAgree
  <2>3. JobHeldOnce'
    BY <1>1 DEF WorkerSleep, WorkerExit, QueueStop, JobHeldOnce, HeldByQueue, HeldBySlot
  <2> QED BY <2>1, <2>2, <2>3
<1>2. CASE WorkerTake(s)
  <2>1. QueueTypeOK' BY <1>2 DEF WorkerTake, QueueTypeOK, WorkerPcs
  <2>2. SlotsAgree' BY <1>2 DEF WorkerTake, QueueTypeOK, SlotsAgree
  <2>3. cur[s] = NoJob
    BY <1>2 DEF WorkerTake, SlotsAgree
  <2>4. \A j \in Jobs, t \in Slots : HeldBySlot(j, t)' <=> HeldBySlot(j, t)
    BY <1>2, <2>3, NoJobAssumption DEF WorkerTake, QueueTypeOK, HeldBySlot
  <2>5. JobHeldOnce'
    BY <1>2, <2>4 DEF WorkerTake, JobHeldOnce, HeldByQueue
  <2> QED BY <2>1, <2>2, <2>5
<1>3. CASE WorkerSignal(s)
  <2>0. cur[s] \in Jobs /\ assigned[s] = NoJob
    BY <1>3 DEF WorkerSignal, SlotsAgree, QueueTypeOK
  <2>1. QueueTypeOK' BY <1>3, <2>0 DEF WorkerSignal, QueueTypeOK, WorkerPcs, JobPcs
  <2>2. SlotsAgree' BY <1>3, <2>0 DEF WorkerSignal, QueueTypeOK, SlotsAgree
  <2>3. \A j \in Jobs, t \in Slots : HeldBySlot(j, t)' <=> HeldBySlot(j, t) /\ t # s
    BY <1>3, <2>0, NoJobAssumption DEF WorkerSignal, QueueTypeOK, HeldBySlot
  <2>4. \A j \in Jobs : HeldBySlot(j, s) <=> j = cur[s]
    BY <2>0, NoJobAssumption DEF HeldBySlot
  <2>5. \A j \in Jobs : jpc'[j] = IF j = cur[s] THEN "done" ELSE jpc[j]
    BY <1>3, <2>0 DEF WorkerSignal, QueueTypeOK
  <2>6. JobHeldOnce'
    BY <1>3, <2>0, <2>3, <2>4, <2>5 DEF WorkerSignal, JobHeldOnce, HeldByQueue
  <2> QED BY <2>1, <2>2, <2>6
<1> QED BY <1>1, <1>2, <1>3

\* No job is held at the start
LEMMA QueueInvInit == QueueInit => QueueInv
<1> SUFFICES ASSUME QueueInit PROVE QueueInv
  OBVIOUS
<1>1. QueueTypeOK
  <2>1. stopping \in BOOLEAN BY Zenon DEF QueueInit
  <2> QED BY <2>1 DEF QueueInit, QueueTypeOK, WorkerPcs, JobPcs
<1>2. SlotsAgree
  BY DEF QueueInit, SlotsAgree
<1>3. JobHeldOnce
  BY NoJobAssumption DEF QueueInit, JobHeldOnce, HeldByQueue, HeldBySlot
<1> QED BY <1>1, <1>2, <1>3 DEF QueueInv

\* The queue, the slots' assignments and the workers stay consistent
THEOREM QueueInvariant == QueueSpec => []QueueInv
<1>1. QueueInv /\ [QueueNext]_queueVars => QueueInv'
  <2> SUFFICES ASSUME QueueInv, [QueueNext]_queueVars PROVE QueueInv'
    OBVIOUS
  <2>1. CASE UNCHANGED queueVars
    BY <2>1 DEF queueVars, QueueInv, QueueTypeOK, SlotsAgree, JobHeldOnce, HeldByQueue, HeldBySlot
  <2>2. CASE QueueStop
    <3>1. 0 \in Slots
      BY SlotCountAssumption DEF Slots
    <3> QED BY <2>2, <3>1, WorkerKeepsQueue
  <2>3. CASE QueueNext /\ ~QueueStop
    BY <2>3, ClientKeepsQueue, EnqueueKeepsQueue, ReleaseKeepsQueue, WorkerKeepsQueue DEF QueueNext
  <2> QED BY <2>1, <2>2, <2>3
<1> QED BY <1>1, QueueInvInit, PTL DEF QueueSpec

\* A job that its client waits for is in the queue, assigned to one slot or run by one worker,
\* never in two of these places and never in none, and no other job is in any of them
THEOREM JobsHeldOnce == QueueSpec => []JobHeldOnce
<1>1. QueueInv => JobHeldOnce
  BY DEF QueueInv
<1> QED BY <1>1, QueueInvariant, PTL

-----------------------------------------------------------------------------
(* The queue implements JobService                                         *)

\* A dispatch gives out as many jobs as there are jobs and idle slots
LEMMA DispatchSize ==
    ASSUME NEW idle \in SUBSET Slots, NEW len \in Nat, NEW n \in 0..len, NEW to \in Injection(1..n, idle),
           n = len \/ idle = Range(to)
    PROVE  Service!Min({len, Cardinality(idle)}) = n
<1>1. IsFiniteSet(idle) /\ Cardinality(idle) \in Nat
  <2>1. IsFiniteSet(Slots)
    BY FS_Interval, SlotCountAssumption DEF Slots
  <2>2. IsFiniteSet(idle)
    BY <2>1, FS_Subset
  <2> QED BY <2>2, FS_CardinalityType
<1>2. IsFiniteSet(1..n) /\ Cardinality(1..n) = n
  BY FS_Interval
<1>3. n <= Cardinality(idle)
  BY <1>1, <1>2, FS_Injection
<1>4. ASSUME idle = Range(to) PROVE Cardinality(idle) = n
  <2>1. to \in Surjection(1..n, idle)
    BY <1>4 DEF Injection, Surjection, Range
  <2> QED BY <1>1, <1>2, <2>1, FS_Injection
<1>5. n \in {len, Cardinality(idle)} /\ \A y \in {len, Cardinality(idle)} : n <= y
  BY <1>1, <1>3, <1>4
<1>6. \A x \in {len, Cardinality(idle)} : (\A y \in {len, Cardinality(idle)} : x <= y) => x = n
  BY <1>1, <1>5
<1> QED BY <1>5, <1>6 DEF Service!Min

\* JobService's Cardinality is this module's
LEMMA SameCardinality == \A S : Service!Cardinality(S) = Cardinality(S)
BY DEF Cardinality, Service!Cardinality

\* dispatch_jobs_locked is JobService's GiveOut, when the slots it may use are the free ones
LEMMA DispatchIsGiveOut ==
    ASSUME QueueTypeOK, QueueTypeOK', NEW q \in Seq(Jobs), NEW b \in [Slots -> BOOLEAN], NEW score,
           Dispatch(q, b, score), NEW at \in [Slots -> Jobs \cup {NoJob, Leaving}],
           \A s \in Slots : at[s] = NoJob <=> s \in IdleSlots(b),
           \A s \in Slots : assigned'[s] = assigned[s] => Doing(s)' = at[s]
    PROVE  Service!GiveOut(q, at)
<1>0. PICK n \in 0..Len(q) : \E to \in Injection(1..n, IdleSlots(b)) : GivenOut(q, b, n, to)
  BY DispatchGives
<1>1. PICK to \in Injection(1..n, IdleSlots(b)) : GivenOut(q, b, n, to)
  BY <1>0
<1>2. /\ to \in [1..n -> IdleSlots(b)] /\ n \in Nat /\ n <= Len(q) /\ Len(q) \in Nat
      /\ \A i, k \in 1..n : to[i] = to[k] => i = k
  BY DEF Injection, IsInjective
<1>3. {s \in Slots : at[s] = NoJob} = IdleSlots(b) /\ IdleSlots(b) \in SUBSET Slots
  BY DEF IdleSlots
<1>4. Service!Min({Len(q), Cardinality(IdleSlots(b))}) = n
  <2>1. n = Len(q) \/ IdleSlots(b) = Range(to)
    BY <1>1 DEF GivenOut
  <2> QED BY <1>2, <1>3, <2>1, DispatchSize
<1>5. queue' = SubSeq(q, n + 1, Len(q))
  BY <1>1 DEF GivenOut
<1>6. to \in Service!Injection(1..n, IdleSlots(b))
  BY <1>2 DEF Service!Injection, Service!IsInjective
<1>7. Service!Range(to) = {to[i] : i \in 1..n} /\ Range(to) = {to[i] : i \in 1..n}
  BY <1>2 DEF Service!Range, Range
<1>8. ASSUME NEW s \in Slots
      PROVE  Doing(s)' = IF s \in Service!Range(to) THEN q[Service!AntiFunction(to)[s]] ELSE at[s]
  <2>1. CASE s \in Service!Range(to)
    <3>1. PICK i \in 1..n : to[i] = s
      BY <1>7, <2>1
    <3>2. Service!AntiFunction(to)[s] = i
      <4>1. Service!AntiFunction(to)[s] = CHOOSE k \in 1..n : s \in Service!Range(to) => to[k] = s
        BY <1>2, <2>1 DEF Service!AntiFunction, Service!Inverse
      <4> QED BY <1>2, <2>1, <3>1, <4>1
    <3>3. assigned'[s] = q[i] /\ q[i] \in Jobs
      BY <1>1, <1>2, <3>1 DEF GivenOut
    <3> QED BY <2>1, <3>2, <3>3, NoJobAssumption DEF Doing
  <2>2. CASE s \notin Service!Range(to)
    BY <1>1, <1>7, <2>2 DEF GivenOut
  <2> QED BY <2>1, <2>2
<1>9. [s \in Slots |-> Doing(s)]' =
          [s \in Slots |-> IF s \in Service!Range(to) THEN q[Service!AntiFunction(to)[s]] ELSE at[s]]
  BY <1>8
<1> QED BY <1>3, <1>4, <1>5, <1>6, <1>9, SameCardinality DEF Service!GiveOut

\* The values of the refinement mapping: what a slot is doing for JobService
LEMMA DoingOf ==
    ASSUME QueueInv, NEW s \in Slots
    PROVE  /\ Doing(s) \in Jobs \cup {NoJob, Leaving}
           /\ Doing(s) = NoJob <=> ~busy[s] /\ assigned[s] = NoJob
           /\ Doing(s) = Leaving <=> wpc[s] = "release"
           /\ wpc[s] = "run" => Doing(s) = cur[s] /\ cur[s] \in Jobs
           /\ assigned[s] # NoJob => Doing(s) = assigned[s]
           /\ \A j \in Jobs : Doing(s) = j <=> HeldBySlot(j, s)
<1>1. wpc[s] \in WorkerPcs /\ assigned[s] \in Jobs \cup {NoJob} /\ cur[s] \in Jobs \cup {NoJob}
  BY DEF QueueInv, QueueTypeOK
<1>2. /\ assigned[s] # NoJob => wpc[s] = "wait"
      /\ (cur[s] # NoJob) <=> (wpc[s] = "run")
      /\ busy[s] <=> (assigned[s] # NoJob \/ wpc[s] \in {"run", "release"})
  BY DEF QueueInv, SlotsAgree
<1>3. CASE assigned[s] # NoJob
  BY <1>1, <1>2, <1>3, NoJobAssumption, LeavingAssumption DEF Doing, HeldBySlot
<1>4. CASE assigned[s] = NoJob /\ wpc[s] = "run"
  BY <1>1, <1>2, <1>4, NoJobAssumption, LeavingAssumption DEF Doing, HeldBySlot
<1>5. CASE assigned[s] = NoJob /\ wpc[s] = "release"
  BY <1>1, <1>2, <1>5, NoJobAssumption, LeavingAssumption DEF Doing, HeldBySlot
<1>6. CASE assigned[s] = NoJob /\ wpc[s] \in {"wait", "exit"}
  BY <1>1, <1>2, <1>6, NoJobAssumption, LeavingAssumption DEF Doing, HeldBySlot
<1> QED BY <1>1, <1>3, <1>4, <1>5, <1>6 DEF WorkerPcs

\* A job is known to JobService when it is answered, turned away, queued or held by a slot
KnownOnceSeen == \A j \in Jobs : Service!Known(j) <=> jpc[j] \in {"waiting", "done", "gone"}

\* JobService knows the jobs of the queue, of the slots, and those done with
LEMMA KnownJobs == QueueInv => KnownOnceSeen
<1> SUFFICES ASSUME QueueInv, NEW j \in Jobs
             PROVE  Service!Known(j) <=> jpc[j] \in {"waiting", "done", "gone"}
  BY DEF KnownOnceSeen
<1>1. j \in Service!Range(queue) <=> HeldByQueue(j)
  BY DEF Service!Range, HeldByQueue
<1>2. j \in Service!Range([s \in Slots |-> Doing(s)]) <=> \E s \in Slots : HeldBySlot(j, s)
  <2>1. j \in Service!Range([s \in Slots |-> Doing(s)]) <=> \E s \in Slots : Doing(s) = j
    BY DEF Service!Range
  <2> QED BY <2>1, DoingOf
<1>3. (jpc[j] = "waiting") <=> (HeldByQueue(j) \/ \E s \in Slots : HeldBySlot(j, s))
  BY DEF QueueInv, JobHeldOnce
<1> QED BY <1>1, <1>2, <1>3 DEF Service!Known

Serving == [s \in Slots |-> Doing(s)]
Finished == {j \in Jobs : jpc[j] \in {"done", "gone"}}

\* A step that changes neither the queue, nor what the slots do, nor which jobs are finished is
\* no step of JobService
LEMMA Stutters ==
    ASSUME UNCHANGED queue, \A s \in Slots : Doing(s)' = Doing(s), UNCHANGED Finished
    PROVE  UNCHANGED Service!serviceVars
<1>1. UNCHANGED Serving
  BY DEF Serving
<1> QED BY <1>1 DEF Service!serviceVars, Serving, Finished

\* enqueue accepts the job, and gives it out when a slot is free
LEMMA EnqueueAccepts ==
    ASSUME QueueInv, QueueInv', NEW j \in Jobs, NEW score, Enqueue(j, score)
    PROVE  Service!Accept(j)
<1> DEFINE q == Append(queue, j)
<1>1. /\ QueueTypeOK /\ QueueTypeOK' /\ q \in Seq(Jobs) /\ busy \in [Slots -> BOOLEAN]
      /\ Dispatch(q, busy, score) /\ jpc[j] = "parsing" /\ jpc' = [jpc EXCEPT ![j] = "waiting"]
      /\ UNCHANGED <<wpc, cur>>
  BY DEF QueueInv, QueueTypeOK, Enqueue
<1>2. ~Service!Known(j)
  BY <1>1, KnownJobs DEF KnownOnceSeen
<1>3. Service!Known(j)'
  <2>1. jpc'[j] = "waiting"
    BY <1>1 DEF QueueTypeOK
  <2>2. (QueueInv => KnownOnceSeen)'
    BY KnownJobs, PTL
  <2> QED BY <2>1, <2>2 DEF KnownOnceSeen
<1>4. UNCHANGED Finished
  BY <1>1 DEF Finished, QueueTypeOK
<1> HIDE DEF q
<1>5. Service!GiveOut(q, Serving)
  <2>1. Serving \in [Slots -> Jobs \cup {NoJob, Leaving}]
    BY DoingOf DEF Serving
  <2>2. \A s \in Slots : Serving[s] = NoJob <=> s \in IdleSlots(busy)
    BY DoingOf DEF Serving, IdleSlots
  <2>3. \A s \in Slots : assigned'[s] = assigned[s] => Doing(s)' = Serving[s]
    BY <1>1 DEF Doing, Serving
  <2> QED BY <1>1, <2>1, <2>2, <2>3, DispatchIsGiveOut
<1> QED BY <1>2, <1>3, <1>4, <1>5 DEF Service!Accept, Serving, Finished, q

\* A worker that frees its slot leaves it to the oldest job
LEMMA ReleaseBecomesFree ==
    ASSUME QueueInv, QueueInv', NEW s \in Slots, NEW score, WorkerRelease(s, score)
    PROVE  Service!BecomeFree(s)
<1> DEFINE b == [busy EXCEPT ![s] = FALSE]
           at == [Serving EXCEPT ![s] = NoJob]
<1>1. /\ QueueTypeOK /\ QueueTypeOK' /\ queue \in Seq(Jobs) /\ b \in [Slots -> BOOLEAN]
      /\ Dispatch(queue, b, score) /\ wpc[s] = "release" /\ wpc' = [wpc EXCEPT ![s] = "wait"]
      /\ UNCHANGED <<cur, jpc>> /\ wpc \in [Slots -> WorkerPcs] /\ busy \in [Slots -> BOOLEAN]
  BY DEF QueueInv, QueueTypeOK, WorkerRelease
<1>2. Doing(s) = Leaving /\ assigned[s] = NoJob
  BY <1>1, DoingOf DEF QueueInv, SlotsAgree
<1>3. \A t \in Slots : at[t] = IF t = s THEN NoJob ELSE Doing(t)
  BY DEF Serving
<1>4. at \in [Slots -> Jobs \cup {NoJob, Leaving}]
  BY DoingOf DEF Serving
<1>5. \A t \in Slots : at[t] = NoJob <=> t \in IdleSlots(b)
  <2> SUFFICES ASSUME NEW t \in Slots PROVE at[t] = NoJob <=> t \in IdleSlots(b)
    OBVIOUS
  <2>1. CASE t = s
    BY <1>1, <1>2, <1>3, <2>1 DEF IdleSlots
  <2>2. CASE t # s
    BY <1>1, <1>3, <2>2, DoingOf DEF IdleSlots
  <2> QED BY <2>1, <2>2
<1>6. \A t \in Slots : assigned'[t] = assigned[t] => Doing(t)' = at[t]
  <2> SUFFICES ASSUME NEW t \in Slots, assigned'[t] = assigned[t] PROVE Doing(t)' = at[t]
    OBVIOUS
  <2>1. CASE t = s
    BY <1>1, <1>2, <1>3, <2>1 DEF Doing
  <2>2. CASE t # s
    BY <1>1, <1>3, <2>2 DEF Doing
  <2> QED BY <2>1, <2>2
<1>7. UNCHANGED Finished
  BY <1>1 DEF Finished
<1> HIDE DEF b, at
<1>8. Service!GiveOut(queue, at)
  BY <1>1, <1>4, <1>5, <1>6, DispatchIsGiveOut
<1> QED BY <1>2, <1>7, <1>8 DEF Service!BecomeFree, Serving, Finished, at

\* The worker's signal is the answer
LEMMA SignalAnswers ==
    ASSUME QueueInv, QueueInv', NEW s \in Slots, WorkerSignal(s)
    PROVE  Service!Answer(s)
<1>1. /\ wpc[s] = "run" /\ wpc' = [wpc EXCEPT ![s] = "release"] /\ cur' = [cur EXCEPT ![s] = NoJob]
      /\ jpc' = [jpc EXCEPT ![cur[s]] = "done"] /\ UNCHANGED <<queue, assigned>>
  BY DEF WorkerSignal
<1>2. Doing(s) = cur[s] /\ cur[s] \in Jobs
  BY <1>1, DoingOf
<1>3. Finished' = Finished \cup {cur[s]}
  BY <1>1, <1>2 DEF Finished, QueueInv, QueueTypeOK
<1>4. \A t \in Slots : Doing(t)' = IF t = s THEN Leaving ELSE Doing(t)
  BY <1>1 DEF Doing, QueueInv, QueueTypeOK, SlotsAgree
<1>5. Serving' = [Serving EXCEPT ![s] = Leaving]
  BY <1>4 DEF Serving
<1> QED BY <1>1, <1>2, <1>3, <1>5 DEF Service!Answer, Serving, Finished

\* A client that is turned away has never been known; its other steps are invisible
LEMMA ClientOutside ==
    ASSUME QueueInv, NEW j \in Jobs,
           ClientConnect(j) \/ ClientError(j) \/ ClientDone(j) \/ EnqueueRefused(j)
    PROVE  Service!TurnAway(j) \/ UNCHANGED Service!serviceVars
<1>1. CASE ClientConnect(j) \/ ClientDone(j)
  <2>1. UNCHANGED Finished
    BY <1>1 DEF ClientConnect, ClientDone, Finished, QueueInv, QueueTypeOK
  <2> QED BY <1>1, <2>1, Stutters DEF ClientConnect, ClientDone, Doing
<1>2. CASE ClientError(j) \/ EnqueueRefused(j)
  <2>1. Finished' = Finished \cup {j}
    BY <1>2 DEF ClientError, EnqueueRefused, Finished, QueueInv, QueueTypeOK
  <2>2. ~Service!Known(j)
    BY <1>2, KnownJobs DEF KnownOnceSeen, ClientError, EnqueueRefused
  <2>3. UNCHANGED Serving
    BY <1>2 DEF ClientError, EnqueueRefused, Serving, Doing
  <2> QED BY <1>2, <2>1, <2>2, <2>3 DEF ClientError, EnqueueRefused, Service!TurnAway, Serving, Finished
<1> QED BY <1>1, <1>2

\* Waiting, taking the assigned job, leaving and the stop flag are invisible
LEMMA WorkerOutside ==
    ASSUME QueueInv, NEW s \in Slots, WorkerSleep(s) \/ WorkerExit(s) \/ WorkerTake(s) \/ QueueStop
    PROVE  UNCHANGED Service!serviceVars
<1>1. UNCHANGED Finished
  BY DEF WorkerSleep, WorkerExit, WorkerTake, QueueStop, Finished
<1>2. \A t \in Slots : Doing(t)' = Doing(t)
  BY DEF WorkerSleep, WorkerExit, WorkerTake, QueueStop, Doing, QueueInv, QueueTypeOK, SlotsAgree
<1> QED BY <1>1, <1>2, Stutters DEF WorkerSleep, WorkerExit, WorkerTake, QueueStop

\* The queue starts as JobService does: nobody in line, every slot free
LEMMA QueueStartsService == QueueInit => Service!ServiceInit
<1> SUFFICES ASSUME QueueInit PROVE Service!ServiceInit
  OBVIOUS
<1>1. \A s \in Slots : Doing(s) = NoJob
  BY DEF QueueInit, Doing
<1>2. Finished = {}
  BY DEF QueueInit, Finished
<1> QED BY <1>1, <1>2 DEF QueueInit, Service!ServiceInit, Finished

\* The linked list, the assignments and the worker threads implement the one line of JobService:
\* whatever the scores, jobs are given to slots in the order of arrival, each once, to a slot that
\* is free, and no job waits while a slot is free
THEOREM QueueImplementsService == QueueSpec => ServiceImplemented
<1>1. QueueInit => Service!ServiceInit
  BY QueueStartsService
<1>2. QueueInv /\ QueueInv' /\ [QueueNext]_queueVars => [Service!ServiceNext]_(Service!serviceVars)
  <2> SUFFICES ASSUME QueueInv, QueueInv', [QueueNext]_queueVars
               PROVE  Service!ServiceNext \/ UNCHANGED Service!serviceVars
    OBVIOUS
  <2>1. ASSUME NEW j \in Jobs, NEW score, Enqueue(j, score) PROVE Service!ServiceNext
    BY <2>1, EnqueueAccepts DEF Service!ServiceNext
  <2>2. ASSUME NEW s \in Slots, NEW score, WorkerRelease(s, score) PROVE Service!ServiceNext
    BY <2>2, ReleaseBecomesFree DEF Service!ServiceNext
  <2>3. ASSUME NEW s \in Slots, WorkerSignal(s) PROVE Service!ServiceNext
    BY <2>3, SignalAnswers DEF Service!ServiceNext
  <2>4. ASSUME NEW j \in Jobs, ClientConnect(j) \/ ClientError(j) \/ ClientDone(j) \/ EnqueueRefused(j)
        PROVE  Service!ServiceNext \/ UNCHANGED Service!serviceVars
    BY <2>4, ClientOutside DEF Service!ServiceNext
  <2>5. ASSUME NEW s \in Slots, WorkerSleep(s) \/ WorkerExit(s) \/ WorkerTake(s) \/ QueueStop
        PROVE  UNCHANGED Service!serviceVars
    BY <2>5, WorkerOutside
  <2>6. CASE UNCHANGED queueVars
    BY <2>6, Stutters DEF queueVars, Doing, Finished
  <2>7. 0 \in Slots
    BY SlotCountAssumption DEF Slots
  <2> QED BY <2>1, <2>2, <2>3, <2>4, <2>5, <2>6, <2>7 DEF QueueNext
<1>3. [Service!ServiceNext]_(Service!serviceVars) => [Service!ServiceStep]_(Service!serviceVars)
  BY DEF Service!ServiceStep
<1> QED BY <1>1, <1>2, <1>3, QueueInvariant, PTL DEF QueueSpec, ServiceImplemented, Service!ServiceSpec
=============================================================================
