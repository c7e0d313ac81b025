------------------------- MODULE BatchedServerProofs -------------------------
(***************************************************************************)
(* The server in batched mode, for every number of slots, every set of     *)
(* jobs and every prompt: generate_job makes the calls of ModelTurns in an *)
(* order ModelTurns allows, the queue inside the server implements         *)
(* JobService, and the session a job decodes from holds that job's         *)
(* transcript.                                                             *)
(***************************************************************************)
EXTENDS BatchedServer, ModelTurnsProofs, JobQueueProofs

\* The types of generate_job's own variables
JobTypes ==
    /\ gpc \in [Slots -> JobStages]
    /\ goal \in [Slots -> 0..Ctx]
    /\ completion \in [Slots -> 0..MaxTokens]
    /\ closed \in BOOLEAN

\* The call of ModelTurns a thread may be in, for each point of generate_job
CallsOf(g) ==
    CASE g = "none" -> {"out", "exit"}
      [] g \in {"load", "store", "continued"} -> {"locked"}
      [] g = "quantum" -> {"out", "prefill_wait", "prefill_lock", "prefill_run", "prefill_leave"}
      [] g = "eval" -> {"out", "eval_wait"}
      [] g = "rewrite" -> {"out", "rewrite"}
      [] OTHER -> {"out"}

Decoding == {"loop", "decode", "continued", "sample", "eval", "leave"}

\* generate_job, slot_worker_main and the calls they make are at places that fit together
Placed(s) ==
    /\ gpc[s] = "none" <=> wpc[s] # "run"
    /\ tpc[s] \in CallsOf(gpc[s]) /\ (tpc[s] = "exit" => wpc[s] = "exit")
    /\ s \in generating <=> gpc[s] \in Decoding
    /\ gpc[s] # "none" => goal[s] \in 1..PromptLen[cur[s]]
    /\ gpc[s] \in {"decode", "continued", "sample", "eval"} => completion[s] < MaxTokens

\* The session of slot s holds the first n tokens of its job's transcript
HoldsJob(s, n) == sess[s].valid /\ sess[s].conv = Conv[cur[s]] /\ sess[s].len = n

\* What the session holds at each point of generate_job
Promised(s) ==
    /\ gpc[s] \in {"quantum", "store", "headers", "loop", "decode", "continued", "sample"} => s \notin batch
    /\ gpc[s] = "quantum" /\ tpc[s] # "out" =>
          target[s].conv = Conv[cur[s]] /\ target[s].len \in 1..goal[s]
    /\ gpc[s] = "quantum" /\ tpc[s] = "prefill_leave" /\ ret[s] = Ok => HoldsJob(s, target[s].len)
    /\ gpc[s] = "quantum" /\ tpc[s] = "out" /\ ret[s] = Ok => \E n \in 1..goal[s] : HoldsJob(s, n)
    /\ gpc[s] = "store" => HoldsJob(s, goal[s])
    /\ gpc[s] = "headers" => HoldsJob(s, PromptLen[cur[s]])
    /\ gpc[s] \in {"loop", "decode", "continued", "sample"} => HoldsJob(s, PromptLen[cur[s]] + completion[s])
    /\ gpc[s] = "eval" /\ tpc[s] = "eval_wait" =>
          sess[s].conv = Conv[cur[s]] /\ target[s].len = PromptLen[cur[s]] + completion[s] + 1
    /\ gpc[s] = "eval" /\ tpc[s] = "out" /\ ret[s] = Ok =>
          s \notin batch /\ HoldsJob(s, PromptLen[cur[s]] + completion[s] + 1)

\* Until a shutdown, valid checkpoints are backed, and forward passes that take a checkpoint for
\* valid (a batch, a rewrite) are given a valid one
LiveBacked(s) ==
    ~stopReq =>
        /\ Backed(sess[s])
        /\ tpc[s] = "eval_wait" /\ decodePending[s] => sess[s].valid
        /\ tpc[s] = "eval_wait" /\ s \in batch /\ dpc \in {"lock", "run"} => sess[s].valid
        /\ tpc[s] = "rewrite" => sess[s].valid

Track(s) == Placed(s) /\ Promised(s) /\ LiveBacked(s)

OnTrack == \A s \in Slots : Track(s)

ServerInv == Counted /\ Requests /\ Answers /\ QueueInv /\ JobTypes /\ OnTrack

-----------------------------------------------------------------------------
(* The server's calls are calls of ModelTurns                              *)

\* Inside generate_job the slot has a job, whose prompt fits the context, and is heading for a
\* prefix of it
LEMMA JobFacts ==
    ASSUME QueueInv, JobTypes, NEW s \in Slots, Placed(s), gpc[s] # "none"
    PROVE  /\ cur[s] \in Jobs /\ Conv[cur[s]] \in Convs
           /\ PromptLen[cur[s]] \in Nat /\ PromptLen[cur[s]] >= 1 /\ PromptLen[cur[s]] < Ctx
           /\ goal[s] \in Nat /\ goal[s] >= 1 /\ goal[s] <= PromptLen[cur[s]]
<1>1. cur[s] \in Jobs
  BY DEF Placed, QueueInv, QueueTypeOK, SlotsAgree
<1>2. Conv[cur[s]] \in Convs /\ PromptLen[cur[s]] \in 1..Ctx - 1
  BY <1>1, JobAssumption
<1> QED BY <1>1, <1>2, CtxAssumption DEF Placed

\* What a prompt may reuse of a session is no longer than the context
LEMMA ReusableType ==
    ASSUME NEW sn \in Session, NEW conv, NEW n \in Nat
    PROVE  Reusable(sn, conv, n) \in Nat
BY CtxAssumption DEF Reusable, Session

\* server_session_sync asks for a prefix of the prompt that is not empty
LEMMA QuantumIsPrompt ==
    ASSUME QueueInv, JobTypes, Counted, NEW s \in Slots, Placed(s), gpc[s] # "none",
           NEW done \in Nat, SyncQuantum(s, done)
    PROVE  \E n \in 1..goal[s] : /\ Prefix(s, n) \in Prompts
                                 /\ PrefillEnter(s, Prefix(s, n)) /\ Advance(s, "quantum")
<1> DEFINE step == IF activeGens > 0 THEN MixedQuantum ELSE Quantum
           to == IF done + step > goal[s] THEN goal[s] ELSE done + step
<1>1. step \in Nat /\ step >= 1
  BY JobAssumption
<1>2. to \in 1..goal[s]
  <2> HIDE DEF step
  <2> QED BY <1>1, JobFacts
<1>3. PrefillEnter(s, Prefix(s, to)) /\ Advance(s, "quantum")
  BY DEF SyncQuantum
<1> HIDE DEF to
<1>4. to \in Nat /\ to >= 1 /\ to < Ctx /\ to \in 1..Ctx
  BY <1>2, JobFacts, CtxAssumption
<1>5. Prefix(s, to) \in Prompts
  BY <1>4, JobFacts DEF Prefix, Prompts, Checkpoints
<1> QED BY <1>2, <1>3, <1>5

\* Each step of generate_job is a call of ModelTurns or none
LEMMA GenerateIsCall ==
    ASSUME QueueInv, JobTypes, Counted, NEW s \in Slots, Placed(s), Generate(s)
    PROVE  SlotCall(s) \/ SlotStep(s) \/ UNCHANGED vars
<1>0. sess[s] \in Session /\ sess[s].len \in Nat
  BY CtxAssumption DEF Counted, TypeOK, Session
<1>1. CASE SetupCold(s)
  BY <1>1 DEF SetupCold, SlotCall
<1>2. CASE SetupLoad(s)
  <2>0. gpc[s] # "none"
    BY <1>2 DEF SetupLoad, Stage
  <2>1. ASSUME NEW sn \in {sess[s], Invalidated(sess[s])}, InferenceUnlock(s, sn) PROVE SlotStep(s)
    BY <2>1 DEF SlotStep
  <2>2. ASSUME NEW k \in 1..PromptLen[cur[s]], InferenceUnlock(s, Loaded(Conv[cur[s]], k)) PROVE SlotStep(s)
    <3> DEFINE p == [conv |-> Conv[cur[s]], len |-> k]
    <3>1. k \in 1..Ctx /\ k < Ctx
      BY <2>0, JobFacts, CtxAssumption
    <3>2. p \in Prompts /\ p.conv = Conv[cur[s]] /\ p.len = k
      BY <2>0, <3>1, JobFacts DEF Prompts, Checkpoints
    <3> HIDE DEF p
    <3>3. Loaded(Conv[cur[s]], k) \in {Loaded(q.conv, q.len) : q \in Prompts}
      BY <3>2
    <3> QED BY <2>2, <3>3 DEF SlotStep
  <2> QED BY <1>2, <2>1, <2>2 DEF SetupLoad
<1>3. CASE SyncFirst(s)
  <2>0. gpc[s] # "none" /\ SyncQuantum(s, Reusable(sess[s], Conv[cur[s]], goal[s]))
    BY <1>3 DEF SyncFirst, Stage
  <2>1. Reusable(sess[s], Conv[cur[s]], goal[s]) \in Nat
    BY <1>0, <2>0, JobFacts, ReusableType
  <2> QED BY <2>0, <2>1, QuantumIsPrompt DEF SlotCall
<1>4. CASE SyncMore(s)
  <2>0. gpc[s] # "none" /\ SyncQuantum(s, sess[s].len)
    BY <1>4 DEF SyncMore, Stage
  <2> QED BY <1>0, <2>0, QuantumIsPrompt DEF SlotCall
<1>5. CASE SyncDone(s)
  BY <1>5 DEF SyncDone, SlotCall
<1>6. CASE PrefixStored(s)
  BY <1>6 DEF PrefixStored, SlotStep
<1>7. CASE DecodeStart(s) \/ LoopTop(s)
  BY <1>7 DEF DecodeStart, LoopTop, SlotCall
<1>8. CASE ContinuedLock(s) \/ ContinuedStored(s)
  BY <1>8 DEF ContinuedLock, ContinuedStored, SlotCall, SlotStep
<1>9. CASE Sampled(s) \/ TokenKept(s) \/ DecodeEnd(s)
  BY <1>9 DEF Sampled, TokenKept, DecodeEnd, SlotCall
<1>10. CASE Canonicalize(s)
  <2>0. gpc[s] # "none"
    BY <1>10 DEF Canonicalize, Stage
  <2>1. PICK n \in 1..Ctx : RewriteBegin(s, Prefix(s, n))
    BY <1>10 DEF Canonicalize
  <2>2. Prefix(s, n) \in Checkpoints
    BY <2>0, JobFacts DEF Prefix, Checkpoints
  <2> QED BY <2>1, <2>2 DEF SlotCall
<1>11. CASE JobReturn(s)
  BY <1>11 DEF JobReturn
<1> QED BY <1>1, <1>2, <1>3, <1>4, <1>5, <1>6, <1>7, <1>8, <1>9, <1>10, <1>11 DEF Generate

\* Every step of the server is a step of ModelTurns or leaves its variables alone
LEMMA ServerStepsTurns ==
    ASSUME QueueInv, JobTypes, Counted, \A s \in Slots : Placed(s), [ServerNext]_allVars
    PROVE  [Next]_vars
<1>1. ASSUME NEW s \in Slots, SlotThread(s) PROVE [Next]_vars
  <2>1. CASE Take(s)
    BY <2>1 DEF Take
  <2>2. CASE Generate(s)
    BY <2>2, GenerateIsCall DEF Next
  <2>3. CASE InCall(s)
    BY <1>1, <2>3 DEF InCall, SlotStep, Next
  <2>4. CASE WorkerIdle(s)
    BY <1>1, <2>4 DEF WorkerIdle, SlotCall, Next
  <2> QED BY <1>1, <2>1, <2>2, <2>3, <2>4 DEF SlotThread
<1>2. CASE CoordinatorThread \/ Signal
  BY <1>2 DEF CoordinatorThread, Signal, Next
<1>3. ASSUME NEW j \in Jobs, Accept(j) \/ ClientThread(j) PROVE [Next]_vars
  BY <1>3 DEF Accept, ClientThread
<1>4. CASE Shutdown
  BY <1>4 DEF Shutdown, Next, MainStep
<1>5. CASE Close \/ Terminated \/ UNCHANGED allVars
  BY <1>5 DEF Close, Terminated, allVars
<1> QED BY <1>1, <1>2, <1>3, <1>4, <1>5 DEF ServerNext

-----------------------------------------------------------------------------
(* The queue inside the server                                             *)

\* The server makes the queue's operations with job_slot_score's scores and leaves its
\* variables alone otherwise
LEMMA ServerKeepsQueue ==
    ASSUME QueueInv, [ServerNext]_allVars
    PROVE  QueueInv'
<1>0. CASE UNCHANGED queueVars
  BY <1>0 DEF queueVars, QueueInv, QueueTypeOK, SlotsAgree, JobHeldOnce, HeldByQueue, HeldBySlot
<1>1. ASSUME NEW s \in Slots, SlotThread(s) PROVE QueueInv'
  <2>1. CASE Take(s)
    BY <2>1, WorkerKeepsQueue DEF Take
  <2>2. CASE Generate(s)
    <3>1. CASE JobReturn(s)
      BY <3>1, WorkerKeepsQueue DEF JobReturn
    <3>2. CASE ~JobReturn(s)
      <4>1. UNCHANGED queueVars
        BY <2>2, <3>2 DEF Generate, SetupCold, SetupLoad, SyncFirst, SyncMore, SyncDone, PrefixStored,
             DecodeStart, LoopTop, ContinuedLock, ContinuedStored, Sampled, TokenKept, DecodeEnd, Canonicalize
      <4> QED BY <1>0, <4>1
    <3> QED BY <3>1, <3>2
  <2>3. CASE InCall(s)
    BY <1>0, <2>3 DEF InCall
  <2>4. CASE WorkerIdle(s)
    BY <2>4, WorkerKeepsQueue, ReleaseKeepsQueue DEF WorkerIdle
  <2> QED BY <1>1, <2>1, <2>2, <2>3, <2>4 DEF SlotThread
<1>2. CASE CoordinatorThread \/ Signal \/ Close \/ Terminated \/ UNCHANGED allVars
  BY <1>0, <1>2 DEF CoordinatorThread, Signal, Close, Terminated, allVars
<1>3. ASSUME NEW j \in Jobs, Accept(j) \/ ClientThread(j) PROVE QueueInv'
  BY <1>3, ClientKeepsQueue, EnqueueKeepsQueue DEF Accept, ClientThread
<1>4. CASE Shutdown
  <2>1. 0 \in Slots
    BY SlotCountAssumption DEF Slots
  <2> QED BY <1>0, <1>4, <2>1, WorkerKeepsQueue DEF Shutdown
<1> QED BY <1>1, <1>2, <1>3, <1>4 DEF ServerNext

\* The stages, goals and counters of generate_job keep their types: a token is counted only
\* after the loop's test of max_tokens
LEMMA ServerKeepsJobTypes ==
    ASSUME QueueInv, JobTypes, \A s \in Slots : Placed(s), [ServerNext]_allVars
    PROVE  JobTypes'
<1>0. CASE UNCHANGED jobVars
  BY <1>0 DEF jobVars, JobTypes
<1>1. ASSUME NEW s \in Slots, NEW g \in JobStages, Advance(s, g), UNCHANGED <<goal, completion, closed>>
      PROVE  JobTypes'
  BY <1>1 DEF Advance, JobTypes
<1>2. ASSUME NEW s \in Slots, NEW g \in JobStages, Advance(s, g), UNCHANGED <<completion, closed>>,
             NEW n \in 0..Ctx, goal' = [goal EXCEPT ![s] = n]
      PROVE  JobTypes'
  BY <1>2 DEF Advance, JobTypes
<1>2a. ASSUME NEW s \in Slots, NEW g \in JobStages, Advance(s, g), UNCHANGED <<goal, closed>>,
             NEW n \in 0..MaxTokens, completion' = [completion EXCEPT ![s] = n]
      PROVE  JobTypes'
  BY <1>2a DEF Advance, JobTypes
<1>3. ASSUME NEW s \in Slots, Generate(s) PROVE JobTypes'
  <2> USE DEF JobStages
  <2>1. CASE SetupCold(s) \/ SyncDone(s) \/ LoopTop(s) \/ ContinuedLock(s) \/ ContinuedStored(s)
             \/ Sampled(s) \/ DecodeEnd(s) \/ Canonicalize(s)
    BY <1>1, <2>1 DEF SetupCold, SyncDone, LoopTop, ContinuedLock, ContinuedStored, Sampled, DecodeEnd,
         Canonicalize
  <2>2. CASE SyncFirst(s) \/ SyncMore(s)
    BY <1>1, <2>2 DEF SyncFirst, SyncMore, SyncQuantum
  <2>3. CASE SetupLoad(s)
    <3>1. \E n \in 1..PromptLen[cur[s]] : goal' = [goal EXCEPT ![s] = n]
      <4>1. PromptLen[cur[s]] \in 1..PromptLen[cur[s]]
        BY <2>3, JobFacts DEF SetupLoad, Stage
      <4> QED BY <2>3, <4>1 DEF SetupLoad
    <3>2. PICK n \in 1..PromptLen[cur[s]] : goal' = [goal EXCEPT ![s] = n]
      BY <3>1
    <3>3. n \in 0..Ctx
      BY <2>3, JobFacts, CtxAssumption DEF SetupLoad, Stage
    <3> QED BY <1>2, <2>3, <3>2, <3>3 DEF SetupLoad
  <2>4. CASE PrefixStored(s)
    <3>1. CASE goal[s] < PromptLen[cur[s]]
      <4>1. PICK n \in goal[s] + 1 .. PromptLen[cur[s]] : goal' = [goal EXCEPT ![s] = n]
        BY <2>4, <3>1 DEF PrefixStored
      <4>2. n \in 0..Ctx
        BY <2>4, JobFacts, CtxAssumption DEF PrefixStored, Stage
      <4> QED BY <1>2, <2>4, <3>1, <4>1, <4>2 DEF PrefixStored
    <3>2. CASE ~(goal[s] < PromptLen[cur[s]])
      BY <1>1, <2>4, <3>2 DEF PrefixStored
    <3> QED BY <3>1, <3>2
  <2>5. CASE DecodeStart(s)
    <3>1. 0 \in 0..MaxTokens
      BY JobAssumption
    <3> QED BY <1>2a, <2>5, <3>1 DEF DecodeStart
  <2>6. CASE TokenKept(s)
    <3>1. completion[s] < MaxTokens /\ completion[s] \in Nat
      BY <2>6, JobAssumption DEF TokenKept, Stage, Placed, JobTypes
    <3>2. completion[s] + 1 \in 0..MaxTokens
      BY <3>1, JobAssumption
    <3> QED BY <1>2a, <2>6, <3>2 DEF TokenKept, JobTypes
  <2>7. CASE JobReturn(s)
    <3>1. 0 \in 0..Ctx /\ 0 \in 0..MaxTokens
      BY CtxAssumption, JobAssumption
    <3>2. UNCHANGED closed
      BY <2>7 DEF JobReturn
    <3> QED BY <2>7, <3>1, <3>2 DEF JobReturn, JobTypes
  <2> QED BY <1>3, <2>1, <2>2, <2>3, <2>4, <2>5, <2>6, <2>7 DEF Generate
<1>4. ASSUME NEW s \in Slots, Take(s) PROVE JobTypes'
  <2>1. assigned[s] \in Jobs
    BY <1>4 DEF Take, WorkerTake, QueueInv, QueueTypeOK
  <2>2. PromptLen[assigned[s]] \in 0..Ctx
    BY <2>1, JobAssumption, CtxAssumption
  <2> QED BY <1>2, <1>4, <2>2 DEF Take, JobStages
<1>5. CASE Close
  BY <1>5 DEF Close, JobTypes
<1> QED BY <1>0, <1>3, <1>4, <1>5 DEF ServerNext, SlotThread, InCall, WorkerIdle, CoordinatorThread,
       Accept, ClientThread, Shutdown, Signal, Terminated, allVars

-----------------------------------------------------------------------------
(* Where generate_job is and what its session holds                        *)

\* A step that leaves slot t to itself
Apart(t) ==
    /\ gpc'[t] = gpc[t] /\ goal'[t] = goal[t] /\ completion'[t] = completion[t]
    /\ cur'[t] = cur[t] /\ wpc'[t] = wpc[t]
    /\ tpc'[t] = tpc[t] /\ target'[t] = target[t] /\ ret'[t] = ret[t] /\ sess'[t] = sess[t]
    /\ t \in generating' <=> t \in generating
    /\ t \in batch' => t \in batch
    /\ t \in batch' /\ dpc' \in {"lock", "run"} => t \in batch /\ dpc \in {"lock", "run"}
    /\ decodePending'[t] => decodePending[t]
    /\ stopReq => stopReq'

\* What others do does not change where a slot is
LEMMA TrackApart ==
    ASSUME NEW t \in Slots, Track(t), Apart(t)
    PROVE  Track(t)'
<1>1. Placed(t)'
  BY DEF Track, Apart, Placed
<1>2. Promised(t)'
  BY DEF Track, Apart, Promised, HoldsJob
<1>3. LiveBacked(t)'
  BY DEF Track, Apart, LiveBacked, Backed
<1> QED BY <1>1, <1>2, <1>3 DEF Track

\* The stage follows from the call a thread is in
LEMMA StageOfCall ==
    ASSUME NEW s \in Slots, Placed(s), JobTypes
    PROVE  /\ tpc[s] = "eval_wait" => gpc[s] = "eval"
           /\ tpc[s] = "rewrite" => gpc[s] = "rewrite"
           /\ tpc[s] \in {"prefill_wait", "prefill_lock", "prefill_run", "prefill_leave"} => gpc[s] = "quantum"
           /\ tpc[s] = "locked" => gpc[s] \in {"load", "store", "continued"}
<1>1. gpc[s] \in JobStages
  BY DEF JobTypes
<1> QED BY <1>1 DEF Placed, CallsOf, JobStages

\* A thread that is outside the calls, while no shutdown is requested, is in no batch
LEMMA OutNotInBatch ==
    ASSUME Requests, NEW s \in Slots, tpc[s] # "eval_wait"
    PROVE  ~decodePending[s] /\ (~stopReq => s \notin batch)
BY DEF Requests, At

\* The coordinator: a batch takes the pending requests only, whose threads wait, and changes the
\* sessions of its members only
LEMMA DecoderKeepsTrack ==
    ASSUME ServerInv, DecoderStep, UNCHANGED <<queueVars, jobVars>>, NEW t \in Slots
    PROVE  Track(t)'
<1>0. Track(t) /\ Placed(t) /\ Promised(t) /\ LiveBacked(t) /\ UNCHANGED <<gpc, goal, completion, cur, wpc>>
  BY DEF ServerInv, OnTrack, Track, queueVars, jobVars
<1>1. CASE DecoderSleep \/ DecoderExit \/ DecoderWake \/ DecoderCoalesced \/ DecoderLock
  <2>1. Apart(t)
    BY <1>0, <1>1 DEF Apart, DecoderSleep, DecoderExit, DecoderWake, DecoderCoalesced, DecoderLock,
         DecoderAt, flagVars, slotVars, threadVars, decoderVars
  <2> QED BY <1>0, <2>1, TrackApart
<1>2. CASE DecoderPublish
  <2>1. Apart(t)
    BY <1>0, <1>2 DEF Apart, DecoderPublish, threadVars
  <2> QED BY <1>0, <2>1, TrackApart
<1>3. CASE DecoderClaim
  <2>1. /\ UNCHANGED <<sess, stopReq, tpc, target, ret, generating>>
        /\ t \in batch' <=> decodePending[t]
        /\ ~decodePending'[t]
    BY <1>3 DEF DecoderClaim, threadVars, Pending
  <2>2. decodePending[t] => tpc[t] = "eval_wait" /\ gpc[t] = "eval"
    BY <1>0, StageOfCall DEF ServerInv, Requests, At
  <2>3. Placed(t)'
    BY <1>0, <2>1 DEF Placed
  <2>4. Promised(t)'
    BY <1>0, <2>1, <2>2 DEF Promised, HoldsJob
  <2>5. LiveBacked(t)'
    BY <1>0, <2>1 DEF LiveBacked
  <2> QED BY <2>3, <2>4, <2>5 DEF Track
<1>4. CASE DecoderRun
  <2>1. PICK o \in EvalBatch(sess, batch) : sess' = o.sess
    BY <1>4 DEF DecoderRun
  <2>2. /\ UNCHANGED <<stopReq, tpc, target, ret, generating, batch, decodePending>>
        /\ dpc = "run" /\ dpc' = "publish"
    BY <1>4 DEF DecoderRun, flagVars, slotVars, threadVars
  <2>3. sess \in [Slots -> Session] /\ batch \in SUBSET Slots /\ IsFiniteSet(batch)
    BY SlotsFinite DEF ServerInv, Counted, TypeOK
  <2>4. /\ \A m \in Slots : sess'[m].conv = sess[m].conv
        /\ \A m \in Slots \ batch : sess'[m] = sess[m]
        /\ \A m \in batch : sess[m].intact => Backed(sess'[m])
    BY <2>1, <2>3, EvalBatchOutcome, EvalBatchKeeps
  <2>5. CASE t \notin batch
    <3>1. Apart(t)
      BY <1>0, <2>2, <2>4, <2>5 DEF Apart
    <3> QED BY <1>0, <3>1, TrackApart
  <2>6. CASE t \in batch
    <3>1. Placed(t)'
      BY <1>0, <2>2 DEF Placed
    <3>2. Promised(t)'
      <4>1. gpc[t] = "quantum" => FALSE
        BY <1>0, <2>6 DEF Promised
      <4> QED BY <1>0, <2>2, <2>4, <2>6, <4>1 DEF Promised
    <3>3. LiveBacked(t)'
      <4> SUFFICES ASSUME ~stopReq PROVE LiveBacked(t)'
        BY <2>2 DEF LiveBacked
      <4>1. tpc[t] = "eval_wait" /\ ~decodePending[t]
        BY <2>6 DEF ServerInv, Requests, At
      <4>2. sess[t].valid /\ sess[t].intact
        BY <1>0, <2>2, <2>6, <4>1 DEF LiveBacked, Backed
      <4> QED BY <2>2, <2>4, <2>6, <4>1, <4>2 DEF LiveBacked
    <3> QED BY <3>1, <3>2, <3>3 DEF Track
  <2> QED BY <2>5, <2>6
<1> QED BY <1>1, <1>2, <1>3, <1>4 DEF DecoderStep

\* Clients, the queue's other operations, the signal and main's shutdown
LEMMA OthersKeepTrack ==
    ASSUME ServerInv, NEW t \in Slots,
           \/ /\ UNCHANGED <<vars, gpc, goal, completion, cur>>
              /\ wpc'[t] = wpc[t] \/ (wpc[t] = "release" /\ wpc'[t] = "wait")
           \/ /\ StopSignal \/ CancelDecodeWaiters \/ ModelStop
              /\ UNCHANGED <<queueVars, jobVars>>
    PROVE  Track(t)'
<1>0. Track(t) /\ Placed(t) /\ Promised(t) /\ LiveBacked(t)
  BY DEF ServerInv, OnTrack, Track
<1>1. CASE /\ UNCHANGED <<vars, gpc, goal, completion, cur>>
           /\ wpc'[t] = wpc[t] \/ (wpc[t] = "release" /\ wpc'[t] = "wait")
  <2> USE DEF vars, flagVars, slotVars, threadVars, decoderVars
  <2>1. Placed(t)' BY <1>0, <1>1 DEF Placed
  <2>2. Promised(t)' BY <1>0, <1>1 DEF Promised, HoldsJob
  <2>3. LiveBacked(t)' BY <1>0, <1>1 DEF LiveBacked
  <2> QED BY <2>1, <2>2, <2>3 DEF Track
<1>2. CASE (StopSignal \/ CancelDecodeWaiters \/ ModelStop) /\ UNCHANGED <<queueVars, jobVars>>
  <2>1. Apart(t)
    BY <1>2 DEF Apart, StopSignal, CancelDecodeWaiters, ModelStop, queueVars, jobVars, slotVars,
         threadVars, decoderVars
  <2> QED BY <1>0, <2>1, TrackApart
<1> QED BY <1>1, <1>2

\* A call of ModelTurns that goes on: a prefill that succeeds holds its quantum, a decode that
\* succeeds one token more, and no rewrite makes a broken cache look valid
LEMMA CallKeepsTrack ==
    ASSUME ServerInv, NEW s \in Slots, InCall(s), NEW t \in Slots
    PROVE  Track(t)'
<1>0. /\ Track(t) /\ Placed(s) /\ Promised(s) /\ LiveBacked(s)
      /\ UNCHANGED <<gpc, goal, completion, cur, wpc>>
  BY DEF ServerInv, OnTrack, Track, InCall, queueVars, jobVars
<1>1. /\ tpc \in [Slots -> SlotPcs] /\ target \in [Slots -> Checkpoints] /\ ret \in [Slots -> Rc]
      /\ sess \in [Slots -> Session] /\ decodePending \in [Slots -> BOOLEAN]
      /\ JobTypes /\ QueueInv /\ Requests /\ Answers
  BY DEF ServerInv, Counted, TypeOK
<1> USE DEF At, GoTo, Return, flagVars, slotVars, threadVars, decoderVars
<1>2. CASE t # s
  <2>1. Apart(t)
    BY <1>0, <1>1, <1>2 DEF Apart, InCall, PrefillSleep, PrefillTurn, PrefillAbort, PrefillLock,
         PrefillRun, PrefillLeave, EvalSleep, EvalReturn, RewriteEnd
  <2> QED BY <1>0, <2>1, TrackApart
<1>3. CASE t = s /\ (PrefillSleep(s) \/ EvalSleep(s))
  <2>1. Apart(s)
    BY <1>0, <1>3 DEF Apart, PrefillSleep, EvalSleep
  <2> QED BY <1>0, <1>3, <2>1, TrackApart
<1>4. ASSUME PrefillTurn(s) \/ PrefillLock(s) \/ PrefillAbort(s) PROVE Track(s)'
  <2>1. /\ gpc[s] = "quantum" /\ tpc[s] \in {"prefill_wait", "prefill_lock"}
        /\ UNCHANGED <<stopReq, sess, generating, batch, decodePending, dpc>>
        /\ \/ tpc'[s] \in {"prefill_lock", "prefill_run"} /\ UNCHANGED <<target, ret>>
           \/ tpc'[s] = "out" /\ ret'[s] = Failed
    BY <1>0, <1>1, <1>4, StageOfCall DEF PrefillTurn, PrefillLock, PrefillAbort
  <2>2. Placed(s)'
    BY <1>0, <2>1 DEF Placed, CallsOf
  <2>3. Promised(s)'
    BY <1>0, <2>1 DEF Promised, Ok, Failed
  <2>4. LiveBacked(s)'
    BY <1>0, <2>1 DEF LiveBacked
  <2> QED BY <2>2, <2>3, <2>4 DEF Track
<1>5. ASSUME PrefillRun(s) PROVE Track(s)'
  <2>1. /\ gpc[s] = "quantum" /\ tpc[s] = "prefill_run" /\ tpc'[s] = "prefill_leave"
        /\ UNCHANGED <<stopReq, target, generating, batch, decodePending, dpc>>
    BY <1>0, <1>1, <1>5, StageOfCall DEF PrefillRun
  <2>2. PICK o \in Sync(sess[s], target[s].conv, target[s].len) : sess'[s] = o.sess /\ ret'[s] = o.rc
    BY <1>1, <1>5 DEF PrefillRun
  <2>3. target[s].conv = Conv[cur[s]] /\ target[s].len \in 1..Ctx /\ target[s].conv \in Convs
    BY <1>0, <1>1, <2>1 DEF Promised, Checkpoints
  <2>4. /\ Backed(sess[s]) => Backed(sess'[s])
        /\ ret'[s] = Ok => sess'[s].valid /\ sess'[s].conv = target[s].conv /\ sess'[s].len = target[s].len
    BY <1>1, <2>2, <2>3, SyncOutcome
  <2>5. Placed(s)'
    BY <1>0, <2>1 DEF Placed, CallsOf
  <2>6. Promised(s)'
    BY <1>0, <2>1, <2>3, <2>4 DEF Promised, HoldsJob
  <2>7. LiveBacked(s)'
    BY <1>0, <2>1, <2>4 DEF LiveBacked
  <2> QED BY <2>5, <2>6, <2>7 DEF Track
<1>6. ASSUME PrefillLeave(s) PROVE Track(s)'
  <2>1. /\ gpc[s] = "quantum" /\ tpc[s] = "prefill_leave" /\ tpc'[s] = "out" /\ ret'[s] = ret[s]
        /\ UNCHANGED <<stopReq, sess, generating, batch, decodePending, dpc>>
    BY <1>0, <1>1, <1>6, StageOfCall DEF PrefillLeave
  <2>2. Placed(s)'
    BY <1>0, <2>1 DEF Placed, CallsOf
  <2>3. Promised(s)'
    BY <1>0, <2>1 DEF Promised, HoldsJob
  <2>4. LiveBacked(s)'
    BY <1>0, <2>1 DEF LiveBacked
  <2> QED BY <2>2, <2>3, <2>4 DEF Track
<1>7. ASSUME EvalReturn(s) PROVE Track(s)'
  <2>1. /\ gpc[s] = "eval" /\ tpc[s] = "eval_wait" /\ tpc'[s] = "out"
        /\ ret'[s] = (IF decodeDone[s] THEN decodeRc[s] ELSE Failed)
        /\ UNCHANGED <<stopReq, sess, generating, batch, dpc>>
    BY <1>0, <1>1, <1>7, StageOfCall DEF EvalReturn
  <2>2. ret'[s] = Ok => /\ s \notin batch /\ sess[s].valid /\ sess[s].len = target[s].len
    BY <1>1, <2>1 DEF Requests, Answers, Holds, Ok, Failed
  <2>3. Placed(s)'
    BY <1>0, <2>1 DEF Placed, CallsOf
  <2>4. Promised(s)'
    BY <1>0, <2>1, <2>2 DEF Promised, HoldsJob
  <2>5. LiveBacked(s)'
    BY <1>0, <2>1 DEF LiveBacked
  <2> QED BY <2>3, <2>4, <2>5 DEF Track
<1>8. ASSUME RewriteEnd(s) PROVE Track(s)'
  <2>1. /\ gpc[s] = "rewrite" /\ tpc[s] = "rewrite" /\ tpc'[s] = "out"
        /\ UNCHANGED <<stopReq, generating, batch, decodePending, dpc>>
    BY <1>0, <1>1, <1>8, StageOfCall DEF RewriteEnd
  <2>2. PICK o \in RewriteFromCommon(sess[s], target[s].conv, target[s].len) : sess'[s] = o.sess
    BY <1>1, <1>8 DEF RewriteEnd
  <2>3. target[s].len \in 1..Ctx /\ target[s].conv \in Convs /\ sess[s] \in Session
    BY <1>1 DEF Checkpoints
  <2>4. sess[s].valid /\ sess[s].intact => Backed(sess'[s])
    BY <2>2, <2>3, RewriteOutcome
  <2>5. Placed(s)'
    BY <1>0, <2>1 DEF Placed, CallsOf
  <2>6. Promised(s)'
    BY <1>0, <2>1 DEF Promised
  <2>7. LiveBacked(s)'
    BY <1>0, <2>1, <2>4 DEF LiveBacked, Backed
  <2> QED BY <2>5, <2>6, <2>7 DEF Track
<1> QED BY <1>2, <1>3, <1>4, <1>5, <1>6, <1>7, <1>8 DEF InCall

\* A slot's step leaves the other slots to themselves
LEMMA SlotLeavesOthers ==
    ASSUME ServerInv, NEW s \in Slots, Take(s) \/ Generate(s), NEW t \in Slots, t # s
    PROVE  Apart(t)
<1>1. /\ tpc \in [Slots -> SlotPcs] /\ target \in [Slots -> Checkpoints] /\ ret \in [Slots -> Rc]
      /\ sess \in [Slots -> Session] /\ decodePending \in [Slots -> BOOLEAN]
      /\ gpc \in [Slots -> JobStages] /\ goal \in [Slots -> 0..Ctx] /\ completion \in [Slots -> 0..MaxTokens]
      /\ cur \in [Slots -> Jobs \cup {NoJob}] /\ wpc \in [Slots -> WorkerPcs]
  BY DEF ServerInv, Counted, TypeOK, JobTypes, QueueInv, QueueTypeOK
<1> USE <1>1 DEF Apart, Advance, GoTo, Call, Return, vars, flagVars, slotVars, threadVars, decoderVars,
         queueVars, jobVars
<1>2. CASE Take(s) \/ JobReturn(s)
  BY <1>2 DEF Take, JobReturn, WorkerTake, WorkerSignal
<1>3. CASE SetupCold(s) \/ ContinuedLock(s) \/ SyncDone(s)
  BY <1>3 DEF SetupCold, ContinuedLock, SyncDone, InferenceLock
<1>4. CASE SetupLoad(s) \/ PrefixStored(s) \/ ContinuedStored(s)
  BY <1>4 DEF SetupLoad, PrefixStored, ContinuedStored, InferenceUnlock
<1>5. CASE SyncFirst(s) \/ SyncMore(s)
  BY <1>5 DEF SyncFirst, SyncMore, SyncQuantum, PrefillEnter
<1>6. CASE DecodeStart(s) \/ DecodeEnd(s) \/ LoopTop(s)
  BY <1>6 DEF DecodeStart, DecodeEnd, LoopTop, GenerationEnter, GenerationLeave
<1>7. CASE Sampled(s)
  BY <1>7 DEF Sampled, EvalToken, EvalRefused
<1>8. CASE TokenKept(s)
  BY <1>8 DEF TokenKept, StopSequence
<1>9. CASE Canonicalize(s)
  BY <1>9 DEF Canonicalize, RewriteBegin
<1> QED BY <1>2, <1>3, <1>4, <1>5, <1>6, <1>7, <1>8, <1>9 DEF Generate

\* The setup of a job, and its prefill quantum by quantum
LEMMA PrefillKeepsTrack ==
    ASSUME ServerInv, NEW s \in Slots,
           \/ Take(s) \/ SetupCold(s) \/ SetupLoad(s)
           \/ SyncFirst(s) \/ SyncMore(s) \/ SyncDone(s) \/ PrefixStored(s)
    PROVE  Track(s)'
<1>0. Placed(s) /\ Promised(s) /\ LiveBacked(s)
  BY DEF ServerInv, OnTrack, Track
<1>1. /\ tpc \in [Slots -> SlotPcs] /\ target \in [Slots -> Checkpoints] /\ ret \in [Slots -> Rc]
      /\ sess \in [Slots -> Session]
      /\ gpc \in [Slots -> JobStages] /\ goal \in [Slots -> 0..Ctx] /\ completion \in [Slots -> 0..MaxTokens]
      /\ cur \in [Slots -> Jobs \cup {NoJob}] /\ wpc \in [Slots -> WorkerPcs] /\ generating \subseteq Slots
      /\ Requests /\ QueueInv /\ JobTypes /\ Counted
  BY DEF ServerInv, Counted, TypeOK, JobTypes, QueueInv, QueueTypeOK
<1> USE <1>1 DEF Advance, Stage, At, GoTo, Call, Return, vars, flagVars, slotVars, threadVars, decoderVars,
         queueVars, jobVars
<1>2. CASE Take(s)
  <2>1. /\ wpc[s] = "wait" /\ assigned[s] \in Jobs /\ wpc'[s] = "run" /\ cur'[s] = assigned[s]
        /\ gpc'[s] \in {"sync", "setup"} /\ goal'[s] = PromptLen[assigned[s]]
        /\ UNCHANGED <<stopReq, sess, tpc, generating, batch, decodePending, dpc>>
    BY <1>2 DEF Take, WorkerTake, QueueInv, QueueTypeOK
  <2>2. PromptLen[assigned[s]] \in 1..PromptLen[assigned[s]]
    BY <2>1, JobAssumption
  <2>3. Placed(s)'
    BY <1>0, <2>1, <2>2 DEF Placed, CallsOf, Decoding
  <2>4. Promised(s)' /\ LiveBacked(s)'
    BY <1>0, <2>1 DEF Promised, LiveBacked
  <2> QED BY <2>3, <2>4 DEF Track
<1>3. CASE SetupCold(s)
  <2>1. /\ gpc[s] = "setup" /\ gpc'[s] = "load" /\ tpc'[s] = "locked"
        /\ UNCHANGED <<stopReq, sess, generating, batch, decodePending, dpc, cur, wpc, goal, completion>>
    BY <1>3 DEF SetupCold, InferenceLock
  <2>2. Placed(s)' BY <1>0, <2>1 DEF Placed, CallsOf, Decoding
  <2>3. Promised(s)' /\ LiveBacked(s)' BY <1>0, <2>1 DEF Promised, LiveBacked
  <2> QED BY <2>2, <2>3 DEF Track
<1>4. CASE SetupLoad(s)
  <2>1. /\ gpc[s] = "load" /\ gpc'[s] = "sync" /\ tpc'[s] = "out"
        /\ UNCHANGED <<stopReq, generating, batch, decodePending, dpc, cur, wpc, completion>>
    BY <1>4 DEF SetupLoad, InferenceUnlock
  <2>2. goal'[s] \in 1..PromptLen[cur[s]]
    BY <1>0, <1>4, <2>1, JobFacts DEF SetupLoad
  <2>3. Backed(sess[s]) => Backed(sess'[s])
    BY <1>4 DEF SetupLoad, InferenceUnlock, Invalidated, Reset, Loaded, Backed
  <2>4. Placed(s)' BY <1>0, <2>1, <2>2 DEF Placed, CallsOf, Decoding
  <2>5. Promised(s)' /\ LiveBacked(s)' BY <1>0, <2>1, <2>3 DEF Promised, LiveBacked
  <2> QED BY <2>4, <2>5 DEF Track
<1>5. CASE SyncFirst(s) \/ SyncMore(s)
  <2>1. PICK n \in 1..goal[s] : PrefillEnter(s, Prefix(s, n)) /\ Advance(s, "quantum")
    <3>1. CASE SyncFirst(s)
      <4>1. Reusable(sess[s], Conv[cur[s]], goal[s]) \in Nat
        BY ReusableType, CtxAssumption
      <4> QED BY <1>0, <3>1, <4>1, QuantumIsPrompt DEF SyncFirst
    <3>2. CASE SyncMore(s)
      <4>1. sess[s].len \in Nat
        BY CtxAssumption DEF Session
      <4> QED BY <1>0, <3>2, <4>1, QuantumIsPrompt DEF SyncMore
    <3> QED BY <1>5, <3>1, <3>2
  <2>2. /\ gpc[s] \in {"sync", "quantum"} /\ gpc'[s] = "quantum" /\ tpc[s] = "out" /\ tpc'[s] = "prefill_wait"
        /\ target'[s] = Prefix(s, n)
        /\ UNCHANGED <<stopReq, sess, generating, batch, decodePending, dpc, cur, wpc, goal, completion>>
        /\ ~stopReq
    BY <1>5, <2>1 DEF SyncFirst, SyncMore, PrefillEnter
  <2>3. s \notin batch
    BY <2>2, OutNotInBatch
  <2>4. target'[s].conv = Conv[cur[s]] /\ target'[s].len = n
    BY <2>2 DEF Prefix
  <2>5. Placed(s)' BY <1>0, <2>2 DEF Placed, CallsOf, Decoding
  <2>6. Promised(s)' BY <2>2, <2>3, <2>4 DEF Promised
  <2>7. LiveBacked(s)' BY <1>0, <2>2 DEF LiveBacked
  <2> QED BY <2>5, <2>6, <2>7 DEF Track
<1>6. CASE SyncDone(s)
  <2>1. /\ gpc[s] = "quantum" /\ tpc[s] = "out" /\ ret[s] = Ok /\ sess[s].len >= goal[s]
        /\ \/ gpc'[s] = "store" /\ tpc'[s] = "locked"
           \/ gpc'[s] = "headers" /\ tpc'[s] = "out" /\ goal[s] = PromptLen[cur[s]]
        /\ UNCHANGED <<stopReq, sess, generating, batch, decodePending, dpc, cur, wpc, goal, completion>>
    BY <1>6 DEF SyncDone, InferenceLock
  <2>2. s \notin batch /\ HoldsJob(s, goal[s])
    <3>1. PICK n \in 1..goal[s] : HoldsJob(s, n)
      BY <1>0, <2>1 DEF Promised
    <3>2. n = goal[s]
      BY <2>1, <3>1 DEF HoldsJob
    <3> QED BY <1>0, <2>1, <3>1, <3>2 DEF Promised
  <2>3. Placed(s)' BY <1>0, <2>1 DEF Placed, CallsOf, Decoding
  <2>4. Promised(s)' BY <2>1, <2>2 DEF Promised, HoldsJob
  <2>5. LiveBacked(s)' BY <1>0, <2>1 DEF LiveBacked
  <2> QED BY <2>3, <2>4, <2>5 DEF Track
<1>7. CASE PrefixStored(s)
  <2>1. /\ gpc[s] = "store" /\ tpc'[s] = "out" /\ sess' = sess
        /\ \/ gpc'[s] = "sync" /\ goal'[s] \in 1..PromptLen[cur[s]]
           \/ gpc'[s] = "headers" /\ goal' = goal /\ ~(goal[s] < PromptLen[cur[s]])
        /\ UNCHANGED <<stopReq, generating, batch, decodePending, dpc, cur, wpc, completion>>
    <3>1. sess' = sess
      BY <1>7 DEF PrefixStored, InferenceUnlock
    <3>2. gpc[s] = "store" /\ goal[s] >= 1 /\ goal[s] \in Nat /\ PromptLen[cur[s]] \in Nat
      BY <1>0, <1>7, JobFacts DEF PrefixStored
    <3>3. \A g \in goal[s] + 1 .. PromptLen[cur[s]] : g \in 1..PromptLen[cur[s]]
      BY <3>2
    <3> QED BY <1>7, <3>1, <3>3 DEF PrefixStored, InferenceUnlock
  <2>2. ~(goal[s] < PromptLen[cur[s]]) => goal[s] = PromptLen[cur[s]]
    BY <1>0, <2>1, JobFacts
  <2>3. Placed(s)' BY <1>0, <2>1 DEF Placed, CallsOf, Decoding
  <2>4. Promised(s)' BY <1>0, <2>1, <2>2 DEF Promised, HoldsJob
  <2>5. LiveBacked(s)' BY <1>0, <2>1 DEF LiveBacked
  <2> QED BY <2>3, <2>4, <2>5 DEF Track
<1> QED BY <1>2, <1>3, <1>4, <1>5, <1>6, <1>7

\* The decode loop, the canonicalization and the return
LEMMA DecodeKeepsTrack ==
    ASSUME ServerInv, NEW s \in Slots,
           \/ DecodeStart(s) \/ LoopTop(s) \/ ContinuedLock(s) \/ ContinuedStored(s) \/ Sampled(s)
           \/ TokenKept(s) \/ DecodeEnd(s) \/ Canonicalize(s) \/ JobReturn(s)
    PROVE  Track(s)'
<1>0. Placed(s) /\ Promised(s) /\ LiveBacked(s)
  BY DEF ServerInv, OnTrack, Track
<1>1. /\ tpc \in [Slots -> SlotPcs] /\ target \in [Slots -> Checkpoints] /\ ret \in [Slots -> Rc]
      /\ sess \in [Slots -> Session] /\ decodePending \in [Slots -> BOOLEAN]
      /\ gpc \in [Slots -> JobStages] /\ goal \in [Slots -> 0..Ctx] /\ completion \in [Slots -> 0..MaxTokens]
      /\ cur \in [Slots -> Jobs \cup {NoJob}] /\ wpc \in [Slots -> WorkerPcs] /\ generating \subseteq Slots
      /\ Requests /\ QueueInv /\ JobTypes /\ Counted
  BY DEF ServerInv, Counted, TypeOK, JobTypes, QueueInv, QueueTypeOK
<1> USE <1>1 DEF Advance, Stage, At, GoTo, Call, Return, vars, flagVars, slotVars, threadVars, decoderVars,
         queueVars, jobVars
<1>2. CASE DecodeStart(s)
  <2>1. /\ gpc[s] = "headers" /\ gpc'[s] = "loop" /\ tpc[s] = "out" /\ completion'[s] = 0
        /\ generating' = generating \cup {s}
        /\ UNCHANGED <<stopReq, sess, tpc, batch, decodePending, dpc, cur, wpc, goal>>
    BY <1>2 DEF DecodeStart, GenerationEnter
  <2>2. PromptLen[cur[s]] + 0 = PromptLen[cur[s]]
    BY <1>0, <2>1, JobFacts
  <2>3. Placed(s)' BY <1>0, <2>1 DEF Placed, CallsOf, Decoding
  <2>4. Promised(s)' BY <1>0, <2>1, <2>2 DEF Promised, HoldsJob
  <2>5. LiveBacked(s)' BY <1>0, <2>1 DEF LiveBacked
  <2> QED BY <2>3, <2>4, <2>5 DEF Track
<1>3. CASE LoopTop(s)
  <2>1. /\ gpc[s] = "loop"
        /\ \/ gpc'[s] = "decode" /\ completion[s] < MaxTokens
           \/ gpc'[s] = "leave"
        /\ UNCHANGED <<stopReq, sess, tpc, target, ret, generating, batch, decodePending, dpc, cur, wpc,
                       goal, completion>>
    BY <1>3 DEF LoopTop
  <2>2. Placed(s)' BY <1>0, <2>1 DEF Placed, CallsOf, Decoding
  <2>3. Promised(s)' BY <1>0, <2>1 DEF Promised, HoldsJob
  <2>4. LiveBacked(s)' BY <1>0, <2>1 DEF LiveBacked
  <2> QED BY <2>2, <2>3, <2>4 DEF Track
<1>4. CASE ContinuedLock(s) \/ ContinuedStored(s)
  <2>1. /\ \/ gpc[s] = "decode" /\ gpc'[s] = "continued" /\ tpc'[s] = "locked"
           \/ gpc[s] = "continued" /\ gpc'[s] = "sample" /\ tpc'[s] = "out"
        /\ sess' = sess
        /\ UNCHANGED <<stopReq, target, ret, generating, batch, decodePending, dpc, cur, wpc, goal, completion>>
    BY <1>4 DEF ContinuedLock, ContinuedStored, InferenceLock, InferenceUnlock
  <2>2. Placed(s)' BY <1>0, <2>1 DEF Placed, CallsOf, Decoding
  <2>3. Promised(s)' BY <1>0, <2>1 DEF Promised, HoldsJob
  <2>4. LiveBacked(s)' BY <1>0, <2>1 DEF LiveBacked
  <2> QED BY <2>2, <2>3, <2>4 DEF Track
<1>5. CASE Sampled(s)
  <2>1. /\ gpc[s] \in {"decode", "sample"}
        /\ UNCHANGED <<stopReq, sess, generating, batch, dpc, cur, wpc, goal, completion>>
        /\ \/ gpc'[s] = "leave" /\ UNCHANGED <<tpc, target, ret, decodePending>>
           \/ /\ gpc'[s] = "eval" /\ tpc'[s] = "eval_wait" /\ tpc[s] = "out"
              /\ target'[s] = [conv |-> sess[s].conv, len |-> sess[s].len + 1]
           \/ gpc'[s] = "eval" /\ tpc'[s] = "out" /\ ret'[s] = Failed /\ UNCHANGED decodePending
    BY <1>5 DEF Sampled, EvalToken, EvalRefused
  <2>2. s \notin batch /\ HoldsJob(s, PromptLen[cur[s]] + completion[s])
    BY <1>0, <2>1 DEF Promised
  <2>3. CASE gpc'[s] = "leave" /\ UNCHANGED <<tpc, target, ret, decodePending>>
    <3>1. Placed(s)' BY <1>0, <2>1, <2>3 DEF Placed, CallsOf, Decoding
    <3>2. Promised(s)' BY <2>3 DEF Promised
    <3>3. LiveBacked(s)' BY <1>0, <2>1, <2>3 DEF LiveBacked
    <3> QED BY <3>1, <3>2, <3>3 DEF Track
  <2>4. CASE /\ gpc'[s] = "eval" /\ tpc'[s] = "eval_wait" /\ tpc[s] = "out"
             /\ target'[s] = [conv |-> sess[s].conv, len |-> sess[s].len + 1]
    <3>1. Placed(s)' BY <1>0, <2>1, <2>4 DEF Placed, CallsOf, Decoding
    <3>2. Promised(s)' BY <2>1, <2>2, <2>4 DEF Promised, HoldsJob
    <3>3. LiveBacked(s)' BY <1>0, <2>1, <2>2, <2>4 DEF LiveBacked, HoldsJob
    <3> QED BY <3>1, <3>2, <3>3 DEF Track
  <2>5. CASE gpc'[s] = "eval" /\ tpc'[s] = "out" /\ ret'[s] = Failed /\ UNCHANGED decodePending
    <3>1. Placed(s)' BY <1>0, <2>1, <2>5 DEF Placed, CallsOf, Decoding
    <3>2. Promised(s)' BY <2>5 DEF Promised, Ok, Failed
    <3>3. LiveBacked(s)' BY <1>0, <2>1, <2>5 DEF LiveBacked
    <3> QED BY <3>1, <3>2, <3>3 DEF Track
  <2> QED BY <2>1, <2>3, <2>4, <2>5
<1>6. CASE TokenKept(s)
  <2>1. /\ gpc[s] = "eval" /\ tpc[s] = "out" /\ ret[s] = Ok
        /\ completion'[s] = completion[s] + 1
        /\ UNCHANGED <<stopReq, tpc, generating, batch, decodePending, dpc, cur, wpc, goal>>
        /\ \/ gpc'[s] = "loop" /\ sess' = sess
           \/ gpc'[s] = "leave" /\ (sess' = sess \/ sess'[s] = Invalidated(sess[s]))
    BY <1>6 DEF TokenKept, StopSequence
  <2>2. s \notin batch /\ HoldsJob(s, PromptLen[cur[s]] + completion[s] + 1)
    BY <1>0, <2>1 DEF Promised
  <2>3. PromptLen[cur[s]] + completion[s] + 1 = PromptLen[cur[s]] + (completion[s] + 1)
    <3>1. PromptLen[cur[s]] \in Nat
      BY <1>0, <2>1, JobFacts
    <3>2. completion[s] \in Nat
      BY JobAssumption
    <3> QED BY <3>1, <3>2
  <2>4. Backed(sess[s]) => Backed(sess'[s])
    BY <2>1 DEF Invalidated, Reset, Backed
  <2>5. Placed(s)' BY <1>0, <2>1 DEF Placed, CallsOf, Decoding
  <2>6. Promised(s)' BY <2>1, <2>2, <2>3 DEF Promised, HoldsJob
  <2>7. LiveBacked(s)' BY <1>0, <2>1, <2>4 DEF LiveBacked
  <2> QED BY <2>5, <2>6, <2>7 DEF Track
<1>7. CASE DecodeEnd(s)
  <2>1. /\ gpc[s] \in {"leave", "eval"} /\ gpc'[s] = "canon" /\ tpc[s] = "out"
        /\ generating' = generating \ {s}
        /\ UNCHANGED <<stopReq, sess, tpc, batch, decodePending, dpc, cur, wpc, goal, completion>>
    BY <1>7 DEF DecodeEnd, GenerationLeave
  <2>2. Placed(s)' BY <1>0, <2>1 DEF Placed, CallsOf, Decoding
  <2>3. Promised(s)' BY <2>1 DEF Promised
  <2>4. LiveBacked(s)' BY <1>0, <2>1 DEF LiveBacked
  <2> QED BY <2>2, <2>3, <2>4 DEF Track
<1>8. CASE Canonicalize(s)
  <2>1. /\ gpc[s] = "canon" /\ gpc'[s] = "rewrite" /\ tpc'[s] = "rewrite"
        /\ UNCHANGED <<stopReq, sess, generating, batch, decodePending, dpc, cur, wpc, goal, completion>>
    BY <1>8 DEF Canonicalize, RewriteBegin
  <2>2. sess[s].valid
    BY <1>8 DEF Canonicalize, CommonPrefix
  <2>3. Placed(s)' BY <1>0, <2>1 DEF Placed, CallsOf, Decoding
  <2>4. Promised(s)' BY <2>1 DEF Promised
  <2>5. LiveBacked(s)' BY <1>0, <2>1, <2>2 DEF LiveBacked
  <2> QED BY <2>3, <2>4, <2>5 DEF Track
<1>9. CASE JobReturn(s)
  <2>1. /\ gpc[s] \in {"sync", "quantum", "headers", "canon", "rewrite"} /\ gpc'[s] = "none"
        /\ gpc[s] \in {"quantum", "rewrite"} => tpc[s] = "out"
        /\ wpc'[s] = "release"
        /\ UNCHANGED <<stopReq, sess, tpc, generating, batch, decodePending, dpc>>
    BY <1>9 DEF JobReturn, Returns, WorkerSignal
  <2>2. tpc[s] = "out"
    BY <1>0, <2>1 DEF Placed, CallsOf
  <2>3. Placed(s)' BY <1>0, <2>1, <2>2 DEF Placed, CallsOf, Decoding
  <2>4. Promised(s)' BY <2>1 DEF Promised
  <2>5. LiveBacked(s)' BY <1>0, <2>1 DEF LiveBacked
  <2> QED BY <2>3, <2>4, <2>5 DEF Track
<1> QED BY <1>2, <1>3, <1>4, <1>5, <1>6, <1>7, <1>8, <1>9

\* slot_worker_main around generate_job
LEMMA IdleKeepsTrack ==
    ASSUME ServerInv, NEW s \in Slots, WorkerIdle(s), NEW t \in Slots
    PROVE  Track(t)'
<1>0. Track(t) /\ Placed(t) /\ Promised(t) /\ LiveBacked(t)
  BY DEF ServerInv, OnTrack, Track
<1>1. /\ tpc \in [Slots -> SlotPcs] /\ wpc \in [Slots -> WorkerPcs]
      /\ UNCHANGED <<gpc, goal, completion>>
  BY DEF ServerInv, Counted, TypeOK, QueueInv, QueueTypeOK, WorkerIdle, jobVars
<1>2. CASE (WorkerSleep(s) \/ WorkerRelease(s, JobScores)) /\ UNCHANGED vars
  <2>1. cur' = cur /\ (wpc'[t] = wpc[t] \/ (wpc[t] = "release" /\ wpc'[t] = "wait"))
    BY <1>1, <1>2 DEF WorkerSleep, WorkerRelease
  <2> QED BY <1>1, <1>2, <2>1, OthersKeepTrack
<1>3. CASE WorkerExit(s) /\ SlotExit(s)
  <2>1. /\ wpc[s] = "wait" /\ wpc' = [wpc EXCEPT ![s] = "exit"] /\ cur' = cur
        /\ tpc' = [tpc EXCEPT ![s] = "exit"]
        /\ UNCHANGED <<stopReq, target, ret, sess, generating, batch, decodePending, dpc>>
    BY <1>3 DEF WorkerExit, SlotExit, GoTo, flagVars, slotVars, decoderVars
  <2>2. CASE t # s
    <3>1. Apart(t)
      BY <1>1, <2>1, <2>2 DEF Apart
    <3> QED BY <1>0, <3>1, TrackApart
  <2>3. CASE t = s
    <3>1. gpc[s] = "none" /\ tpc'[s] = "exit" /\ wpc'[s] = "exit"
      BY <1>0, <1>1, <2>1, <2>3 DEF Placed
    <3>2. Placed(t)' BY <1>0, <1>1, <2>1, <2>3, <3>1 DEF Placed, CallsOf
    <3>3. Promised(t)' BY <1>1, <2>3, <3>1 DEF Promised
    <3>4. LiveBacked(t)' BY <1>0, <2>1, <2>3, <3>1 DEF LiveBacked
    <3> QED BY <3>2, <3>3, <3>4 DEF Track
  <2> QED BY <2>2, <2>3
<1> QED BY <1>2, <1>3 DEF WorkerIdle

-----------------------------------------------------------------------------
(* The inductive invariant                                                 *)

\* The server starts with idle slots and fresh sessions
LEMMA ServerInvInit == ServerInit => ServerInv
<1> SUFFICES ASSUME ServerInit PROVE ServerInv
  OBVIOUS
<1>1. Counted /\ Requests /\ Answers
  BY CountedInit, RequestsInit DEF ServerInit, Init, Answers, At
<1>2. QueueInv
  BY QueueInvInit DEF ServerInit
<1>3. JobTypes
  <2>1. 0 \in 0..Ctx /\ 0 \in 0..MaxTokens
    BY CtxAssumption, JobAssumption
  <2> QED BY <2>1 DEF ServerInit, JobTypes, JobStages
<1>4. ASSUME NEW s \in Slots PROVE Track(s)
  <2>1. /\ gpc[s] = "none" /\ tpc[s] = "out" /\ wpc[s] # "run" /\ s \notin generating
        /\ sess[s] = Reset(CHOOSE c \in Convs : TRUE)
    BY DEF ServerInit, Init, QueueInit
  <2>2. Placed(s) BY <2>1 DEF Placed, CallsOf, Decoding
  <2>3. Promised(s) BY <2>1 DEF Promised
  <2>4. LiveBacked(s) BY <2>1 DEF LiveBacked, Backed, Reset
  <2> QED BY <2>2, <2>3, <2>4 DEF Track
<1> QED BY <1>1, <1>2, <1>3, <1>4 DEF ServerInv, OnTrack

\* Every step of the server keeps every slot on its track
LEMMA ServerKeepsTrack ==
    ASSUME ServerInv, [ServerNext]_allVars
    PROVE  OnTrack'
<1> SUFFICES ASSUME NEW t \in Slots PROVE Track(t)'
  BY DEF OnTrack
<1>0. Track(t)
  BY DEF ServerInv, OnTrack
<1>1. ASSUME NEW s \in Slots, SlotThread(s) PROVE Track(t)'
  <2>1. CASE Take(s) \/ Generate(s)
    <3>1. CASE t # s
      BY <1>0, <2>1, <3>1, SlotLeavesOthers, TrackApart
    <3>2. CASE t = s
      <4>1. Track(s)'
        BY <2>1, PrefillKeepsTrack, DecodeKeepsTrack DEF Generate
      <4> QED BY <3>2, <4>1
    <3> QED BY <3>1, <3>2
  <2>2. CASE InCall(s)
    BY <2>2, CallKeepsTrack
  <2>3. CASE WorkerIdle(s)
    BY <2>3, IdleKeepsTrack
  <2> QED BY <1>1, <2>1, <2>2, <2>3 DEF SlotThread
<1>2. CASE CoordinatorThread
  BY <1>2, DecoderKeepsTrack DEF CoordinatorThread
<1>3. CASE Signal \/ Shutdown
  <2>1. CASE QueueStop /\ UNCHANGED <<vars, jobVars>>
    BY <2>1, OthersKeepTrack DEF QueueStop, jobVars
  <2> QED BY <1>3, <2>1, OthersKeepTrack DEF Signal, Shutdown
<1>4. ASSUME NEW j \in Jobs, Accept(j) \/ ClientThread(j) PROVE Track(t)'
  <2>1. UNCHANGED <<vars, gpc, goal, completion, cur>> /\ wpc'[t] = wpc[t]
    BY <1>4 DEF Accept, ClientThread, ClientConnect, ClientError, Enqueue, EnqueueRefused, ClientDone, jobVars
  <2> QED BY <2>1, OthersKeepTrack
<1>5. CASE Close \/ Terminated \/ UNCHANGED allVars
  <2>1. UNCHANGED <<vars, gpc, goal, completion, cur>> /\ wpc'[t] = wpc[t]
    BY <1>5 DEF Close, Terminated, allVars, queueVars, jobVars
  <2> QED BY <2>1, OthersKeepTrack
<1> QED BY <1>1, <1>2, <1>3, <1>4, <1>5 DEF ServerNext

\* The inductive invariant holds in every reachable state of the server
THEOREM ServerInvariant == ServerSafety => []ServerInv
<1>1. ServerInit => ServerInv
  BY ServerInvInit
<1>2. ServerInv /\ [ServerNext]_allVars => ServerInv'
  <2> SUFFICES ASSUME ServerInv, [ServerNext]_allVars PROVE ServerInv'
    OBVIOUS
  <2>0. /\ Counted /\ Requests /\ Answers /\ QueueInv /\ JobTypes /\ TypeOK
        /\ \A s \in Slots : Placed(s)
    BY DEF ServerInv, Counted, OnTrack, Track
  <2>1. [Next]_vars
    BY <2>0, ServerStepsTurns
  <2>2. Counted'
    BY <2>0, <2>1, GensCountedStep, PendingCountedStep, TypeStep DEF Counted
  <2>3. Requests' /\ Answers'
    BY <2>0, <2>1, RequestsStep, AnswersStep
  <2>4. QueueInv' /\ JobTypes'
    BY <2>0, ServerKeepsQueue, ServerKeepsJobTypes
  <2>5. OnTrack'
    BY ServerKeepsTrack
  <2> QED BY <2>2, <2>3, <2>4, <2>5 DEF ServerInv
<1> QED BY <1>1, <1>2, PTL DEF ServerSafety

\* Type correctness of the whole server: the model's turns, the queue and generate_job
THEOREM ServerTypeCorrect == ServerSafety => []ServerTypeOK
<1>1. ServerInv => ServerTypeOK
  BY DEF ServerInv, ServerTypeOK, Counted, QueueInv, JobTypes
<1> QED BY <1>1, ServerInvariant, PTL

\* generate_job, the slot workers and main call ModelTurns only in orders ModelTurns allows, so
\* what is proved of any order of calls (exclusive turns, truthful answers, exact counters) holds
\* of the server
THEOREM ServerImplementsTurns == ServerSafety => TurnsImplemented
<1>1. ServerInit => Init
  BY DEF ServerInit
<1>2. ServerInv /\ [ServerNext]_allVars => [Next]_vars
  <2> SUFFICES ASSUME ServerInv, [ServerNext]_allVars PROVE [Next]_vars
    OBVIOUS
  <2>1. Counted /\ QueueInv /\ JobTypes /\ \A s \in Slots : Placed(s)
    BY DEF ServerInv, OnTrack, Track
  <2> QED BY <2>1, ServerStepsTurns
<1> QED BY <1>1, <1>2, ServerInvariant, PTL DEF ServerSafety, TurnsImplemented, Spec

\* What is proved of any order of calls, read off for the server: exclusive turns, exact counters,
\* requests in one place, truthful answers, sessions in a batch that belong to waiting threads
THEOREM ServerTurns ==
    ServerSafety => [](/\ TurnExclusive /\ PendingCounted /\ RequestInOnePlace
                       /\ AnswerMatchesSession /\ InFlightOwned)
BY ServerImplementsTurns, TurnsExclusive, PendingExact, RequestsInOnePlace, AnswersTruthful,
   InFlightSessionsOwned, PTL DEF TurnsImplemented

\* The queue is driven by the real scores of job_slot_score, which change with every session, and
\* by workers that return when generate_job does: jobs are still served first come, first served,
\* one per slot, none lost or given out twice, and no slot is idle while one waits
THEOREM ServerImplementsService == ServerSafety => ServiceImplemented
<1>1. ServerInit => Service!ServiceInit
  BY QueueStartsService DEF ServerInit
<1>2. ServerInv /\ ServerInv' /\ [ServerNext]_allVars => [Service!ServiceNext]_(Service!serviceVars)
  <2> SUFFICES ASSUME ServerInv, ServerInv', [ServerNext]_allVars
               PROVE  Service!ServiceNext \/ UNCHANGED Service!serviceVars
    OBVIOUS
  <2>0. QueueInv /\ QueueInv'
    BY DEF ServerInv
  <2>1. CASE UNCHANGED queueVars
    BY <2>1, Stutters DEF queueVars, Doing, Finished
  <2>2. ASSUME NEW s \in Slots, SlotThread(s)
        PROVE  Service!ServiceNext \/ UNCHANGED Service!serviceVars
    <3>1. CASE Take(s)
      BY <2>0, <3>1, WorkerOutside DEF Take
    <3>2. CASE JobReturn(s)
      BY <2>0, <3>2, SignalAnswers DEF JobReturn, Service!ServiceNext
    <3>3. CASE WorkerIdle(s)
      BY <2>0, <3>3, WorkerOutside, ReleaseBecomesFree DEF WorkerIdle, Service!ServiceNext
    <3>4. CASE (Generate(s) /\ ~JobReturn(s)) \/ InCall(s)
      <4>1. UNCHANGED queueVars
        BY <3>4 DEF Generate, InCall, SetupCold, SetupLoad, SyncFirst, SyncMore, SyncDone, PrefixStored,
             DecodeStart, LoopTop, ContinuedLock, ContinuedStored, Sampled, TokenKept, DecodeEnd, Canonicalize
      <4> QED BY <2>1, <4>1
    <3> QED BY <2>2, <3>1, <3>2, <3>3, <3>4 DEF SlotThread
  <2>3. ASSUME NEW j \in Jobs, Accept(j) \/ ClientThread(j)
        PROVE  Service!ServiceNext \/ UNCHANGED Service!serviceVars
    BY <2>0, <2>3, EnqueueAccepts, ClientOutside DEF Accept, ClientThread, Service!ServiceNext
  <2>4. CASE Shutdown
    <3>1. 0 \in Slots
      BY SlotCountAssumption DEF Slots
    <3> QED BY <2>0, <2>1, <2>4, <3>1, WorkerOutside DEF Shutdown
  <2>5. CASE CoordinatorThread \/ Signal \/ Close \/ Terminated \/ UNCHANGED allVars
    BY <2>1, <2>5 DEF CoordinatorThread, Signal, Close, Terminated, allVars
  <2> QED BY <2>2, <2>3, <2>4, <2>5 DEF ServerNext
<1>3. [Service!ServiceNext]_(Service!serviceVars) => [Service!ServiceStep]_(Service!serviceVars)
  BY DEF Service!ServiceStep
<1> QED BY <1>1, <1>2, <1>3, ServerInvariant, PTL DEF ServerSafety, ServiceImplemented, Service!ServiceSpec

\* Whenever generate_job's decode loop looks at the session, it holds the prompt and the tokens
\* generated so far, for every number of slots, every prompt and every failure of others
THEOREM StreamsMatchSessions == ServerSafety => []StreamMatchesSession
<1>1. ServerInv => StreamMatchesSession
  BY DEF ServerInv, OnTrack, Track, Promised, HoldsJob, StreamMatchesSession
<1> QED BY <1>1, ServerInvariant, PTL

\* Until a shutdown, no checkpoint is valid over a half-written cache
THEOREM LiveCachesIntact == ServerSafety => []LiveCacheIntact
<1>1. ServerInv => LiveCacheIntact
  BY DEF ServerInv, OnTrack, Track, LiveBacked, Backed, LiveCacheIntact
<1> QED BY <1>1, ServerInvariant, PTL
=============================================================================
