---------------------------- MODULE BatchedServer ----------------------------
(***************************************************************************)
(* p36-server --batched-session N: the job queue and the model turns put   *)
(* together by generate_job, which every slot worker runs for each of its  *)
(* jobs, and by main's shutdown.                                           *)
(*                                                                         *)
(* generate_job is followed call by call: session setup, prefill in        *)
(* quanta, the decode loop, checkpoint canonicalization, the response.     *)
(* What it computes from text (end of sequence, stop sequences, tool       *)
(* calls, a client that hung up) is a nondeterministic choice.             *)
(***************************************************************************)
EXTENDS ModelTurns, JobQueue

CONSTANTS
    Conv,            \* the conversation each job continues
    PromptLen,       \* the length of its prompt, in tokens
    MaxTokens,       \* its max_tokens
    Quantum,         \* server_prefill_quantum while no generation is active
    MixedQuantum,    \* and while one is
    Signals          \* bound: whether SIGINT or SIGTERM may arrive

ASSUME JobAssumption ==
    /\ Conv \in [Jobs -> Convs]
    /\ PromptLen \in [Jobs -> 1..Ctx - 1]
    /\ MaxTokens \in Nat
    /\ Quantum \in Nat \ {0} /\ MixedQuantum \in Nat \ {0}
    /\ Signals \in BOOLEAN

VARIABLES
    gpc,          \* where each slot is in generate_job
    goal,         \* the prompt length server_session_sync is heading for
    completion,   \* completion tokens generated so far
    closed        \* main has freed the server

jobVars == <<gpc, goal, completion, closed>>
allVars == <<vars, queueVars, jobVars>>

JobStages == {"none", "setup", "load", "sync", "quantum", "store", "headers", "loop", "decode",
              "continued", "sample", "eval", "leave", "canon", "rewrite"}

ServerTypeOK ==
    /\ TypeOK /\ QueueTypeOK
    /\ gpc \in [Slots -> JobStages]
    /\ goal \in [Slots -> 0..Ctx]
    /\ completion \in [Slots -> 0..MaxTokens]
    /\ closed \in BOOLEAN

ServerInit ==
    /\ Init /\ QueueInit
    /\ gpc = [s \in Slots |-> "none"]
    /\ goal = [s \in Slots |-> 0]
    /\ completion = [s \in Slots |-> 0]
    /\ closed = FALSE

Stage(s, g) == gpc[s] = g
Advance(s, g) == gpc' = [gpc EXCEPT ![s] = g]

\* The prompt of the slot's job, cut to n tokens
Prefix(s, n) == [conv |-> Conv[cur[s]], len |-> n]
Cached(s, j) == Reusable(sess[s], Conv[j], PromptLen[j])

\* job_slot_score: a live checkpoint the prompt extends beats any partial match
IntMax == 2147483647
JobScores ==
    [j \in Jobs |-> [s \in Slots |->
        LET common == CommonPrefix(sess[s], Conv[j], PromptLen[j])
        IN  IF common = sess[s].len /\ common > 0 THEN IntMax \div 2 + common ELSE common]]

-----------------------------------------------------------------------------
(* generate_job                                                            *)

\* A live checkpoint the prompt extends is used as it is
Take(s) ==
    /\ WorkerTake(s)
    /\ goal' = [goal EXCEPT ![s] = PromptLen[assigned[s]]]
    /\ Advance(s, IF Cached(s, assigned[s]) > 0 THEN "sync" ELSE "setup")
    /\ UNCHANGED <<vars, completion, closed>>

\* Otherwise the old checkpoint is stored and one may be loaded from disk, both
\* under inference_mu
SetupCold(s) ==
    /\ Stage(s, "setup")
    /\ InferenceLock(s)
    /\ Advance(s, "load")
    /\ UNCHANGED <<queueVars, goal, completion, closed>>

\* A miss keeps the session, a hit replaces it by a prefix of the prompt, a
\* failed load leaves it invalid.  Without a hit the prompt may first be
\* prefilled up to a checkpoint boundary only (system turn or cold store).
SetupLoad(s) ==
    /\ Stage(s, "load")
    /\ \/ \E g \in 1..PromptLen[cur[s]] :
             /\ \E sn \in {sess[s], Invalidated(sess[s])} : InferenceUnlock(s, sn)
             /\ goal' = [goal EXCEPT ![s] = g]
       \/ \E k \in 1..PromptLen[cur[s]] :
             /\ InferenceUnlock(s, Loaded(Conv[cur[s]], k))
             /\ goal' = [goal EXCEPT ![s] = PromptLen[cur[s]]]
    /\ Advance(s, "sync")
    /\ UNCHANGED <<queueVars, completion, closed>>

\* server_session_sync: the next quantum ends at target.  done is what the
\* first look at the session, or the last quantum, left behind.
SyncQuantum(s, done) ==
    LET step == IF activeGens > 0 THEN MixedQuantum ELSE Quantum
        to   == IF done + step > goal[s] THEN goal[s] ELSE done + step
    IN  PrefillEnter(s, Prefix(s, to)) /\ Advance(s, "quantum")

SyncFirst(s) ==
    /\ Stage(s, "sync") /\ ~stopReq
    /\ inferenceMu = Nobody
    /\ SyncQuantum(s, Reusable(sess[s], Conv[cur[s]], goal[s]))
    /\ UNCHANGED <<queueVars, goal, completion, closed>>

SyncMore(s) ==
    /\ Stage(s, "quantum") /\ At(s, "out") /\ ret[s] = Ok
    /\ sess[s].len < goal[s] /\ ~stopReq
    /\ SyncQuantum(s, sess[s].len)
    /\ UNCHANGED <<queueVars, goal, completion, closed>>

\* Mutant: one quantum is taken for the whole prompt
SyncDoneEarly(s) ==
    /\ Stage(s, "quantum") /\ At(s, "out") /\ ret[s] = Ok
    /\ \/ InferenceLock(s) /\ Advance(s, "store")
       \/ goal[s] = PromptLen[cur[s]] /\ Advance(s, "headers") /\ UNCHANGED vars
    /\ UNCHANGED <<queueVars, goal, completion, closed>>

\* The goal is reached.  A checkpoint boundary is stored before the prefill
\* goes on; so may be the whole prompt before the response starts.
SyncDone(s) ==
    /\ Stage(s, "quantum") /\ At(s, "out") /\ ret[s] = Ok
    /\ sess[s].len >= goal[s]
    /\ \/ InferenceLock(s) /\ Advance(s, "store")
       \/ goal[s] = PromptLen[cur[s]] /\ Advance(s, "headers") /\ UNCHANGED vars
    /\ UNCHANGED <<queueVars, goal, completion, closed>>

\* Mutant: the store leaves the live checkpoint invalid
PrefixStoredInvalid(s) ==
    /\ Stage(s, "store")
    /\ InferenceUnlock(s, [sess[s] EXCEPT !.valid = FALSE])
    /\ Advance(s, "headers")
    /\ UNCHANGED <<queueVars, goal, completion, closed>>

PrefixStored(s) ==
    /\ Stage(s, "store")
    /\ InferenceUnlock(s, sess[s])
    /\ IF goal[s] < PromptLen[cur[s]]
       THEN /\ \E g \in goal[s] + 1 .. PromptLen[cur[s]] : goal' = [goal EXCEPT ![s] = g]
            /\ Advance(s, "sync")
       ELSE Advance(s, "headers") /\ UNCHANGED goal
    /\ UNCHANGED <<queueVars, completion, closed>>

DecodeStart(s) ==
    /\ Stage(s, "headers")
    /\ GenerationEnter(s)
    /\ completion' = [completion EXCEPT ![s] = 0]
    /\ Advance(s, "loop")
    /\ UNCHANGED <<queueVars, goal, closed>>

\* The head of the decode loop.  The loop also ends when the client is gone.
LoopTop(s) ==
    /\ Stage(s, "loop")
    /\ \/ /\ ~stopReq /\ completion[s] < MaxTokens /\ sess[s].len < Ctx
          /\ Advance(s, "decode")
       \/ Advance(s, "leave")
    /\ UNCHANGED <<vars, queueVars, goal, completion, closed>>

\* kv_cache_maybe_store_continued, which a tool call in progress skips
ContinuedLock(s) ==
    /\ Stage(s, "decode")
    /\ InferenceLock(s)
    /\ Advance(s, "continued")
    /\ UNCHANGED <<queueVars, goal, completion, closed>>

ContinuedStored(s) ==
    /\ Stage(s, "continued")
    /\ InferenceUnlock(s, sess[s])
    /\ Advance(s, "sample")
    /\ UNCHANGED <<queueVars, goal, completion, closed>>

\* A token was sampled: the end of the sequence, or one to evaluate
Sampled(s) ==
    /\ gpc[s] \in {"decode", "sample"}
    /\ \/ Advance(s, "leave") /\ UNCHANGED vars
       \/ Advance(s, "eval") /\ (EvalToken(s) \/ EvalRefused(s))
    /\ UNCHANGED <<queueVars, goal, completion, closed>>

\* The token is kept and the loop goes on, or ends: at a tool boundary, over
\* budget, on a failed write, or at a stop sequence, which invalidates
TokenKept(s) ==
    /\ Stage(s, "eval") /\ At(s, "out") /\ ret[s] = Ok
    /\ completion' = [completion EXCEPT ![s] = @ + 1]
    /\ \/ Advance(s, "loop") /\ UNCHANGED vars
       \/ Advance(s, "leave") /\ (UNCHANGED vars \/ StopSequence(s))
    /\ UNCHANGED <<queueVars, goal, closed>>

\* The loop was left, or the evaluation failed
DecodeEnd(s) ==
    /\ Stage(s, "leave") \/ (Stage(s, "eval") /\ At(s, "out") /\ ret[s] # Ok)
    /\ GenerationLeave(s)
    /\ Advance(s, "canon")
    /\ UNCHANGED <<queueVars, goal, completion, closed>>

\* The canonical transcript is n tokens long and shares at least its stable
\* part with the live checkpoint, which is not the canonical one already
Canonicalize(s) ==
    /\ Stage(s, "canon")
    /\ \E n \in 1..Ctx :
          /\ CommonPrefix(sess[s], Conv[cur[s]], n) > 0
          /\ n # sess[s].len
          /\ RewriteBegin(s, Prefix(s, n))
    /\ Advance(s, "rewrite")
    /\ UNCHANGED <<queueVars, goal, completion, closed>>

\* The points where generate_job returns: the prefill was interrupted or failed
\* (HTTP 500), the stream could not be started, or the response was written,
\* with or without a canonicalization before it
Returns(s) ==
    \/ Stage(s, "sync") /\ stopReq
    \/ /\ Stage(s, "quantum") /\ At(s, "out")
       /\ ret[s] # Ok \/ (stopReq /\ sess[s].len < goal[s])
    \/ gpc[s] \in {"headers", "canon"}
    \/ Stage(s, "rewrite") /\ At(s, "out")

\* generate_job returns and the worker signals the client
JobReturn(s) ==
    /\ Returns(s)
    /\ WorkerSignal(s)
    /\ gpc' = [gpc EXCEPT ![s] = "none"]
    /\ goal' = [goal EXCEPT ![s] = 0]
    /\ completion' = [completion EXCEPT ![s] = 0]
    /\ UNCHANGED <<vars, closed>>

Generate(s) ==
    \/ SetupCold(s) \/ SetupLoad(s)
    \/ SyncFirst(s) \/ SyncMore(s) \/ SyncDone(s) \/ PrefixStored(s)
    \/ DecodeStart(s) \/ LoopTop(s)
    \/ ContinuedLock(s) \/ ContinuedStored(s) \/ Sampled(s)
    \/ TokenKept(s) \/ DecodeEnd(s)
    \/ Canonicalize(s) \/ JobReturn(s)

-----------------------------------------------------------------------------
(* The threads                                                             *)

\* A call of ModelTurns that generate_job made and that is still running
InCall(s) ==
    /\ \/ PrefillSleep(s) \/ PrefillTurn(s) \/ PrefillAbort(s)
       \/ PrefillLock(s) \/ PrefillRun(s) \/ PrefillLeave(s)
       \/ EvalSleep(s) \/ EvalReturn(s) \/ RewriteEnd(s)
    /\ UNCHANGED <<queueVars, jobVars>>

\* slot_worker_main around generate_job
WorkerIdle(s) ==
    /\ \/ WorkerSleep(s) /\ UNCHANGED vars
       \/ WorkerRelease(s, JobScores) /\ UNCHANGED vars
       \/ WorkerExit(s) /\ SlotExit(s)
    /\ UNCHANGED jobVars

SlotThread(s) == Take(s) \/ Generate(s) \/ InCall(s) \/ WorkerIdle(s)

CoordinatorThread == DecoderStep /\ UNCHANGED <<queueVars, jobVars>>

\* accept stops with the first signal
Accept(j) == ~stopReq /\ ClientConnect(j) /\ UNCHANGED <<vars, jobVars>>

ClientThread(j) ==
    /\ ClientError(j) \/ Enqueue(j, JobScores) \/ EnqueueRefused(j) \/ ClientDone(j)
    /\ UNCHANGED <<vars, jobVars>>

\* main after the accept loop
Shutdown ==
    \/ stopReq /\ QueueStop /\ UNCHANGED <<vars, jobVars>>
    \/ stopping /\ CancelDecodeWaiters /\ UNCHANGED <<queueVars, jobVars>>
    \/ ModelStop /\ UNCHANGED <<queueVars, jobVars>>

\* The threads are joined and no client is left: main frees the server
Close ==
    /\ mainPc = "stopped" /\ dpc = "exit" /\ ~closed
    /\ \A j \in Jobs : jpc[j] \in {"new", "gone"}
    /\ closed' = TRUE
    /\ UNCHANGED <<vars, queueVars, gpc, goal, completion>>

Signal == Signals /\ StopSignal /\ UNCHANGED <<queueVars, jobVars>>

\* Nothing is left to do: main is gone, or it waits for connections for ever
Terminated ==
    /\ closed \/ (~Signals /\ \A j \in Jobs : jpc[j] = "gone")
    /\ UNCHANGED allVars

ServerNext ==
    \/ \E s \in Slots : SlotThread(s)
    \/ CoordinatorThread
    \/ \E j \in Jobs : Accept(j) \/ ClientThread(j)
    \/ Shutdown \/ Close \/ Signal
    \/ Terminated

\* Every thread that can go on eventually does.  Clients need not connect and
\* nobody has to stop the server.
Fairness ==
    /\ \A s \in Slots : WF_allVars(SlotThread(s))
    /\ WF_allVars(CoordinatorThread)
    /\ \A j \in Jobs : WF_allVars(ClientThread(j))
    /\ WF_allVars(Shutdown \/ Close)

ServerSafety == ServerInit /\ [][ServerNext]_allVars
ServerSpec == ServerSafety /\ Fairness

-----------------------------------------------------------------------------
(* Properties                                                              *)

\* The server makes the calls of ModelTurns in an order ModelTurns allows, so
\* what is shown there about any order of calls holds for generate_job.
TurnsImplemented == Spec

\* While generate_job decodes, the session holds the prompt and the tokens
\* generated so far, no more and no fewer, whatever the quanta, the batches
\* and the other slots' failures were: the client is never sent a token the
\* cache does not continue from.
StreamMatchesSession ==
    \A s \in Slots : gpc[s] \in {"loop", "decode", "continued", "sample"} =>
        /\ sess[s].valid /\ sess[s].conv = Conv[cur[s]]
        /\ sess[s].len = PromptLen[cur[s]] + completion[s]

\* p36_session_prefill_range promises to leave "the last token's logits in
\* s->logits", and the save of a payload says why it matters: stale ones "would
\* answer an identical prompt with the wrong next token".  So whenever
\* generate_job is about to sample, the logits are those of the checkpoint.
SamplesOwnLogits ==
    \A s \in Slots : gpc[s] \in {"loop", "decode", "continued", "sample"} => sess[s].logits

\* A checkpoint that claims to be valid is backed by an intact cache: after a
\* failed forward pass no path of generate_job (not the next job's reuse of
\* the slot, not a canonicalization) extends the half-written state.
LiveCacheIntact == \A s \in Slots : ~stopReq /\ sess[s].valid => sess[s].intact

\* Every accepted request is answered and its client thread ends: no wakeup is
\* lost, no prefill or decode waits for ever, with or without a shutdown.
JobsAnswered == \A j \in Jobs : jpc[j] = "waiting" ~> jpc[j] = "gone"

\* After a signal the server shuts down, whatever was running: main's joins
\* return, although the signal handler itself wakes no thread.
ShutdownCompletes == stopReq ~> closed
=============================================================================
