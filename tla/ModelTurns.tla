----------------------------- MODULE ModelTurns -----------------------------
(***************************************************************************)
(* Who may run the model, in batched mode (src/server/server_14).  One     *)
(* thread per slot calls server_prefill_enter/leave around each prefill    *)
(* quantum and server_eval_token for each decoded token; one coordinator,  *)
(* decode_worker_main, evaluates the pending tokens of all slots in one    *)
(* batch.  model_mu protects the flags and model_cv announces every        *)
(* change; inference_mu is held while the model runs.                      *)
(*                                                                         *)
(* A critical section of model_mu is one action.  Waiting on model_cv is   *)
(* explicit: a thread that found its condition false joins asleep, and     *)
(* only a broadcast (or, for the coalescing wait, its timeout) takes it    *)
(* out again, so a missing broadcast is a thread that sleeps for ever.     *)
(*                                                                         *)
(* The callers are left open: a slot thread that is "out" of these         *)
(* functions may make any call, except that it decodes only between        *)
(* server_generation_enter and _leave and prefills only outside of them.   *)
(* BatchedServer makes the calls in the order generate_job makes them.     *)
(***************************************************************************)
EXTENDS Session, Slots

Decoder == SlotCount        \* the coordinator's thread id
Threads == Slots \cup {Decoder}
Nobody  == -1

VARIABLES
    stopReq,          \* g_stop_requested
    modelStopping,    \* s->model_stopping
    modelBusy,        \* s->model_busy
    pendingCount,     \* s->decode_pending
    activeGens,       \* s->active_generations
    lastPrefill,      \* s->last_prefill_slot
    prefillWaiting,   \* slot->prefill_waiting
    decodePending,    \* slot->decode_pending
    inFlight,         \* slot->decode_in_flight
    decodeDone,       \* slot->decode_done
    decodeRc,         \* slot->decode_rc
    inferenceMu,      \* the holder of s->inference_mu
    asleep,           \* threads blocked in pthread_cond_wait(&s->model_cv)
    tpc,              \* where each slot thread is in this component
    target,           \* the checkpoint a slot expects of its current call
    ret,              \* what a slot thread's last call returned
    generating,       \* slots between server_generation_enter and _leave
    mainPc,           \* how far main's shutdown is
    dpc,              \* where decode_worker_main is
    batch,            \* its members[]
    batchRc,          \* the rc of the running p36_sessions_eval_batch
    sess              \* slot->session

flagVars == <<stopReq, modelStopping, mainPc, modelBusy, activeGens, lastPrefill>>
slotVars == <<prefillWaiting, decodePending, inFlight, decodeDone, decodeRc, pendingCount>>
threadVars == <<tpc, target, ret, generating>>
decoderVars == <<dpc, batch, batchRc>>
vars == <<flagVars, slotVars, threadVars, decoderVars, inferenceMu, asleep, sess>>

Checkpoints == [conv : Convs, len : 1..Ctx]
Prompts == {p \in Checkpoints : p.len < Ctx}      \* !request_exceeds_context
NoTarget == [conv |-> CHOOSE c \in Convs : TRUE, len |-> 1]

SlotPcs == {"out", "prefill_wait", "prefill_lock", "prefill_run", "prefill_leave",
            "eval_wait", "locked", "rewrite", "exit"}
DecoderPcs == {"idle", "coalesce", "claim", "lock", "run", "publish", "exit"}

TypeOK ==
    /\ stopReq \in BOOLEAN /\ modelStopping \in BOOLEAN /\ modelBusy \in BOOLEAN
    /\ pendingCount \in 0..SlotCount
    /\ activeGens \in 0..SlotCount
    /\ lastPrefill \in Slots
    /\ prefillWaiting \in [Slots -> BOOLEAN]
    /\ decodePending \in [Slots -> BOOLEAN]
    /\ inFlight \in [Slots -> BOOLEAN]
    /\ decodeDone \in [Slots -> BOOLEAN]
    /\ decodeRc \in [Slots -> Rc]
    /\ inferenceMu \in Threads \cup {Nobody}
    /\ asleep \subseteq Threads
    /\ tpc \in [Slots -> SlotPcs]
    /\ target \in [Slots -> Checkpoints]
    /\ ret \in [Slots -> Rc]
    /\ generating \subseteq Slots
    /\ mainPc \in {"serve", "join", "stopped"}
    /\ dpc \in DecoderPcs
    /\ batch \subseteq Slots
    /\ batchRc \in Rc
    /\ sess \in [Slots -> Session]

\* main: slots zeroed, sessions fresh, last_prefill_slot = slot_count - 1
Init ==
    /\ stopReq = FALSE /\ modelStopping = FALSE /\ modelBusy = FALSE
    /\ pendingCount = 0 /\ activeGens = 0
    /\ lastPrefill = SlotCount - 1
    /\ prefillWaiting = [s \in Slots |-> FALSE]
    /\ decodePending = [s \in Slots |-> FALSE]
    /\ inFlight = [s \in Slots |-> FALSE]
    /\ decodeDone = [s \in Slots |-> FALSE]
    /\ decodeRc = [s \in Slots |-> Ok]
    /\ inferenceMu = Nobody
    /\ asleep = {}
    /\ tpc = [s \in Slots |-> "out"]
    /\ target = [s \in Slots |-> NoTarget]
    /\ ret = [s \in Slots |-> Ok]
    /\ generating = {}
    /\ mainPc = "serve"
    /\ dpc = "idle" /\ batch = {} /\ batchRc = Ok
    /\ sess = [s \in Slots |-> Reset(CHOOSE c \in Convs : TRUE)]

\* The slots whose decode waits for the coordinator
Pending == {s \in Slots : decodePending[s]}

-----------------------------------------------------------------------------
(* model_cv and the slot threads' program counters                         *)

Awake(t) == t \notin asleep
Broadcast == asleep' = {}
Sleep(t) == asleep' = asleep \cup {t}

At(s, pc) == tpc[s] = pc
GoTo(s, pc) == tpc' = [tpc EXCEPT ![s] = pc]

\* A call's locals live from Call to Return
Call(s, pc, p) ==
    /\ GoTo(s, pc)
    /\ target' = [target EXCEPT ![s] = p]
    /\ ret' = [ret EXCEPT ![s] = Ok]
Return(s, rc) ==
    /\ GoTo(s, "out")
    /\ target' = [target EXCEPT ![s] = NoTarget]
    /\ ret' = [ret EXCEPT ![s] = rc]

-----------------------------------------------------------------------------
(* Prefill turns                                                           *)

\* How many slots server_next_prefill_slot_locked visits before s
Distance(s) == IF s > lastPrefill THEN s - lastPrefill ELSE s - lastPrefill + SlotCount

\* server_next_prefill_slot_locked(s) == slot->id
IsNextPrefill(s) ==
    /\ prefillWaiting[s]
    /\ \A t \in Slots : prefillWaiting[t] => Distance(s) <= Distance(t)

\* The condition a prefill waits for: the model is free, no decode is
\* pending, and it is this slot's turn
PrefillMayRun(s) == ~modelBusy /\ pendingCount = 0 /\ IsNextPrefill(s)

\* server_prefill_enter, up to the wait loop
PrefillEnter(s, p) ==
    /\ At(s, "out") /\ s \notin generating
    /\ prefillWaiting' = [prefillWaiting EXCEPT ![s] = TRUE]
    /\ Broadcast
    /\ Call(s, "prefill_wait", p)
    /\ UNCHANGED <<flagVars, decodePending, inFlight, decodeDone, decodeRc, pendingCount,
                   generating, decoderVars, inferenceMu, sess>>

PrefillSleep(s) ==
    /\ At(s, "prefill_wait") /\ Awake(s)
    /\ ~stopReq /\ ~PrefillMayRun(s)
    /\ Sleep(s)
    /\ UNCHANGED <<flagVars, slotVars, threadVars, decoderVars, inferenceMu, sess>>

\* Mutant: s->last_prefill_slot is not advanced
PrefillTurnUnmarked(s) ==
    /\ At(s, "prefill_wait") /\ Awake(s)
    /\ ~stopReq /\ PrefillMayRun(s)
    /\ prefillWaiting' = [prefillWaiting EXCEPT ![s] = FALSE]
    /\ modelBusy' = TRUE
    /\ GoTo(s, "prefill_lock")
    /\ UNCHANGED <<stopReq, modelStopping, mainPc, activeGens, lastPrefill, decodePending,
                   inFlight, decodeDone, decodeRc, pendingCount, target, ret, generating,
                   decoderVars, inferenceMu, asleep, sess>>

\* The wait is over: take the turn
PrefillTurn(s) ==
    /\ At(s, "prefill_wait") /\ Awake(s)
    /\ ~stopReq /\ PrefillMayRun(s)
    /\ prefillWaiting' = [prefillWaiting EXCEPT ![s] = FALSE]
    /\ lastPrefill' = s
    /\ modelBusy' = TRUE
    /\ GoTo(s, "prefill_lock")
    /\ UNCHANGED <<stopReq, modelStopping, mainPc, activeGens, decodePending, inFlight, decodeDone,
                   decodeRc, pendingCount, target, ret, generating, decoderVars,
                   inferenceMu, asleep, sess>>

\* The wait is over because of a shutdown: give the turn up
PrefillAbort(s) ==
    /\ At(s, "prefill_wait") /\ Awake(s)
    /\ stopReq
    /\ prefillWaiting' = [prefillWaiting EXCEPT ![s] = FALSE]
    /\ Return(s, Failed)
    /\ UNCHANGED <<flagVars, decodePending, inFlight, decodeDone, decodeRc, pendingCount,
                   generating, decoderVars, inferenceMu, asleep, sess>>

PrefillLock(s) ==
    /\ At(s, "prefill_lock")
    /\ inferenceMu = Nobody
    /\ inferenceMu' = s
    /\ GoTo(s, "prefill_run")
    /\ UNCHANGED <<flagVars, slotVars, target, ret, generating, decoderVars, asleep, sess>>

\* p36_session_sync on the prefix, then the unlock at the head of
\* server_prefill_leave
PrefillRun(s) ==
    /\ At(s, "prefill_run")
    /\ \E o \in Sync(sess[s], target[s].conv, target[s].len) :
          /\ sess' = [sess EXCEPT ![s] = o.sess]
          /\ ret' = [ret EXCEPT ![s] = o.rc]
    /\ inferenceMu' = Nobody
    /\ GoTo(s, "prefill_leave")
    /\ UNCHANGED <<flagVars, slotVars, target, generating, decoderVars, asleep>>

PrefillLeave(s) ==
    /\ At(s, "prefill_leave")
    /\ modelBusy' = FALSE
    /\ Broadcast
    /\ Return(s, ret[s])
    /\ UNCHANGED <<stopReq, modelStopping, mainPc, activeGens, lastPrefill, slotVars, generating,
                    decoderVars, inferenceMu, sess>>

-----------------------------------------------------------------------------
(* Decodes, seen from a slot thread                                        *)

\* server_generation_enter
GenerationEnter(s) ==
    /\ At(s, "out") /\ s \notin generating
    /\ generating' = generating \cup {s}
    /\ activeGens' = activeGens + 1
    /\ Broadcast
    /\ UNCHANGED <<stopReq, modelStopping, mainPc, modelBusy, lastPrefill, slotVars, tpc, target, ret,
                   decoderVars, inferenceMu, sess>>

\* server_generation_leave
GenerationLeave(s) ==
    /\ At(s, "out") /\ s \in generating
    /\ generating' = generating \ {s}
    /\ activeGens' = IF activeGens > 0 THEN activeGens - 1 ELSE 0
    /\ Broadcast
    /\ UNCHANGED <<stopReq, modelStopping, mainPc, modelBusy, lastPrefill, slotVars, tpc, target, ret,
                   decoderVars, inferenceMu, sess>>

\* server_eval_token, up to the wait loop.  The caller checked that the context
\* has room and noted block_start, so it expects the session one token further
EvalToken(s) ==
    /\ At(s, "out") /\ s \in generating
    /\ sess[s].len < Ctx
    /\ ~decodePending[s] /\ ~inFlight[s]
    /\ decodeRc' = [decodeRc EXCEPT ![s] = Failed]
    /\ decodeDone' = [decodeDone EXCEPT ![s] = FALSE]
    /\ decodePending' = [decodePending EXCEPT ![s] = TRUE]
    /\ pendingCount' = pendingCount + 1
    /\ Broadcast
    /\ Call(s, "eval_wait", [conv |-> sess[s].conv, len |-> sess[s].len + 1])
    /\ UNCHANGED <<flagVars, prefillWaiting, inFlight, generating, decoderVars,
                   inferenceMu, sess>>

\* server_eval_token refuses a second decode of the same session
EvalRefused(s) ==
    /\ At(s, "out") /\ s \in generating
    /\ decodePending[s] \/ inFlight[s]
    /\ Return(s, Failed)
    /\ UNCHANGED <<flagVars, slotVars, generating, decoderVars, inferenceMu, asleep, sess>>

EvalSleep(s) ==
    /\ At(s, "eval_wait") /\ Awake(s)
    /\ ~decodeDone[s] /\ ~stopReq
    /\ Sleep(s)
    /\ UNCHANGED <<flagVars, slotVars, threadVars, decoderVars, inferenceMu, sess>>

\* Mutant: a withdrawn request stays in s->decode_pending
EvalReturnLeaks(s) ==
    LET withdraw == ~decodeDone[s] /\ decodePending[s]
    IN  /\ At(s, "eval_wait") /\ Awake(s)
        /\ decodeDone[s] \/ stopReq
        /\ decodePending' = [decodePending EXCEPT ![s] = @ /\ ~withdraw]
        /\ decodeDone' = [decodeDone EXCEPT ![s] = FALSE]
        /\ Return(s, IF decodeDone[s] THEN decodeRc[s] ELSE Failed)
        /\ UNCHANGED <<flagVars, prefillWaiting, inFlight, decodeRc, pendingCount, generating,
                       decoderVars, inferenceMu, asleep, sess>>

\* Mutant: any broadcast ends the wait
EvalReturnSpurious(s) ==
    LET withdraw == ~decodeDone[s] /\ decodePending[s]
    IN  /\ At(s, "eval_wait") /\ Awake(s)
        /\ decodePending' = [decodePending EXCEPT ![s] = @ /\ ~withdraw]
        /\ pendingCount' = IF withdraw /\ pendingCount > 0 THEN pendingCount - 1 ELSE pendingCount
        /\ decodeDone' = [decodeDone EXCEPT ![s] = FALSE]
        /\ Return(s, IF decodeDone[s] THEN decodeRc[s] ELSE Failed)
        /\ UNCHANGED <<flagVars, prefillWaiting, inFlight, decodeRc, generating,
                       decoderVars, inferenceMu, asleep, sess>>

\* The result arrived, or a shutdown woke the wait: a request the coordinator
\* has not taken yet is withdrawn
EvalReturn(s) ==
    LET withdraw == ~decodeDone[s] /\ decodePending[s]
    IN  /\ At(s, "eval_wait") /\ Awake(s)
        /\ decodeDone[s] \/ stopReq
        /\ decodePending' = [decodePending EXCEPT ![s] = @ /\ ~withdraw]
        /\ pendingCount' = IF withdraw /\ pendingCount > 0 THEN pendingCount - 1 ELSE pendingCount
        /\ decodeDone' = [decodeDone EXCEPT ![s] = FALSE]
        /\ Return(s, IF decodeDone[s] THEN decodeRc[s] ELSE Failed)
        /\ UNCHANGED <<flagVars, prefillWaiting, inFlight, decodeRc, generating,
                       decoderVars, inferenceMu, asleep, sess>>

-----------------------------------------------------------------------------
(* What generate_job does to a session outside a turn                      *)

\* pthread_mutex_lock(&s->inference_mu) around a rewind, an invalidation, a
\* checkpoint store or a checkpoint load
InferenceLock(s) ==
    /\ At(s, "out")
    /\ inferenceMu = Nobody
    /\ inferenceMu' = s
    /\ GoTo(s, "locked")
    /\ UNCHANGED <<flagVars, slotVars, target, ret, generating, decoderVars, asleep, sess>>

InferenceUnlock(s, sn) ==
    /\ At(s, "locked")
    /\ sess' = [sess EXCEPT ![s] = sn]
    /\ inferenceMu' = Nobody
    /\ GoTo(s, "out")
    /\ UNCHANGED <<flagVars, slotVars, target, ret, generating, decoderVars, asleep>>

\* canonicalize_tool_checkpoint and canonicalize_thinking_checkpoint call
\* p36_session_rewrite_from_common, a forward pass, with neither a turn nor
\* inference_mu
RewriteBegin(s, p) ==
    /\ At(s, "out") /\ s \notin generating
    /\ Call(s, "rewrite", p)
    /\ UNCHANGED <<flagVars, slotVars, generating, decoderVars, inferenceMu, asleep, sess>>

RewriteEnd(s) ==
    /\ At(s, "rewrite")
    /\ \E o \in RewriteFromCommon(sess[s], target[s].conv, target[s].len) :
          /\ sess' = [sess EXCEPT ![s] = o.sess]
          /\ Return(s, o.rc)
    /\ UNCHANGED <<flagVars, slotVars, generating, decoderVars, inferenceMu, asleep>>

\* A stop sequence was generated: p36_session_invalidate, without the lock
StopSequence(s) ==
    /\ At(s, "out") /\ s \in generating
    /\ sess' = [sess EXCEPT ![s] = Invalidated(@)]
    /\ UNCHANGED <<flagVars, slotVars, threadVars, decoderVars, inferenceMu, asleep>>

-----------------------------------------------------------------------------
(* decode_worker_main                                                      *)

DecoderAt(pc) == dpc = pc /\ Awake(Decoder)

DecoderSleep ==
    /\ \/ DecoderAt("idle") /\ pendingCount = 0 /\ ~modelStopping
       \/ DecoderAt("coalesce") /\ ~modelStopping
            /\ pendingCount < SlotCount /\ pendingCount < activeGens
       \/ DecoderAt("claim") /\ modelBusy
    /\ Sleep(Decoder)
    /\ UNCHANGED <<flagVars, slotVars, threadVars, decoderVars, inferenceMu, sess>>

DecoderExit ==
    /\ DecoderAt("idle")
    /\ pendingCount = 0 /\ modelStopping
    /\ dpc' = "exit"
    /\ UNCHANGED <<flagVars, slotVars, threadVars, batch, batchRc, inferenceMu, asleep, sess>>

\* Something is pending: coalesce unless every slot already is
DecoderWake ==
    /\ DecoderAt("idle")
    /\ pendingCount > 0
    /\ dpc' = IF pendingCount < SlotCount THEN "coalesce" ELSE "claim"
    /\ UNCHANGED <<flagVars, slotVars, threadVars, batch, batchRc, inferenceMu, asleep, sess>>

\* Nobody else is expected any more, or the 2 ms are over
DecoderCoalesced ==
    /\ dpc = "coalesce"
    /\ \/ Awake(Decoder) /\ (modelStopping \/ pendingCount >= SlotCount
                              \/ pendingCount >= activeGens)
       \/ ~Awake(Decoder)
    /\ asleep' = asleep \ {Decoder}
    /\ dpc' = "claim"
    /\ UNCHANGED <<flagVars, slotVars, threadVars, batch, batchRc, inferenceMu, sess>>

\* Mutant: the claim does not wait for the running prefill
DecoderClaimBusy ==
    LET members == Pending
    IN  /\ DecoderAt("claim")
        /\ decodePending' = [s \in Slots |-> FALSE]
        /\ inFlight' = [s \in Slots |-> inFlight[s] \/ s \in members]
        /\ pendingCount' = pendingCount - Cardinality(members)
        /\ batch' = members
        /\ modelBusy' = (modelBusy \/ members # {})
        /\ dpc' = IF members = {} THEN "idle" ELSE "lock"
        /\ UNCHANGED <<stopReq, modelStopping, mainPc, activeGens, lastPrefill, prefillWaiting,
                       decodeDone, decodeRc, threadVars, batchRc, inferenceMu, asleep, sess>>

\* Mutant: slot->decode_pending is not cleared
DecoderClaimKeeps ==
    LET members == Pending
    IN  /\ DecoderAt("claim") /\ ~modelBusy
        /\ inFlight' = [s \in Slots |-> inFlight[s] \/ s \in members]
        /\ pendingCount' = pendingCount - Cardinality(members)
        /\ batch' = members
        /\ modelBusy' = (members # {})
        /\ dpc' = IF members = {} THEN "idle" ELSE "lock"
        /\ UNCHANGED <<stopReq, modelStopping, mainPc, activeGens, lastPrefill, prefillWaiting,
                       decodePending, decodeDone, decodeRc, threadVars, batchRc, inferenceMu,
                       asleep, sess>>

\* Collect every pending decode; all may have been withdrawn meanwhile
DecoderClaim ==
    LET members == Pending
    IN  /\ DecoderAt("claim") /\ ~modelBusy
        /\ decodePending' = [s \in Slots |-> FALSE]
        /\ inFlight' = [s \in Slots |-> inFlight[s] \/ s \in members]
        /\ pendingCount' = pendingCount - Cardinality(members)
        /\ batch' = members
        /\ modelBusy' = (members # {})
        /\ dpc' = IF members = {} THEN "idle" ELSE "lock"
        /\ UNCHANGED <<stopReq, modelStopping, mainPc, activeGens, lastPrefill, prefillWaiting,
                       decodeDone, decodeRc, threadVars, batchRc, inferenceMu, asleep, sess>>

DecoderLock ==
    /\ dpc = "lock"
    /\ inferenceMu = Nobody
    /\ inferenceMu' = Decoder
    /\ dpc' = "run"
    /\ UNCHANGED <<flagVars, slotVars, threadVars, batch, batchRc, asleep, sess>>

DecoderRun ==
    /\ dpc = "run"
    /\ \E o \in EvalBatch(sess, batch) : sess' = o.sess /\ batchRc' = o.rc
    /\ inferenceMu' = Nobody
    /\ dpc' = "publish"
    /\ UNCHANGED <<flagVars, slotVars, threadVars, batch, asleep>>

\* Mutant: the waiting slots are not woken
DecoderPublishSilent ==
    /\ dpc = "publish"
    /\ modelBusy' = FALSE
    /\ inFlight' = [s \in Slots |-> inFlight[s] /\ s \notin batch]
    /\ decodeRc' = [s \in Slots |-> IF s \in batch THEN batchRc ELSE decodeRc[s]]
    /\ decodeDone' = [s \in Slots |-> decodeDone[s] \/ s \in batch]
    /\ batch' = {} /\ batchRc' = Ok
    /\ dpc' = "idle"
    /\ UNCHANGED <<stopReq, modelStopping, mainPc, activeGens, lastPrefill, prefillWaiting,
                   decodePending, pendingCount, threadVars, inferenceMu, asleep, sess>>

DecoderPublish ==
    /\ dpc = "publish"
    /\ modelBusy' = FALSE
    /\ inFlight' = [s \in Slots |-> inFlight[s] /\ s \notin batch]
    /\ decodeRc' = [s \in Slots |-> IF s \in batch THEN batchRc ELSE decodeRc[s]]
    /\ decodeDone' = [s \in Slots |-> decodeDone[s] \/ s \in batch]
    /\ Broadcast
    /\ batch' = {} /\ batchRc' = Ok
    /\ dpc' = "idle"
    /\ UNCHANGED <<stopReq, modelStopping, mainPc, activeGens, lastPrefill, prefillWaiting,
                   decodePending, pendingCount, threadVars, inferenceMu, sess>>

-----------------------------------------------------------------------------
(* Shutdown                                                                *)

\* stop_signal_handler: sets the flag and wakes nobody
StopSignal ==
    /\ ~stopReq
    /\ stopReq' = TRUE
    /\ UNCHANGED <<modelStopping, mainPc, modelBusy, activeGens, lastPrefill, slotVars, threadVars,
                   decoderVars, inferenceMu, asleep, sess>>

\* server_cancel_decode_waiters_locked, called by main
CancelDecodeWaiters ==
    LET n == Cardinality(Pending)
    IN  /\ stopReq /\ mainPc = "serve"
        /\ mainPc' = "join"
        /\ decodePending' = [s \in Slots |-> FALSE]
        /\ decodeDone' = [s \in Slots |-> decodeDone[s] \/ s \in Pending]
        /\ decodeRc' = [s \in Slots |-> IF s \in Pending THEN Failed ELSE decodeRc[s]]
        /\ pendingCount' = IF pendingCount > n THEN pendingCount - n ELSE 0
        /\ Broadcast
        /\ UNCHANGED <<stopReq, modelStopping, modelBusy, activeGens, lastPrefill,
                       prefillWaiting, inFlight, threadVars, decoderVars, inferenceMu, sess>>

\* A slot thread leaves slot_worker_main
SlotExit(s) ==
    /\ At(s, "out") /\ s \notin generating
    /\ stopReq
    /\ GoTo(s, "exit")
    /\ UNCHANGED <<flagVars, slotVars, target, ret, generating, decoderVars, inferenceMu,
                   asleep, sess>>

\* main, once the slot threads are joined
ModelStop ==
    /\ mainPc = "join"
    /\ \A s \in Slots : At(s, "exit")
    /\ mainPc' = "stopped"
    /\ modelStopping' = TRUE
    /\ Broadcast
    /\ UNCHANGED <<stopReq, modelBusy, activeGens, lastPrefill, slotVars, threadVars,
                   decoderVars, inferenceMu, sess>>

-----------------------------------------------------------------------------
\* Any of the calls generate_job makes, with any prompt
SlotCall(s) ==
    \/ \E p \in Prompts : PrefillEnter(s, p)
    \/ \E p \in Checkpoints : RewriteBegin(s, p)
    \/ GenerationEnter(s) \/ GenerationLeave(s)
    \/ EvalToken(s) \/ EvalRefused(s)
    \/ InferenceLock(s)
    \/ StopSequence(s)
    \/ SlotExit(s)

\* The steps of a call that was made
SlotStep(s) ==
    \/ PrefillSleep(s) \/ PrefillTurn(s) \/ PrefillAbort(s)
    \/ PrefillLock(s) \/ PrefillRun(s) \/ PrefillLeave(s)
    \/ EvalSleep(s) \/ EvalReturn(s)
    \/ \E sn \in {sess[s], Invalidated(sess[s])} \cup {Loaded(p.conv, p.len) : p \in Prompts} :
          InferenceUnlock(s, sn)
    \/ RewriteEnd(s)

DecoderStep ==
    \/ DecoderSleep \/ DecoderExit \/ DecoderWake \/ DecoderCoalesced
    \/ DecoderClaim \/ DecoderLock \/ DecoderRun \/ DecoderPublish

MainStep == CancelDecodeWaiters \/ ModelStop

Next ==
    \/ \E s \in Slots : SlotCall(s) \/ SlotStep(s)
    \/ DecoderStep
    \/ StopSignal
    \/ MainStep

Spec == Init /\ [][Next]_vars

-----------------------------------------------------------------------------
(* Properties                                                              *)

\* The threads that own a turn: from model_busy = true to model_busy = false
InTurn == {s \in Slots : tpc[s] \in {"prefill_lock", "prefill_run", "prefill_leave"}}
            \cup (IF dpc \in {"lock", "run", "publish"} THEN {Decoder} ELSE {})

\* At most one thread owns a turn, and model_busy says whether one does: a
\* prefill quantum and a decode batch never overlap, and no turn is leaked.
TurnExclusive ==
    /\ \A a, b \in InTurn : a = b
    /\ modelBusy <=> InTurn # {}

\* s->decode_pending counts exactly the slots whose decode is pending, through
\* withdrawals, cancellations and batches; a surplus would block every prefill
\* for ever, a deficit would let the coordinator sleep on a request.
PendingCounted == pendingCount = Cardinality(Pending)

\* A decode request is in exactly one place: queued, in the running batch, or
\* answered.  None is lost and none is evaluated twice.
RequestInOnePlace ==
    \A s \in Slots : At(s, "eval_wait") =>
        \/ decodePending[s] /\ ~inFlight[s] /\ ~decodeDone[s]
        \/ ~decodePending[s] /\ inFlight[s] /\ ~decodeDone[s]
        \/ ~decodePending[s] /\ ~inFlight[s] /\ decodeDone[s]

\* The answer tells the truth about the session: success means the session
\* holds exactly the requested token more, failure that the session does not
\* pretend to be there ("none can silently continue from a partially advanced
\* frontier").
AnswerMatchesSession ==
    \A s \in Slots : At(s, "eval_wait") /\ decodeDone[s] =>
        (decodeRc[s] = Ok <=> sess[s].valid /\ sess[s].len = target[s].len)

\* Until a shutdown is requested, a session in the running batch belongs to a
\* slot thread that does nothing but wait for the answer.
InFlightOwned ==
    \A s \in Slots :
        /\ inFlight[s] <=> s \in batch
        /\ inFlight[s] /\ ~stopReq => At(s, "eval_wait")

\* Round robin: while a slot waits for its turn, every turn another slot takes
\* brings it strictly closer to being next, so SlotCount - 1 turns at most
\* are taken before its own.
TurnsApproach ==
    [][\A s, t \in Slots :
          /\ s # t /\ prefillWaiting[s]
          /\ At(t, "prefill_wait") /\ tpc'[t] = "prefill_lock"
          => Distance(s)' < Distance(s)]_vars

\* The threads that are executing the model right now
Executors == {s \in Slots : tpc[s] \in {"prefill_run", "rewrite"}}
               \cup (IF dpc = "run" THEN {Decoder} ELSE {})

\* docs/server.md: "One coordinator owns model execution."
OneModelExecutor == \A a, b \in Executors : a = b

\* The comment at the head of the server: "The worker owns the p36_session and
\* therefore owns all live KV cache state": no session is evaluated by the
\* coordinator while its own slot thread is past the request.
WorkerOwnsSession == \A s \in Slots : inFlight[s] => At(s, "eval_wait")
=============================================================================
