-------------------------- MODULE ModelTurnsProofs --------------------------
(***************************************************************************)
(* ModelTurns for every number of slots, every context length and every    *)
(* set of conversations; before that, what the session operators return,   *)
(* for every session and prompt.                                           *)
(***************************************************************************)
EXTENDS ModelTurns, FiniteSetTheorems, TLAPS

-----------------------------------------------------------------------------
(* Session: what its operators return                                      *)

\* p36_session_common_prefix never exceeds the live checkpoint or the context
LEMMA CommonPrefixType ==
    ASSUME NEW sn \in Session, NEW conv \in Convs, NEW n \in Nat
    PROVE  CommonPrefix(sn, conv, n) \in 0..Ctx /\ CommonPrefix(sn, conv, n) <= sn.len
BY CtxAssumption DEF CommonPrefix, Session

\* p36_session_reset_runtime leaves a session
LEMMA ResetType ==
    ASSUME NEW conv \in Convs
    PROVE  Reset(conv) \in Session
BY CtxAssumption DEF Reset, Session

\* A prefill that ends at token k leaves a session, successful or not
LEMMA GrownBrokenType ==
    ASSUME NEW sn \in Session, NEW k \in 0..Ctx, NEW n \in Nat
    PROVE  Grown(sn, k, n) \in Session /\ Broken(sn, k) \in Session
<1>1. (k = n) \in BOOLEAN
  OBVIOUS
<1> QED BY <1>1 DEF Grown, Broken, Session

\* p36_session_prefill_range keeps the checkpoint within the context
LEMMA PrefillRangeType ==
    ASSUME NEW base \in Session, NEW n \in Nat, NEW o \in PrefillRange(base, n)
    PROVE  o.sess \in Session /\ o.rc \in Rc
<1>1. base.len \in Nat /\ Ctx \in Nat
  BY CtxAssumption DEF Session
<1>2. \E k \in 0..Ctx : \/ o = [sess |-> Grown(base, k, n), rc |-> Failed]
                        \/ o = [sess |-> Broken(base, k), rc |-> Failed]
                        \/ o = [sess |-> Grown(base, k, n), rc |-> Ok]
  BY <1>1 DEF PrefillRange, ReserveKv
<1> QED BY <1>2, GrownBrokenType DEF Rc

\* p36_session_sync keeps the checkpoint within the context
LEMMA SyncType ==
    ASSUME NEW sn \in Session, NEW conv \in Convs, NEW n \in Nat, NEW o \in Sync(sn, conv, n)
    PROVE  o.sess \in Session /\ o.rc \in Rc
<1>1. SyncBase(sn, conv, n) \in Session
  BY ResetType DEF SyncBase
<1>2. CASE n <= 0 \/ n >= Ctx
  BY <1>2 DEF Sync, Rc, Ok, Failed
<1>3. CASE ~(n <= 0 \/ n >= Ctx)
  BY <1>1, <1>3, PrefillRangeType DEF Sync
<1> QED BY <1>2, <1>3

\* p36_session_rewrite_from_common keeps the checkpoint within the context
LEMMA RewriteType ==
    ASSUME NEW sn \in Session, NEW conv \in Convs, NEW n \in Nat,
           NEW o \in RewriteFromCommon(sn, conv, n)
    PROVE  o.sess \in Session /\ o.rc \in Rc
<1> DEFINE common == CommonPrefix(sn, conv, n)
<1>1. CASE common < sn.len \/ (~sn.valid /\ sn.len > 0)
  BY <1>1, SyncType DEF RewriteFromCommon
<1>2. CASE ~(common < sn.len \/ (~sn.valid /\ sn.len > 0)) /\ common = n
  BY <1>2 DEF RewriteFromCommon, Rc, Ok, Failed
<1>3. CASE ~(common < sn.len \/ (~sn.valid /\ sn.len > 0)) /\ common # n
  <2>1. [sn EXCEPT !.conv = conv, !.valid = TRUE] \in Session
    BY DEF Session
  <2> QED BY <1>3, <2>1, PrefillRangeType DEF RewriteFromCommon
<1> QED BY <1>1, <1>2, <1>3

\* One appended token leaves a valid checkpoint that is one token longer
LEMMA PushedOutcome ==
    ASSUME NEW sn \in Session, ReserveKv(sn.len + 1)
    PROVE  /\ Pushed(sn) \in Session
           /\ Pushed(sn).valid
           /\ Pushed(sn).len = sn.len + 1
<1>1. sn.len + 1 \in 0..Ctx
  BY CtxAssumption DEF ReserveKv, Session
<1>2. Pushed(sn) \in Session
  BY <1>1 DEF Pushed, Session
<1>3. Pushed(sn).len = sn.len + 1
  BY DEF Pushed, Session
<1>4. Pushed(sn).valid = TRUE
  BY DEF Pushed, Session
<1> QED BY <1>2, <1>3, <1>4

\* p36_session_eval reports success exactly when the checkpoint is valid and one
\* token longer
LEMMA EvalOutcome ==
    ASSUME NEW sn \in Session, NEW o \in Eval(sn)
    PROVE  /\ o.sess \in Session /\ o.rc \in Rc
           /\ o.rc = Ok <=> o.sess.valid /\ o.sess.len = sn.len + 1
<1>1. sn.len \in 0..Ctx /\ sn.len # sn.len + 1
  BY CtxAssumption DEF Session
<1>2. Ok # Failed
  BY DEF Ok, Failed
<1>3. CASE o = [sess |-> sn, rc |-> Failed]
  BY <1>1, <1>2, <1>3 DEF Rc
<1>4. CASE ReserveKv(sn.len + 1) /\ o = [sess |-> Pushed(sn), rc |-> Ok]
  BY <1>4, PushedOutcome DEF Rc
<1>5. CASE o = [sess |-> Broken(sn, sn.len), rc |-> Failed]
  <2>1. ~Broken(sn, sn.len).valid
    BY DEF Broken, Session
  <2> QED BY <1>1, <1>2, <1>5, <2>1, GrownBrokenType DEF Rc
<1> QED BY <1>3, <1>4, <1>5 DEF Eval

\* The contract of p36_sessions_eval_batch: it touches its members only, and it
\* reports success exactly when each of them is valid and one token longer.
THEOREM EvalBatchOutcome ==
    ASSUME NEW S, NEW sns \in [S -> Session],
           NEW members \in SUBSET S, IsFiniteSet(members),
           NEW o \in EvalBatch(sns, members)
    PROVE  /\ o.sess \in [S -> Session] /\ o.rc \in Rc
           /\ \A m \in S \ members : o.sess[m] = sns[m]
           /\ \A m \in members :
                o.rc = Ok <=> o.sess[m].valid /\ o.sess[m].len = sns[m].len + 1
<1>1. CASE Cardinality(members) = 1
  <2> DEFINE m == CHOOSE x \in members : TRUE
  <2>1. m \in members /\ members = {m}
    BY <1>1, FS_Singleton
  <2>2. PICK e \in Eval(sns[m]) : o = [sess |-> [sns EXCEPT ![m] = e.sess], rc |-> e.rc]
    BY <1>1 DEF EvalBatch
  <2>3. sns[m] \in Session
    BY <2>1
  <2> HIDE DEF m
  <2>4. /\ e.sess \in Session /\ e.rc \in Rc
        /\ e.rc = Ok <=> e.sess.valid /\ e.sess.len = sns[m].len + 1
    BY <2>2, <2>3, EvalOutcome
  <2> QED BY <2>1, <2>2, <2>4
<1>2. CASE Cardinality(members) # 1
  <2>1. CASE o = [sess |-> sns, rc |-> Failed]
    BY <2>1 DEF Session, Rc, Ok, Failed
  <2>2. CASE /\ \A m \in members : ReserveKv(sns[m].len + 1)
             /\ o = [sess |-> [m \in DOMAIN sns |-> IF m \in members THEN Pushed(sns[m]) ELSE sns[m]],
                     rc   |-> Ok]
    <3>1. \A m \in members : Pushed(sns[m]) \in Session /\ Pushed(sns[m]).valid
                             /\ Pushed(sns[m]).len = sns[m].len + 1
      BY <2>2, PushedOutcome
    <3> QED BY <2>2, <3>1 DEF Rc, Ok
  <2>3. CASE o = [sess |-> [m \in DOMAIN sns |-> IF m \in members THEN Invalidated(sns[m]) ELSE sns[m]],
                  rc   |-> Failed]
    <3>1. \A m \in members : Invalidated(sns[m]) \in Session /\ ~Invalidated(sns[m]).valid
      BY CtxAssumption DEF Invalidated, Reset, Session
    <3> QED BY <2>3, <3>1 DEF Rc, Ok, Failed
  <2> QED BY <1>2, <2>1, <2>2, <2>3 DEF EvalBatch
<1> QED BY <1>1, <1>2

-----------------------------------------------------------------------------
(* What generate_job relies on                                             *)

\* A checkpoint that claims to be valid is backed by an intact cache
Backed(sn) == sn.valid => sn.intact

\* A prefill of a backed checkpoint leaves a backed one, and on success the whole prefix
LEMMA PrefillRangeOutcome ==
    ASSUME NEW base \in Session, NEW n \in 1..Ctx, base.len < n \/ base.valid, base.len <= n,
           NEW o \in PrefillRange(base, n)
    PROVE  /\ base.intact => Backed(o.sess)
           /\ o.rc = Ok => o.sess.valid /\ o.sess.conv = base.conv /\ o.sess.len = n
<1>1. base.len \in Nat /\ Ctx \in Nat /\ Ok # Failed
  BY CtxAssumption DEF Session, Ok, Failed
<1>2. ASSUME NEW k \in 0..Ctx
      PROVE  (base.intact => Backed(Grown(base, k, n))) /\ Grown(base, k, n).conv = base.conv
  <2>1. CASE k = base.len
    BY <2>1 DEF Grown, Backed
  <2>2. CASE k # base.len
    BY <2>2 DEF Grown, Backed, Session
  <2> QED BY <2>1, <2>2
<1>3. Grown(base, n, n).valid /\ Grown(base, n, n).len = n
  <2>1. CASE n = base.len
    BY <2>1, <1>1 DEF Grown
  <2>2. CASE n # base.len
    BY <2>2 DEF Grown, Session
  <2> QED BY <2>1, <2>2
<1>4. ASSUME NEW k \in 0..Ctx PROVE Backed(Broken(base, k))
  <2>1. Broken(base, k).valid = FALSE
    BY DEF Broken, Session
  <2> QED BY <2>1 DEF Backed
<1>5. \/ \E k \in 0..Ctx : o = [sess |-> Grown(base, k, n), rc |-> Failed]
      \/ \E k \in 0..Ctx : o = [sess |-> Broken(base, k), rc |-> Failed]
      \/ o = [sess |-> Grown(base, n, n), rc |-> Ok]
  BY <1>1 DEF PrefillRange, ReserveKv
<1>6. CASE \E k \in 0..Ctx : o = [sess |-> Grown(base, k, n), rc |-> Failed]
  BY <1>1, <1>2, <1>6
<1>7. CASE \E k \in 0..Ctx : o = [sess |-> Broken(base, k), rc |-> Failed]
  BY <1>1, <1>4, <1>7
<1>8. CASE o = [sess |-> Grown(base, n, n), rc |-> Ok]
  <2>1. n \in 0..Ctx
    BY <1>1
  <2> QED BY <1>2, <1>3, <1>8, <2>1
<1> QED BY <1>5, <1>6, <1>7, <1>8

\* p36_session_sync reports success only for the whole prompt, and never makes a half-written
\* cache look valid
LEMMA SyncOutcome ==
    ASSUME NEW sn \in Session, NEW conv \in Convs, NEW n \in 1..Ctx, NEW o \in Sync(sn, conv, n)
    PROVE  /\ Backed(sn) => Backed(o.sess)
           /\ o.rc = Ok => o.sess.valid /\ o.sess.conv = conv /\ o.sess.len = n
<1>0. Ok # Failed /\ Ctx \in Nat
  BY CtxAssumption DEF Ok, Failed
<1>1. CASE n >= Ctx
  BY <1>0, <1>1 DEF Sync
<1>2. CASE ~(n >= Ctx)
  <2> DEFINE base == SyncBase(sn, conv, n)
  <2>0. o \in PrefillRange(base, n)
    BY <1>2 DEF Sync
  <2>1. CASE sn.valid /\ sn.conv = conv /\ n >= sn.len
    <3>1. base = sn /\ base.conv = conv
      BY <2>1 DEF SyncBase
    <3> HIDE DEF base
    <3>2. base.len <= n /\ base.valid /\ base \in Session /\ (Backed(sn) => base.intact)
      BY <2>1, <3>1 DEF Session, Backed
    <3> QED BY <2>0, <3>1, <3>2, PrefillRangeOutcome
  <2>2. CASE ~(sn.valid /\ sn.conv = conv /\ n >= sn.len)
    <3>1. base = Reset(conv)
      BY <2>2 DEF SyncBase
    <3>2. base \in Session /\ base.conv = conv /\ base.len = 0 /\ base.intact
      BY <3>1, ResetType DEF Reset
    <3> HIDE DEF base
    <3>3. base.len < n /\ base.len <= n
      BY <3>2
    <3> QED BY <2>0, <3>2, <3>3, PrefillRangeOutcome
  <2> QED BY <2>1, <2>2
<1> QED BY <1>1, <1>2

\* p36_session_rewrite_from_common extends a valid checkpoint in place only when its cache is intact
LEMMA RewriteOutcome ==
    ASSUME NEW sn \in Session, sn.valid, sn.intact, NEW conv \in Convs, NEW n \in 1..Ctx,
           NEW o \in RewriteFromCommon(sn, conv, n)
    PROVE  Backed(o.sess)
<1> DEFINE common == CommonPrefix(sn, conv, n)
<1>0. common \in 0..Ctx /\ common <= sn.len /\ common <= n /\ sn.len \in Nat
  BY CtxAssumption DEF CommonPrefix, Session
<1>1. CASE common < sn.len \/ (~sn.valid /\ sn.len > 0)
  BY <1>1, SyncOutcome DEF RewriteFromCommon, Backed
<1>2. CASE ~(common < sn.len \/ (~sn.valid /\ sn.len > 0)) /\ common = n
  BY <1>2 DEF RewriteFromCommon, Backed
<1>3. CASE ~(common < sn.len \/ (~sn.valid /\ sn.len > 0)) /\ common # n
  <2> DEFINE base == [sn EXCEPT !.conv = conv, !.valid = TRUE]
  <2>1. base \in Session
    BY DEF Session
  <2>1a. base.intact = sn.intact /\ base.valid = TRUE /\ base.len = sn.len
    BY DEF Session
  <2>1b. base.len <= n
    BY <1>0, <1>3, <2>1a
  <2>2. o \in PrefillRange(base, n)
    BY <1>3 DEF RewriteFromCommon
  <2> HIDE DEF base
  <2> QED BY <2>1, <2>1a, <2>1b, <2>2, PrefillRangeOutcome
<1> QED BY <1>1, <1>2, <1>3

\* p36_sessions_eval_batch changes no conversation, and keeps an intact member backed
LEMMA EvalBatchKeeps ==
    ASSUME NEW S, NEW sns \in [S -> Session],
           NEW members \in SUBSET S, IsFiniteSet(members),
           NEW o \in EvalBatch(sns, members)
    PROVE  /\ \A m \in S : o.sess[m].conv = sns[m].conv
           /\ \A m \in members : sns[m].intact => Backed(o.sess[m])
<1>0. ASSUME NEW m \in S
      PROVE  /\ Pushed(sns[m]).conv = sns[m].conv /\ Pushed(sns[m]).intact = sns[m].intact
             /\ Broken(sns[m], sns[m].len).conv = sns[m].conv /\ Broken(sns[m], sns[m].len).valid = FALSE
             /\ Invalidated(sns[m]).conv = sns[m].conv /\ Invalidated(sns[m]).valid = FALSE
  <2>1. sns[m] \in Session
    OBVIOUS
  <2>2. Pushed(sns[m]).conv = sns[m].conv /\ Pushed(sns[m]).intact = sns[m].intact
    BY <2>1 DEF Pushed, Session
  <2>3. Broken(sns[m], sns[m].len).conv = sns[m].conv /\ Broken(sns[m], sns[m].len).valid = FALSE
    BY <2>1 DEF Broken, Session
  <2>4. Invalidated(sns[m]).conv = sns[m].conv /\ Invalidated(sns[m]).valid = FALSE
    BY DEF Invalidated, Reset
  <2> QED BY <2>2, <2>3, <2>4
<1>1. CASE Cardinality(members) = 1
  <2> DEFINE m == CHOOSE x \in members : TRUE
  <2>1. m \in members /\ members = {m}
    BY <1>1, FS_Singleton
  <2>2. PICK e \in Eval(sns[m]) : o = [sess |-> [sns EXCEPT ![m] = e.sess], rc |-> e.rc]
    BY <1>1 DEF EvalBatch
  <2> HIDE DEF m
  <2>3. e.sess \in {sns[m], Pushed(sns[m]), Broken(sns[m], sns[m].len)}
    BY <2>2 DEF Eval
  <2>4. e.sess.conv = sns[m].conv /\ (sns[m].intact => Backed(e.sess))
    BY <1>0, <2>1, <2>3 DEF Backed
  <2> QED BY <2>1, <2>2, <2>4
<1>2. CASE Cardinality(members) # 1
  <2>1. \A m \in S : \/ o.sess[m] = sns[m]
                     \/ o.sess[m] = Pushed(sns[m])
                     \/ o.sess[m] = Invalidated(sns[m])
    <3>1. CASE o = [sess |-> sns, rc |-> Failed]
      BY <3>1
    <3>2. CASE o = [sess |-> [m \in DOMAIN sns |-> IF m \in members THEN Pushed(sns[m]) ELSE sns[m]],
                    rc   |-> Ok]
      BY <3>2
    <3>3. CASE o = [sess |-> [m \in DOMAIN sns |-> IF m \in members THEN Invalidated(sns[m]) ELSE sns[m]],
                    rc   |-> Failed]
      BY <3>3
    <3> QED BY <1>2, <3>1, <3>2, <3>3 DEF EvalBatch
  <2> QED BY <1>0, <2>1 DEF Backed
<1> QED BY <1>1, <1>2

-----------------------------------------------------------------------------
(* ModelTurns                                                              *)

-----------------------------------------------------------------------------
(* Slots, sets of slots and the counters over them                         *)

\* A set of slots is finite and has at most SlotCount members
LEMMA SlotsFinite ==
    /\ IsFiniteSet(Slots) /\ Cardinality(Slots) = SlotCount
    /\ \A S \in SUBSET Slots : IsFiniteSet(S) /\ Cardinality(S) \in 0..SlotCount
<1>1. IsFiniteSet(Slots) /\ Cardinality(Slots) = SlotCount
  BY FS_Interval, SlotCountAssumption DEF Slots
<1>2. ASSUME NEW S \in SUBSET Slots
      PROVE  IsFiniteSet(S) /\ Cardinality(S) \in 0..SlotCount
  <2>1. IsFiniteSet(S) /\ Cardinality(S) <= SlotCount
    BY <1>1, FS_Subset
  <2>2. Cardinality(S) \in Nat
    BY <2>1, FS_CardinalityType
  <2> QED BY <2>1, <2>2, SlotCountAssumption
<1> QED BY <1>1, <1>2

\* Slot numbers are integers that differ from the coordinator's and from Nobody
LEMMA SlotIds ==
    /\ Slots \subseteq Int /\ Decoder \in Int /\ SlotCount \in Nat \ {0}
    /\ \A s \in Slots : s >= 0 /\ s < SlotCount /\ s # Decoder /\ s # Nobody
    /\ Decoder \in Threads /\ Decoder # Nobody
    /\ Slots \subseteq Threads
BY SlotCountAssumption DEF Slots, Decoder, Threads, Nobody

\* The initial target of a slot is a checkpoint
LEMMA NoTargetType == NoTarget \in Checkpoints /\ (CHOOSE c \in Convs : TRUE) \in Convs
BY ConvsAssumption, CtxAssumption DEF NoTarget, Checkpoints

\* active_generations counts the slots that generate
GensCounted == activeGens = Cardinality(generating)

Counted == TypeOK /\ GensCounted /\ PendingCounted

-----------------------------------------------------------------------------
(* The counters                                                            *)

\* main starts with both counters at zero and nothing pending
THEOREM CountedInit == Init => Counted
<1> SUFFICES ASSUME Init PROVE Counted
  OBVIOUS
<1>1. pendingCount = 0 /\ activeGens = 0 /\ generating = {} /\ Pending = {}
  BY DEF Init, Pending
<1>2. GensCounted /\ PendingCounted
  BY <1>1, FS_EmptySet DEF GensCounted, PendingCounted
<1>3. \A c \in Convs : Reset(c) \in Session
  BY ResetType
<1>4. sess \in [Slots -> Session] /\ target \in [Slots -> Checkpoints]
  BY <1>3, NoTargetType DEF Init
<1>5. lastPrefill \in Slots /\ pendingCount \in 0..SlotCount /\ activeGens \in 0..SlotCount
  BY SlotCountAssumption DEF Init, Slots
<1>6. TypeOK
  BY <1>4, <1>5 DEF Init, TypeOK, SlotPcs, DecoderPcs, Rc
<1> QED BY <1>2, <1>6 DEF Counted

\* The two counters are right through every step
LEMMA GensCountedStep ==
    ASSUME Counted, [Next]_vars
    PROVE  GensCounted'
<1> USE DEF Counted
<1>1. IsFiniteSet(generating) /\ activeGens = Cardinality(generating) /\ activeGens \in Nat
  BY SlotsFinite DEF TypeOK, GensCounted
<1>2. ASSUME NEW s \in Slots, GenerationEnter(s) PROVE GensCounted'
  BY <1>1, <1>2, FS_AddElement DEF GenerationEnter, GensCounted
<1>3. ASSUME NEW s \in Slots, GenerationLeave(s) PROVE GensCounted'
  <2>1. activeGens > 0
    BY <1>1, <1>3, FS_EmptySet DEF GenerationLeave
  <2> QED BY <1>1, <1>3, <2>1, FS_RemoveElement DEF GenerationLeave, GensCounted
<1>4. CASE UNCHANGED <<generating, activeGens>>
  BY <1>4 DEF GensCounted
<1> QED BY <1>2, <1>3, <1>4 DEF Next, SlotCall, SlotStep, DecoderStep, MainStep, vars, flagVars,
       threadVars, PrefillEnter, RewriteBegin, EvalToken, EvalRefused, InferenceLock,
       StopSequence, SlotExit, PrefillSleep, PrefillTurn, PrefillAbort, PrefillLock, PrefillRun,
       PrefillLeave, EvalSleep, EvalReturn, InferenceUnlock, RewriteEnd, DecoderSleep,
       DecoderExit, DecoderWake, DecoderCoalesced, DecoderClaim, DecoderLock, DecoderRun,
       DecoderPublish, StopSignal, CancelDecodeWaiters, ModelStop

\* s->decode_pending follows every submission, withdrawal, claim and cancellation
LEMMA PendingCountedStep ==
    ASSUME Counted, [Next]_vars
    PROVE  PendingCounted'
<1> USE DEF Counted
<1>1. IsFiniteSet(Pending) /\ pendingCount = Cardinality(Pending) /\ pendingCount \in Nat
  BY SlotsFinite DEF TypeOK, PendingCounted, Pending
<1>2. ASSUME NEW s \in Slots, EvalToken(s) PROVE PendingCounted'
  <2>1. Pending' = Pending \cup {s} /\ s \notin Pending
    BY <1>2 DEF EvalToken, Pending, TypeOK
  <2> QED BY <1>1, <1>2, <2>1, FS_AddElement DEF EvalToken, PendingCounted
<1>3. ASSUME NEW s \in Slots, EvalReturn(s) PROVE PendingCounted'
  <2>1. CASE ~decodeDone[s] /\ decodePending[s]
    <3>1. Pending' = Pending \ {s} /\ s \in Pending
      BY <1>3, <2>1 DEF EvalReturn, Pending, TypeOK
    <3>2. pendingCount > 0
      BY <1>1, <3>1, FS_EmptySet
    <3>3. pendingCount' = pendingCount - 1
      BY <1>3, <2>1, <3>2 DEF EvalReturn
    <3> QED BY <1>1, <3>1, <3>3, FS_RemoveElement DEF PendingCounted
  <2>2. CASE ~(~decodeDone[s] /\ decodePending[s])
    <3>1. Pending' = Pending
      BY <1>3, <2>2 DEF EvalReturn, Pending, TypeOK
    <3>2. pendingCount' = pendingCount
      BY <1>3, <2>2 DEF EvalReturn
    <3> QED BY <1>1, <3>1, <3>2 DEF PendingCounted
  <2> QED BY <2>1, <2>2
<1>4. CASE DecoderClaim \/ CancelDecodeWaiters
  <2>1. Pending' = {} /\ pendingCount' = 0
    BY <1>1, <1>4 DEF DecoderClaim, CancelDecodeWaiters, Pending
  <2> QED BY <2>1, FS_EmptySet DEF PendingCounted
<1>5. CASE UNCHANGED <<decodePending, pendingCount>>
  BY <1>5 DEF PendingCounted, Pending
<1> QED BY <1>2, <1>3, <1>4, <1>5 DEF Next, SlotCall, SlotStep, DecoderStep, MainStep, vars,
       slotVars, PrefillEnter, RewriteBegin, GenerationEnter, GenerationLeave, EvalRefused,
       InferenceLock, StopSequence, SlotExit, PrefillSleep, PrefillTurn, PrefillAbort,
       PrefillLock, PrefillRun, PrefillLeave, EvalSleep, InferenceUnlock, RewriteEnd,
       DecoderSleep, DecoderExit, DecoderWake, DecoderCoalesced, DecoderLock, DecoderRun,
       DecoderPublish, StopSignal, ModelStop

\* Every action keeps the variables in their types
LEMMA TypeStep ==
    ASSUME Counted, [Next]_vars
    PROVE  TypeOK'
<1> USE DEF Counted
<1>0. \A s \in Slots : sess[s] \in Session /\ Invalidated(sess[s]) \in Session
  BY ResetType DEF TypeOK, Invalidated, Session
<1>1. GensCounted' /\ PendingCounted'
  BY GensCountedStep, PendingCountedStep
<1>2. generating' \subseteq Slots => activeGens' \in 0..SlotCount
  BY <1>1, SlotsFinite DEF GensCounted
<1>3. pendingCount' \in 0..SlotCount
  <2>1. Pending' \subseteq Slots
    BY DEF Pending
  <2> QED BY <1>1, <2>1, SlotsFinite DEF PendingCounted
<1> USE <1>2, <1>3, NoTargetType, SlotIds DEF TypeOK, SlotPcs, DecoderPcs, Rc, GoTo, Call, Return,
        Broadcast, Sleep, flagVars, slotVars, threadVars, decoderVars
<1>4. ASSUME NEW s \in Slots, NEW p \in Prompts, PrefillEnter(s, p) PROVE TypeOK'
  BY <1>4 DEF PrefillEnter, Prompts
<1>5. ASSUME NEW s \in Slots, NEW p \in Checkpoints, RewriteBegin(s, p) PROVE TypeOK'
  BY <1>5 DEF RewriteBegin
<1>6. ASSUME NEW s \in Slots, GenerationEnter(s) PROVE TypeOK'
  BY <1>6 DEF GenerationEnter
<1>7. ASSUME NEW s \in Slots, GenerationLeave(s) PROVE TypeOK'
  BY <1>7 DEF GenerationLeave
<1>8. ASSUME NEW s \in Slots, EvalToken(s) PROVE TypeOK'
  <2>1. [conv |-> sess[s].conv, len |-> sess[s].len + 1] \in Checkpoints
    BY <1>0, <1>8, CtxAssumption DEF EvalToken, Checkpoints, Session
  <2> QED BY <1>8, <2>1 DEF EvalToken
<1>9. ASSUME NEW s \in Slots, EvalRefused(s) PROVE TypeOK'
  BY <1>9 DEF EvalRefused
<1>10. ASSUME NEW s \in Slots, InferenceLock(s) PROVE TypeOK'
  BY <1>10 DEF InferenceLock
<1>11. ASSUME NEW s \in Slots, StopSequence(s) PROVE TypeOK'
  BY <1>11, <1>0 DEF StopSequence
<1>12. ASSUME NEW s \in Slots, SlotExit(s) PROVE TypeOK'
  BY <1>12 DEF SlotExit
<1>13. ASSUME NEW s \in Slots, PrefillSleep(s) PROVE TypeOK'
  BY <1>13 DEF PrefillSleep
<1>14. ASSUME NEW s \in Slots, PrefillTurn(s) PROVE TypeOK'
  BY <1>14 DEF PrefillTurn
<1>15. ASSUME NEW s \in Slots, PrefillAbort(s) PROVE TypeOK'
  BY <1>15 DEF PrefillAbort
<1>16. ASSUME NEW s \in Slots, PrefillLock(s) PROVE TypeOK'
  BY <1>16 DEF PrefillLock
<1>17. ASSUME NEW s \in Slots, PrefillRun(s) PROVE TypeOK'
  <2>1. target[s].conv \in Convs /\ target[s].len \in Nat /\ sess[s] \in Session
    BY DEF Checkpoints
  <2>2. \A o \in Sync(sess[s], target[s].conv, target[s].len) : o.sess \in Session /\ o.rc \in Rc
    BY <2>1, SyncType
  <2> QED BY <1>17, <2>2 DEF PrefillRun
<1>18. ASSUME NEW s \in Slots, PrefillLeave(s) PROVE TypeOK'
  BY <1>18 DEF PrefillLeave
<1>19. ASSUME NEW s \in Slots, EvalSleep(s) PROVE TypeOK'
  BY <1>19 DEF EvalSleep
<1>20. ASSUME NEW s \in Slots, EvalReturn(s) PROVE TypeOK'
  BY <1>20 DEF EvalReturn
<1>21. ASSUME NEW s \in Slots, NEW sn \in Session, InferenceUnlock(s, sn) PROVE TypeOK'
  BY <1>21 DEF InferenceUnlock
<1>22. ASSUME NEW s \in Slots, RewriteEnd(s) PROVE TypeOK'
  <2>1. target[s].conv \in Convs /\ target[s].len \in Nat /\ sess[s] \in Session
    BY DEF Checkpoints
  <2>2. \A o \in RewriteFromCommon(sess[s], target[s].conv, target[s].len) : o.sess \in Session /\ o.rc \in Rc
    BY <2>1, RewriteType
  <2> QED BY <1>22, <2>2 DEF RewriteEnd
<1>23. ASSUME DecoderSleep PROVE TypeOK'
  BY <1>23 DEF DecoderSleep
<1>24. ASSUME DecoderExit PROVE TypeOK'
  BY <1>24 DEF DecoderExit
<1>25. ASSUME DecoderWake PROVE TypeOK'
  BY <1>25 DEF DecoderWake
<1>26. ASSUME DecoderCoalesced PROVE TypeOK'
  BY <1>26 DEF DecoderCoalesced
<1>27. ASSUME DecoderClaim PROVE TypeOK'
  <2>1. modelBusy' \in BOOLEAN /\ batch' \subseteq Slots /\ dpc' \in DecoderPcs
    BY <1>27 DEF DecoderClaim, Pending
  <2>2. inFlight' \in [Slots -> BOOLEAN] /\ decodePending' \in [Slots -> BOOLEAN]
    BY <1>27 DEF DecoderClaim
  <2> QED BY <1>27, <2>1, <2>2 DEF DecoderClaim
<1>28. ASSUME DecoderLock PROVE TypeOK'
  BY <1>28 DEF DecoderLock
<1>29. ASSUME DecoderRun PROVE TypeOK'
  <2>1. PICK o \in EvalBatch(sess, batch) : sess' = o.sess /\ batchRc' = o.rc
    BY <1>29 DEF DecoderRun
  <2>2. o.sess \in [Slots -> Session] /\ o.rc \in Rc
    BY <2>1, EvalBatchOutcome, SlotsFinite
  <2> QED BY <1>29, <2>1, <2>2 DEF DecoderRun
<1>30. ASSUME DecoderPublish PROVE TypeOK'
  BY <1>30 DEF DecoderPublish
<1>31. ASSUME StopSignal PROVE TypeOK'
  BY <1>31 DEF StopSignal
<1>32. ASSUME CancelDecodeWaiters PROVE TypeOK'
  BY <1>32 DEF CancelDecodeWaiters
<1>33. ASSUME ModelStop PROVE TypeOK'
  BY <1>33 DEF ModelStop
<1>34. CASE UNCHANGED vars
  BY <1>34 DEF vars
<1>35. \A p \in Prompts : Loaded(p.conv, p.len) \in Session
  BY DEF Prompts, Checkpoints, Loaded, Session
<1> HIDE DEF TypeOK, SlotPcs, DecoderPcs, Rc, GoTo, Call, Return, Broadcast, Sleep, flagVars,
         slotVars, threadVars, decoderVars
<1> QED BY <1>0, <1>4, <1>5, <1>6, <1>7, <1>8, <1>9, <1>10, <1>11, <1>12, <1>13, <1>14, <1>15,
           <1>16, <1>17, <1>18, <1>19, <1>20, <1>21, <1>22, <1>23, <1>24, <1>25, <1>26, <1>27,
           <1>28, <1>29, <1>30, <1>31, <1>32, <1>33, <1>34, <1>35
        DEF Next, SlotCall, SlotStep, DecoderStep, MainStep

\* Every variable keeps its type, pendingCount and activeGens included, which
\* are bounded only because they count sets of slots
THEOREM TypeCorrect == Spec => [](TypeOK /\ PendingCounted)
<1>1. Init => Counted
  BY CountedInit
<1>2. Counted /\ [Next]_vars => Counted'
  BY GensCountedStep, PendingCountedStep, TypeStep DEF Counted
<1>3. Counted => TypeOK /\ PendingCounted
  BY DEF Counted
<1> QED BY <1>1, <1>2, <1>3, PTL DEF Spec

\* s->decode_pending counts exactly the pending decodes, whatever is withdrawn, cancelled or
\* claimed, so a prefill that waits for it to reach zero waits for real requests only
THEOREM PendingExact == Spec => []PendingCounted
BY TypeCorrect, PTL

-----------------------------------------------------------------------------
(* The turns                                                               *)

\* A turn is taken only while model_busy is clear and given back by its owner
LEMMA TurnStep ==
    ASSUME TypeOK, TurnExclusive, [Next]_vars
    PROVE  TurnExclusive'
<1> USE SlotIds DEF TypeOK, TurnExclusive, InTurn
<1>1. ASSUME NEW s \in Slots, PrefillTurn(s) PROVE TurnExclusive'
  BY <1>1 DEF PrefillTurn, PrefillMayRun, GoTo, decoderVars
<1>2. ASSUME NEW s \in Slots, PrefillLock(s) \/ PrefillRun(s) PROVE TurnExclusive'
  <2>1. InTurn' = InTurn
    BY <1>2 DEF PrefillLock, PrefillRun, GoTo, At, decoderVars
  <2> QED BY <1>2, <2>1 DEF PrefillLock, PrefillRun, flagVars
<1>3. ASSUME NEW s \in Slots, PrefillLeave(s) PROVE TurnExclusive'
  <2>1. s \in InTurn
    BY <1>3 DEF PrefillLeave, At
  <2>2. dpc \notin {"lock", "run", "publish"}
    BY <2>1
  <2>3. \A t \in Slots : t # s => tpc[t] \notin {"prefill_lock", "prefill_run", "prefill_leave"}
    BY <2>1
  <2>4. InTurn' = {}
    BY <1>3, <2>2, <2>3 DEF PrefillLeave, Return, GoTo, decoderVars
  <2> QED BY <1>3, <2>4 DEF PrefillLeave
<1>4. CASE DecoderClaim
  BY <1>4 DEF DecoderClaim, DecoderAt, threadVars
<1>5. CASE DecoderLock \/ DecoderRun
  <2>1. InTurn' = InTurn
    BY <1>5 DEF DecoderLock, DecoderRun, threadVars
  <2> QED BY <1>5, <2>1 DEF DecoderLock, DecoderRun, flagVars
<1>6. CASE DecoderPublish
  BY <1>6 DEF DecoderPublish, threadVars
<1>7. CASE UNCHANGED <<tpc, dpc, modelBusy>>
  BY <1>7
<1>8. CASE DecoderExit \/ DecoderWake \/ DecoderCoalesced
  <2>1. InTurn' = InTurn
    BY <1>8 DEF DecoderExit, DecoderWake, DecoderCoalesced, DecoderAt, threadVars
  <2> QED BY <1>8, <2>1 DEF DecoderExit, DecoderWake, DecoderCoalesced, flagVars
\* The calls that neither begin nor end a turn
<1>9. ASSUME NEW s \in Slots, UNCHANGED <<modelBusy, dpc>>,
             tpc[s] \notin {"prefill_lock", "prefill_run", "prefill_leave"},
             NEW pc \in {"out", "prefill_wait", "eval_wait", "locked", "rewrite", "exit"},
             tpc' = [tpc EXCEPT ![s] = pc]
      PROVE  TurnExclusive'
  <2>1. InTurn' = InTurn
    BY <1>9
  <2> QED BY <1>9, <2>1
<1>10. ASSUME NEW s \in Slots, SlotCall(s) PROVE TurnExclusive'
  <2>1. CASE UNCHANGED <<tpc, dpc, modelBusy>>
    BY <1>7, <2>1
  <2>2. ASSUME NEW p \in Prompts, PrefillEnter(s, p) PROVE TurnExclusive'
    BY <1>9, <2>2 DEF PrefillEnter, Call, GoTo, At, flagVars, decoderVars
  <2>3. ASSUME NEW p \in Checkpoints, RewriteBegin(s, p) PROVE TurnExclusive'
    BY <1>9, <2>3 DEF RewriteBegin, Call, GoTo, At, flagVars, decoderVars
  <2>4. CASE EvalToken(s) \/ EvalRefused(s)
    BY <1>9, <2>4 DEF EvalToken, EvalRefused, Call, Return, GoTo, At, flagVars, decoderVars
  <2>5. CASE InferenceLock(s) \/ SlotExit(s)
    BY <1>9, <2>5 DEF InferenceLock, SlotExit, GoTo, At, flagVars, decoderVars
  <2> QED BY <1>10, <2>1, <2>2, <2>3, <2>4, <2>5
          DEF SlotCall, GenerationEnter, GenerationLeave, StopSequence, threadVars, flagVars, decoderVars
<1>11. ASSUME NEW s \in Slots, SlotStep(s) PROVE TurnExclusive'
  <2>1. CASE PrefillSleep(s) \/ EvalSleep(s)
    BY <1>7, <2>1 DEF PrefillSleep, EvalSleep, threadVars, flagVars, decoderVars
  <2>2. CASE PrefillAbort(s) \/ EvalReturn(s) \/ RewriteEnd(s)
    BY <1>9, <2>2 DEF PrefillAbort, EvalReturn, RewriteEnd, Return, GoTo, At, flagVars, decoderVars
  <2>3. ASSUME NEW sn, InferenceUnlock(s, sn) PROVE TurnExclusive'
    BY <1>9, <2>3 DEF InferenceUnlock, GoTo, At, flagVars, decoderVars
  <2> QED BY <1>1, <1>2, <1>3, <1>11, <2>1, <2>2, <2>3 DEF SlotStep
<1>12. CASE DecoderSleep \/ StopSignal \/ MainStep \/ UNCHANGED vars
  BY <1>7, <1>12 DEF DecoderSleep, StopSignal, MainStep, CancelDecodeWaiters, ModelStop, vars,
                     threadVars, flagVars, decoderVars
<1> HIDE DEF TurnExclusive
<1> QED BY <1>4, <1>5, <1>6, <1>8, <1>10, <1>11, <1>12 DEF Next, DecoderStep

\* No two threads ever own a turn, and model_busy is set exactly while one does
THEOREM TurnsExclusive == Spec => []TurnExclusive
<1>1. Init => TurnExclusive
  BY DEF Init, TurnExclusive, InTurn
<1>2. TypeOK /\ TurnExclusive /\ [Next]_vars => TurnExclusive'
  BY TurnStep
<1> QED BY <1>1, <1>2, TypeCorrect, PTL DEF Spec

-----------------------------------------------------------------------------
(* The decode requests                                                     *)

\* RequestInOnePlace and InFlightOwned are not inductive: they need to know that
\* only a waiting thread has a request pending and that the batch is empty
\* outside the coordinator's turn.
Requests ==
    /\ batch # {} => dpc \in {"lock", "run", "publish"}
    /\ \A s \in Slots :
        /\ inFlight[s] <=> s \in batch
        /\ decodePending[s] => At(s, "eval_wait") /\ ~inFlight[s] /\ ~decodeDone[s]
        /\ inFlight[s] /\ At(s, "eval_wait") => ~decodeDone[s]
        /\ At(s, "eval_wait") => decodePending[s] \/ inFlight[s] \/ decodeDone[s]
        /\ inFlight[s] /\ ~stopReq => At(s, "eval_wait")

\* Every action leaves each slot's decode request where Requests allows it
LEMMA RequestsStep ==
    ASSUME TypeOK, Requests, [Next]_vars
    PROVE  Requests'
<1> USE DEF TypeOK, Requests, At
<1>1. ASSUME NEW s \in Slots, EvalToken(s) PROVE Requests'
  BY <1>1 DEF EvalToken, Call, GoTo, flagVars, decoderVars
<1>2. ASSUME NEW s \in Slots, EvalReturn(s) PROVE Requests'
  BY <1>2 DEF EvalReturn, Return, GoTo, flagVars, decoderVars
<1>3. CASE DecoderClaim
  BY <1>3 DEF DecoderClaim, DecoderAt, Pending, threadVars
<1>4. CASE DecoderPublish
  BY <1>4 DEF DecoderPublish, threadVars
<1>5. CASE CancelDecodeWaiters
  BY <1>5 DEF CancelDecodeWaiters, Pending, threadVars, decoderVars
\* The steps of a thread that has no request
<1>6. ASSUME NEW s \in Slots, tpc[s] # "eval_wait", NEW pc \in SlotPcs \ {"eval_wait"},
             tpc' = [tpc EXCEPT ![s] = pc],
             UNCHANGED <<stopReq, decodePending, inFlight, decodeDone, dpc, batch>>
      PROVE  Requests'
  BY <1>6
<1>7. ASSUME UNCHANGED <<tpc, decodePending, inFlight, decodeDone, dpc, batch>>,
             stopReq => stopReq'
      PROVE  Requests'
  BY <1>7
<1>8. CASE DecoderExit \/ DecoderWake \/ DecoderCoalesced \/ DecoderLock \/ DecoderRun
  BY <1>8 DEF DecoderExit, DecoderWake, DecoderCoalesced, DecoderLock, DecoderRun, DecoderAt,
              slotVars, threadVars, flagVars
<1> HIDE DEF TypeOK, Requests
<1>9. ASSUME NEW s \in Slots, SlotCall(s) PROVE Requests'
  <2>1. ASSUME NEW p, PrefillEnter(s, p) \/ RewriteBegin(s, p) PROVE Requests'
    BY <1>6, <2>1 DEF PrefillEnter, RewriteBegin, Call, GoTo, SlotPcs, flagVars, slotVars, decoderVars
  <2>2. CASE EvalRefused(s) \/ InferenceLock(s) \/ SlotExit(s)
    BY <1>6, <2>2 DEF EvalRefused, InferenceLock, SlotExit, Return, GoTo, SlotPcs, flagVars,
                      slotVars, decoderVars
  <2>3. CASE GenerationEnter(s) \/ GenerationLeave(s) \/ StopSequence(s)
    BY <1>7, <2>3 DEF GenerationEnter, GenerationLeave, StopSequence, flagVars, slotVars,
                      threadVars, decoderVars
  <2> QED BY <1>1, <1>9, <2>1, <2>2, <2>3 DEF SlotCall
<1>10. ASSUME NEW s \in Slots, SlotStep(s) PROVE Requests'
  <2>1. CASE PrefillTurn(s) \/ PrefillAbort(s) \/ PrefillLock(s) \/ PrefillRun(s) \/ PrefillLeave(s)
    BY <1>6, <2>1 DEF PrefillTurn, PrefillAbort, PrefillLock, PrefillRun, PrefillLeave, Return,
                      GoTo, SlotPcs, flagVars, slotVars, decoderVars
  <2>2. ASSUME NEW sn, InferenceUnlock(s, sn) \/ RewriteEnd(s) PROVE Requests'
    BY <1>6, <2>2 DEF InferenceUnlock, RewriteEnd, Return, GoTo, SlotPcs, flagVars, slotVars,
                      decoderVars
  <2>3. CASE PrefillSleep(s) \/ EvalSleep(s)
    BY <1>7, <2>3 DEF PrefillSleep, EvalSleep, flagVars, slotVars, threadVars, decoderVars
  <2> QED BY <1>2, <1>10, <2>1, <2>2, <2>3 DEF SlotStep
<1>11. CASE DecoderSleep \/ StopSignal \/ ModelStop \/ UNCHANGED vars
  BY <1>7, <1>11 DEF DecoderSleep, StopSignal, ModelStop, vars, flagVars, slotVars, threadVars,
                     decoderVars
<1> QED BY <1>3, <1>4, <1>5, <1>8, <1>9, <1>10, <1>11 DEF Next, DecoderStep, MainStep

\* Initially no slot has a decode request
LEMMA RequestsInit == Init => Requests
BY DEF Init, Requests, At

\* Where a slot's decode request is, for a thread that waits for it and for one that
\* a shutdown made leave it behind in the batch
THEOREM RequestsInvariant == Spec => []Requests
BY RequestsInit, RequestsStep, TypeCorrect, PTL DEF Spec

\* A waiting thread's request is queued, in the batch or answered, never two of
\* these and never none
THEOREM RequestsInOnePlace == Spec => []RequestInOnePlace
<1>1. Requests => RequestInOnePlace
  BY DEF Requests, RequestInOnePlace
<1> QED BY <1>1, RequestsInvariant, PTL

\* Until a shutdown, the coordinator evaluates only sessions whose threads wait
THEOREM InFlightSessionsOwned == Spec => []InFlightOwned
<1>1. Requests => InFlightOwned
  BY DEF Requests, InFlightOwned
<1> QED BY <1>1, RequestsInvariant, PTL

-----------------------------------------------------------------------------
(* The answers                                                             *)

Holds(s) == sess[s].valid /\ sess[s].len = target[s].len

\* Why an answer can be trusted: from the request to the batch the session is
\* one token short of what was asked for, and after the batch the return code
\* says whether it is there.
Answers ==
    \A s \in Slots : At(s, "eval_wait") =>
        /\ decodePending[s] => target[s].len = sess[s].len + 1
        /\ s \in batch /\ dpc \in {"lock", "run"} => target[s].len = sess[s].len + 1
        /\ s \in batch /\ dpc = "publish" => (batchRc = Ok <=> Holds(s))
        /\ decodeDone[s] => (decodeRc[s] = Ok <=> Holds(s))

\* No action falsifies an answer that is published or about to be
LEMMA AnswersStep ==
    ASSUME TypeOK, Requests, Answers, [Next]_vars
    PROVE  Answers'
<1>0. \A s \in Slots : sess[s].len \in Int /\ sess[s].len # sess[s].len + 1
  BY CtxAssumption DEF TypeOK, Session
<1> USE DEF TypeOK, Requests, Answers, Holds, At
<1>1. ASSUME NEW s \in Slots, EvalToken(s) PROVE Answers'
  BY <1>1 DEF EvalToken, Call, GoTo, decoderVars
<1>2. ASSUME NEW s \in Slots, EvalReturn(s) PROVE Answers'
  BY <1>2 DEF EvalReturn, Return, GoTo, decoderVars
<1>3. CASE DecoderClaim
  BY <1>3 DEF DecoderClaim, DecoderAt, Pending, threadVars
<1>4. CASE DecoderRun
  <2>1. PICK o \in EvalBatch(sess, batch) : sess' = o.sess /\ batchRc' = o.rc
    BY <1>4 DEF DecoderRun
  <2>2. /\ \A s \in Slots \ batch : o.sess[s] = sess[s]
        /\ \A s \in batch : o.rc = Ok <=> o.sess[s].valid /\ o.sess[s].len = sess[s].len + 1
    BY <2>1, EvalBatchOutcome, SlotsFinite
  <2> QED BY <1>4, <2>1, <2>2 DEF DecoderRun, slotVars, threadVars
<1>5. CASE DecoderPublish
  BY <1>5 DEF DecoderPublish, threadVars
<1>6. CASE CancelDecodeWaiters
  BY <1>0, <1>6 DEF CancelDecodeWaiters, Pending, Ok, Failed, threadVars, decoderVars
<1>7. CASE DecoderExit \/ DecoderWake \/ DecoderCoalesced \/ DecoderLock
  BY <1>7 DEF DecoderExit, DecoderWake, DecoderCoalesced, DecoderLock, DecoderAt, slotVars, threadVars
\* The steps of a thread that has no request, whatever they do to its session
<1>8. ASSUME NEW s \in Slots, tpc[s] # "eval_wait", tpc'[s] # "eval_wait",
             \A t \in Slots \ {s} : /\ tpc'[t] = tpc[t] /\ target'[t] = target[t]
                                    /\ sess'[t] = sess[t],
             UNCHANGED <<decodePending, decodeDone, decodeRc, dpc, batch, batchRc>>
      PROVE  Answers'
  BY <1>8
<1>9. CASE UNCHANGED <<tpc, target, sess, decodePending, decodeDone, decodeRc, dpc, batch, batchRc>>
  BY <1>9
<1> HIDE DEF Requests, Answers, Holds
<1>10. ASSUME NEW s \in Slots, SlotCall(s) PROVE Answers'
  <2>1. ASSUME NEW p, PrefillEnter(s, p) \/ RewriteBegin(s, p) PROVE Answers'
    BY <1>8, <2>1 DEF PrefillEnter, RewriteBegin, Call, GoTo, slotVars, decoderVars
  <2>2. CASE EvalRefused(s) \/ InferenceLock(s) \/ SlotExit(s) \/ StopSequence(s)
    BY <1>8, <2>2 DEF EvalRefused, InferenceLock, SlotExit, StopSequence, Return, GoTo, slotVars,
                      decoderVars, threadVars
  <2>3. CASE GenerationEnter(s) \/ GenerationLeave(s)
    BY <1>9, <2>3 DEF GenerationEnter, GenerationLeave, slotVars, decoderVars
  <2> QED BY <1>1, <1>10, <2>1, <2>2, <2>3 DEF SlotCall
<1>11. ASSUME NEW s \in Slots, SlotStep(s) PROVE Answers'
  <2>1. CASE PrefillTurn(s) \/ PrefillAbort(s) \/ PrefillLock(s) \/ PrefillLeave(s)
    BY <1>8, <2>1 DEF PrefillTurn, PrefillAbort, PrefillLock, PrefillLeave, Return, GoTo,
                      slotVars, decoderVars
  <2>2. CASE PrefillRun(s) \/ RewriteEnd(s)
    BY <1>8, <2>2 DEF PrefillRun, RewriteEnd, Return, GoTo, slotVars, decoderVars
  <2>3. ASSUME NEW sn, InferenceUnlock(s, sn) PROVE Answers'
    BY <1>8, <2>3 DEF InferenceUnlock, GoTo, slotVars, decoderVars
  <2>4. CASE PrefillSleep(s) \/ EvalSleep(s)
    BY <1>9, <2>4 DEF PrefillSleep, EvalSleep, slotVars, threadVars, decoderVars
  <2> QED BY <1>2, <1>11, <2>1, <2>2, <2>3, <2>4 DEF SlotStep
<1>12. CASE DecoderSleep \/ StopSignal \/ ModelStop \/ UNCHANGED vars
  BY <1>9, <1>12 DEF DecoderSleep, StopSignal, ModelStop, vars, slotVars, threadVars, decoderVars
<1> QED BY <1>3, <1>4, <1>5, <1>6, <1>7, <1>10, <1>11, <1>12 DEF Next, DecoderStep, MainStep

\* server_eval_token never reports a token that the session does not hold, and
\* never a failure for one that it does hold and would continue from
THEOREM AnswersTruthful == Spec => []AnswerMatchesSession
<1>1. Init => Answers
  BY DEF Init, Answers, At
<1>2. TypeOK /\ Requests /\ Answers /\ [Next]_vars => Answers'
  BY AnswersStep
<1>3. Answers => AnswerMatchesSession
  BY DEF Answers, AnswerMatchesSession, Holds
<1> QED BY <1>1, <1>2, <1>3, TypeCorrect, RequestsInvariant, PTL DEF Spec

-----------------------------------------------------------------------------
(* Round robin                                                             *)

\* Every turn another slot takes brings a waiting slot closer to its own
THEOREM TurnsApproachWaiters == Spec => TurnsApproach
<1>1. ASSUME TypeOK, [Next]_vars, NEW s \in Slots, NEW t \in Slots, s # t, prefillWaiting[s],
             At(t, "prefill_wait"), tpc'[t] = "prefill_lock"
      PROVE  Distance(s)' < Distance(s)
  \* No other action moves a thread from prefill_wait to prefill_lock
  <2> USE DEF At, GoTo, Call, Return
  <2>1. ASSUME NEW u \in Slots, SlotCall(u) PROVE tpc'[t] # "prefill_lock"
    <3>1. ASSUME NEW p, PrefillEnter(u, p) \/ RewriteBegin(u, p) PROVE tpc'[t] # "prefill_lock"
      BY <1>1, <3>1 DEF TypeOK, PrefillEnter, RewriteBegin
    <3>2. CASE GenerationEnter(u) \/ GenerationLeave(u) \/ StopSequence(u)
      BY <1>1, <3>2 DEF GenerationEnter, GenerationLeave, StopSequence, threadVars
    <3>3. CASE EvalToken(u) \/ EvalRefused(u) \/ InferenceLock(u) \/ SlotExit(u)
      BY <1>1, <3>3 DEF TypeOK, EvalToken, EvalRefused, InferenceLock, SlotExit
    <3> QED BY <2>1, <3>1, <3>2, <3>3 DEF SlotCall
  <2>2. ASSUME NEW u \in Slots, SlotStep(u) PROVE PrefillTurn(t)
    <3>1. CASE PrefillSleep(u) \/ EvalSleep(u)
      BY <1>1, <3>1 DEF PrefillSleep, EvalSleep, threadVars
    <3>2. CASE PrefillTurn(u)
      <4>1. u = t
        BY <1>1, <3>2 DEF TypeOK, PrefillTurn
      <4> QED BY <3>2, <4>1
    <3>3. CASE PrefillAbort(u) \/ PrefillLock(u) \/ PrefillRun(u) \/ PrefillLeave(u)
      BY <1>1, <3>3 DEF TypeOK, PrefillAbort, PrefillLock, PrefillRun, PrefillLeave
    <3>4. CASE EvalReturn(u) \/ RewriteEnd(u)
      BY <1>1, <3>4 DEF TypeOK, EvalReturn, RewriteEnd
    <3>5. ASSUME NEW sn, InferenceUnlock(u, sn) PROVE PrefillTurn(t)
      BY <1>1, <3>5 DEF TypeOK, InferenceUnlock
    <3> QED BY <2>2, <3>1, <3>2, <3>3, <3>4, <3>5 DEF SlotStep
  <2>3. ASSUME DecoderStep \/ StopSignal \/ MainStep \/ UNCHANGED vars PROVE PrefillTurn(t)
    BY <1>1, <2>3 DEF DecoderStep, DecoderSleep, DecoderExit, DecoderWake, DecoderCoalesced,
       DecoderClaim, DecoderLock, DecoderRun, DecoderPublish, StopSignal, MainStep,
       CancelDecodeWaiters, ModelStop, threadVars, vars
  <2>4. PrefillTurn(t)
    BY <1>1, <2>1, <2>2, <2>3 DEF Next
  <2>5. lastPrefill' = t /\ Distance(t) <= Distance(s)
    BY <1>1, <2>4 DEF PrefillTurn, PrefillMayRun, IsNextPrefill
  <2>6. s \in 0..SlotCount - 1 /\ t \in 0..SlotCount - 1 /\ lastPrefill \in 0..SlotCount - 1
    BY <1>1 DEF TypeOK, Slots
  <2> QED BY <1>1, <2>5, <2>6, SlotCountAssumption DEF Distance
<1>2. TypeOK /\ [Next]_vars =>
        [\A s, t \in Slots :
            /\ s # t /\ prefillWaiting[s]
            /\ At(t, "prefill_wait") /\ tpc'[t] = "prefill_lock"
            => Distance(s)' < Distance(s)]_vars
  BY <1>1
<1> QED BY <1>2, TypeCorrect, PTL DEF Spec, TurnsApproach
=============================================================================
