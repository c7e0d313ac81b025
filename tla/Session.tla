------------------------------ MODULE Session ------------------------------
(***************************************************************************)
(* p36_session as its callers see it: the live checkpoint (which           *)
(* conversation it is a prefix of, and how many tokens of it), whether the *)
(* checkpoint is valid, whether the runtime behind it is intact, that is,  *)
(* holds the KV rows and the recurrent state of exactly those tokens, and  *)
(* whether the logits are those after its last token.                      *)
(* A session that is invalid with len > 0 is the BROKEN state of           *)
(* p36_session_rewrite_from_common's comment: a forward pass failed and    *)
(* the cache is half written.                                              *)
(*                                                                         *)
(* Token contents are abstracted to a conversation name: two prompts of    *)
(* the same conversation share their tokens position by position, two      *)
(* prompts of different conversations share none.                          *)
(*                                                                         *)
(* Every operator returns the set of [sess, rc] a call may end with; the   *)
(* forward pass, the growth of the KV cache and the cancel callback are    *)
(* external, so each may fail wherever the code checks it.                 *)
(***************************************************************************)
EXTENDS Integers, FiniteSets

CONSTANTS Convs,    \* conversations a checkpoint can belong to
          Ctx       \* ctx_size: the context window, in tokens

ASSUME CtxAssumption == Ctx \in Nat /\ Ctx > 1
ASSUME ConvsAssumption == Convs # {}

Ok == 0
Failed == 1
Rc == {Ok, Failed}

Session == [conv : Convs, len : 0..Ctx, valid : BOOLEAN, intact : BOOLEAN, logits : BOOLEAN]

\* After p36_session_reset_runtime and checkpoint.len = 0
Reset(conv) == [conv |-> conv, len |-> 0, valid |-> FALSE, intact |-> TRUE, logits |-> FALSE]

\* p36_session_invalidate
Invalidated(sn) == Reset(sn.conv)

\* A checkpoint read back by p36_session_load_payload, logits included
Loaded(conv, n) == [conv |-> conv, len |-> n, valid |-> TRUE, intact |-> TRUE, logits |-> TRUE]

\* p36_session_common_prefix, with the prompt given as (conversation, length)
CommonPrefix(sn, conv, n) ==
    IF sn.valid /\ sn.conv = conv
    THEN IF sn.len < n THEN sn.len ELSE n
    ELSE 0

\* What a caller may reuse: the whole live checkpoint, or nothing
Reusable(sn, conv, n) ==
    IF CommonPrefix(sn, conv, n) = sn.len /\ n >= sn.len THEN sn.len ELSE 0

\* Mutant: a BROKEN checkpoint is extended like a valid one
SyncBaseTrusting(sn, conv, n) ==
    IF sn.conv = conv /\ n >= sn.len THEN sn ELSE Reset(conv)

\* The checkpoint p36_session_sync hands to p36_session_prefill_range: the live
\* one when the prompt extends it, an empty invalid one otherwise
SyncBase(sn, conv, n) ==
    IF sn.valid /\ sn.conv = conv /\ n >= sn.len
    THEN sn
    ELSE Reset(conv)

\* p36_session_reserve_kv refuses to grow past the context; the allocation
\* behind it may fail on its own
ReserveKv(need) == need <= Ctx

\* Chunks were appended up to token k; the one that ends at n computes logits
Grown(sn, k, n) ==
    IF k = sn.len THEN sn ELSE [sn EXCEPT !.len = k, !.valid = TRUE, !.logits = (k = n)]

\* The forward pass failed at token k: the cache is half written
Broken(sn, k) == [sn EXCEPT !.len = k, !.valid = FALSE, !.intact = FALSE, !.logits = FALSE]

\* p36_session_prefill_range: appends chunks until the end, a cancel, a failed
\* reservation (both leave a valid shorter checkpoint) or a failed forward
\* pass, which leaves the session BROKEN
PrefillRange(base, n) ==
    LET reached == {k \in base.len .. n - 1 : ReserveKv(k)}
    IN  {[sess |-> Grown(base, k, n), rc |-> Failed] : k \in reached}
          \cup {[sess |-> Broken(base, k), rc |-> Failed] : k \in reached}
          \cup (IF ReserveKv(n) THEN {[sess |-> Grown(base, n, n), rc |-> Ok]} ELSE {})

\* p36_session_sync: an empty prompt, or one that fills the context, is refused
Sync(sn, conv, n) ==
    IF n <= 0 \/ n >= Ctx
    THEN {[sess |-> sn, rc |-> Failed]}
    ELSE PrefillRange(SyncBase(sn, conv, n), n)

\* One token appended by p36_session_eval
Pushed(sn) == [sn EXCEPT !.len = @ + 1, !.valid = TRUE, !.logits = TRUE]

\* p36_session_eval: refused without effect (context exhausted, no KV memory),
\* appended, or BROKEN by a failed forward pass
Eval(sn) ==
    {[sess |-> sn, rc |-> Failed]}
      \cup (IF ReserveKv(sn.len + 1)
            THEN {[sess |-> Pushed(sn), rc |-> Ok],
                  [sess |-> Broken(sn, sn.len), rc |-> Failed]}
            ELSE {})

\* Mutant: a failed batch leaves the members that were advanced as they are
EvalBatchPartial(sns, members) ==
    {[sess |-> [m \in DOMAIN sns |-> IF m \in moved THEN Pushed(sns[m]) ELSE sns[m]],
      rc   |-> IF moved = members THEN Ok ELSE Failed] :
        moved \in SUBSET {m \in members : ReserveKv(sns[m].len + 1)}}

\* p36_sessions_eval_batch on the members' sessions: a batch of one is
\* p36_session_eval; otherwise every member is validated first and the step
\* then advances all of them or invalidates all of them
EvalBatch(sns, members) ==
    IF Cardinality(members) = 1
    THEN LET m == CHOOSE x \in members : TRUE
         IN  {[sess |-> [sns EXCEPT ![m] = o.sess], rc |-> o.rc] : o \in Eval(sns[m])}
    ELSE {[sess |-> sns, rc |-> Failed]}
           \cup (IF \A m \in members : ReserveKv(sns[m].len + 1)
                 THEN {[sess |-> [m \in DOMAIN sns |-> IF m \in members
                                                       THEN Pushed(sns[m]) ELSE sns[m]],
                        rc   |-> Ok],
                       [sess |-> [m \in DOMAIN sns |-> IF m \in members
                                                       THEN Invalidated(sns[m]) ELSE sns[m]],
                        rc   |-> Failed]}
                 ELSE {})

\* p36_session_rewrite_from_common: extend in place when the live checkpoint is
\* a prefix of the canonical one, otherwise rebuild through p36_session_sync
RewriteFromCommon(sn, conv, n) ==
    LET common == CommonPrefix(sn, conv, n)
    IN  IF common < sn.len \/ (~sn.valid /\ sn.len > 0)
        THEN Sync(sn, conv, n)
        ELSE IF common = n
             THEN {[sess |-> sn, rc |-> Ok]}
             ELSE PrefillRange([sn EXCEPT !.conv = conv, !.valid = TRUE], n)
=============================================================================
