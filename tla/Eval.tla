-------------------------------- MODULE Eval --------------------------------
(***************************************************************************)
(* The evaluation program (p36_eval.c): a loop over benchmark cases, each  *)
(* prefilled, generated within a budget that keeps room for the answer,    *)
(* graded and traced, while an input thread queues the keys of a user who  *)
(* pauses, quits, or jumps to another case at any time.                    *)
(*                                                                         *)
(* Cases are numbered from 0.  The main thread looks at the queued keys    *)
(* only where the code calls tui_consume_input; the key thread runs        *)
(* between any two steps.                                                  *)
(***************************************************************************)
EXTENDS EvalGrade, Integers

CONSTANTS
    CoreCases, HardCases,   \* sequences of cases: [source, smoke, kind, key, prompt, budget, question]
    Runs,           \* options: [suite, source, limit, tokens, tokens_set, words, tty, think, close,
                    \* retry, sequence, ctx, hard, soft]; words are what the model may say, close is
                    \* the number of tokens of "</think>", ctx is 0 for --ctx auto
    MaxContext,     \* EVAL_MAX_CONTEXT
    ThinkMaxMin,    \* p36_think_max_min_context
    KeyPresses,        \* bound: keys pressed
    MaxRuns         \* bound: cases started

\* the benchmark's cases, and the options that parse_options lets through
EvalCases == {CoreCases[i] : i \in DOMAIN CoreCases} \cup {HardCases[i] : i \in DOMAIN HardCases}
EvalOptions ==
    [suite : STRING, source : STRING, limit : Nat, tokens : Nat \ {0}, tokens_set : BOOLEAN,
     words : SUBSET STRING, tty : BOOLEAN, think : STRING, close : Nat \ {0}, retry : BOOLEAN,
     sequence : Seq(Int), ctx : Nat, hard : Nat, soft : Nat]

ASSUME EvalAssumption ==
    /\ CoreCases \in Seq(EvalCases) /\ HardCases \in Seq(EvalCases)
    /\ \A c \in EvalCases : c.prompt \in Nat /\ c.budget \in Nat
    /\ Runs \subseteq EvalOptions
    /\ MaxContext \in Nat \ {0} /\ ThinkMaxMin \in Nat

VARIABLES
    cfg,            \* eval_config
    chosen,         \* main's cases and case_sequence, and whether the context was sized for them
    epc,            \* where main is
    keys,           \* global_input: [move, enter, pause, quit]
    ui,             \* eval_ui
    cur,            \* run_one_case: [idx, limit, raw, in_think, forced, retried]
    seqPos,         \* sequence_pos
    trace,          \* the trace file
    log,            \* the records written to it
    rc,             \* the exit code of main's loop
    pressed, started

config == <<cfg, chosen>>
evalVars == <<config, epc, keys, ui, cur, seqPos, trace, log, rc, pressed, started>>

NoKeys == [move |-> 0, enter |-> FALSE, pause |-> FALSE, quit |-> FALSE]
NoCase == [idx |-> 0, limit |-> 0, raw |-> <<>>, in_think |-> FALSE, forced |-> 0, retried |-> FALSE]
NCases == Len(chosen.cases)
CaseAt(i) == chosen.cases[i + 1]
Running == {"PREFILL", "THINKING"}

\* tui_start, for n cases
NewUi(n) == [status |-> [i \in 0..(n - 1) |-> "PENDING"], active |-> 0, selected |-> 0,
             selecting |-> FALSE, requested |-> -1, paused |-> FALSE, quit |-> FALSE]

EvalInit ==
    /\ cfg \in Runs /\ chosen = [cases |-> <<>>, seq |-> <<>>, sized |-> FALSE]
    /\ epc = "start" /\ keys = NoKeys /\ cur = NoCase /\ seqPos = 0 /\ ui = NewUi(0)
    /\ trace = <<>> /\ log = <<>> /\ rc = 0 /\ pressed = 0 /\ started = 0

-----------------------------------------------------------------------------
(* main up to its loop                                                     *)

Thinks == cfg.think # "none"

\* eval_case_generation_budget
BudgetOf(c, retry) ==
    LET b == (IF ~cfg.tokens_set /\ c.budget # 0 THEN c.budget ELSE cfg.tokens) * (IF retry THEN 2 ELSE 1)
    IN IF b > MaxContext THEN MaxContext ELSE b

\* the checks at the end of parse_options
OptionsAccepted ==
    /\ cfg.tokens <= MaxContext /\ cfg.ctx <= MaxContext
    /\ Thinks => cfg.hard < cfg.tokens /\ cfg.soft >= cfg.hard

\* the members of s at the places of I, in their order
Only(s, I) ==
    LET kept[i \in 0..Len(s)] ==
            IF i = 0 THEN <<>> ELSE IF i \in I THEN Append(kept[i - 1], s[i]) ELSE kept[i - 1]
    IN  kept[Len(s)]

\* select_eval_cases; <<>> also stands for a --questions that asks for more than there are
SelectCases ==
    LET core == IF cfg.suite \in {"core", "all"} THEN CoreCases ELSE <<>>
        hard == IF cfg.suite \in {"hard", "all"} THEN HardCases
                ELSE IF cfg.suite = "hard-smoke" THEN Only(HardCases, {i \in DOMAIN HardCases : HardCases[i].smoke}) ELSE <<>>
        suite == core \o hard
        matching == Only(suite, {i \in DOMAIN suite : cfg.source \in {"", suite[i].source}})
    IN IF cfg.limit > Len(matching) THEN <<>>
       ELSE SubSeq(matching, 1, IF cfg.limit > 0 THEN cfg.limit ELSE Len(matching))

\* eval_hard_limit_conflict
HardLimitConflict(cases) ==
    Thinks /\ \E i \in DOMAIN cases : BudgetOf(cases[i], FALSE) <= cfg.hard

\* parse_case_sequence of a text of numbers, commas and spaces; <<>> is its failure
Comma == -1
Space == -2
NoSequence == <<Space>>    \* the option is not given
ParseSequence(text, n) ==
    LET t == Only(text, {i \in DOMAIN text : text[i] # Space})
        ok == \A i \in DOMAIN t : IF i % 2 = 1 THEN t[i] \in 1..n ELSE t[i] = Comma
    IN IF ok THEN [i \in 1..((Len(t) + 1) \div 2) |-> t[2 * i - 1] - 1] ELSE <<>>

\* the prompt of a case under the thinking mode that a context allows
\* (p36_think_mode_for_context): maximal thinking adds a token to it
PromptLen(c, ctx) == c.prompt + (IF cfg.think = "max" /\ ctx >= ThinkMaxMin THEN 1 ELSE 0)

Largest(S) == CHOOSE x \in S : \A y \in S : y <= x

\* eval_max_prompt_tokens and eval_max_generation_budget
MaxPrompt(cases, ctx) == Largest({PromptLen(cases[i], ctx) : i \in DOMAIN cases})
MaxBudget(cases) == Largest({BudgetOf(cases[i], cfg.retry) : i \in DOMAIN cases})

\* eval_auto_context_size: three rounds, since the prompt depends on the context; 0 is the exit
AutoContext(cases) ==
    LET Required(ctx) == LET r == MaxPrompt(cases, ctx) + MaxBudget(cases)
                             least == IF cfg.think = "max" THEN ThinkMaxMin ELSE 1
                         IN IF r < least THEN least ELSE r
        Round(ctx) == IF ctx = 0 \/ Required(ctx) > MaxContext THEN 0 ELSE Required(ctx)
    IN Round(Round(Round(MaxContext)))

\* the exits with 2 (usage) and 1 (the engine or the session cannot be opened), or the first round
Start ==
    LET cases == SelectCases
        text == cfg.sequence
        seq == IF text = NoSequence THEN <<>> ELSE ParseSequence(text, Len(cases))
        ctx == IF cfg.ctx = 0 THEN AutoContext(cases) ELSE cfg.ctx
        refused == \/ ~OptionsAccepted \/ cases = <<>> \/ HardLimitConflict(cases)
                   \/ text # NoSequence /\ seq = <<>>
    IN /\ epc = "start"
       /\ \/ /\ ~refused /\ ctx # 0
             /\ cfg' = [cfg EXCEPT !.ctx = ctx]
             /\ chosen' = [cases |-> cases, seq |-> seq, sized |-> cfg.ctx = 0]
             /\ ui' = NewUi(Len(cases)) /\ epc' = "top" /\ trace' = TraceHeader /\ rc' = rc
          \/ /\ epc' = "exit" /\ UNCHANGED <<config, ui, trace>>
             /\ rc' = IF refused \/ ctx = 0 THEN 2 ELSE 1
       /\ UNCHANGED <<keys, cur, seqPos, log, pressed, started>>

-----------------------------------------------------------------------------
(* Keys                                                                    *)

\* input_thread_main and input_queue_key
Press(k) ==
    /\ cfg.tty /\ epc \notin {"start", "done", "exit"} /\ pressed < KeyPresses
    /\ pressed' = pressed + 1
    /\ keys' = CASE k = "up" -> [keys EXCEPT !.move = @ - 1]
                 [] k = "down" -> [keys EXCEPT !.move = @ + 1]
                 [] k = "enter" -> [keys EXCEPT !.enter = TRUE]
                 [] k = "p" -> [keys EXCEPT !.pause = TRUE]
                 [] k = "q" -> [keys EXCEPT !.quit = TRUE]
    /\ UNCHANGED <<config, epc, ui, cur, seqPos, trace, log, rc, started>>

Clamped(i) == IF i < 0 THEN 0 ELSE IF i >= NCases THEN NCases - 1 ELSE i
Selecting(u) == IF u.selecting THEN u ELSE [u EXCEPT !.selected = u.active, !.selecting = TRUE]
Moved(u) == IF keys.move = 0 THEN u
            ELSE [Selecting(u) EXCEPT !.selected = Clamped(Selecting(u).selected + keys.move)]
Entered(u) ==
    LET v == Selecting(u) IN
    IF ~keys.enter THEN u
    ELSE IF v.selected # v.active \/ v.status[v.active] \notin Running
    THEN [v EXCEPT !.requested = v.selected] ELSE v

\* tui_consume_input
ConsumedBy(u) ==
    IF ~cfg.tty THEN u
    ELSE IF keys.quit THEN [u EXCEPT !.quit = TRUE, !.paused = FALSE]
    ELSE Entered(Moved([u EXCEPT !.paused = IF keys.pause THEN ~@ ELSE @]))
Consumed == ConsumedBy(ui)

\* consume the keys, then go on at next, or wait there while paused (tui_wait_if_paused)
Consume(next, waiting) ==
    /\ ui' = Consumed /\ keys' = NoKeys
    /\ epc' = IF Consumed.paused THEN waiting ELSE next

Waits == [pick_wait |-> "pick", prefill_wait |-> "prefill", synced_wait |-> "synced", token_wait |-> "token"]
Wait ==
    /\ epc \in DOMAIN Waits /\ keys # NoKeys
    /\ Consume(Waits[epc], epc)
    /\ UNCHANGED <<config, cur, seqPos, trace, log, rc, pressed, started>>

-----------------------------------------------------------------------------
(* main's loop                                                             *)

\* the top of the loop
Top ==
    /\ epc = "top"
    /\ IF chosen.seq # <<>> /\ seqPos >= Len(chosen.seq)
       THEN epc' = "done" /\ UNCHANGED <<ui, keys, cur, seqPos>>
       ELSE /\ keys' = NoKeys
            /\ LET u == IF chosen.seq = <<>> THEN Consumed
                        ELSE ConsumedBy([ui EXCEPT !.selected = chosen.seq[seqPos + 1], !.selecting = FALSE])
               IN ui' = u /\ epc' = IF u.paused THEN "pick_wait" ELSE "pick"
            /\ cur' = IF chosen.seq = <<>> THEN cur ELSE [cur EXCEPT !.idx = chosen.seq[seqPos + 1]]
            /\ seqPos' = IF chosen.seq = <<>> THEN 0 ELSE seqPos + 1
    /\ UNCHANGED <<config, trace, log, rc, pressed, started>>

\* the budget, or the room the context leaves
Budget(i, retry) == BudgetOf(CaseAt(i), retry)
Limit(i, retry) ==
    LET room == cfg.ctx - PromptLen(CaseAt(i), cfg.ctx)
    IN IF room < Budget(i, retry) THEN room ELSE Budget(i, retry)

\* trace_write_case
Traced(i, status, picked, output) ==
    LET r == [idx |-> i, status |-> status, picked |-> picked, output |-> output]
    IN log' = Append(log, r) /\ trace' = trace \o WriteCase(r, CaseAt(i).question)

\* run_one_case up to the prefill: a prompt that leaves no room is skipped
BeginCase(i, retry, u) ==
    LET v == [u EXCEPT !.active = i, !.selected = IF u.selecting THEN @ ELSE i] IN
    /\ started < MaxRuns /\ started' = started + 1
    /\ IF Limit(i, retry) < 1
       THEN /\ ui' = [v EXCEPT !.status[i] = "SKIPPED"]
            /\ Traced(i, "SKIPPED", <<>>, <<>>)
            /\ epc' = "next" /\ cur' = [NoCase EXCEPT !.idx = i]
       ELSE /\ ui' = [v EXCEPT !.status[i] = "PREFILL", !.requested = -1]
            /\ epc' = "prefill"
            /\ cur' = [idx |-> i, limit |-> Limit(i, retry), raw |-> <<>>, in_think |-> Thinks,
                       forced |-> 0, retried |-> retry]
            /\ UNCHANGED <<trace, log>>

\* quit, or the case asked for, or the next one
Pick ==
    /\ epc = "pick"
    /\ IF ui.quit THEN epc' = "done" /\ UNCHANGED <<ui, cur, trace, log, started>>
       ELSE IF chosen.seq = <<>> /\ ui.requested >= 0
       THEN BeginCase(ui.requested, FALSE,
                  [ui EXCEPT !.requested = -1, !.selecting = FALSE, !.selected = ui.requested])
       ELSE BeginCase(cur.idx, FALSE, ui)
    /\ UNCHANGED <<config, keys, seqPos, rc, pressed>>

\* mutant: the search for the next case ends at the last one
NextPendingOnward(i) ==
    LET P == {j \in i..(NCases - 1) : ui.status[j] = "PENDING"} IN First(P, -1)

\* next_pending_case: around from the case after
NextPending(i) ==
    LET P == {d \in 0..(NCases - 1) : ui.status[(i + d) % NCases] = "PENDING"}
    IN IF P = {} THEN -1 ELSE (i + First(P, 0)) % NCases

\* after a case that ended, was skipped or was left for another
NextCaseOf ==
    /\ epc = "next"
    /\ LET asked == ui.requested
           n == IF asked >= 0 THEN asked ELSE NextPending(cur.idx + 1)
           u == [ui EXCEPT !.quit = FALSE]
       IN IF chosen.seq # <<>> THEN epc' = "top" /\ ui' = u /\ cur' = cur
          ELSE IF n < 0 THEN epc' = "done" /\ ui' = u /\ cur' = cur
          ELSE epc' = "top" /\ cur' = [NoCase EXCEPT !.idx = n]
               /\ ui' = [u EXCEPT !.requested = -1, !.selecting = FALSE, !.selected = n]
    /\ UNCHANGED <<config, keys, seqPos, trace, log, rc, pressed, started>>

-----------------------------------------------------------------------------
(* run_one_case                                                            *)

\* eval_mark_run_error and the end of the loop
RunError ==
    /\ ui' = [ui EXCEPT !.status[cur.idx] = IF @ \in Running THEN "STOPPED" ELSE @]
    /\ rc' = 1 /\ epc' = "done"
    /\ Traced(cur.idx, "ERROR", <<>>, cur.raw)
    /\ UNCHANGED <<keys, cur>>

\* eval_prefill_progress, the end of p36_session_sync, or its failure
Prefill ==
    /\ epc = "prefill"
    /\ \/ keys # NoKeys /\ Consume("prefill", "prefill_wait") /\ UNCHANGED <<cur, trace, log, rc>>
       \/ Consume("synced", "synced_wait") /\ UNCHANGED <<cur, trace, log, rc>>
       \/ RunError
    /\ UNCHANGED <<config, seqPos, pressed, started>>

SwitchAsked(u) == u.requested >= 0 /\ u.requested # cur.idx

\* the case is stopped by q, or goes back to the pending ones when another is asked for
Stop(u) ==
    /\ u.quit /\ epc' = "done" /\ ui' = [u EXCEPT !.status[cur.idx] = "STOPPED"]
    /\ Traced(cur.idx, "STOPPED", <<>>, cur.raw) /\ UNCHANGED <<cur, rc>>

Switch(u) ==
    /\ ~u.quit /\ SwitchAsked(u) /\ epc' = "next" /\ ui' = [u EXCEPT !.status[cur.idx] = "PENDING"]
    /\ Traced(cur.idx, "SWITCHED", <<>>, cur.raw) /\ UNCHANGED <<cur, rc>>

Synced ==
    /\ epc = "synced"
    /\ \/ Stop(ui) \/ Switch(ui)
       \/ /\ ~ui.quit /\ ~SwitchAsked(ui)
          /\ epc' = "loop" /\ ui' = [ui EXCEPT !.status[cur.idx] = "THINKING"]
          /\ UNCHANGED <<cur, trace, log, rc>>
    /\ UNCHANGED <<config, keys, seqPos, pressed, started>>

\* the head of the token loop: the budget, then the keys
LoopHead ==
    /\ epc = "loop"
    /\ IF Len(cur.raw) >= cur.limit
       THEN epc' = "grade" /\ UNCHANGED <<ui, keys, cur, trace, log, rc>>
       ELSE /\ keys' = NoKeys
            /\ \/ Stop(Consumed) \/ Switch(Consumed)
               \/ /\ ~Consumed.quit /\ ~SwitchAsked(Consumed) /\ ui' = Consumed
                  /\ epc' = IF Consumed.paused THEN "token_wait" ELSE "token"
                  /\ UNCHANGED <<cur, trace, log, rc>>
    /\ UNCHANGED <<config, seqPos, pressed, started>>

\* what follows a token: half of the close tag when it takes two, the tag, or a word
Emit(w, forced) ==
    /\ epc' = "loop"
    /\ cur' = [cur EXCEPT !.raw = Append(@, w), !.forced = forced, !.in_think = @ /\ w # "close"]
    /\ UNCHANGED <<ui, trace, log, rc>>
CloseTag == IF cfg.close = 1 THEN Emit("close", 0) ELSE Emit("half", 1)

\* the budget controller: only while thinking; a close tag under way is finished first
Remaining == cur.limit - Len(cur.raw)
\* mutant: one token late
HardCloseLate == cur.in_think /\ cur.forced = 0 /\ Remaining < cfg.hard
HardClose == cur.in_think /\ cur.forced = 0 /\ Remaining <= cfg.hard
SoftClose == cur.in_think /\ cur.forced = 0 /\ ~HardClose /\ Remaining <= cfg.soft /\ cfg.close = 1

\* one token: forced, or sampled; an end of sequence while thinking becomes the close tag when
\* that is one token
Token ==
    /\ epc = "token" /\ ~ui.quit /\ ~SwitchAsked(ui)
    /\ \/ cur.forced = 1 /\ Emit("close", 0)
       \/ (HardClose \/ SoftClose) /\ CloseTag
       \/ /\ cur.forced = 0 /\ ~HardClose
          /\ \/ \E w \in cfg.words : Emit(w, 0)
             \/ cur.in_think /\ Emit("close", 0)
             \/ (~cur.in_think \/ cfg.close > 1) /\ epc' = "grade" /\ UNCHANGED <<ui, cur, trace, log, rc>>
       \/ RunError
    /\ UNCHANGED <<config, keys, seqPos, pressed, started>>

\* quit or switch after a pause
TokenLeft ==
    /\ epc = "token" /\ (Stop(ui) \/ Switch(ui))
    /\ UNCHANGED <<config, keys, seqPos, pressed, started>>

\* grading, and the retry of an incomplete case with twice the budget
Verdict(c) ==
    LET got == StrictAnswer(c.kind, cur.raw) IN
    IF ~Complete(cur.raw) THEN "INCOMPLETE" ELSE IF Matches(c.kind, c.key, got) THEN "PASSED" ELSE "FAILED"

Grade ==
    /\ epc = "grade"
    /\ LET c == CaseAt(cur.idx)
           v == Verdict(c)
       IN /\ ui' = [ui EXCEPT !.status[cur.idx] = v]
          /\ Traced(cur.idx, v, StrictAnswer(c.kind, cur.raw), cur.raw)
          /\ epc' = IF v = "INCOMPLETE" /\ cfg.retry /\ ~cur.retried THEN "retry" ELSE "next"
    /\ UNCHANGED <<config, keys, cur, seqPos, rc, pressed, started>>

Retry ==
    /\ epc = "retry" /\ BeginCase(cur.idx, TRUE, ui)
    /\ UNCHANGED <<config, keys, seqPos, rc, pressed>>

\* print_eval_report, the summary in the trace, and main's exit code
Report ==
    /\ epc = "done" /\ epc' = "exit"
    /\ trace' = trace \o TraceSummary
    /\ rc' = IF rc # 0 \/ \E i \in DOMAIN ui.status : ui.status[i] \in {"FAILED", "INCOMPLETE"} THEN 1 ELSE 0
    /\ UNCHANGED <<config, keys, ui, cur, seqPos, log, pressed, started>>

-----------------------------------------------------------------------------

\* When main's loop ends by itself, every case was run to its end: none is left pending or
\* running however the user jumped between cases; and no q is dropped: a case that ends or is
\* left never carries a quit that main's "stale quit flag" reset would clear.  The exit code is
\* what the trace says: 0 only when the last record of no case is a failure.
CasesAccounted ==
    /\ epc = "exit" /\ rc = 0 =>
           \A i \in DOMAIN log :
               (\A j \in DOMAIN log : j > i => log[j].idx # log[i].idx)
                   => log[i].status \notin {"FAILED", "INCOMPLETE", "ERROR"}
    /\ epc = "done" /\ chosen.seq = <<>> /\ rc = 0 /\ ~ui.quit =>
           \A i \in DOMAIN ui.status : ui.status[i] \notin Running \cup {"PENDING"}
    /\ epc = "next" => ~ui.quit

\* A case that uses up its budget was given the room for an answer that the hard limit
\* promises: whatever the model did, that many tokens follow </think>.  In a context that was
\* sized for the cases, none is cut short or skipped, its retry with twice the budget included.
AnswerRoom ==
    LET reserve == IF cur.limit < cfg.hard THEN cur.limit ELSE cfg.hard
        close == First(Positions(cur.raw, {"close"}), 0)
    IN /\ chosen.sized /\ epc \in {"prefill", "next"} =>
           ui.status[cur.idx] # "SKIPPED" /\ cur.limit \in {0, Budget(cur.idx, cur.retried)}
       /\ epc = "grade" /\ Thinks /\ Len(cur.raw) = cur.limit /\ reserve >= cfg.close =>
           close > 0 /\ cur.limit - close >= reserve - cfg.close

\* A trace reads back as it was written, whatever the output looks like (trace_write_block's
\* byte counts), and regrading it gives the verdict of the run wherever the final line named
\* an answer and thinking was closed once; interrupted cases are not graded.
RegradeAgrees ==
    epc = "exit" =>
        LET back == ReadTrace(trace) IN
        /\ back = log
        /\ \A i \in DOMAIN log :
               LET r == log[i]
                   c == CaseAt(r.idx)
                   once == \A x, y \in Positions(r.output, {"close"}) : x = y
               IN IF r.status \notin {"PASSED", "FAILED"} THEN Regrade(r, c.kind, c.key) = "not_graded"
                  ELSE r.picked # <<>> /\ once => Regrade(r, c.kind, c.key) = r.status

EvalNext ==
    \/ \E k \in {"up", "down", "enter", "p", "q"} : Press(k)
    \/ Start \/ Report \/ Wait \/ Top \/ Pick \/ NextCaseOf \/ Prefill \/ Synced \/ LoopHead \/ Token \/ TokenLeft
    \/ Grade \/ Retry

EvalSpec == EvalInit /\ [][EvalNext]_evalVars
=============================================================================
