-------------------------------- MODULE Cli --------------------------------
(***************************************************************************)
(* The chat and the one-shot generation of p36_cli.c: the transcript that  *)
(* every turn and every /command edits in place (the Think Max prefix and  *)
(* the system block sit in front of the turns and change with the thinking *)
(* mode), the images whose positions move with it, the session that is     *)
(* brought up to it, and the turns that fail, are interrupted or are       *)
(* rolled back.                                                            *)
(*                                                                         *)
(* A message, a marker and a block are a few symbols each; the pad of an   *)
(* image is one symbol, the same for every image, as in the vocabulary.    *)
(* The system prompt has a text, as the default one does.                  *)
(***************************************************************************)
EXTENDS Integers, Sequences, FiniteSets, SequencesExt

CONSTANTS
    Launches,       \* how the program may be started, see ChatLaunch
    CtxSizes,       \* what --ctx and /ctx ask for
    ThinkMaxCtx,    \* the context below which Think Max becomes high
    Predict,        \* n_predict
    Images,         \* the image files the user may /read
    MaxTurns        \* bound: turns begun

ThinkControls == {"keep", "on", "off"}      \* <|think_on|>, <|think_off|> in a text

\* what is settled before the first turn
ChatLaunch == [template : BOOLEAN,          \* does the engine have a chat template
           bos      : BOOLEAN,          \* does the model's vocabulary add a BOS token
           prefix   : BOOLEAN,          \* is there a --prefix-file
           system   : ThinkControls,    \* the thinking control of the system prompt
           max      : BOOLEAN]          \* will this user ever ask for Think Max

ASSUME CliAssumption == CtxSizes \subseteq Nat /\ Predict \in Int /\ Launches \subseteq ChatLaunch

VARIABLES
    cliPc,          \* "repl" at the prompt, "decode" in the token loop, "exit";
                    \* "oneshot" with a prompt on the command line, "generate" in its token loop
    given,          \* the launch
    cfgMode,        \* cfg->gen.think_mode
    chat,           \* repl_chat without its session
    sess,           \* chat->session; seen is what its KV rows were computed from
    turn,           \* locals of run_chat_turn
    interrupted,    \* cli_interrupted
    turns,          \* history variable: the turns the conversation consists of
    begun           \* turns begun

cliVars == <<cliPc, given, cfgMode, chat, sess, turn, interrupted, turns, begun>>

Modes == {"none", "high", "max"}
NoSession == [toks |-> <<>>, seen |-> <<>>, valid |-> FALSE, spans |-> <<>>, vision |-> FALSE]
NoLive == [len |-> 0, images |-> 0, thinking |-> FALSE, mode |-> "none", id |-> 0, max |-> 0, generated |-> 0]

-----------------------------------------------------------------------------
(* Blocks of the transcript                                                *)

MaxPrefix == <<"effort", "effort">>

\* p36_chat_begin
Bos == IF given.bos THEN <<"bos">> ELSE <<>>

\* append_cli_system_message
SystemBlock(mode) ==
    CASE ~given.template \/ mode = "none" -> <<"system", "text">>
      [] given.template /\ mode = "high" -> <<"system", "text", "high">>
      [] given.template /\ mode = "max" -> <<"system", "text", "max", "max">>

PromptPrefix == IF given.prefix THEN <<"pair">> ELSE <<>>
UserMessage(id) == IF id = 0 THEN <<"user">> ELSE <<"user", "pad", "end">>

\* in Think Max and without a template the effort prefix follows <think> once more: one symbol
AssistantPrefix(mode) ==
    CASE mode = "none" -> <<"nothink">> [] mode = "max" -> <<"thinkmax">> [] OTHER -> <<"think">>

\* repl_chat_append_assistant_suffix
AssistantSuffix == <<"eos", "nl">>

-----------------------------------------------------------------------------
(* The session (external: core)                                            *)

ImageAt(images, i) == {m \in 1..Len(images) : images[m].start = i - 1}

\* what a forward pass over toks with these images is conditioned on
Labelled(toks, images) ==
    [i \in 1..Len(toks) |->
        [tok |-> toks[i],
         id  |-> IF toks[i] = "pad" /\ ImageAt(images, i) # {}
                 THEN images[CHOOSE m \in ImageAt(images, i) : TRUE].id ELSE 0]]

\* p36_session_vision_prefix_matches
VisionMatches(s, images) ==
    /\ s.valid
    /\ Len(s.spans) <= Len(images)
    /\ \A i \in 1..Len(s.spans) : s.spans[i] = images[i]
    /\ ~(s.vision /\ s.spans = <<>>)
    /\ \A i \in Len(s.spans) + 1 .. Len(images) : images[i].start - 1 >= Len(s.toks)

\* the session once the prefill stopped after k symbols; vision_count counts the images it passed
Reached(base, toks, images, k, valid) ==
    LET passed == {m \in 1..Len(images) : images[m].start < k}
    IN  [toks |-> SubSeq(toks, 1, k), seen |-> base.seen \o SubSeq(Labelled(toks, images), Len(base.toks) + 1, k),
         valid |-> valid, spans |-> SubSeq(images, 1, Cardinality(passed)), vision |-> images # <<>>]

\* p36_session_sync and p36_session_sync_vision: [sess, rc] for every way they end; a KV
\* reservation that fails between two chunks leaves a valid shorter checkpoint, a failed
\* forward pass an invalid one
SyncChat(s, toks, images, ctx) ==
    LET extends == s.valid /\ IsPrefix(s.toks, toks)
        reuse == IF images = <<>> THEN extends /\ ~s.vision ELSE extends /\ VisionMatches(s, images)
        base == IF reuse THEN s ELSE NoSession
        n == Len(toks)
    IN  IF n >= ctx THEN {[sess |-> s, rc |-> 1]}
        ELSE {[sess |-> Reached(base, toks, images, n, TRUE), rc |-> 0]}
               \cup UNION {{[sess |-> Reached(base, toks, images, k, v), rc |-> 1] :
                               v \in {v \in BOOLEAN : v => (toks[k + 1] # "pad" /\ (k > 0 \/ base.valid))}} :
                              k \in Len(base.toks) .. n - 1}

-----------------------------------------------------------------------------
(* repl_chat                                                               *)

\* repl_chat_think_mode
ThinkMode(c) ==
    IF ~c.thinking THEN "none"
    ELSE IF c.enabled = "max" /\ c.ctx < ThinkMaxCtx THEN "high" ELSE c.enabled

\* p36_chat_apply_thinking_control
Controlled(thinking, control) ==
    CASE control = "off" -> FALSE [] control = "on" -> TRUE [] OTHER -> thinking

\* tokens_insert, tokens_remove
Inserted(toks, pos, block) ==
    IF pos > Len(toks) THEN toks \o block
    ELSE SubSeq(toks, 1, pos) \o block \o SubSeq(toks, pos + 1, Len(toks))
Removed(toks, pos, n) ==
    IF pos >= Len(toks) THEN toks ELSE SubSeq(toks, 1, pos) \o SubSeq(toks, pos + n + 1, Len(toks))
Shifted(images, delta) == [i \in DOMAIN images |-> [images[i] EXCEPT !.start = @ + delta]]

\* Mutant: the images stay where they were when the prefix comes and goes
ApplyMaxPrefixStill(c, enable) ==
    LET on == enable /\ ~given.template
    IN  IF on /\ c.maxPrefix = 0
        THEN [c EXCEPT !.toks = Inserted(@, 1, MaxPrefix), !.maxPrefix = Len(MaxPrefix),
                       !.sysPos = @ + Len(MaxPrefix)]
        ELSE IF ~on /\ c.maxPrefix > 0
        THEN [c EXCEPT !.toks = Removed(@, 1, c.maxPrefix), !.maxPrefix = 0, !.sysPos = @ - c.maxPrefix]
        ELSE c

\* repl_chat_apply_max_prefix
ApplyMaxPrefix(c, enable) ==
    LET on == enable /\ ~given.template
    IN  IF on /\ c.maxPrefix = 0
        THEN [c EXCEPT !.toks = Inserted(@, 1, MaxPrefix), !.maxPrefix = Len(MaxPrefix),
                       !.sysPos = @ + Len(MaxPrefix), !.images = Shifted(@, Len(MaxPrefix))]
        ELSE IF ~on /\ c.maxPrefix > 0
        THEN [c EXCEPT !.toks = Removed(@, 1, c.maxPrefix), !.maxPrefix = 0,
                       !.sysPos = @ - c.maxPrefix, !.images = Shifted(@, -c.maxPrefix)]
        ELSE c

\* repl_chat_sync_system
SystemMode(c) == IF given.template THEN ThinkMode(c) ELSE "none"
SystemCurrent(c) == c.sysInit /\ c.sysMode = SystemMode(c)
SyncSystem(c) ==
    LET block == SystemBlock(SystemMode(c))
    IN  IF SystemCurrent(c) THEN c
        ELSE [c EXCEPT !.toks = Inserted(Removed(@, c.sysPos, c.sysLen), c.sysPos, block),
                       !.images = Shifted(@, Len(block) - c.sysLen),
                       !.sysLen = Len(block), !.sysMode = SystemMode(c), !.sysInit = TRUE]

\* both, as every caller does, with the session they invalidate
Realigned(c, s, enable) ==
    LET c1 == ApplyMaxPrefix(c, enable)
    IN  [chat |-> SyncSystem(c1),
         sess |-> IF c1.maxPrefix # c.maxPrefix \/ ~SystemCurrent(c1) THEN NoSession ELSE s]
ForMode(c, s) == Realigned(c, s, ThinkMode(c) = "max")

\* repl_chat_init and repl_chat_reset up to the prefix's prefill
Fresh(mode, ctx) ==
    LET c == [toks |-> Bos, ctx |-> ctx, maxPrefix |-> 0, sysPos |-> Len(Bos), sysLen |-> 0,
              sysMode |-> "none", sysInit |-> FALSE,
              enabled |-> IF mode = "none" THEN "high" ELSE mode,
              thinking |-> Controlled(mode # "none", given.system), images |-> <<>>]
        r == ForMode(c, NoSession)
    IN  [r.chat EXCEPT !.toks = @ \o PromptPrefix]

CliInit ==
    /\ cliPc \in {"repl", "oneshot"} /\ given \in Launches
    /\ cfgMode \in Modes /\ (cfgMode = "max" => given.max)
    /\ \E ctx \in CtxSizes : chat = Fresh(cfgMode, ctx)
    /\ IF cliPc = "oneshot" \/ ~given.prefix THEN sess = NoSession
       ELSE sess \in {o.sess : o \in {o \in SyncChat(NoSession, chat.toks, <<>>, chat.ctx) : o.rc = 0}}
    /\ turn = NoLive /\ interrupted = FALSE /\ turns = <<>> /\ begun = 0

\* SIGINT: only the chat handles it
Sigint ==
    /\ cliPc # "exit" /\ ~interrupted
    /\ IF cliPc \in {"oneshot", "generate"} THEN cliPc' = "exit" /\ UNCHANGED interrupted
       ELSE interrupted' = TRUE /\ UNCHANGED cliPc
    /\ UNCHANGED <<given, cfgMode, chat, sess, turn, turns, begun>>

\* linenoise returned NULL with EAGAIN or an interrupt pending
PromptInterrupted ==
    /\ cliPc = "repl" /\ interrupted
    /\ interrupted' = FALSE
    /\ UNCHANGED <<cliPc, given, cfgMode, chat, sess, turn, turns, begun>>

\* /think, /think-high (and -low, -medium, -xhigh, which differ in name), /think-max, /nothink
Think(mode) ==
    /\ cliPc = "repl" /\ (mode = "max" => given.max)
    /\ cfgMode' = mode
    /\ LET c == [chat EXCEPT !.enabled = IF mode = "none" THEN "high" ELSE mode, !.thinking = mode # "none"]
           r == Realigned(c, sess, mode = "max" /\ ThinkMode(c) = "max")
       IN  chat' = r.chat /\ sess' = r.sess
    /\ UNCHANGED <<cliPc, given, turn, interrupted, turns, begun>>

\* /clear
Clear ==
    /\ cliPc = "repl"
    /\ chat' = Fresh(cfgMode, chat.ctx)
    /\ turns' = <<>>
    /\ IF given.prefix THEN \E o \in SyncChat(NoSession, chat'.toks, <<>>, chat.ctx) : sess' = o.sess
       ELSE sess' = NoSession
    /\ UNCHANGED <<cliPc, given, cfgMode, turn, interrupted, begun>>

\* /ctx N: the session is freed first, so a failed create ends the program
SetCtx(ctx) ==
    /\ cliPc = "repl"
    /\ \/ LET r == ForMode([chat EXCEPT !.ctx = ctx], NoSession)
          IN  chat' = r.chat /\ sess' = r.sess /\ cliPc' = cliPc
       \/ cliPc' = "exit" /\ chat' = [chat EXCEPT !.ctx = 0] /\ sess' = NoSession
    /\ UNCHANGED <<given, cfgMode, turn, interrupted, turns, begun>>

\* /quit, end of input
Quit ==
    /\ cliPc = "repl"
    /\ cliPc' = "exit"
    /\ UNCHANGED <<given, cfgMode, chat, sess, turn, interrupted, turns, begun>>

-----------------------------------------------------------------------------
(* run_chat_turn                                                           *)

\* run_chat_turn_rollback
Rollback(c, s, l) ==
    ForMode([c EXCEPT !.toks = SubSeq(@, 1, l.len), !.images = SubSeq(@, 1, l.images),
                      !.thinking = l.thinking], s)

\* the user's message could not take the image: undone by hand
AddImageFails(r) ==
    /\ chat' = r.chat /\ sess' = r.sess
    /\ UNCHANGED <<cliPc, turn, turns>>

\* the token budget once s is synced
Allowance(s, ctx) ==
    LET room == ctx - Len(s.toks)
    IN  IF room <= 1 THEN 0 ELSE IF Predict > room - 1 THEN room - 1 ELSE Predict

\* the tentative turn
BeginTurn(r, id, mode, old) ==
    LET user == UserMessage(id)
        c == [r.chat EXCEPT !.toks = @ \o user \o AssistantPrefix(mode),
                            !.images = IF id = 0 THEN @
                                       ELSE Append(@, [start |-> Len(r.chat.toks) + 1, id |-> id])]
        l == [len |-> Len(r.chat.toks), images |-> Len(r.chat.images), thinking |-> old,
              mode |-> mode, id |-> id, max |-> 0, generated |-> 0]
    IN  \E o \in SyncChat(r.sess, c.toks, c.images, c.ctx) :
           IF o.rc = 0
           THEN /\ chat' = c /\ sess' = o.sess /\ cliPc' = "decode"
                /\ turn' = [l EXCEPT !.max = Allowance(o.sess, c.ctx)]
                /\ UNCHANGED turns
           ELSE LET back == Rollback(c, o.sess, l)
                IN  chat' = back.chat /\ sess' = back.sess /\ UNCHANGED <<cliPc, turn, turns>>

\* a line of text, or /read of a text file or of an image that was encoded
Turn(id, control) ==
    /\ cliPc = "repl" /\ begun < MaxTurns
    /\ begun' = begun + 1
    /\ LET c == [chat EXCEPT !.thinking = Controlled(@, control)]
           r == ForMode(c, sess)
       IN  \/ id # 0 /\ AddImageFails(r)
           \/ BeginTurn(r, id, ThinkMode(c), chat.thinking)
    /\ UNCHANGED <<given, cfgMode, interrupted>>

\* one pass of the loop: p36_session_eval, or a speculative step whose last token may be EOS
Decoding == cliPc \in {"decode", "generate"} /\ turn.generated < turn.max /\ ~interrupted
Decode(n, eos) ==
    /\ Decoding /\ n <= turn.max - turn.generated
    /\ LET new == [i \in 1..n |-> "tok"]
           kept == IF eos THEN SubSeq(new, 1, n - 1) ELSE new
           all == IF eos THEN kept \o <<"eos">> ELSE new
       IN  /\ chat' = [chat EXCEPT !.toks = @ \o kept]
           /\ sess' = [sess EXCEPT !.toks = @ \o all, !.seen = @ \o Labelled(all, <<>>)]
           /\ turn' = [turn EXCEPT !.generated = @ + Len(kept), !.max = IF eos THEN 0 ELSE @]
    /\ UNCHANGED <<cliPc, given, cfgMode, interrupted, turns, begun>>

\* the first sampled token is EOS
SampledEos ==
    /\ Decoding
    /\ turn' = [turn EXCEPT !.max = 0]
    /\ UNCHANGED <<cliPc, given, cfgMode, chat, sess, interrupted, turns, begun>>

Kept(closed) == Append(turns, [id |-> turn.id, mode |-> turn.mode, n |-> turn.generated, closed |-> closed])

\* a turn of the chat and run_sampled_generation decode alike
ChatTokens(n, eos) == cliPc = "decode" /\ Decode(n, eos)
OneshotTokens(n, eos) == cliPc = "generate" /\ Decode(n, eos)

\* p36_session_eval fails: returns at once, with the turn's symbols left in the transcript
DecodeFails(broken) ==
    /\ Decoding
    /\ cliPc' = (IF cliPc = "generate" THEN "exit" ELSE "repl") /\ turn' = NoLive
    /\ sess' = IF broken THEN [sess EXCEPT !.valid = FALSE] ELSE sess
    /\ turns' = Kept(FALSE)
    /\ UNCHANGED <<given, cfgMode, chat, interrupted, begun>>

\* the end of the turn: rolled back when interrupted before any token, closed otherwise
EndTurn ==
    /\ cliPc = "decode" /\ (turn.generated >= turn.max \/ interrupted)
    /\ IF interrupted /\ turn.generated = 0
       THEN /\ chat' = Rollback(chat, sess, turn).chat /\ sess' = NoSession
            /\ UNCHANGED turns
       ELSE /\ chat' = [chat EXCEPT !.toks = @ \o AssistantSuffix]
            /\ turns' = Kept(TRUE) /\ UNCHANGED sess
    /\ cliPc' = "repl" /\ turn' = NoLive /\ interrupted' = FALSE
    /\ UNCHANGED <<given, cfgMode, begun>>

-----------------------------------------------------------------------------
(* run_generation with a prompt and a temperature or a draft model         *)
(* (run_sampled_generation); chat.toks is the prompt and what was printed  *)
(* after it                                                                *)

\* cli_prompt_think_mode
PromptMode(control, rendered) ==
    LET mode == IF cfgMode = "max" /\ chat.ctx < ThinkMaxCtx THEN "high" ELSE cfgMode
    IN  IF rendered THEN mode
        ELSE IF ~Controlled(Controlled(mode # "none", given.system), control) THEN "none"
        ELSE IF mode = "none" THEN "high" ELSE mode

\* build_prompt: a prompt that is rendered already, which parse_options refuses to a --prefix-file;
\* one behind a --prefix-file; and p36_encode_chat_prompt, where a chat template renders all of it
BuildPrompt(mode, rendered) ==
    IF rendered THEN <<"rendered">>
    ELSE IF given.prefix
    THEN Bos \o (IF mode = "max" /\ ~given.template THEN MaxPrefix ELSE <<>>) \o SystemBlock(mode)
             \o PromptPrefix \o UserMessage(0) \o AssistantPrefix(mode)
    ELSE (IF given.template THEN <<>> ELSE Bos) \o SystemBlock(mode) \o UserMessage(0) \o AssistantPrefix(mode)

\* up to the token loop; the session may not be created
Generate(control, rendered) ==
    LET mode == PromptMode(control, rendered)
        toks == BuildPrompt(mode, rendered)
    IN  /\ cliPc = "oneshot" /\ (rendered => ~given.prefix)
        /\ \/ cliPc' = "exit" /\ UNCHANGED <<chat, sess, turn>>
           \/ \E o \in SyncChat(NoSession, toks, <<>>, chat.ctx) :
                 /\ chat' = [chat EXCEPT !.toks = toks] /\ sess' = o.sess
                 /\ cliPc' = IF o.rc = 0 THEN "generate" ELSE "exit"
                 /\ turn' = [NoLive EXCEPT !.mode = mode, !.max = Allowance(o.sess, chat.ctx)]
        /\ UNCHANGED <<given, cfgMode, interrupted, turns, begun>>

\* the end of its token loop
GenerationEnds ==
    /\ cliPc = "generate" /\ turn.generated >= turn.max
    /\ cliPc' = "exit"
    /\ UNCHANGED <<given, cfgMode, chat, sess, turn, interrupted, turns, begun>>

CliNext ==
    \/ Sigint \/ PromptInterrupted \/ Clear \/ Quit \/ SampledEos \/ EndTurn \/ GenerationEnds
    \/ \E control \in ThinkControls, rendered \in BOOLEAN : Generate(control, rendered)
    \/ \E mode \in Modes : Think(mode)
    \/ \E ctx \in CtxSizes : SetCtx(ctx)
    \/ \E id \in Images \cup {0}, control \in ThinkControls : Turn(id, control)
    \/ \E n \in 1..2, eos \in BOOLEAN : (eos => n = 2) /\ (ChatTokens(n, eos) \/ OneshotTokens(n, eos))
    \/ \E broken \in BOOLEAN : DecodeFails(broken)

CliSpec == CliInit /\ [][CliNext]_cliVars

-----------------------------------------------------------------------------
(* Properties                                                              *)

\* the symbols of a turn, each pad with the image it stands for
Marked(s, id) == [i \in 1..Len(s) |-> [tok |-> s[i], id |-> IF s[i] = "pad" THEN id ELSE 0]]
TurnText(t) ==
    Marked(UserMessage(t.id) \o AssistantPrefix(t.mode) \o [i \in 1..t.n |-> "tok"]
             \o (IF t.closed THEN AssistantSuffix ELSE <<>>), t.id)

\* a conversation as it would be rendered from scratch in a thinking mode
SaidText(said) ==
    LET text[i \in 0..Len(said)] == IF i = 0 THEN <<>> ELSE text[i - 1] \o TurnText(said[i])
    IN  text[Len(said)]
RenderedChat(mode, said) ==
    LET head == Bos \o (IF mode = "max" /\ ~given.template THEN MaxPrefix ELSE <<>>)
                  \o SystemBlock(IF given.template THEN mode ELSE "none") \o PromptPrefix
    IN  Labelled(head, <<>>) \o SaidText(said)

\* Without a BOS token repl_chat_apply_max_prefix puts the effort prefix behind a token of the system
\* message, so ChatExact speaks of the launches where it never has to
Placed == given.bos \/ given.template \/ ~given.max

\* The prompts of build_prompt that are put together as the chat puts its first turn together.
\* p36_encode_chat_prompt leaves out the BOS token of a template and the leading effort prefix of
\* Think Max without one, and says nothing of a rendered prompt.
AsChat ==
    /\ chat.toks[1] # "rendered"
    /\ given.prefix \/ (IF given.template THEN ~given.bos ELSE turn.mode # "max")

\* ChatExact: whatever the order of /think, /nothink, /ctx, /clear, image turns, failures and
\* interrupts, the transcript edited in place is at the prompt exactly the conversation rendered
\* from scratch, with every image span at its own pad (repl_chat_apply_max_prefix,
\* repl_chat_sync_system, run_chat_turn_rollback); and the KV cache that tokens are sampled from
\* was computed from this transcript and these images, although pads do not tell images apart.
\* A turn whose decode failed is part of that conversation, unanswered: nothing rolls it back
\* (AbandonedUndone).  A prompt on the command line is the chat's first turn where AsChat says so.
ChatExact ==
    Placed =>
        /\ cliPc = "repl" => Labelled(chat.toks, chat.images) = RenderedChat(ThinkMode(chat), turns)
        /\ cliPc = "generate" /\ AsChat =>
               Labelled(chat.toks, <<>>) =
                   RenderedChat(turn.mode, <<[id |-> 0, mode |-> turn.mode, n |-> turn.generated, closed |-> FALSE]>>)
        /\ Decoding => sess.valid /\ sess.seen = Labelled(chat.toks, chat.images)

-----------------------------------------------------------------------------
(* What a comment of p36_cli.c says, and the code does not do              *)

\* AbandonedUndone: a turn that was given up before any assistant token was kept has left the
\* transcript (run_chat_turn_rollback, "Shared by every path that abandons the turn before any
\* assistant token was kept"): at the prompt no unanswered turn stands at its end
AbandonedUndone ==
    cliPc = "repl" =>
        \A id \in Images \cup {0}, mode \in Modes : ~IsSuffix(UserMessage(id) \o AssistantPrefix(mode), chat.toks)
=============================================================================
