----------------------------- MODULE MCPrograms -----------------------------
(***************************************************************************)
(* The programs around the server, side by side in one run: they share no  *)
(* state, and a behaviour runs the part it starts in and leaves the others *)
(* at rest.                                                                *)
(***************************************************************************)
EXTENDS MCLineEdit, Remote, Web, Eval, MCCli, TextScan, Quantize, Bench, Streaming

VARIABLE part

-----------------------------------------------------------------------------
(* Remote: streamed and plain replies, chunked or not, cut anywhere.       *)

Event(k, a) == <<[part |-> "first", ev |-> [kind |-> k, arg |-> a]],
                 [part |-> "second", ev |-> [kind |-> k, arg |-> a]]>>
Frame(p, a) == [part |-> p, ev |-> [kind |-> "none", arg |-> a]]
Headers(chunked) == <<Frame("header", 0), Frame("header", chunked), Frame("blank", 0)>>
Chunk(d) == <<Frame("size", Len(d)), Frame("eol", 0)>> \o d \o <<Frame("eol", 0)>>
Chunked(s, n) == Chunk(SubSeq(s, 1, n)) \o Chunk(SubSeq(s, n + 1, Len(s)))
                 \o <<Frame("size", 0), Frame("eol", 0), Frame("eol", 0)>>
Streamed == Event("text", 1) \o <<LF>> \o Event("call", 1) \o <<LF>> \o Event("finish", 0)
            \o <<LF>> \o Event("done", 0) \o <<LF>>
Spoiled == Event("text", 1) \o <<LF>> \o Event("call", 64) \o <<LF>> \o Event("error", 0)
           \o <<LF>> \o Event("finish", 0)
Ok(w) == [status |-> 200, wire |-> w, cut |-> TRUE]
ServerReplies ==
    {Ok(Headers(1) \o Chunked(Streamed, n)) : n \in {1, 4, 6}} \cup
    {Ok(Headers(0) \o Streamed), Ok(Headers(0) \o Spoiled), Ok(Headers(0) \o Event("message", 2)),
     Ok(Headers(1) \o Chunked(Event("message", 2), 1)),
     [status |-> 500, wire |-> Headers(0) \o Event("text", 1), cut |-> FALSE],
     Ok(<<>>)}

-----------------------------------------------------------------------------
(* Eval: runs with a keyboard, a case that does not fit and one that is    *)
(* retried; runs whose model says anything that could be an answer.        *)

ACase(source, kind, key, prompt, budget, q) ==
    [source |-> source, smoke |-> FALSE, kind |-> kind, key |-> key, prompt |-> prompt,
     budget |-> budget, question |-> q]
Choice(source, prompt, budget) == ACase(source, "choice", {"A"}, prompt, budget, <<>>)
CoreSuite == <<Choice("jump", 1, 3), Choice("order", 1, 2), Choice("jump", 9, 3), Choice("order", 1, 2),
               Choice("jump", 1, 3)>>
HardSuite == <<ACase("choice", "choice", {"A"}, 1, 4, <<"begin", "nl", "case">>),
               [ACase("integer", "integer", {"1"}, 1, 5, <<"nl">>) EXCEPT !.smoke = TRUE],
               ACase("lines", "line_set", {"1"}, 1, 5, <<"end">>),
               ACase("text", "text", {"1"}, 1, 5, <<>>),
               [Choice("integer", 3, 5) EXCEPT !.smoke = TRUE], Choice("text", 2, 5)>>
Plain == [suite |-> "hard", source |-> "", limit |-> 1, tokens |-> 6, tokens_set |-> FALSE, words |-> {"ans"},
          tty |-> FALSE, think |-> "none", close |-> 1, retry |-> FALSE, sequence |-> NoSequence,
          ctx |-> 9, hard |-> 2, soft |-> 3]
EvalRuns == {
    [Plain EXCEPT !.suite = "core", !.source = "jump", !.limit = 0, !.words = {"w"}, !.tty = TRUE,
                  !.think = "high", !.close = 2, !.ctx = 4],
    [Plain EXCEPT !.suite = "all", !.source = "order", !.limit = 2, !.tty = TRUE, !.retry = TRUE,
                  !.sequence = <<2, Space, Comma, 1, Comma, 2, Comma>>],
    [Plain EXCEPT !.source = "choice", !.words = {"A", "B", "ans", "not", "nl", "w"}],
    [Plain EXCEPT !.suite = "hard-smoke", !.words = {"1", "2", "ans", "eq", "nl"}, !.think = "high"],
    [Plain EXCEPT !.source = "lines", !.words = {"1", "2", "ans", "begin", "nl"}],
    [Plain EXCEPT !.source = "text", !.words = {"1", "ans", "case", "nl", "end"}],
    \* a context sized for the cases, under maximal thinking, with and without --tokens
    [Plain EXCEPT !.suite = "all", !.limit = 0, !.source = "order", !.think = "none", !.ctx = 0, !.retry = TRUE],
    [Plain EXCEPT !.suite = "hard-smoke", !.limit = 0, !.think = "max", !.ctx = 0, !.tokens = 3,
                  !.tokens_set = TRUE, !.retry = TRUE],
    \* refused: no such case, too many, a limit that leaves no thinking, bad sequences, too large
    [Plain EXCEPT !.source = "none"], [Plain EXCEPT !.limit = 7],
    [Plain EXCEPT !.suite = "core", !.think = "high"],
    [Plain EXCEPT !.sequence = <<1, Space, 1>>], [Plain EXCEPT !.sequence = <<>>],
    [Plain EXCEPT !.tokens = 12, !.tokens_set = TRUE, !.retry = TRUE, !.ctx = 0], [Plain EXCEPT !.ctx = 99]}

-----------------------------------------------------------------------------
(* TextScan, Quantize and Bench                                            *)

TextLengths == [print |-> 6, loop |-> 8, leak |-> 5, prefix |-> 5, tool |-> 5]

ATensor(kind, layer, type, rows, experts, imatrix) ==
    [kind |-> kind, layer |-> layer, type |-> type, rows |-> rows, experts |-> experts,
     imatrix |-> imatrix]
Ggufs == {<<ATensor("keep", 0, "f16", 3, 1, FALSE), ATensor("gate", 0, "q8", 3, 2, TRUE),
            ATensor("down", 1, "f16", 2, 2, TRUE)>>,
          <<ATensor("keep", 0, "f32", 1, 1, FALSE), ATensor("gate", 0, "f16", 3, 2, FALSE),
            ATensor("gate", 1, "q4", 1, 1, FALSE)>>}

StepMuls == {<<1, 1>>, <<3, 2>>, <<2, 1>>}

-----------------------------------------------------------------------------
(* Streaming: layers of one size and of several, small and large working   *)
(* sets, every kind of cache option, and options that are refused.         *)

Device(rec, layers, full, planned) ==
    [rec |-> rec, layers |-> layers, cache |-> 0, gb |-> FALSE, full |-> full,
     planned |-> planned, ctx |-> 1, used |-> 0, preload |-> FALSE]
Even == <<2, 2, 2>>
Machines ==
    {Device(rec, layers, full, planned) :
        rec \in {40, 60, 80}, layers \in {Even, <<2, 6, 2>>, <<3, 2, 4>>}, full \in {0, 1, 3}, planned \in {1, 3}}
    \cup {[Device(60, Even, 1, 2) EXCEPT !.cache = c, !.gb = gb, !.used = u] :
             c \in {1, 5, 70}, gb \in BOOLEAN, u \in {0, 3, 300}}
    \cup {[Device(rec, layers, full, 1) EXCEPT !.preload = TRUE] :
             rec \in {40, 60, 80}, full \in {1, 3}, layers \in {Even, <<2, 6, 2>>}}
    \cup {[Device(60, Even, 4, 1) EXCEPT !.used = 1], [Device(60, Even, 0, 1) EXCEPT !.used = 2, !.ctx = 3]}
ContextBytes == <<4, 10, 50>>

-----------------------------------------------------------------------------

AtRest(p, v, S) == IF part = p THEN TRUE ELSE v = CHOOSE x \in S : TRUE

ProgramsInit ==
    /\ part \in {"edit", "remote", "web", "eval", "cli", "scan", "quantize", "bench", "stream"}
    /\ WebInit
    /\ AtRest("edit", hist, HistFile) /\ LeInit
    /\ AtRest("remote", sent, {Ok(<<>>)}) /\ RmInit
    /\ (IF part = "eval" THEN TRUE ELSE cfg = [Plain EXCEPT !.ctx = 99]) /\ EvalInit
    /\ AtRest("cli", cliPc, {"repl"}) /\ AtRest("cli", given, Launches) /\ AtRest("cli", cfgMode, {"none"})
    /\ AtRest("cli", chat, {Fresh(cfgMode, ctx) : ctx \in CtxSizes}) /\ CliInit
    /\ AtRest("scan", scan, Kinds) /\ TsInit
    /\ AtRest("quantize", input, Inputs) /\ AtRest("quantize", synthetic, BOOLEAN)
    /\ AtRest("quantize", atomic, {TRUE}) /\ AtRest("quantize", out, {Old}) /\ QInit
    /\ AtRest("bench", bench, ParsedOptions) /\ BenchInit
    /\ AtRest("stream", setup, {Device(60, Even, 0, 1)}) /\ SsdInit

Still(p, v) == IF part = p THEN TRUE ELSE UNCHANGED v
OthersStill ==
    /\ Still("edit", leVars) /\ Still("remote", rmVars) /\ Still("web", webVars) /\ Still("eval", evalVars)
    /\ Still("cli", cliVars) /\ Still("scan", tsVars) /\ Still("quantize", qVars)
    /\ Still("bench", benchVars) /\ Still("stream", ssdVars) /\ UNCHANGED part

ProgramsNext ==
    \/ part = "edit" /\ LeNext /\ OthersStill
    \/ part = "remote" /\ RmNext /\ OthersStill
    \/ part = "web" /\ WebNext /\ OthersStill
    \/ part = "eval" /\ EvalNext /\ OthersStill
    \/ part = "cli" /\ CliNext /\ OthersStill
    \/ part = "scan" /\ TsNext /\ OthersStill
    \/ part = "quantize" /\ QNext /\ OthersStill
    \/ part = "bench" /\ BenchNext /\ OthersStill
    \/ part = "stream" /\ SsdNext /\ OthersStill

programsVars == <<leVars, rmVars, webVars, evalVars, cliVars, tsVars, qVars,
               benchVars, ssdVars, part>>

ProgramsSpec == ProgramsInit /\ [][ProgramsNext]_programsVars
=============================================================================
