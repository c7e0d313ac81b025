------------------------------ MODULE TextScan ------------------------------
(***************************************************************************)
(* Five text scanners, each against what it is meant to compute:           *)
(* "print", token_printer of p36_cli.c, which takes the <think> tags out   *)
(* of a stream whose tokens may split a tag; "loop", the repetition        *)
(* detector of p36_loopguard.h, which looks at a sliding window only every *)
(* few bytes; "leak", the guard against reasoning after </think>, which    *)
(* looks for restarts in the same window every few tokens; "prefix",       *)
(* p36_prompt_prefix_parse; and "tool", the escapes of p36_tool_text.h.    *)
(*                                                                         *)
(* A tag is a few symbols, "USER:" and "ASSISTANT:" are one symbol each,   *)
(* and so are "amp;", "lt;", the end of the closing delimiter and a        *)
(* restart such as "Wait" or "Let me check".                               *)
(***************************************************************************)
EXTENDS Integers, Sequences, FiniteSets, SequencesExt

CONSTANTS
    MaxText,        \* bound on the text per kind of scanner
    MaxChunk,       \* bound on what one token adds
    Window,         \* AGENT_REPETITION_WINDOW_BYTES
    MinText,        \* below this the detector says nothing (128)
    CheckEvery,     \* bytes between two checks (32)
    MaxLines,       \* lines looked at (48)
    ExactRun, NearRun,          \* AGENT_REPETITION_EXACT_LINE_RUN, _NEAR_LINE_RUN
    ExactMin, NearMin,          \* shortest line that counts as equal (12), as near (24)
    NearSlack,      \* mismatches allowed (2)
    Periods,        \* 16..256
    Repeats, MinTotal, MinDistinct,  \* _NGRAM_REPEATS, _NGRAM_MIN_TOTAL, 4
    ActionBudget, LeakEvery, Restarts   \* action_budget, the tokens between two looks (32), 3

VARIABLES
    scan,           \* which scanner
    fed,            \* history variable: the whole text so far
    printer,        \* token_printer, and what it wrote
    det,            \* agent_repetition_detector, with the last answer
    leak            \* agent_action_leak: [tokens, next, answer]

tsVars == <<scan, fed, printer, det, leak>>

Kinds == {"print", "loop", "leak", "prefix", "tool"}
Alphabet == [print  |-> {"<", "/", "t", ">", "x", "nl"},
             loop   |-> {"a", "b", " ", "nl"},
             leak   |-> {"Wait", ".", " ", "nl"},
             prefix |-> {"U:", "A:", " ", "cr", "nl", "x"},
             tool   |-> {"&", "amp;", "lt;", "<", "/p>"}]

Rest(s, i) == SubSeq(s, i, Len(s))
LastOf(s, n) == SubSeq(s, IF Len(s) > n THEN Len(s) - n + 1 ELSE 1, Len(s))

-----------------------------------------------------------------------------
(* token_printer                                                           *)

ThinkOpen == <<"<", "t", ">">>
ThinkClose == <<"<", "/", "t", ">">>
PendingMax == 16

NewPrinter == [inThink |-> TRUE, grey |-> FALSE, nl |-> TRUE, pending |-> <<>>, out |-> <<>>, finished |-> FALSE]

\* bytes_is_partial_prefix
Partial(s, tag) == Len(s) < Len(tag) /\ IsPrefix(s, tag)

\* token_printer_write_char
WriteChar(p, c) ==
    [p EXCEPT !.grey = @ \/ p.inThink,
              !.out = Append(@, [c |-> c, grey |-> p.grey \/ p.inThink]), !.nl = (c = "nl")]

\* the close tag: colour off, and a newline unless one was just written
CloseThink(p) ==
    [p EXCEPT !.inThink = FALSE, !.grey = FALSE, !.nl = TRUE,
              !.out = IF p.nl THEN @ ELSE Append(@, [c |-> "nl", grey |-> FALSE])]

\* token_printer_process; q[k] is the printer after k rounds and the text left
Process(p, text, finish) ==
    LET buf == p.pending \o text
        hold(s) == ~finish /\ s[1] = "<" /\ (Partial(s, ThinkOpen) \/ Partial(s, ThinkClose))
        round(q) ==
            CASE q.left = <<>> -> q
              [] IsPrefix(ThinkOpen, q.left) ->
                     [p |-> [q.p EXCEPT !.inThink = TRUE], left |-> Rest(q.left, Len(ThinkOpen) + 1)]
              [] IsPrefix(ThinkClose, q.left) ->
                     [p |-> CloseThink(q.p), left |-> Rest(q.left, Len(ThinkClose) + 1)]
              [] q.left # <<>> /\ hold(q.left) ->
                     [p |-> [q.p EXCEPT !.pending = IF Len(q.left) < PendingMax THEN q.left ELSE <<>>],
                      left |-> <<>>]
              [] OTHER -> [p |-> WriteChar(q.p, Head(q.left)), left |-> Tail(q.left)]
        q[k \in 0..Len(buf)] ==
            IF k = 0 THEN [p |-> [p EXCEPT !.pending = <<>>], left |-> buf] ELSE round(q[k - 1])
    IN  q[Len(buf)].p

\* token_printer_finish and the newline of generation_done
FinishPrinter(p) ==
    LET r == [Process(p, <<>>, TRUE) EXCEPT !.grey = FALSE, !.finished = TRUE]
    IN  IF r.nl THEN r ELSE [r EXCEPT !.out = Append(@, [c |-> "nl", grey |-> FALSE]), !.nl = TRUE]

-----------------------------------------------------------------------------
(* agent_repetition_detector                                               *)

NewDetector == [text |-> <<>>, unchecked |-> 0, answer |-> FALSE]

\* agent_repetition_trim_line: a line without the space at its ends
TrimLine(l) ==
    LET ink == {i \in 1..Len(l) : l[i] # " "}
    IN  IF ink = {} THEN <<>> ELSE SubSeq(l, Min(ink), Max(ink))

\* agent_split_lines, the last line first, out of the last MaxLines, trimmed and without the blank
LastLines(text) ==
    LET cut(acc, c) == IF c = "nl" THEN Append(acc, <<>>)
                       ELSE [acc EXCEPT ![Len(acc)] = Append(@, c)]
        all == FoldLeft(cut, <<<<>>>>, text)
        lines == IF Last(all) = <<>> THEN Front(all) ELSE all
        trimmed == [i \in 1..Len(lines) |-> TrimLine(lines[i])]
    IN  SelectSeq(Reverse(LastOf(trimmed, MaxLines)), LAMBDA l : l # <<>>)

Differ(a, b) ==
    LET n == IF Len(a) < Len(b) THEN Len(a) ELSE Len(b)
    IN  Cardinality({i \in 1..n : a[i] # b[i]}) + (Len(a) - n) + (Len(b) - n)

\* agent_repetition_lines_near
LinesNear(a, b) ==
    /\ Len(a) >= NearMin /\ Len(b) >= NearMin
    /\ Len(a) + NearSlack >= Len(b) /\ Len(b) + NearSlack >= Len(a)
    /\ Differ(a, b) <= NearSlack

LinesEqual(a, b) == Len(a) >= ExactMin /\ a = b

\* the loop over the lines; run is [exact, near, over] after each line
LineRunFound(text) ==
    LET lines == LastLines(text)
        next(run, l) ==
            CASE run.over -> run
              [] ~run.over /\ LinesEqual(l, lines[1]) ->
                     [exact |-> run.exact + 1, near |-> run.near + 1, over |-> FALSE, found |-> run.found \/
                        run.exact + 1 >= ExactRun \/ run.near + 1 >= NearRun]
              [] ~run.over /\ ~LinesEqual(l, lines[1]) /\ LinesNear(l, lines[1]) ->
                     [exact |-> 0, near |-> run.near + 1, over |-> FALSE,
                      found |-> run.found \/ run.near + 1 >= NearRun]
              [] OTHER -> [run EXCEPT !.over = TRUE]
    IN  lines # <<>> /\ FoldLeft(next, [exact |-> 1, near |-> 1, over |-> FALSE, found |-> FALSE], Tail(lines)).found

\* the byte periods
PeriodFound(text) ==
    \E period \in Periods :
        LET repeated == period * Repeats
            suffix == LastOf(text, repeated)
        IN  /\ repeated >= MinTotal /\ repeated <= Len(text)
            /\ \A i \in period + 1 .. repeated : suffix[i] = suffix[((i - 1) % period) + 1]
            /\ Cardinality({suffix[i] : i \in 1..period}) >= MinDistinct

\* agent_repetition_text_detected
TextDetected(text) == Len(text) >= MinText /\ (LineRunFound(text) \/ PeriodFound(text))

\* Mutant: one byte too few is dropped from a full window
WindowAfterClips(text, chunk) == LastOf(text, Window - Len(chunk) + 1) \o chunk

\* the window after a feed: an oversized chunk replaces it, otherwise the oldest bytes go
WindowAfter(text, chunk) ==
    IF Len(chunk) >= Window THEN LastOf(chunk, Window)
    ELSE IF Len(text) + Len(chunk) > Window
    THEN Rest(text, Len(text) + Len(chunk) - Window + 1) \o chunk
    ELSE text \o chunk

\* agent_repetition_detector_feed
FeedDetector(d, chunk) ==
    LET text == WindowAfter(d.text, chunk)
        n == d.unchecked + Len(chunk)
    IN  IF n < CheckEvery /\ "nl" \notin Range(chunk)
        THEN [text |-> text, unchecked |-> n, answer |-> FALSE]
        ELSE [text |-> text, unchecked |-> 0, answer |-> TextDetected(text)]

-----------------------------------------------------------------------------
(* agent_action_leak                                                       *)

NewLeak == [tokens |-> 0, next |-> 0, answer |-> FALSE]
Blank == {" ", "nl", "-", "*"}

\* agent_leak_marker_count: the walk over the window
MarkerCount(text) ==
    LET step(st, i) ==
            LET word == st.start /\ text[i] \notin Blank
                stop == text[i] = "nl" \/ (text[i] = "." /\ i < Len(text) /\ text[i + 1] = " ")
            IN  [start |-> (st.start /\ ~word) \/ stop,
                 count |-> IF word /\ text[i] = "Wait" THEN st.count + 1 ELSE st.count]
    IN  FoldLeft(step, [start |-> TRUE, count |-> 0], [i \in 1..Len(text) |-> i]).count

\* past four budgets one restart is enough
Needed(tokens) == IF tokens > 4 * ActionBudget THEN 1 ELSE Restarts

\* agent_action_leak_feed, d being the detector after this token
FeedLeak(l, d) ==
    LET n == l.tokens + 1
        due == n >= l.next
        quiet == [l EXCEPT !.tokens = n, !.answer = FALSE]
    IN  IF ActionBudget <= 0 \/ n <= ActionBudget THEN quiet
        ELSE IF d.answer THEN [quiet EXCEPT !.answer = TRUE]
        ELSE IF ~due THEN quiet
        ELSE [tokens |-> n, next |-> n + LeakEvery, answer |-> MarkerCount(d.text) >= Needed(n)]

-----------------------------------------------------------------------------
(* p36_prompt_prefix_parse                                                 *)

PrefixMarker(s, i) == i <= Len(s) /\ s[i] \in {"U:", "A:"}
Refused == [ok |-> FALSE, turns |-> <<>>]

\* one turn at pos: its marker, where the next one starts, its content
TurnAt(s, pos) ==
    LET start == IF pos + 1 <= Len(s) /\ s[pos + 1] = " " THEN pos + 2 ELSE pos + 1
        nexts == {i + 1 : i \in {i \in start..Len(s) : s[i] = "nl" /\ PrefixMarker(s, i + 1)}}
        next == IF nexts = {} THEN Len(s) + 1 ELSE CHOOSE i \in nexts : \A j \in nexts : i <= j
        end1 == IF next > start /\ s[next - 1] = "nl" THEN next - 1 ELSE next
        end == IF end1 < next /\ end1 > start /\ s[end1 - 1] = "cr" THEN end1 - 1 ELSE end1
    IN  [role |-> s[pos], next |-> next, content |-> SubSeq(s, start, end - 1)]

Expected(count) == IF count % 2 = 0 THEN "U:" ELSE "A:"

\* st[k] is the parse after k turns
PrefixParse(s) ==
    LET more(st) ==
            IF ~st.ok \/ st.pos > Len(s) THEN st
            ELSE IF ~PrefixMarker(s, st.pos) \/ s[st.pos] # Expected(Len(st.turns))
                    \/ TurnAt(s, st.pos).content = <<>>
            THEN [st EXCEPT !.ok = FALSE]
            ELSE LET t == TurnAt(s, st.pos)
                 IN  [st EXCEPT !.turns = Append(@, [role |-> t.role, content |-> t.content]), !.pos = t.next]
        st[k \in 0..Len(s)] == IF k = 0 THEN [ok |-> TRUE, turns |-> <<>>, pos |-> 1] ELSE more(st[k - 1])
        end == st[Len(s)]
    IN  IF s # <<>> /\ end.ok /\ end.turns # <<>> /\ Last(end.turns).role = "A:"
        THEN [ok |-> TRUE, turns |-> end.turns]
        ELSE Refused

-----------------------------------------------------------------------------
(* p36_tool_text, with the delimiter "<" "/p>"                             *)

\* p36_tool_text_escaped_close: & (amp;)* lt; /p>
EscapedClose(s, i) ==
    /\ s[i] = "&"
    /\ \E j \in i + 1 .. Len(s) - 1 :
          s[j] = "lt;" /\ s[j + 1] = "/p>" /\ \A k \in i + 1 .. j - 1 : s[k] = "amp;"
NeedsEscape(s, i) == (s[i] = "<" /\ i < Len(s) /\ s[i + 1] = "/p>") \/ EscapedClose(s, i)

\* append_qwen_parameter
EscapeText(s) ==
    FlattenSeq([i \in 1..Len(s) |->
        IF ~NeedsEscape(s, i) THEN <<s[i]>>
        ELSE IF s[i] = "<" THEN <<"&", "lt;">> ELSE <<"&", "amp;">>])

\* p36_tool_text_unescape; the symbol after an escaped & is consumed with it
UnescapeText(s) ==
    LET escaped(i) == EscapedClose(s, i)
    IN  FlattenSeq([i \in 1..Len(s) |->
            CASE i > 1 /\ escaped(i - 1) -> <<>>
              [] escaped(i) -> IF s[i + 1] = "amp;" THEN <<"&">> ELSE <<"<">>
              [] OTHER -> <<s[i]>>])

-----------------------------------------------------------------------------

TsInit ==
    /\ scan \in Kinds /\ fed = <<>>
    /\ printer = NewPrinter /\ det = NewDetector /\ leak = NewLeak

\* one token arrives
FeedText(chunk) ==
    /\ Len(fed) + Len(chunk) <= MaxText[scan] /\ ~printer.finished
    /\ scan \in {"prefix", "tool"} => Len(chunk) = 1
    /\ fed' = fed \o chunk
    /\ printer' = IF scan = "print" THEN Process(printer, chunk, FALSE) ELSE printer
    /\ det' = IF scan \in {"loop", "leak"} THEN FeedDetector(det, chunk) ELSE det
    /\ leak' = IF scan = "leak" THEN FeedLeak(leak, det') ELSE leak
    /\ UNCHANGED scan

\* generation_done
DonePrinting ==
    /\ scan = "print" /\ ~printer.finished
    /\ printer' = FinishPrinter(printer)
    /\ UNCHANGED <<scan, fed, det, leak>>

TsNext ==
    \/ \E n \in 1..MaxChunk : \E chunk \in [1..n -> Alphabet[scan]] : FeedText(chunk)
    \/ DonePrinting

TsSpec == TsInit /\ [][TsNext]_tsVars

-----------------------------------------------------------------------------
(* Properties                                                              *)

\* a text is a loop: its last lines are one line over and over, or it ends in a short period
EndsInLoop(text) ==
    LET lines == LastLines(text)
        near(i) == LinesEqual(lines[i], lines[1]) \/ LinesNear(lines[i], lines[1])
        chain(n) == n <= Len(lines) /\ \A i \in 2..n : near(i)
    IN  /\ Len(text) >= MinText
        /\ \/ chain(NearRun)
           \/ chain(ExactRun) /\ \A i \in 2..ExactRun : LinesEqual(lines[i], lines[1])
           \/ \E a \in 2..Len(lines) : \* a run of equal lines behind near ones
                 chain(a + ExactRun) /\ ~LinesEqual(lines[a], lines[1])
                   /\ \A i \in a + 1 .. a + ExactRun : LinesEqual(lines[i], lines[1])
           \/ \E n \in Periods :
                 /\ n * Repeats <= Len(text) /\ n * Repeats >= MinTotal
                 /\ LET end == LastOf(text, n * Repeats)
                    IN  end = FlattenSeq([r \in 1..Repeats |-> SubSeq(end, 1, n)])
                          /\ Cardinality(Range(LastOf(text, n))) >= MinDistinct

\* the sentences of a text that begin with a restart: nothing but blanks lies between it and the
\* end of the sentence before
RestartsIn(text) ==
    LET ends == {0} \cup {j \in 1..Len(text) :
                            text[j] = "nl" \/ (text[j] = "." /\ j < Len(text) /\ text[j + 1] = " ")}
    IN  Cardinality({i \in 1..Len(text) : text[i] = "Wait" /\
                        \E j \in ends : j < i /\ \A k \in j + 1 .. i - 1 : text[k] \in Blank})

\* the turns of a prefix file: the lines that start with a marker, and the text up to the next
PrefixTurns(s) ==
    LET heads == {i \in 1..Len(s) : PrefixMarker(s, i) /\ (i = 1 \/ s[i - 1] = "nl")}
        order == SetToSortSeq(heads, LAMBDA x, y : x < y)
        body(k) == SubSeq(s, order[k] + 1, IF k = Len(order) THEN Len(s) ELSE order[k + 1] - 1)
        lead(b) == IF b # <<>> /\ Head(b) = " " THEN Tail(b) ELSE b
        chomp(b) == IF IsSuffix(<<"cr", "nl">>, b) THEN SubSeq(b, 1, Len(b) - 2)
                    ELSE IF IsSuffix(<<"nl">>, b) THEN Front(b) ELSE b
    IN  [k \in 1..Len(order) |-> [role |-> s[order[k]], content |-> chomp(lead(body(k)))]]

\* ScansExact: what is printed does not depend on how the tokens cut the text, so no tag and no
\* half of one is ever shown or lost (token_printer_process); the detector's window is the end of
\* the whole text and a loop is reported at the first check that sees it, not later and not without
\* one (agent_repetition_detector_feed at the window's limit); an answer within its budget is never
\* cut, and past it every look tells a leak from an answer by the restarts at sentence starts, with
\* a look at least every LeakEvery tokens (agent_action_leak_feed); a prefix file yields its turns or is
\* refused; and a tool body survives its escapes and never contains the delimiter
ScansExact ==
    /\ printer.finished => printer.out = FinishPrinter(Process(NewPrinter, fed, FALSE)).out
    /\ scan = "loop" => /\ det.text = LastOf(fed, Window)
                        /\ det.unchecked = 0 => det.answer = EndsInLoop(LastOf(fed, Window))
                        /\ det.unchecked < CheckEvery
    /\ scan = "leak" =>
          /\ leak.tokens > ActionBudget => leak.next > leak.tokens \/ leak.answer
          /\ leak.next <= leak.tokens + LeakEvery
          /\ leak.answer => /\ leak.tokens > ActionBudget
                            /\ RestartsIn(det.text) >= Needed(leak.tokens) \/ EndsInLoop(det.text)
          /\ leak.next = leak.tokens + LeakEvery =>
                leak.answer = (RestartsIn(det.text) >= Needed(leak.tokens) \/ det.answer)
    /\ scan = "prefix" =>
          LET turns == PrefixTurns(fed)
              good == /\ fed # <<>> /\ PrefixMarker(fed, 1) /\ Len(turns) % 2 = 0
                      /\ \A k \in 1..Len(turns) : turns[k].role = Expected(k - 1) /\ turns[k].content # <<>>
          IN  PrefixParse(fed) = IF good THEN [ok |-> TRUE, turns |-> turns] ELSE Refused
    /\ scan = "tool" => /\ UnescapeText(EscapeText(fed)) = fed
                        /\ ~\E i \in 1..Len(EscapeText(fed)) - 1 :
                              EscapeText(fed)[i] = "<" /\ EscapeText(fed)[i + 1] = "/p>"
=============================================================================
