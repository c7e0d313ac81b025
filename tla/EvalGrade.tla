----------------------------- MODULE EvalGrade -----------------------------
(***************************************************************************)
(* Grading in p36_eval.c: how an answer is found in a model's output, live *)
(* (on the final line only) and when a trace is regraded (anywhere), and   *)
(* the trace file that carries the output from one to the other.           *)
(*                                                                         *)
(* An output is a sequence of words: "close" is </think>, "ans" is         *)
(* "Answer:", "nl" ends a line, the members of Letters and Digits stand    *)
(* alone, "eq" is "=", the members of Lower are lower-case words, of which *)
(* "not" rejects what follows; "case", "begin" and "end" start lines that  *)
(* look like the trace's own.  The limits of 96 and 160 bytes past the     *)
(* marker and of 256 bytes of an answer are not reached.                   *)
(***************************************************************************)
EXTENDS Naturals, Sequences, SequencesExt

CONSTANTS Letters, Digits, Lower

Positions(s, S) == {i \in DOMAIN s : s[i] \in S}
First(P, none) == IF P = {} THEN none ELSE CHOOSE i \in P : \A j \in P : i <= j
Last1(P) == IF P = {} THEN 0 ELSE CHOOSE i \in P : \A j \in P : j <= i
LineEnd(s, i) == First({j \in Positions(s, {"nl"}) : j >= i}, Len(s) + 1)

\* the text after the first </think>, all of it when there is none
Visible(s) == SubSeq(s, First(Positions(s, {"close"}), 0) + 1, Len(s))

\* find_last_answer_marker: 0 when there is none
Marker(s) == Last1(Positions(s, {"ans"}))

\* mc_letter_is_negated, within the text from the marker on
Negated(s, m, p) == p - 1 >= m /\ s[p - 1] = "not"

\* find_answer_letter: the letter that is neither prose nor rejected, else the last one
LetterOf(s) ==
    LET m == Marker(s)
        Prose(p) == p < Len(s) /\ s[p + 1] \in Lower
        Picks == {p \in Positions(s, Letters) : m > 0 /\ p >= m /\ ~Prose(p) /\ ~Negated(s, m, p)}
        p == First(Picks, Last1(Positions(s, Letters)))
    IN IF p = 0 THEN <<>> ELSE <<s[p]>>

\* find_integer_answer: on the answer line, right of its last "=" when a number is there
IntegerOf(s) ==
    LET m == Marker(s)
        e == LineEnd(s, m)
        From(a) == First({i \in Positions(s, Digits) : i >= a /\ i < e}, 0)
        q == Last1({i \in Positions(s, {"eq"}) : i >= m /\ i < e})
        onLine == IF m = 0 THEN 0 ELSE IF From(q + 1) > m /\ q > 0 THEN From(q + 1) ELSE From(m)
        p == IF onLine > 0 THEN onLine ELSE Last1(Positions(s, Digits))
    IN IF p = 0 THEN <<>> ELSE <<s[p]>>

\* find_compsec_answer and normalize_compsec_line_spec: every number of the answer line
LinesOf(s) ==
    LET m == Marker(s)
        listed == IF m = 0 THEN <<>>
                  ELSE SelectSeq(SubSeq(s, m, LineEnd(s, m) - 1), LAMBDA w : w \in Digits)
    IN IF listed # <<>> THEN listed ELSE IntegerOf(s)

\* find_payload_answer and the normalizations: all that follows the marker, without spacing
PayloadOf(s) ==
    IF Marker(s) = 0 THEN <<>>
    ELSE SelectSeq(SubSeq(s, Marker(s) + 1, Len(s)), LAMBDA w : w # "nl")

\* find_case_answer; <<>> is the answer "?"
FindAnswer(kind, s) ==
    CASE kind = "choice" -> LetterOf(Visible(s))
      [] kind = "integer" -> IntegerOf(Visible(s))
      [] kind = "line_set" -> LinesOf(Visible(s))
      [] kind = "text" -> PayloadOf(Visible(s))

\* the last line that is not blank; <<>> for none
FinalLine(s) ==
    LET n == Last1({i \in DOMAIN s : s[i] # "nl"})
    IN SubSeq(s, Last1({i \in Positions(s, {"nl"}) : i < n}) + 1, n)

\* find_case_answer_strict: whether the run is complete, and the answer
Complete(s) == Marker(FinalLine(s)) > 0
StrictAnswer(kind, s) == IF Complete(s) THEN FindAnswer(kind, FinalLine(s)) ELSE <<>>

\* answer_matches; key is the expected answer: a set of lines for line_set, else the words
\* of which any spelling is accepted
Matches(kind, key, got) ==
    IF kind = "line_set" THEN got # <<>> /\ \A i \in DOMAIN got : got[i] \in key
    ELSE got # <<>> /\ got \in {<<k>> : k \in key}

-----------------------------------------------------------------------------
(* The trace file: a sequence of items [w, n, arg]                         *)

Item(w, n, arg) == [w |-> w, n |-> n, arg |-> arg]
Word(w) == Item(w, 0, <<>>)
Text(s) == [i \in DOMAIN s |-> IF s[i] \in {"begin", "end"} THEN Item(s[i], 0, <<"output">>) ELSE Word(s[i])]
Newline == <<Word("nl")>>

\* trace_write_block: the number of bytes, the bytes, a newline unless they end in one
WriteBlock(label, s) ==
    <<Item("begin", Len(s), <<label>>)>> \o Newline \o Text(s)
        \o (IF s # <<>> /\ s[Len(s)] # "nl" THEN Newline ELSE <<>>)
        \o <<Item("end", 0, <<label>>)>> \o Newline

\* trace_write_case
WriteCase(r, question) ==
    <<Item("case", r.idx, <<>>)>> \o Newline
        \o <<Item("status", 0, <<r.status>>)>> \o Newline
        \o <<Item("picked", 0, r.picked)>> \o Newline
        \o WriteBlock("question", question) \o WriteBlock("output", r.output) \o Newline

\* trace_write_header, and the summary main ends with
TraceHeader == <<Word("header")>> \o Newline \o Newline
TraceSummary == <<Word("summary")>> \o Newline

AfterLine(f, i, end) == First({j \in i..(end - 1) : f[j].w = "nl"}, end - 1) + 1

\* mutant: the block ends at the first line that looks like its end
SkipBlockDelimited(f, i, end) ==
    IF i < end /\ f[i].w = "begin"
    THEN LET e == First({j \in i..(end - 1) : f[j].w = "end"}, 0)
         IN IF e = 0 THEN 0 ELSE AfterLine(f, e, end)
    ELSE 0

\* trace_skip_counted_block: where the block that begins at i ends, 0 when none does
SkipBlock(f, i, end) ==
    IF i < end /\ f[i].w = "begin"
    THEN LET content == AfterLine(f, i, end)
             stop == content + f[i].n
             m == IF stop < end /\ f[stop].w = "nl" THEN stop + 1 ELSE stop
         IN IF stop <= end /\ m < end /\ f[m].w = "end" /\ f[m].arg = f[i].arg THEN AfterLine(f, m, end) ELSE 0
    ELSE 0

\* trace_find_next_case, Len(f) + 1 for none
NextCase(f, i) ==
    LET end == Len(f) + 1
        next[j \in 1..end] ==
            LET block == SkipBlock(f, j, end)
            IN  IF j = end THEN end
                ELSE IF block > j THEN next[block]
                ELSE IF f[j].w = "case" THEN j
                ELSE next[AfterLine(f, j, end)]
    IN  next[i]

\* trace_find_block_begin for MODEL_OUTPUT, end for none
OutputBegin(f, i, end) ==
    LET begin[j \in i..end] ==
            LET block == SkipBlock(f, j, end)
            IN  IF j = end THEN end
                ELSE IF f[j].w = "begin" /\ f[j].arg = <<"output">> THEN j
                ELSE IF block > j THEN begin[block]
                ELSE begin[AfterLine(f, j, end)]
    IN  begin[i]

\* trace_copy_model_output
ReadOutput(f, i, end) ==
    LET b == OutputBegin(f, i, end)
        content == AfterLine(f, b, end)
    IN IF b < end /\ SkipBlock(f, b, end) > 0
       THEN [j \in 1..f[b].n |-> f[content + j - 1].w]
       ELSE <<"missing">>

\* trace_get_line_field
Field(f, i, end, key) == f[First({j \in i..(end - 1) : f[j].w = key}, i)].arg

\* the records regrade_trace_file sees
ReadTrace(f) ==
    LET end == Len(f) + 1
        read[i \in 1..end] ==
            LET a == NextCase(f, i)
                b == NextCase(f, AfterLine(f, a, end))
                st == Field(f, a, b, "status")
            IN  IF a = end THEN <<>>
                ELSE <<[idx |-> f[a].n, status |-> IF st = <<>> THEN "" ELSE st[1],
                        picked |-> Field(f, a, b, "picked"), output |-> ReadOutput(f, a, b)]>>
                     \o read[b]
    IN  read[1]

\* regrade_case_outcome
Regrade(r, kind, key) ==
    IF r.status \in {"PASSED", "FAILED"}
    THEN IF Matches(kind, key, FindAnswer(kind, r.output)) THEN "PASSED" ELSE "FAILED"
    ELSE "not_graded"
=============================================================================
