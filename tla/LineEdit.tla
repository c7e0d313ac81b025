------------------------------ MODULE LineEdit ------------------------------
(***************************************************************************)
(* The line editor of the client and the agent (linenoise.c, in the        *)
(* multi-line mode both select): keys that arrive byte by byte, bracketed  *)
(* pastes, folded ranges, the history with the current line as its latest  *)
(* entry, completion, and the rows a refresh clears and writes.            *)
(*                                                                         *)
(* The buffer is a sequence of characters, and a character is its class:   *)
(* "a" and " " plain, "e" two bytes long, "w" wide, "k"                    *)
(* combining, "j" a zero width joiner, "r" a regional indicator, "nl" a    *)
(* newline, "R" U+FFFD.  Input bytes are classes as well: "L" and "M" lead *)
(* two and three bytes, "c" and "d" continue a character, "X" never occurs *)
(* in UTF-8.  The digits of an escape sequence are one byte.               *)
(***************************************************************************)
EXTENDS Integers, Sequences, FiniteSets, SequencesExt

CONSTANTS
    InputBytes,     \* the bytes the terminal may send
    Candidates,     \* what the completion callback may offer
    BufMax, FoldMax, HistMax, PendMax,      \* capacities
    FoldLen, HistFoldLen, HistFoldLines, HistCtx,   \* when a text is folded
    Cols, PromptWidth, FoldWidth,   \* the screen
    StatusRange,      \* how many rows a status may have
    AddWhileEditing,  \* the caller may record a line after it restarted the editor
    HistFile,         \* the histories that may be loaded at the start
    MaxKeys           \* bound: keys and pasted characters

VARIABLES
    editing,        \* between linenoiseEditStart and linenoiseEditStop
    ed,             \* struct linenoiseState: the buffer, its cursor and its folds
    keyIn,          \* the input in progress: pending_key, the paste, completion
    hist,           \* the history
    slot,           \* what the current edit last put into its own history entry
    line,           \* a line the caller has not recorded yet, or <<>>
    screen,         \* what the terminal shows: rows in use, cursor, prompt's top row
    nkeys           \* keys so far

leVars == <<editing, ed, keyIn, hist, slot, line, screen, nkeys>>

NoPaste == [on |-> FALSE, text |-> <<>>, match |-> 0, over |-> FALSE]
NoInput == [pend |-> <<>>, paste |-> NoPaste, comp |-> -1]
FreshEdit == [buf |-> <<>>, pos |-> 0, folds |-> <<>>, hidx |-> 0, status |-> 0,
              oldrows |-> 0, oldstatus |-> 0, oldrpos |-> 1]
BlankScreen == [used |-> {}, top |-> 1, at |-> 1, raw |-> FALSE]

-----------------------------------------------------------------------------
(* Characters                                                              *)

\* utf8CharWidth
CharWidth(c) == CASE c \in {"k", "j", "nl"} -> 0 [] c \in {"w", "r"} -> 2 [] OTHER -> 1

\* utf8DecodeChar and the validity test, on a whole sequence of the right length
CharOf(bytes) ==
    CASE bytes = <<"L", "c">> -> "e" [] bytes = <<"L", "d">> -> "k"
      [] bytes = <<"M", "c", "c">> -> "w" [] bytes = <<"M", "c", "d">> -> "j"
      [] OTHER -> "R"

\* a printable byte is the character "a", whichever it is
Printable(b) == b \in {"a", "[", "O", "~", "A", "B", "C", "D", "F", "H", "3", "200", "201"}
CharSize(c) == CASE c \in {"e", "k"} -> 2 [] c \in {"w", "j", "R"} -> 3 [] c = "r" -> 4 [] OTHER -> 1
TextSize(s) == FoldLeft(LAMBDA n, c : n + CharSize(c), 0, s)

NeedOf(lead) == IF lead = "L" THEN 2 ELSE 3
Continues(b) == b \in {"c", "d"}

Extends(c) == c \in {"k", "j"}

\* linenoiseNextGrapheme: the characters after s[p] that belong to its cluster
RECURSIVE ClusterEnd(_, _, _, _)
ClusterEnd(s, p, joined, regional) ==
    IF p = Len(s) THEN p
    ELSE LET c == s[p + 1] IN
         IF joined THEN ClusterEnd(s, p + 1, FALSE, regional)
         ELSE IF Extends(c) THEN ClusterEnd(s, p + 1, c = "j", regional)
         ELSE IF regional /\ c = "r" THEN ClusterEnd(s, p + 1, FALSE, FALSE)
         ELSE p

NextCharLen(s, p) == IF p >= Len(s) THEN 0 ELSE ClusterEnd(s, p + 1, FALSE, s[p + 1] = "r") - p

\* utf8PrevCharLen: the start of the cluster that ends at p, c being its last character so far
RECURSIVE ClusterStart(_, _, _)
ClusterStart(s, p, c) ==
    IF p = 0 THEN 0
    ELSE IF s[p] = "j" THEN (IF p = 1 THEN 0 ELSE ClusterStart(s, p - 2, s[p - 1]))
    ELSE IF Extends(c) THEN ClusterStart(s, p - 1, s[p])
    ELSE IF c = "r" /\ s[p] = "r" THEN p - 1
    ELSE p

PrevCharLen(s, p) == IF p = 0 THEN 0 ELSE p - ClusterStart(s, p - 1, s[p])

\* utf8StrWidth: a cluster is as wide as its widest joined character
RECURSIVE StrWidth(_)
StrWidth(s) ==
    IF s = <<>> THEN 0
    ELSE LET n == NextCharLen(s, 0)
             w == {CharWidth(s[i]) : i \in {1} \cup {i \in 2..n : s[i - 1] = "j"}}
         IN  (CHOOSE m \in w : \A x \in w : x <= m) + StrWidth(SubSeq(s, n + 1, Len(s)))

-----------------------------------------------------------------------------
(* Folds: ranges of the buffer shown as a marker.  A fold remembers what   *)
(* text it stood for, which only the properties read.                      *)

NewlineCount(s) == Cardinality({i \in DOMAIN s : s[i] = "nl"})

ShouldFold(s) == NewlineCount(s) > 0 \/ TextSize(s) >= FoldLen

ShouldFoldHistory(s) ==
    TextSize(s) >= HistFoldLen \/ (NewlineCount(s) > 0 /\ NewlineCount(s) + 1 >= HistFoldLines)

\* linenoiseGetRenderFolds
RenderFolds(e) == SelectSeq(e.folds, LAMBDA f : f.start < f.end /\ f.end <= Len(e.buf))

\* linenoiseEditNextLen, linenoiseEditPrevLen
EditNextLen(e, p) ==
    LET at == SelectSeq(RenderFolds(e), LAMBDA f : f.start = p)
    IN  IF at # <<>> THEN at[1].end - at[1].start ELSE NextCharLen(e.buf, p)
EditPrevLen(e, p) ==
    LET at == SelectSeq(RenderFolds(e), LAMBDA f : f.end = p)
    IN  IF at # <<>> THEN at[1].end - at[1].start ELSE PrevCharLen(e.buf, p)

FoldAdd(e, start, end) ==
    IF start >= end \/ Len(e.folds) = FoldMax THEN e
    ELSE LET n == Cardinality({i \in DOMAIN e.folds : e.folds[i].start <= start})
             f == [start |-> start, end |-> end, text |-> SubSeq(e.buf, start + 1, end)]
         IN  [e EXCEPT !.folds = InsertAt(e.folds, n + 1, f)]

RangeOverlapsFold(e, p, n) ==
    \E i \in DOMAIN e.folds : p + n > e.folds[i].start /\ p < e.folds[i].end

FoldShifted(f, n) == [f EXCEPT !.start = @ + n, !.end = @ + n]

\* mutant: a fold that starts at the insertion point is not moved
AdjustFoldsStrict(folds, p, n) ==
    LET kept == SelectSeq(folds, LAMBDA f : p <= f.start \/ p >= f.end)
    IN  [i \in DOMAIN kept |-> IF p < kept[i].start THEN FoldShifted(kept[i], n) ELSE kept[i]]

AdjustFoldsAfterInsert(folds, p, n) ==
    LET kept == SelectSeq(folds, LAMBDA f : p <= f.start \/ p >= f.end)
    IN  [i \in DOMAIN kept |-> IF p <= kept[i].start THEN FoldShifted(kept[i], n) ELSE kept[i]]

AdjustFoldsAfterDelete(folds, p, n) ==
    LET kept == SelectSeq(folds, LAMBDA f : p + n <= f.start \/ p >= f.end)
    IN  [i \in DOMAIN kept |-> IF p + n <= kept[i].start THEN FoldShifted(kept[i], -n) ELSE kept[i]]

\* linenoiseBuildHistoryFold: context characters stay visible unless they hold a newline
HistoryFold(e) ==
    LET n == Len(e.buf)
        Context(s) == IF NewlineCount(s) > 0 THEN 0 ELSE Len(s)
        RECURSIVE Fwd(_, _)
        Fwd(p, k) == IF p = n \/ k = 0 THEN p ELSE Fwd(p + NextCharLen(e.buf, p), k - 1)
        RECURSIVE Bwd(_, _)
        Bwd(p, k) == IF p = 0 \/ k = 0 THEN p ELSE Bwd(p - PrevCharLen(e.buf, p), k - 1)
        start == Context(SubSeq(e.buf, 1, Fwd(0, HistCtx)))
        end == n - Context(SubSeq(e.buf, Bwd(n, HistCtx) + 1, n))
    IN  IF n = 0 \/ ~ShouldFoldHistory(e.buf) THEN e
        ELSE IF TextSize(e.buf) > 2 * HistCtx /\ start < end THEN FoldAdd(e, start, end)
        ELSE FoldAdd(e, 0, n)

-----------------------------------------------------------------------------
(* Refreshing: what the terminal shows.  A row is in use when text was     *)
(* written there and not cleared since.                                    *)

\* linenoiseRenderBuffer: the widths of the line and of the part before the cursor
RECURSIVE RenderFrom(_, _, _)
RenderFrom(e, fs, src) ==
    IF fs = <<>>
    THEN LET rest == SubSeq(e.buf, src + 1, Len(e.buf)) IN
         [w |-> StrWidth(rest), pw |-> StrWidth(SubSeq(e.buf, src + 1, e.pos)),
          nl |-> NewlineCount(rest), end |-> e.pos = Len(e.buf)]
    ELSE LET f == fs[1]
             gap == SubSeq(e.buf, src + 1, f.start)
             rest == RenderFrom(e, Tail(fs), f.end)
         IN  [w |-> StrWidth(gap) + FoldWidth + rest.w,
              pw |-> IF e.pos <= f.start THEN StrWidth(SubSeq(e.buf, src + 1, e.pos))
                     ELSE StrWidth(gap) + FoldWidth + (IF e.pos <= f.end THEN 0 ELSE rest.pw),
              nl |-> NewlineCount(gap) + rest.nl,
              end |-> IF e.pos < f.end THEN e.pos > f.start /\ f.end = Len(e.buf) ELSE rest.end]

RowsFor(w) == (PromptWidth + w + Cols - 1) \div Cols

AtLeastZero(n) == IF n > 0 THEN n ELSE 0

\* mutant: the rows of the status are not counted
CleanedInput(e, s) ==
    LET low == s.at + AtLeastZero(e.oldrows - e.oldrpos)
    IN  [s EXCEPT !.at = low - AtLeastZero(e.oldrows - 1),
                  !.used = @ \ ((low - e.oldrows + 1) .. low)]

\* refreshMultiLine with REFRESH_CLEAN: down to the last row, then clear and go up
Cleaned(e, s) ==
    LET total == e.oldrows + e.oldstatus
        low == s.at + AtLeastZero(total - e.oldrpos)
    IN  [s EXCEPT !.at = low - AtLeastZero(total - 1),
                  !.used = @ \ ((low - total + 1) .. low)]

\* refreshMultiLine with REFRESH_WRITE, from the cursor's row: r is the rendered line
WrittenAs(e, s, r) ==
    LET wrap == e.pos > 0 /\ r.end /\ (PromptWidth + r.pw) % Cols = 0
        rows == RowsFor(r.w) + (IF wrap THEN 1 ELSE 0)
        rpos == (PromptWidth + r.pw + Cols) \div Cols
        last == s.at + rows + r.nl - 1 + e.status
    IN  <<[e EXCEPT !.oldrows = rows, !.oldstatus = e.status, !.oldrpos = rpos],
          [used |-> s.used \cup (s.at .. last), top |-> s.at, raw |-> s.raw \/ r.nl > 0,
           at |-> last - AtLeastZero(rows - rpos + e.status)]>>

Written(e, s) == WrittenAs(e, s, RenderFrom(e, RenderFolds(e), 0))

Refresh(e, s) == Written(e, Cleaned(e, s))

Offered(e) == SelectSeq(Candidates, LAMBDA c : IsPrefix(e.buf, c))

Holding(e, text) == [e EXCEPT !.buf = text, !.pos = Len(text), !.folds = <<>>]

\* refreshLineWithCompletion: candidate comp is shown in place of the buffer, which is put back
Drawn(e, comp) ==
    LET cs == Offered(e) IN IF comp \in 0 .. (Len(cs) - 1) THEN Holding(e, cs[comp + 1]) ELSE e

PutBack(e, shown) ==
    <<[shown[1] EXCEPT !.buf = e.buf, !.pos = e.pos, !.folds = e.folds], shown[2]>>

RefreshAs(e, comp, s) == PutBack(e, Refresh(Drawn(e, comp), s))

-----------------------------------------------------------------------------
(* Editing operations: an edited state, to be refreshed                    *)

\* linenoiseEditInsertNoRefresh; a text that does not fit changes nothing
EditInsert(e, text) ==
    IF TextSize(e.buf) + TextSize(text) > BufMax THEN e
    ELSE [e EXCEPT !.buf = SubSeq(@, 1, e.pos) \o text \o SubSeq(@, e.pos + 1, Len(@)),
                   !.pos = @ + Len(text),
                   !.folds = AdjustFoldsAfterInsert(@, e.pos, Len(text))]

Erase(e, p, n) ==
    [e EXCEPT !.buf = SubSeq(@, 1, p) \o SubSeq(@, p + n + 1, Len(@)),
              !.pos = p, !.folds = AdjustFoldsAfterDelete(@, p, n)]

EditDelete(e) == IF e.pos < Len(e.buf) THEN Erase(e, e.pos, EditNextLen(e, e.pos)) ELSE e

EditBackspace(e) ==
    LET n == EditPrevLen(e, e.pos) IN IF e.pos > 0 THEN Erase(e, e.pos - n, n) ELSE e

EditDeletePrevWord(e) ==
    LET RECURSIVE Skip(_, _)
        Skip(p, spaces) ==
            IF p > 0 /\ ((e.buf[p] = " ") = spaces) THEN Skip(p - EditPrevLen(e, p), spaces)
            ELSE p
        p == Skip(Skip(e.pos, TRUE), FALSE)
    IN  Erase(e, p, e.pos - p)

\* Ctrl-T
Transpose(e) ==
    LET m == EditPrevLen(e, e.pos)
        n == EditNextLen(e, e.pos)
        p == e.pos - m
    IN  IF e.pos = 0 \/ e.pos = Len(e.buf) \/ RangeOverlapsFold(e, p, m + n) THEN e
        ELSE [e EXCEPT !.buf = SubSeq(@, 1, p) \o SubSeq(@, e.pos + 1, e.pos + n)
                               \o SubSeq(@, p + 1, e.pos) \o SubSeq(@, e.pos + n + 1, Len(@)),
                       !.pos = @ + n]

MoveLeft(e) == IF e.pos > 0 THEN [e EXCEPT !.pos = @ - EditPrevLen(e, @)] ELSE e
MoveRight(e) == IF e.pos < Len(e.buf) THEN [e EXCEPT !.pos = @ + EditNextLen(e, @)] ELSE e

\* linenoiseEditHistoryNext
Recall(e, text) == HistoryFold(Holding(e, text))

HistoryMoved(e, h, dir) ==
    LET i == Len(h) - e.hidx
        saved == [h EXCEPT ![i] = e.buf]
        to == e.hidx + dir
    IN  IF Len(h) <= 1 THEN [e |-> e, h |-> h]
        ELSE IF to < 0 \/ to >= Len(h) THEN [e |-> e, h |-> saved]
        ELSE [e |-> Recall([e EXCEPT !.hidx = to], saved[Len(h) - to]), h |-> saved]

\* linenoiseHistoryAdd
HistoryAdd(h, text) ==
    IF h # <<>> /\ Last(h) = text THEN h
    ELSE Append(IF Len(h) = HistMax THEN Tail(h) ELSE h, text)

-----------------------------------------------------------------------------
(* Pastes                                                                  *)

Controls == {"CA", "CB", "CC", "CD", "CE", "CF", "CK", "CL", "CN", "CP", "CT", "CU", "CW", "BS"}

PasteEnd == <<"ESC", "[", "201", "~">>

\* pasteBufferAppend; once all fold slots are used nothing is stored.  A control is rejected
\* at the end whichever it is: "X" stands for it.
PasteAppend(p, e, bytes) ==
    IF p.over \/ Len(e.folds) = FoldMax \/ TextSize(e.buf) + Len(p.text) + Len(bytes) > BufMax
    THEN [p EXCEPT !.over = TRUE, !.text = <<>>]
    ELSE [p EXCEPT !.text = @ \o [i \in DOMAIN bytes |->
                                     IF bytes[i] \in Controls \cup {"ESC"} THEN "X"
                                     ELSE IF Printable(bytes[i]) THEN "a" ELSE bytes[i]]]

\* the paste after one more byte; its terminator is never stored
PasteFed(p, e, b) ==
    IF b = PasteEnd[p.match + 1] THEN [p EXCEPT !.match = @ + 1]
    ELSE LET flushed == IF p.match > 0 THEN [PasteAppend(p, e, SubSeq(PasteEnd, 1, p.match))
                                             EXCEPT !.match = 0] ELSE p
         IN  IF p.match > 0 /\ b = "ESC" THEN [flushed EXCEPT !.match = 1]
             ELSE PasteAppend(flushed, e, <<b>>)

\* CR and CRLF become LF, characters are decoded; <<"bad">> when one is malformed or a control
RECURSIVE PasteText(_)
PasteText(bytes) ==
    LET Then(c, n) == LET rest == PasteText(SubSeq(bytes, n + 1, Len(bytes)))
                      IN  IF rest = <<"bad">> THEN rest ELSE <<c>> \o rest
    IN  CASE bytes = <<>> -> <<>>
          [] bytes # <<>> /\ bytes[1] \in {"ENTER", "nl"} ->
                 Then("nl", IF bytes[1] = "ENTER" /\ Len(bytes) > 1 /\ bytes[2] = "nl" THEN 2 ELSE 1)
          [] bytes # <<>> /\ bytes[1] \in {"L", "M"} ->
                 LET n == NeedOf(bytes[1]) IN
                 IF Len(bytes) < n \/ (\E i \in 2..n : ~Continues(bytes[i]))
                    \/ CharOf(SubSeq(bytes, 1, n)) = "R"
                 THEN <<"bad">> ELSE Then(CharOf(SubSeq(bytes, 1, n)), n)
          [] bytes # <<>> /\ bytes[1] \in {"X", "c", "d"} -> <<"bad">>
          [] OTHER -> Then(IF bytes[1] = " " THEN " " ELSE "a", 1)

\* the end of linenoiseEditPaste
Pasted(e, p) ==
    LET text == PasteText(p.text) IN
    IF p.over \/ text = <<"bad">> THEN e
    ELSE IF ShouldFold(text) /\ TextSize(e.buf) + TextSize(text) <= BufMax
         THEN FoldAdd(EditInsert(e, text), e.pos, e.pos + Len(text))
         ELSE EditInsert(e, text)

-----------------------------------------------------------------------------
(* One byte: completion, then the key it completes                         *)

\* completeLine with candidates cs: the line, the candidate then shown, what is left of the byte
Chosen(e, comp, cs, b) ==
    IF b = "TAB" THEN [e |-> e, comp |-> IF comp < 0 THEN 0 ELSE (comp + 1) % (Len(cs) + 1), b |-> ""]
    ELSE IF b = "ESC" \/ comp = Len(cs) THEN [e |-> e, comp |-> -1, b |-> b]
    ELSE IF TextSize(cs[comp + 1]) > BufMax THEN [e |-> e, comp |-> -1, b |-> ""]
    ELSE [e |-> Holding(e, cs[comp + 1]), comp |-> -1, b |-> b]

CompletedAs(in, to, shown) ==
    [e |-> shown[1], in |-> [in EXCEPT !.comp = to.comp], s |-> shown[2], b |-> to.b]

\* completeLine: what is left of the byte is "" when it is used up
Completed(e, in, s, b) ==
    IF in.pend # <<>> \/ (in.comp < 0 /\ b # "TAB") THEN [e |-> e, in |-> in, s |-> s, b |-> b]
    ELSE IF Offered(e) = <<>> THEN [e |-> e, in |-> [in EXCEPT !.comp = -1], s |-> s,
                                    b |-> IF b = "ESC" THEN b ELSE ""]
    ELSE LET to == Chosen(e, in.comp, Offered(e), b)
         IN  CompletedAs(in, to, RefreshAs(to.e, to.comp, s))

\* what an escape sequence stands for
SeqKey(seq) ==
    CASE seq = <<"[", "3", "~">> -> "DEL" [] seq = <<"[", "200", "~">> -> "PASTE"
      [] OTHER -> CASE Last(seq) = "A" -> "CP" [] Last(seq) = "B" -> "CN" [] Last(seq) = "C" -> "CF"
                    [] Last(seq) = "D" -> "CB" [] Last(seq) = "H" -> "CA" [] Last(seq) = "F" -> "CE"
                    [] OTHER -> "NONE"

Final(b) == b \in {"a", "[", "O", "~", "A", "B", "C", "D", "F", "H"}

\* the keys that the pending bytes and b make, and the bytes that stay pending
Decoded(pend, b) ==
    LET First == IF b \in {"ESC", "L", "M"} THEN [pend |-> <<b>>, keys |-> <<>>]
                 ELSE [pend |-> <<>>, 
                       keys |-> <<IF b = "X" \/ Continues(b) THEN "R"
                                  ELSE IF Printable(b) THEN "a" ELSE b>>]
        more == Append(pend, IF pend # <<>> /\ pend[1] = "ESC" /\ ~Final(b) /\ b \notin {"3", "200"}
                             THEN "other" ELSE b)
    IN  IF pend = <<>> \/ (pend = <<"ESC">> /\ b \notin {"[", "O"}) THEN First
        ELSE IF pend[1] = "ESC"
             THEN IF Len(more) > 2 /\ Final(b) THEN [pend |-> <<>>, keys |-> <<SeqKey(Tail(more))>>]
                  ELSE [pend |-> IF Len(more) = PendMax THEN <<>> ELSE more, keys |-> <<>>]
        ELSE IF ~Continues(b) THEN [First EXCEPT !.keys = <<"R">> \o @]
        ELSE IF Len(more) < NeedOf(pend[1]) THEN [pend |-> more, keys |-> <<>>]
        ELSE [pend |-> <<>>, keys |-> <<CharOf(more)>>]

\* the keys that only change the buffer
Edited(e, k) ==
    CASE k = "BS" -> EditBackspace(e)
      [] k \in {"CD", "DEL"} -> EditDelete(e)
      [] k = "CT" -> Transpose(e)
      [] k = "CB" -> MoveLeft(e)
      [] k = "CF" -> MoveRight(e)
      [] k = "CA" -> [e EXCEPT !.pos = 0]
      [] k = "CE" -> [e EXCEPT !.pos = Len(e.buf)]
      [] k = "CU" -> [e EXCEPT !.buf = <<>>, !.pos = 0, !.folds = <<>>]
      [] k = "CK" -> Erase(e, e.pos, Len(e.buf) - e.pos)
      [] k = "CW" -> EditDeletePrevWord(e)
      [] k \in {"NONE", "nl", "TAB"} -> e
      [] OTHER -> EditInsert(e, <<k>>)

RefreshIfChanged(e, e2, s, always) == IF e2 # e \/ always THEN Refresh(e2, s) ELSE <<e, s>>

\* the state after a byte except for its last key k: U+FFFD may come before it
ArrivedAs(c, d) ==
    LET r == IF Len(d.keys) = 2 THEN RefreshIfChanged(c.e, EditInsert(c.e, <<"R">>), c.s, FALSE)
             ELSE <<c.e, c.s>>
    IN  [e |-> r[1], s |-> r[2], in |-> [c.in EXCEPT !.pend = d.pend],
         k |-> IF d.keys = <<>> THEN "" ELSE Last(d.keys)]

Arrived(c) ==
    ArrivedAs(c, IF c.b = "" THEN [pend |-> <<>>, keys |-> <<>>] ELSE Decoded(c.in.pend, c.b))

-----------------------------------------------------------------------------
(* Actions                                                                 *)

LeInit ==
    /\ editing = FALSE /\ ed = FreshEdit /\ keyIn = NoInput
    /\ hist \in HistFile /\ slot = <<>> /\ line = <<>>
    /\ screen = BlankScreen /\ nkeys = 0

\* linenoiseEditStart
EditStart ==
    /\ ~editing /\ (line = <<>> \/ AddWhileEditing)
    /\ editing' = TRUE
    /\ ed' = [FreshEdit EXCEPT !.oldrows = 1] /\ keyIn' = NoInput
    /\ hist' = HistoryAdd(hist, <<>>) /\ slot' = <<>>
    /\ screen' = [BlankScreen EXCEPT !.used = {1}]
    /\ UNCHANGED <<line, nkeys>>

\* linenoiseEditStop: the caller goes on below the line
EditStop ==
    /\ editing' = FALSE /\ ed' = FreshEdit /\ keyIn' = NoInput /\ slot' = <<>>
    /\ screen' = BlankScreen

Show(r) == ed' = r[1] /\ screen' = r[2]

Counted(k) == nkeys' = nkeys + (IF k = "" THEN 0 ELSE 1)

\* linenoiseEditFeed: nothing yet, or a key that edits the line
FeedEdit(a) ==
    /\ a.k \notin {"ENTER", "CC", "CP", "CN", "CL", "PASTE"} /\ ~(a.k = "CD" /\ a.e.buf = <<>>)
    /\ Show(IF a.k = "" THEN <<a.e, a.s>>
            ELSE RefreshIfChanged(a.e, Edited(a.e, a.k), a.s, a.k \in {"CU", "CK", "CW"}))
    /\ keyIn' = a.in /\ Counted(a.k)
    /\ UNCHANGED <<editing, hist, slot, line>>

FeedHistory(a) ==
    LET m == HistoryMoved(a.e, hist, IF a.k = "CP" THEN 1 ELSE -1)
    IN  /\ a.k \in {"CP", "CN"}
        /\ hist' = m.h /\ slot' = IF a.e.hidx = 0 /\ Len(hist) > 1 THEN a.e.buf ELSE slot
        /\ Show(RefreshIfChanged(a.e, m.e, a.s, FALSE)) /\ keyIn' = a.in /\ Counted(a.k)
        /\ UNCHANGED <<editing, line>>

\* Ctrl-L: the screen is cleared behind the editor's rows
FeedClearScreen(a) ==
    /\ a.k = "CL"
    /\ Show(Refresh(a.e, [a.s EXCEPT !.used = {}, !.at = 1])) /\ keyIn' = a.in /\ Counted(a.k)
    /\ UNCHANGED <<editing, hist, slot, line>>

\* Enter, and Ctrl-D on an empty line: the edit's own history entry goes
FeedEnd(a) ==
    /\ a.k = "ENTER" \/ (a.k = "CD" /\ a.e.buf = <<>>)
    /\ hist' = Front(hist)
    /\ line' = IF a.k = "ENTER" /\ line = <<>> THEN a.e.buf ELSE line
    /\ EditStop /\ Counted(a.k)

\* Ctrl-C: the blocking call ends, the agent clears the line (linenoiseEditClear)
FeedInterrupt(a) ==
    /\ a.k = "CC" /\ Counted(a.k)
    /\ \/ EditStop
       \/ Show(Refresh(Holding(a.e, <<>>), a.s)) /\ keyIn' = NoInput /\ UNCHANGED <<editing, slot>>
    /\ UNCHANGED <<hist, line>>

FeedPasteStart(a) ==
    /\ a.k = "PASTE"
    /\ keyIn' = [a.in EXCEPT !.paste = [NoPaste EXCEPT !.on = TRUE]]
    /\ ed' = a.e /\ screen' = a.s /\ Counted(a.k)
    /\ UNCHANGED <<editing, hist, slot, line>>

\* linenoiseEditPaste, one byte of it
FeedPaste(b) ==
    LET p == PasteFed(keyIn.paste, ed, b)
    IN  /\ editing /\ keyIn.paste.on
        /\ Len(keyIn.paste.text) <= BufMax
        /\ IF p.match = Len(PasteEnd)
           THEN /\ Show(RefreshIfChanged(ed, Pasted(ed, p), screen, FALSE))
                /\ keyIn' = [keyIn EXCEPT !.paste = NoPaste]
           ELSE keyIn' = [keyIn EXCEPT !.paste = p] /\ UNCHANGED <<ed, screen>>
        /\ nkeys' = nkeys + (IF p.match > keyIn.paste.match THEN 0 ELSE 1)
        /\ UNCHANGED <<editing, hist, slot, line>>

\* the caller records an accepted line: linenoiseHistoryAdd
Record ==
    /\ line # <<>> /\ (~editing \/ AddWhileEditing)
    /\ hist' = HistoryAdd(hist, line) /\ line' = <<>>
    /\ UNCHANGED <<editing, ed, keyIn, slot, screen, nkeys>>

\* linenoiseHide, output of the application, linenoiseShow
HideShow ==
    LET e == [ed EXCEPT !.oldrows = 0, !.oldstatus = 0, !.oldrpos = 1]
    IN  /\ editing
        /\ Show(PutBack(ed, Written(Drawn(e, keyIn.comp), [Cleaned(ed, screen) EXCEPT !.at = 1])))
        /\ UNCHANGED <<editing, keyIn, hist, slot, line, nkeys>>

\* linenoiseEditSetStatus, between keys: drawn by the next refresh
SetStatus(n) ==
    /\ editing /\ n # ed.status /\ keyIn = NoInput
    /\ ed' = [ed EXCEPT !.status = n]
    /\ UNCHANGED <<editing, keyIn, hist, slot, line, screen, nkeys>>

\* linenoiseHistorySave, then linenoiseHistoryLoad by the next process
SaveLoad ==
    /\ ~editing /\ hist # <<>> /\ line = <<>>
    /\ hist' = FoldLeft(HistoryAdd, <<>>, hist)
    /\ UNCHANGED <<editing, ed, keyIn, slot, line, screen, nkeys>>

LeNext ==
    \/ EditStart \/ Record \/ SaveLoad
    \/ HideShow \/ \E n \in StatusRange : SetStatus(n)
    \/ /\ editing /\ ~keyIn.paste.on /\ nkeys < MaxKeys
       /\ \E a \in {Arrived(Completed(ed, keyIn, screen, b)) : b \in InputBytes} :
             \/ FeedEdit(a) \/ FeedHistory(a) \/ FeedClearScreen(a)
             \/ FeedEnd(a) \/ FeedInterrupt(a) \/ FeedPasteStart(a)
    \/ nkeys < MaxKeys /\ \E b \in InputBytes : FeedPaste(b)

-----------------------------------------------------------------------------
(* Properties                                                              *)

\* Folds stay sorted, disjoint and inside the buffer, and each still covers exactly the text
\* it was made for, through every insertion, deletion, transposition and recall
\* ("it no longer maps to an unchanged range", linenoiseAdjustFoldsAfterInsert).
FoldsExact ==
    /\ \A i \in DOMAIN ed.folds :
           LET f == ed.folds[i] IN f.text # <<>> /\ SubSeq(ed.buf, f.start + 1, f.end) = f.text
    /\ \A i \in 1..(Len(ed.folds) - 1) : ed.folds[i].end <= ed.folds[i + 1].start

\* While a line is edited the latest history entry is that line's own entry: empty, or what
\* the edit left there when it moved to an older entry (linenoiseEditStart).
LatestEntryIsEdit == editing => hist # <<>> /\ Last(hist) = slot

\* As long as no raw newline was printed, the rows in use are those of the prompt that the
\* editor believes it has: a refresh leaves no row of an earlier prompt behind.
ScreenIsPrompt ==
    editing /\ ~screen.raw =>
        screen.used = screen.top .. (screen.top + ed.oldrows + ed.oldstatus - 1)
=============================================================================
