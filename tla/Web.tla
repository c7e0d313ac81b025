-------------------------------- MODULE Web --------------------------------
(***************************************************************************)
(* The web tools (p36_web.c): a visible browser that is started once, kept *)
(* and killed when it hangs; a tab for every page, and the DevTools calls  *)
(* over its socket that load the page and extract its text.                *)
(*                                                                         *)
(* Calls carry an id; the browser may answer late, never, or while another *)
(* call waits, and sends events between answers.  The answer is recognized *)
(* by the first "id" in its text, and events have such members too.  A     *)
(* wait that ends inside a frame leaves the rest of it in the socket, and  *)
(* nothing read after that is a message any more.  The cancel callback may *)
(* fire at any time.                                                       *)
(***************************************************************************)
EXTENDS Naturals, Sequences, FiniteSets

CONSTANTS
    Tries,          \* the rounds of a readiness loop (80 and 100 in the code)
    MaxPages,       \* bound: pages asked for
    MaxWire,        \* bound: unread messages of one socket
    MaxLate,        \* bound: given up calls the browser may still answer
    ContextIds      \* the numbers the browser gives to a page's execution contexts

ASSUME WebAssumption == ContextIds \subseteq Nat

VARIABLES
    pc,             \* where web_run_page_js is
    dynamic,        \* dynamic_scroll: visit_page scrolls, google_search does not
    child,          \* the child behind chrome_pid: "none", "starting", "up", "hung", "exited"
    strays,         \* live children that no pid is kept for
    allowed,        \* browser_allowed
    tabs,           \* the tabs open in the browser, by page number
    tab,            \* the tab whose id is known, or 0
    unknown,        \* tabs whose id was never learned, or whose close request was lost
    sock,           \* cdp_ws: [next_id, wire, late, broken]; late: calls the browser still works on
    waiting,        \* the call that waits for its answer: [id, step], id 0 for none
    left,           \* rounds left in the current loop
    cancel,         \* what the cancel callback says
    page,           \* number of the page asked for
    answer          \* what the last call returned: the step and page its text came from

webVars == <<pc, dynamic, child, strays, allowed, tabs, tab, unknown, sock, waiting,
             left, cancel, page, answer>>
atRest == <<child, strays, allowed, tabs, tab, unknown>>

NoCallYet == [id |-> 0, step |-> "none"]
NoOut == [page |-> 0, step |-> "none"]
NewSock == [next_id |-> 1, wire |-> <<>>, late |-> {}, broken |-> FALSE]
Alive(c) == c \in {"starting", "up", "hung"}

WebInit ==
    /\ pc = "idle" /\ dynamic = FALSE /\ child = "none" /\ strays = 0 /\ allowed = FALSE
    /\ tabs = {} /\ tab = 0 /\ unknown = {} /\ sock = NewSock /\ waiting = NoCallYet
    /\ left = 0 /\ cancel = FALSE /\ page = 0 /\ answer = NoOut

\* p36_web_google_search, p36_web_visit_page
Ask(scroll) ==
    /\ pc = "idle" /\ page < MaxPages
    /\ pc' = "ensure" /\ dynamic' = scroll /\ page' = page + 1 /\ answer' = NoOut /\ cancel' = FALSE
    /\ UNCHANGED <<sock, waiting, left>> /\ UNCHANGED atRest

\* return NULL: nothing to close before a tab is known
Return(o) ==
    /\ pc' = "idle" /\ answer' = o /\ tab' = 0 /\ waiting' = NoCallYet /\ left' = 0
    /\ sock' = NewSock

-----------------------------------------------------------------------------
(* The browser process                                                     *)

\* web_ensure_browser: alive, or the old child is killed and reaped
EnsureBrowser ==
    /\ pc = "ensure"
    /\ \/ /\ child = "up" /\ pc' = "open" /\ UNCHANGED child
       \/ /\ child # "up" /\ pc' = "approve"
          /\ child' = "none"
    /\ UNCHANGED <<dynamic, strays, allowed, tabs, tab, unknown, sock, waiting, left, cancel, page, answer>>

\* the confirmation, and the fork of web_spawn_chrome; the profile directory or the fork may fail
Spawn ==
    /\ pc = "approve"
    /\ allowed' = TRUE
    /\ \/ /\ strays' = strays + (IF Alive(child) THEN 1 ELSE 0)
          /\ child' = "starting" /\ tabs' = {} /\ unknown' = {}
          /\ pc' = "spawn" /\ left' = Tries
          /\ UNCHANGED <<tab, sock, waiting, answer>>
       \/ Return(NoOut) /\ UNCHANGED <<strays, child, tabs, unknown>>
    /\ UNCHANGED <<dynamic, cancel, page>>

Denied ==
    /\ pc = "approve" /\ ~allowed
    /\ Return(NoOut)
    /\ UNCHANGED <<dynamic, child, strays, allowed, tabs, unknown, cancel, page>>

\* the loop of web_spawn_chrome: ready, exited, cancelled, or a round later
SpawnRound ==
    /\ pc = "spawn"
    /\ \/ ~cancel /\ child = "up" /\ pc' = "open" /\ UNCHANGED <<child, left, answer, tab, waiting, sock>>
       \/ /\ ~cancel /\ child = "exited" /\ child' = "none" /\ Return(NoOut)
       \/ /\ ~cancel /\ child \in {"starting", "hung"} /\ left > 0
          /\ left' = left - 1 /\ UNCHANGED <<pc, child, answer, tab, waiting, sock>>
       \/ (cancel \/ left = 0) /\ Return(NoOut) /\ UNCHANGED child
    /\ UNCHANGED <<dynamic, strays, allowed, tabs, unknown, cancel, page>>

\* the browser's own life; a hung or dead browser answers nobody
BrowserLives(to) ==
    /\ \/ child = "starting" /\ to \in {"up", "hung", "exited"}
       \/ child \in {"up", "hung"} /\ to \in {"hung", "exited"} /\ to # child
    /\ child' = to
    /\ tabs' = IF to = "exited" THEN {} ELSE tabs
    /\ unknown' = IF to = "exited" THEN {} ELSE unknown
    /\ UNCHANGED <<pc, dynamic, strays, allowed, tab, sock, waiting, left, cancel, page, answer>>

Cancelled ==
    /\ pc # "idle" /\ ~cancel /\ cancel' = TRUE
    /\ UNCHANGED <<pc, dynamic, sock, waiting, left, page, answer>> /\ UNCHANGED atRest

-----------------------------------------------------------------------------
(* Calls over the socket                                                   *)

Steps == <<"open", "page", "runtime", "focus", "metrics", "ready", "navigate", "settle",
           "consent", "resettle", "scroll", "extract">>
IsStep(s) == \E i \in DOMAIN Steps : Steps[i] = s
Loops == {"ready", "settle", "resettle"}

\* web_cdp_call up to the wait; web_open_tab's call has a socket of its own
CdpSend ==
    /\ IsStep(pc) /\ waiting = NoCallYet /\ ~cancel /\ child = "up"
    /\ waiting' = [id |-> sock.next_id, step |-> pc]
    /\ sock' = [sock EXCEPT !.next_id = @ + 1]
    /\ tabs' = IF pc = "open" THEN tabs \cup {page} ELSE tabs
    /\ unknown' = IF pc = "open" THEN unknown \cup {page} ELSE unknown
    /\ UNCHANGED <<pc, dynamic, child, strays, allowed, tab, left, cancel, page, answer>>

OnWire(c) == \E i \in DOMAIN sock.wire : sock.wire[i] = c

\* The events, each with the number that follows its first "id" (0 without one or with a
\* string): a page context's own id or, in a console message that shows the string "id", its
\* executionContextId.  A console message also has a string "value".
IsEvent(m) == m.step \in {"event", "console"}
Events == {[id |-> 0, step |-> "event"]} \cup [id : ContextIds, step : {"event", "console"}]

\* Runtime.enable was sent, so the tab reports its contexts and its console
RuntimeOn == pc \notin {"open", "page"} /\ (pc = "runtime" => waiting # NoCallYet)

\* the browser answers the waiting call or one that was given up, or reports an event
BrowserSends(c) ==
    /\ IsStep(pc) /\ child = "up" /\ Len(sock.wire) < MaxWire
    /\ IF IsEvent(c) THEN c.id # 0 => RuntimeOn ELSE ~OnWire(c)
    /\ sock' = [sock EXCEPT !.wire = Append(@, c), !.late = @ \ {c}]
    /\ UNCHANGED <<pc, dynamic, waiting, left, cancel, page, answer>> /\ UNCHANGED atRest

AfterStep(s) ==
    IF s \in {"consent", "resettle"} THEN (IF dynamic THEN "scroll" ELSE "extract")
    ELSE LET i == CHOOSE j \in DOMAIN Steps : Steps[j] = s IN Steps[i + 1]

Goto(s) == pc' = s /\ left' = (IF s \in Loops THEN Tries ELSE 0) /\ UNCHANGED <<answer, tab>>
GiveUp == pc' = "close" /\ UNCHANGED <<left, answer, tab>>
RoundLater(s) ==
    IF left > 0 THEN left' = left - 1 /\ UNCHANGED <<pc, answer, tab>> ELSE Goto(AfterStep(s))

\* the answer m: a loop may find the page not ready, the consent script may have clicked
Succeeded(s, m) ==
    \/ s = "open" /\ pc' = "connect" /\ tab' = page /\ UNCHANGED <<left, answer>>
    \/ s = "extract" /\ pc' = "close" /\ answer' = [page |-> page, step |-> m.step] /\ UNCHANGED <<left, tab>>
    \/ s = "consent" /\ Goto("resettle")
    \/ s \in Loops /\ RoundLater(s)
    \/ s \notin {"open", "extract"} /\ Goto(AfterStep(s))

\* mutant: the tab is forgotten when the page cannot be prepared
FailedForgets(s) ==
    \/ s \in {"navigate", "extract"} /\ GiveUp
    \/ s \in {"page", "runtime"} /\ pc' = "idle" /\ UNCHANGED <<left, answer, tab>>
    \/ s \in Loops \cup {"scroll"} /\ cancel /\ GiveUp
    \/ s \in Loops /\ ~cancel /\ RoundLater(s)
    \/ s \in {"focus", "metrics", "consent"} /\ Goto(AfterStep(s))
    \/ s = "scroll" /\ ~cancel /\ Goto("extract")

\* what a failed call leads to; a loop that runs out of rounds goes on all the same
Failed(s) ==
    \/ s \in {"page", "runtime", "navigate", "extract"} /\ GiveUp
    \/ s \in Loops \cup {"scroll"} /\ cancel /\ GiveUp
    \/ s \in Loops /\ ~cancel /\ RoundLater(s)
    \/ s \in {"focus", "metrics", "consent"} /\ Goto(AfterStep(s))
    \/ s = "scroll" /\ ~cancel /\ Goto("extract")

\* mutant: any answer will do
IdMatchesAny(m, id) == m.id # 0
\* web_json_id_matches: the number after the first "id" of the text, wherever it stands
IdMatches(m, id) == m.id = id

\* What the browser may still work on when the waiting call is given up: it as well, unless
\* its answer is on its way or never comes
LateThen ==
    IF waiting = NoCallYet \/ OnWire(waiting) \/ Cardinality(sock.late) >= MaxLate THEN {sock.late}
    ELSE {sock.late, sock.late \cup {waiting}}

\* web_ws_read_message and the id test of web_cdp_call, which may take an event for the answer.
\* Runtime.evaluate may also answer with an exception or no string, which web_cdp_eval_string
\* reports as a failure; an event without a string "value" is one to it
Evals == Loops \cup {"consent", "scroll", "extract"}
ReadMessage ==
    LET m == Head(sock.wire) IN
    /\ waiting # NoCallYet /\ sock.wire # <<>> /\ ~sock.broken /\ ~cancel
    /\ \/ /\ IdMatches(m, waiting.id)
          /\ waiting' = NoCallYet
          /\ \/ (pc \in Evals => m.step # "event") /\ Succeeded(pc, m)
             \/ pc \in Evals /\ Failed(pc)
          /\ \E late \in IF IsEvent(m) THEN LateThen ELSE {sock.late} :
                sock' = IF pc = "open" THEN NewSock ELSE [sock EXCEPT !.wire = Tail(@), !.late = late]
          /\ unknown' = IF pc = "open" THEN unknown \ {page} ELSE unknown
       \/ /\ ~IdMatches(m, waiting.id)
          /\ sock' = [sock EXCEPT !.wire = Tail(@)]
          /\ UNCHANGED <<pc, waiting, left, answer, tab, unknown>>
    /\ UNCHANGED <<dynamic, child, strays, allowed, tabs, cancel, page>>

\* P36_WEB_CDP_TIMEOUT_MS without a whole message, the connection gone, or cancelled.  The
\* browser may work on; inside a frame the rest of that frame stays in the socket
CallFails ==
    /\ IsStep(pc) /\ (waiting # NoCallYet \/ cancel \/ child # "up")
    /\ \/ pc = "open" /\ Return(NoOut)
       \/ /\ pc # "open" /\ Failed(pc) /\ waiting' = NoCallYet
          /\ \/ \E late \in LateThen : sock' = [sock EXCEPT !.late = late]
             \/ /\ waiting # NoCallYet /\ sock.wire # <<>>
                /\ sock' = [sock EXCEPT !.broken = TRUE]
    /\ UNCHANGED <<dynamic, child, strays, allowed, tabs, unknown, cancel, page>>

\* web_ws_connect to the tab
ConnectTab ==
    /\ pc = "connect"
    /\ sock' = NewSock
    /\ \/ ~cancel /\ child = "up" /\ pc' = "page"
       \/ pc' = "close"
    /\ UNCHANGED <<dynamic, waiting, left, cancel, page, answer>> /\ UNCHANGED atRest

\* web_close_tab: the request may be lost; nobody asks again
CloseTab ==
    /\ pc = "close"
    /\ \/ child = "up" /\ tabs' = tabs \ {tab} /\ UNCHANGED unknown
       \/ tabs' = tabs /\ unknown' = unknown \cup ({tab} \cap tabs)
    /\ Return(answer)
    /\ UNCHANGED <<dynamic, child, strays, allowed, cancel, page>>

\* A page's text is never the answer to another call: a late answer to a call that timed out
\* (the scroll script runs up to 25 s, the wait is shorter), to one that gave up because an
\* event was taken for its answer, or on another tab's socket (web_cdp_call's id test).  The
\* test does not keep out this tab's events: one whose first "id" is followed by the number
\* of the extract call is taken for its answer, and if it is a console message its text is.
OwnAnswer == answer # NoOut => answer.page = page /\ answer.step \in {"extract", "console"}

\* Between calls, the only tabs left in the browser are the ones whose id was never learned or
\* whose close request was lost, and no browser runs that a later call cannot stop: every
\* return path of web_run_page_js closes its tab, web_ensure_browser stops a hung child first.
NothingLeftBehind == pc = "idle" => tabs \subseteq unknown /\ strays = 0

WebNext ==
    \/ \E s \in BOOLEAN : Ask(s)
    \/ EnsureBrowser \/ Spawn \/ Denied \/ SpawnRound
    \/ \E to \in {"up", "hung", "exited"} : BrowserLives(to)
    \/ Cancelled \/ CdpSend
    \/ \E c \in ({waiting} \ {NoCallYet}) \cup sock.late \cup Events : BrowserSends(c)
    \/ ReadMessage \/ CallFails \/ ConnectTab \/ CloseTab

WebSpec == WebInit /\ [][WebNext]_webVars
=============================================================================
