--------------------------- MODULE WebEvalProofs ---------------------------
(***************************************************************************)
(* The web tools for any number of pages, of rounds, of unread messages    *)
(* and of calls the browser still works on; p36-eval for any cases,        *)
(* options, answers and memory.                                            *)
(***************************************************************************)
EXTENDS Web, Eval, Induction, SequenceTheorems, FiniteSetTheorems

-----------------------------------------------------------------------------
(* Web                                                                     *)

StepNames == {"open", "page", "runtime", "focus", "metrics", "ready", "navigate", "settle",
              "consent", "resettle", "scroll", "extract"}
Calls == [id : Nat, step : StepNames \cup {"none", "event", "console"}]
Sockets == [next_id : Nat \ {0}, wire : Seq(Calls), late : SUBSET Calls, broken : BOOLEAN]

\* The calls, waiting, given up or answered, that still belong to the socket
Carried == {waiting} \cup sock.late \cup {sock.wire[i] : i \in DOMAIN sock.wire}

WebTypes ==
    /\ waiting \in Calls /\ page \in Nat
    /\ sock \in Sockets

\* Ids are given out once per socket, so the id of what is no event tells which step asked
IdsTell ==
    /\ \A c \in Carried : ~IsEvent(c) => c.id < sock.next_id
    /\ \A c, d \in Carried : ~IsEvent(c) /\ ~IsEvent(d) /\ c.id # 0 /\ c.id = d.id => c = d
    /\ waiting # NoCallYet => waiting.id # 0 /\ waiting.step = pc /\ IsStep(pc)

\* An answer is there only at the end of a page, and it is no other call's
AnswerOwned ==
    answer # NoOut => pc \in {"close", "idle"} /\ answer.page = page /\ answer.step \in {"extract", "console"}

\* A tab's id is known from the answer of "open" to the close
TabsKnown ==
    /\ tabs \subseteq unknown \cup {tab} /\ 0 \notin tabs
    /\ pc \in {"idle", "ensure", "approve", "spawn", "open"} => tab = 0
    /\ pc # "idle" => page # 0

\* A child is forked only after the last one was reaped
OneChild == strays = 0 /\ (pc = "approve" => child = "none")

WebInv == WebTypes /\ IdsTell /\ AnswerOwned /\ TabsKnown /\ OneChild

-----------------------------------------------------------------------------
(* The steps of a page                                                     *)

\* The steps are the twelve that web_run_page_js makes calls in
LEMMA StepsNamed == \A s : IsStep(s) <=> s \in StepNames
<1>1. DOMAIN Steps = 1..12
  BY DEF Steps
<1>2. /\ Steps[1] = "open" /\ Steps[2] = "page" /\ Steps[3] = "runtime" /\ Steps[4] = "focus"
      /\ Steps[5] = "metrics" /\ Steps[6] = "ready" /\ Steps[7] = "navigate" /\ Steps[8] = "settle"
      /\ Steps[9] = "consent" /\ Steps[10] = "resettle" /\ Steps[11] = "scroll" /\ Steps[12] = "extract"
  BY DEF Steps
<1>3. ASSUME NEW n \in 1..12
      PROVE  n \in {1, 2, 3, 4, 5, 6, 7, 8, 9, 10, 11, 12}
  OBVIOUS
<1>4. ASSUME NEW s, IsStep(s) PROVE s \in StepNames
  BY <1>1, <1>2, <1>3, <1>4 DEF IsStep, StepNames
<1>5. ASSUME NEW s \in StepNames PROVE IsStep(s)
  <2>1. \E n \in 1..12 : Steps[n] = s
    BY <1>2 DEF StepNames
  <2> QED BY <1>1, <2>1 DEF IsStep
<1> QED BY <1>4, <1>5

\* No step leads back to the opening of the tab
LEMMA StepFollows ==
    ASSUME NEW s \in StepNames \ {"open", "extract"}
    PROVE  AfterStep(s) \in StepNames \ {"open"}
<1>1. CASE s \in {"consent", "resettle"}
  BY <1>1 DEF AfterStep, StepNames
<1>2. CASE s \notin {"consent", "resettle"}
  <2> DEFINE i == CHOOSE j \in DOMAIN Steps : Steps[j] = s
  <2>1. i \in DOMAIN Steps /\ Steps[i] = s
    BY StepsNamed DEF IsStep
  <2>2. AfterStep(s) = Steps[i + 1]
    BY <1>2 DEF AfterStep
  <2> HIDE DEF i
  <2>3. i \in 1..12 /\ Steps[12] = "extract" /\ Steps[1] = "open" /\ DOMAIN Steps = 1..12
    BY <2>1 DEF Steps
  <2>4. i + 1 \in 2..12
    BY <2>1, <2>3
  <2>5. \A j \in 2..12 : Steps[j] # "open"
    BY DEF Steps
  <2>6. IsStep(Steps[i + 1])
    BY <2>3, <2>4 DEF IsStep
  <2> QED BY <2>2, <2>4, <2>5, <2>6, StepsNamed
<1> QED BY <1>1, <1>2

\* What the end of a call leads to
LEMMA StepOutcome ==
    ASSUME pc \in StepNames, NEW m, Succeeded(pc, m) \/ Failed(pc)
    PROVE  /\ pc' \in (StepNames \ {"open"}) \cup {"connect", "close"}
           /\ \/ answer' = answer
              \/ pc = "extract" /\ pc' = "close" /\ answer' = [page |-> page, step |-> m.step]
           /\ Failed(pc) => answer' = answer
           /\ IF pc = "open" THEN tab' = page ELSE tab' = tab
<1>1. ASSUME pc \in Loops, RoundLater(pc)
      PROVE  pc' \in StepNames \ {"open"} /\ answer' = answer /\ tab' = tab
  <2>1. pc \in StepNames \ {"open", "extract"}
    BY <1>1 DEF Loops, StepNames
  <2> QED BY <1>1, <2>1, StepFollows DEF RoundLater, Goto
<1>2. ASSUME pc \notin {"open", "extract"}, Goto(AfterStep(pc))
      PROVE  pc' \in StepNames \ {"open"} /\ answer' = answer /\ tab' = tab
  BY <1>2, StepFollows DEF Goto
<1>3. ASSUME pc # "open", NEW s \in {"resettle", "extract"}, Goto(s)
      PROVE  pc' \in StepNames \ {"open"} /\ answer' = answer /\ tab' = tab
  BY <1>3 DEF Goto, StepNames
<1>4. Failed(pc) => answer' = answer
  BY DEF Failed, GiveUp, RoundLater, Goto
<1>5. CASE Succeeded(pc, m)
  BY <1>1, <1>2, <1>3, <1>4, <1>5 DEF Succeeded, Loops
<1>6. CASE Failed(pc)
  BY <1>1, <1>2, <1>3, <1>4, <1>6 DEF Failed, GiveUp, Loops
<1> QED BY <1>5, <1>6

-----------------------------------------------------------------------------
(* The inductive invariant                                                 *)

\* Whatever a socket carries is a call or an event
LEMMA CarriedTyped == WebTypes => Carried \subseteq Calls
<1> SUFFICES ASSUME WebTypes PROVE Carried \subseteq Calls
  OBVIOUS
<1>1. waiting \in Calls /\ sock.late \subseteq Calls /\ sock.wire \in Seq(Calls)
  BY DEF WebTypes, Sockets
<1>2. \A i \in DOMAIN sock.wire : sock.wire[i] \in Calls
  BY <1>1
<1> QED BY <1>1, <1>2 DEF Carried

\* A new socket carries nothing, and nobody waits on it
LEMMA NewSocket ==
    ASSUME waiting' = NoCallYet, sock' = NewSock
    PROVE  waiting' \in Calls /\ sock' \in Sockets /\ IdsTell'
<1>1. NoCallYet \in Calls
  BY DEF NoCallYet, Calls
<1>2. NewSock \in Sockets
  BY DEF NewSock, Sockets
<1>3. Carried' = {NoCallYet}
  BY DEF Carried, NewSock
<1>4. IdsTell'
  BY <1>3 DEF IdsTell, NewSock, NoCallYet
<1> QED BY <1>1, <1>2, <1>4

\* A step that adds no call to the socket keeps what ids tell, unless it moves a waiting call
LEMMA NothingAdded ==
    ASSUME WebTypes, IdsTell, page' \in Nat,
           sock' \in Sockets,
           sock'.next_id = sock.next_id,
           \/ waiting' = NoCallYet
           \/ waiting' = waiting /\ (pc' = pc \/ waiting = NoCallYet),
           Carried' \subseteq Carried \cup {NoCallYet} \cup Events
    PROVE  WebTypes' /\ IdsTell'
<1>1. waiting' \in Calls
  BY DEF WebTypes, NoCallYet, Calls
<1>2. sock.next_id \in Nat /\ sock.next_id > 0
  BY DEF WebTypes, Sockets
<1>3. \A c \in Events : IsEvent(c)
  BY DEF Events, IsEvent
<1>4. /\ \A c \in Carried' : ~IsEvent(c) => c.id < sock'.next_id
      /\ \A c, d \in Carried' : ~IsEvent(c) /\ ~IsEvent(d) /\ c.id # 0 /\ c.id = d.id => c = d
  BY <1>2, <1>3 DEF IdsTell, NoCallYet
<1>5. waiting' # NoCallYet => waiting'.id # 0 /\ waiting'.step = pc' /\ IsStep(pc)'
  BY DEF IdsTell, IsStep
<1> QED BY <1>1, <1>4, <1>5 DEF WebTypes, IdsTell

\* A call that is sent gets an id nobody has
LEMMA SendKeeps ==
    ASSUME WebInv, CdpSend
    PROVE  WebInv'
<1>0. /\ pc \in StepNames /\ IsStep(pc) /\ waiting = NoCallYet
      /\ waiting' = [id |-> sock.next_id, step |-> pc]
      /\ UNCHANGED <<pc, child, strays, tab, page, answer>>
  BY StepsNamed DEF CdpSend
<1>1. sock \in Sockets
      /\ page \in Nat
  BY DEF WebInv, WebTypes
<1>2. /\ sock'.next_id = sock.next_id + 1 /\ sock'.wire = sock.wire /\ sock'.late = sock.late
      /\ sock' \in Sockets
  BY <1>1 DEF CdpSend, Sockets
<1>3. WebTypes'
  <2>1. sock.next_id \in Nat
    BY <1>1 DEF Sockets
  <2> QED BY <1>0, <1>1, <1>2, <2>1 DEF WebTypes, Calls
<1>4. Carried' \subseteq Carried \cup {waiting'}
  BY <1>2 DEF Carried
<1>5. sock.next_id \in Nat /\ \A c \in Carried : c.id \in Nat /\ (~IsEvent(c) => c.id < sock.next_id)
  <2>1. Carried \subseteq Calls
    BY CarriedTyped DEF WebInv
  <2> QED BY <1>1, <2>1 DEF WebInv, IdsTell, Calls, Sockets
<1>6. IdsTell'
  <2>1. waiting'.id = sock.next_id /\ waiting'.step = pc
    BY <1>0
  <2>2. \A c \in Carried' : ~IsEvent(c) => c.id < sock'.next_id
    BY <1>2, <1>4, <1>5, <2>1
  <2>3. \A c, d \in Carried' : ~IsEvent(c) /\ ~IsEvent(d) /\ c.id # 0 /\ c.id = d.id => c = d
    <3>1. \A c \in Carried : ~IsEvent(c) => c.id # waiting'.id
      BY <1>5, <2>1
    <3> QED BY <1>4, <3>1 DEF WebInv, IdsTell
  <2>4. waiting'.id # 0 /\ waiting'.step = pc' /\ IsStep(pc)'
    BY <1>0, <1>1, <2>1 DEF IsStep, Sockets
  <2> QED BY <2>2, <2>3, <2>4 DEF IdsTell
<1>7. AnswerOwned'
  BY <1>0 DEF WebInv, AnswerOwned
<1>8. TabsKnown'
  <2>1. page # 0
    BY <1>0 DEF WebInv, TabsKnown, StepNames
  <2>2. tabs' \subseteq unknown' \cup {tab} /\ 0 \notin tabs'
    BY <2>1 DEF WebInv, TabsKnown, CdpSend
  <2> QED BY <1>0, <2>1, <2>2 DEF WebInv, TabsKnown
<1>9. OneChild'
  BY <1>0 DEF WebInv, OneChild
<1> QED BY <1>3, <1>6, <1>7, <1>8, <1>9 DEF WebInv

\* The browser answers calls it was sent, or reports an event
LEMMA BrowserKeeps ==
    ASSUME WebInv, NEW c \in ({waiting} \ {NoCallYet}) \cup sock.late \cup Events, BrowserSends(c)
    PROVE  WebInv'
<1>1. sock \in Sockets
      /\ page \in Nat /\ waiting \in Calls
  BY DEF WebInv, WebTypes
<1>2. c \in Calls
  <2>1. Events \subseteq Calls
    <3>1. [id |-> 0, step |-> "event"] \in Calls
      BY DEF Calls
    <3>2. [id : ContextIds, step : {"event", "console"}] \subseteq Calls
      BY WebAssumption DEF Calls
    <3> QED BY <3>1, <3>2 DEF Events
  <2> QED BY <1>1, <2>1 DEF Sockets
<1>3. /\ sock'.next_id = sock.next_id /\ sock'.wire = Append(sock.wire, c) /\ sock'.late = sock.late \ {c}
      /\ sock' \in Sockets
      /\ UNCHANGED <<pc, waiting, page, answer, child, strays, tabs, tab, unknown>>
  <2>1. /\ sock' = [sock EXCEPT !.wire = Append(sock.wire, c), !.late = sock.late \ {c}]
        /\ UNCHANGED <<pc, waiting, page, answer, child, strays, tabs, tab, unknown>>
    BY DEF BrowserSends, atRest
  <2>2. Append(sock.wire, c) \in Seq(Calls) /\ sock.late \ {c} \in SUBSET Calls
    BY <1>1, <1>2 DEF Sockets
  <2> QED BY <1>1, <2>1, <2>2 DEF Sockets
<1>4. \A i \in DOMAIN sock'.wire : \/ i \in DOMAIN sock.wire /\ sock'.wire[i] = sock.wire[i]
                                   \/ sock'.wire[i] = c
  <2>1. sock.wire \in Seq(Calls) /\ sock'.wire = Append(sock.wire, c)
    BY <1>1, <1>3 DEF Sockets
  <2> QED BY <1>2, <2>1
<1>5. Carried' \subseteq Carried \cup {NoCallYet} \cup Events
  BY <1>3, <1>4 DEF Carried
<1>6. WebTypes' /\ IdsTell'
  BY <1>1, <1>3, <1>5, NothingAdded DEF WebInv
<1>7. AnswerOwned' /\ TabsKnown' /\ OneChild'
  BY <1>3 DEF WebInv, AnswerOwned, TabsKnown, OneChild
<1> QED BY <1>6, <1>7 DEF WebInv

\* What is taken for the waiting call's answer is that call's or an event: its id is no other call's
LEMMA ReadKeeps ==
    ASSUME WebInv, ReadMessage
    PROVE  WebInv'
<1> DEFINE m == Head(sock.wire)
<1>1. /\ sock \in Sockets
      /\ page \in Nat /\ waiting \in Calls /\ waiting # NoCallYet /\ sock.wire # <<>>
      /\ pc \in StepNames /\ waiting.id # 0 /\ waiting.step = pc
      /\ UNCHANGED <<child, strays, tabs, page>>
  BY StepsNamed DEF WebInv, WebTypes, IdsTell, ReadMessage
<1>2. m \in Carried
  <2>1. 1 \in DOMAIN sock.wire /\ m = sock.wire[1]
    BY <1>1 DEF Sockets
  <2> QED BY <2>1 DEF Carried
<1>3. ASSUME NEW late \in LateThen \cup {sock.late}, sock' = [sock EXCEPT !.wire = Tail(@), !.late = late]
      PROVE  /\ sock'.next_id = sock.next_id
             /\ sock' \in Sockets
             /\ {sock'.wire[i] : i \in DOMAIN sock'.wire} \subseteq {sock.wire[i] : i \in DOMAIN sock.wire}
             /\ sock'.late \subseteq sock.late \cup {waiting}
  <2>0. late \subseteq sock.late \cup {waiting} /\ late \subseteq Calls
    BY <1>1 DEF LateThen, Sockets
  <2>1. Tail(sock.wire) \in Seq(Calls) /\ sock'.wire = Tail(sock.wire)
    BY <1>1, <1>3 DEF Sockets
  <2>2. \A i \in DOMAIN sock'.wire : i + 1 \in DOMAIN sock.wire /\ sock'.wire[i] = sock.wire[i + 1]
    BY <1>1, <2>1 DEF Sockets
  <2>3. sock'.next_id = sock.next_id /\ sock'.late = late /\ sock' \in Sockets
    BY <1>1, <1>3, <2>0, <2>1 DEF Sockets
  <2>4. {sock'.wire[i] : i \in DOMAIN sock'.wire} \subseteq {sock.wire[i] : i \in DOMAIN sock.wire}
    BY <2>2
  <2> QED BY <2>0, <2>3, <2>4
<1> HIDE DEF m
<1>4. CASE ~IdMatches(m, waiting.id)
  <2>1. /\ sock' = [sock EXCEPT !.wire = Tail(@), !.late = sock.late]
        /\ UNCHANGED <<pc, waiting, answer, tab, unknown>>
    <3>1. sock' = [sock EXCEPT !.wire = Tail(@)] /\ UNCHANGED <<pc, waiting, answer, tab, unknown>>
      BY <1>4 DEF ReadMessage, m
    <3> QED BY <1>1, <3>1 DEF Sockets
  <2>2. Carried' \subseteq Carried
    BY <1>3, <2>1 DEF Carried
  <2>3. WebTypes' /\ IdsTell'
    BY <1>1, <1>3, <2>1, <2>2, NothingAdded DEF WebInv
  <2> QED BY <1>1, <2>1, <2>3 DEF WebInv, AnswerOwned, TabsKnown, OneChild
<1>5. CASE IdMatches(m, waiting.id)
  <2>1. /\ waiting' = NoCallYet
        /\ \/ (pc \in Evals => m.step # "event") /\ Succeeded(pc, m)
           \/ pc \in Evals /\ Failed(pc)
        /\ unknown' = IF pc = "open" THEN unknown \ {page} ELSE unknown
        /\ pc = "open" => sock' = NewSock
        /\ pc # "open" => \E late \in LateThen \cup {sock.late} :
                            sock' = [sock EXCEPT !.wire = Tail(@), !.late = late]
    BY <1>5 DEF ReadMessage, m
  <2>2. ~IsEvent(m) => m = waiting
    <3>1. ~IsEvent(waiting) /\ waiting \in Carried
      BY <1>1 DEF IsEvent, StepNames, Carried
    <3> QED BY <1>1, <1>2, <1>5, <3>1 DEF WebInv, IdsTell, IdMatches
  <2>3. /\ pc' \in (StepNames \ {"open"}) \cup {"connect", "close"}
        /\ \/ answer' = answer
           \/ pc = "extract" /\ pc' = "close" /\ answer' = [page |-> page, step |-> m.step]
        /\ Failed(pc) => answer' = answer
        /\ IF pc = "open" THEN tab' = page ELSE tab' = tab
    BY <1>1, <2>1, StepOutcome
  <2>4. WebTypes' /\ IdsTell'
    <3>1. CASE pc = "open"
      BY <1>1, <2>1, <3>1, NewSocket DEF WebTypes
    <3>2. CASE pc # "open"
      <4>1. PICK late \in LateThen \cup {sock.late} : sock' = [sock EXCEPT !.wire = Tail(@), !.late = late]
        BY <2>1, <3>2
      <4>2. /\ sock'.next_id = sock.next_id /\ sock' \in Sockets
            /\ Carried' \subseteq Carried \cup {NoCallYet}
        BY <1>3, <2>1, <4>1 DEF Carried
      <4> QED BY <1>1, <2>1, <4>2, NothingAdded DEF WebInv
    <3> QED BY <3>1, <3>2
  <2>5. answer' = answer \/ m.step \in {"extract", "console"}
    <3>1. CASE IsEvent(m)
      BY <2>1, <2>3, <3>1 DEF IsEvent, Evals
    <3>2. CASE ~IsEvent(m)
      BY <1>1, <2>2, <2>3, <3>2
    <3> QED BY <3>1, <3>2
  <2>6. AnswerOwned'
    BY <1>1, <2>3, <2>5 DEF WebInv, AnswerOwned, StepNames
  <2>7. TabsKnown'
    BY <1>1, <2>1, <2>3 DEF WebInv, TabsKnown, StepNames
  <2>8. OneChild'
    BY <1>1, <2>3 DEF WebInv, OneChild, StepNames
  <2> QED BY <2>4, <2>6, <2>7, <2>8 DEF WebInv
<1> QED BY <1>4, <1>5

\* A call that fails may still be answered, as the call it was
LEMMA FailureKeeps ==
    ASSUME WebInv, CallFails
    PROVE  WebInv'
<1>1. /\ sock \in Sockets
      /\ page \in Nat /\ waiting \in Calls /\ pc \in StepNames
      /\ UNCHANGED <<child, strays, tabs, unknown, page>>
  BY StepsNamed DEF WebInv, WebTypes, CallFails
<1>2. CASE pc = "open"
  <2>1. /\ pc' = "idle" /\ answer' = NoOut /\ tab' = 0 /\ waiting' = NoCallYet /\ sock' = NewSock
    BY <1>2 DEF CallFails, Return
  <2>2. WebTypes' /\ IdsTell'
    BY <1>1, <2>1, NewSocket DEF WebTypes
  <2> QED BY <1>1, <1>2, <2>1, <2>2 DEF WebInv, AnswerOwned, TabsKnown, OneChild
<1>3. CASE pc # "open"
  <2>1. /\ Failed(pc) /\ waiting' = NoCallYet
        /\ \/ \E late \in LateThen : sock' = [sock EXCEPT !.late = late]
           \/ sock' = [sock EXCEPT !.broken = TRUE]
    BY <1>3 DEF CallFails
  <2>2. /\ pc' \in (StepNames \ {"open"}) \cup {"connect", "close"}
        /\ answer' = answer \/ pc' = "close"
        /\ tab' = tab
    BY <1>1, <1>3, <2>1, StepOutcome
  <2>3. answer' = answer
    BY <2>1 DEF Failed, GiveUp, RoundLater, Goto
  <2>4. /\ sock'.next_id = sock.next_id /\ sock'.wire = sock.wire /\ sock'.late \subseteq sock.late \cup {waiting}
        /\ sock' \in Sockets
    <3>1. \A late \in LateThen : late \subseteq sock.late \cup {waiting} /\ late \subseteq Calls
      BY <1>1 DEF LateThen, Sockets
    <3> QED BY <1>1, <2>1, <3>1 DEF Sockets
  <2>5. Carried' \subseteq Carried \cup {NoCallYet}
    BY <2>1, <2>4 DEF Carried
  <2>6. WebTypes' /\ IdsTell'
    BY <1>1, <2>1, <2>4, <2>5, NothingAdded DEF WebInv
  <2>7. AnswerOwned'
    BY <1>1, <2>3 DEF WebInv, AnswerOwned, StepNames
  <2>8. TabsKnown' /\ OneChild'
    BY <1>1, <2>2 DEF WebInv, TabsKnown, OneChild, StepNames
  <2> QED BY <2>6, <2>7, <2>8 DEF WebInv
<1> QED BY <1>2, <1>3

\* The browser's life, the confirmation, the rounds and the two ends of a page
LEMMA PageKeeps ==
    ASSUME WebInv,
           \/ \E s \in BOOLEAN : Ask(s)
           \/ EnsureBrowser \/ Spawn \/ Denied \/ SpawnRound
           \/ \E to \in {"up", "hung", "exited"} : BrowserLives(to)
           \/ Cancelled \/ ConnectTab \/ CloseTab
    PROVE  WebInv'
<1>1. /\ sock \in Sockets /\ page \in Nat /\ waiting \in Calls
      /\ WebTypes /\ IdsTell /\ AnswerOwned /\ TabsKnown /\ OneChild
  BY DEF WebInv, WebTypes
<1>2. pc \notin StepNames => waiting = NoCallYet
  BY <1>1, StepsNamed DEF IdsTell
<1>3. ASSUME sock' = sock, waiting' = waiting, page' \in Nat, pc' = pc \/ pc \notin StepNames
      PROVE  WebTypes' /\ IdsTell'
  <2>1. Carried' = Carried
    BY <1>3 DEF Carried
  <2> QED BY <1>1, <1>2, <1>3, <2>1, NothingAdded
<1>4. CASE \E s \in BOOLEAN : Ask(s)
  <2>1. /\ pc = "idle" /\ pc' = "ensure" /\ page' = page + 1 /\ answer' = NoOut
        /\ UNCHANGED <<sock, waiting, child, strays, tabs, tab, unknown>>
    BY <1>4 DEF Ask, atRest
  <2>2. WebTypes' /\ IdsTell'
    BY <1>1, <1>3, <2>1 DEF StepNames
  <2> QED BY <1>1, <2>1, <2>2 DEF WebInv, AnswerOwned, TabsKnown, OneChild
<1>5. CASE EnsureBrowser
  <2>1. /\ pc = "ensure" /\ (pc' = "open" \/ (pc' = "approve" /\ child' = "none"))
        /\ UNCHANGED <<sock, waiting, strays, tabs, tab, unknown, page, answer>>
    BY <1>5 DEF EnsureBrowser
  <2>2. WebTypes' /\ IdsTell'
    BY <1>1, <1>3, <2>1 DEF StepNames
  <2> QED BY <1>1, <2>1, <2>2 DEF WebInv, AnswerOwned, TabsKnown, OneChild
<1>6. CASE Spawn
  <2>1. /\ pc = "approve" /\ UNCHANGED page
        /\ \/ /\ pc' = "spawn" /\ tabs' = {} /\ unknown' = {}
              /\ strays' = strays + (IF Alive(child) THEN 1 ELSE 0)
              /\ UNCHANGED <<sock, waiting, tab, answer>>
           \/ Return(NoOut) /\ UNCHANGED <<strays, child, tabs, unknown>>
    BY <1>6 DEF Spawn
  <2>2. CASE Return(NoOut) /\ UNCHANGED <<strays, child, tabs, unknown>>
    <3>1. WebTypes' /\ IdsTell'
      BY <1>1, <2>1, <2>2, NewSocket DEF Return, WebTypes
    <3> QED BY <1>1, <2>1, <2>2, <3>1 DEF Return, WebInv, AnswerOwned, TabsKnown, OneChild
  <2>3. CASE pc' = "spawn" /\ tabs' = {} /\ unknown' = {} /\ UNCHANGED <<sock, waiting, tab, answer>>
             /\ strays' = strays + (IF Alive(child) THEN 1 ELSE 0)
    <3>1. WebTypes' /\ IdsTell'
      BY <1>1, <1>3, <2>1, <2>3 DEF StepNames
    <3>2. OneChild'
      BY <1>1, <2>1, <2>3 DEF OneChild, Alive
    <3> QED BY <1>1, <2>1, <2>3, <3>1, <3>2 DEF WebInv, AnswerOwned, TabsKnown
  <2> QED BY <2>1, <2>2, <2>3
<1>7. CASE Denied \/ SpawnRound
  <2>1. /\ pc \in {"approve", "spawn"}
        /\ \/ Return(NoOut)
           \/ pc' \in {"open", "spawn"} /\ UNCHANGED <<answer, tab, waiting, sock>>
        /\ UNCHANGED <<strays, tabs, unknown, page>>
    BY <1>7 DEF Denied, SpawnRound
  <2>2. CASE Return(NoOut)
    <3>1. WebTypes' /\ IdsTell'
      BY <1>1, <2>1, <2>2, NewSocket DEF Return, WebTypes
    <3> QED BY <1>1, <2>1, <2>2, <3>1 DEF Return, WebInv, AnswerOwned, TabsKnown, OneChild
  <2>3. CASE pc' \in {"open", "spawn"} /\ UNCHANGED <<answer, tab, waiting, sock>>
    <3>1. WebTypes' /\ IdsTell'
      BY <1>1, <1>3, <2>1, <2>3 DEF StepNames
    <3> QED BY <1>1, <2>1, <2>3, <3>1 DEF WebInv, AnswerOwned, TabsKnown, OneChild
  <2> QED BY <2>1, <2>2, <2>3
<1>8. CASE (\E to \in {"up", "hung", "exited"} : BrowserLives(to)) \/ Cancelled
  <2>1. /\ UNCHANGED <<pc, sock, waiting, tab, page, answer, strays>>
        /\ (tabs' = tabs /\ unknown' = unknown) \/ tabs' = {}
        /\ child' = child \/ child # "none"
    BY <1>8 DEF BrowserLives, Cancelled, atRest
  <2>2. WebTypes' /\ IdsTell'
    BY <1>1, <1>3, <2>1
  <2> QED BY <1>1, <2>1, <2>2 DEF WebInv, AnswerOwned, TabsKnown, OneChild
<1>9. CASE ConnectTab
  <2>1. /\ pc = "connect" /\ pc' \in {"page", "close"} /\ sock' = NewSock
        /\ UNCHANGED <<waiting, page, answer, child, strays, tabs, tab, unknown>>
    BY <1>9 DEF ConnectTab, atRest
  <2>2. waiting' = NoCallYet
    BY <1>2, <2>1 DEF StepNames
  <2>3. WebTypes' /\ IdsTell'
    BY <1>1, <2>1, <2>2, NewSocket DEF WebTypes
  <2> QED BY <1>1, <2>1, <2>3 DEF WebInv, AnswerOwned, TabsKnown, OneChild
<1>10. CASE CloseTab
  <2>1. /\ pc = "close" /\ pc' = "idle" /\ answer' = answer /\ tab' = 0 /\ waiting' = NoCallYet
        /\ sock' = NewSock /\ UNCHANGED <<strays, page>>
        /\ \/ tabs' = tabs \ {tab} /\ unknown' = unknown
           \/ tabs' = tabs /\ unknown' = unknown \cup ({tab} \cap tabs)
    BY <1>10 DEF CloseTab, Return
  <2>2. WebTypes' /\ IdsTell'
    BY <1>1, <2>1, NewSocket DEF WebTypes
  <2> QED BY <1>1, <2>1, <2>2 DEF WebInv, AnswerOwned, TabsKnown, OneChild
<1> QED BY <1>4, <1>5, <1>6, <1>7, <1>8, <1>9, <1>10

\* The inductive invariant holds however the browser behaves
THEOREM WebInvariant == WebSpec => []WebInv
<1>1. WebInit => WebInv
  <2> SUFFICES ASSUME WebInit PROVE WebInv
    OBVIOUS
  <2>1. WebTypes
    BY DEF WebInit, WebTypes, NoCallYet, Calls, NewSock, Sockets
  <2>2. Carried = {NoCallYet}
    BY DEF WebInit, Carried, NewSock
  <2>3. IdsTell
    BY <2>2 DEF WebInit, IdsTell, NewSock, NoCallYet
  <2> QED BY <2>1, <2>3 DEF WebInit, WebInv, AnswerOwned, TabsKnown, OneChild
<1>2. WebInv /\ [WebNext]_webVars => WebInv'
  <2> SUFFICES ASSUME WebInv, [WebNext]_webVars PROVE WebInv'
    OBVIOUS
  <2>1. CASE WebNext
    BY <2>1, PageKeeps, SendKeeps, BrowserKeeps, ReadKeeps, FailureKeeps DEF WebNext
  <2>2. CASE UNCHANGED webVars
    BY <2>2 DEF webVars, WebInv, WebTypes, IdsTell, Carried, AnswerOwned, TabsKnown, OneChild, IsStep
  <2> QED BY <2>1, <2>2
<1> QED BY <1>1, <1>2, PTL DEF WebSpec

\* web_cdp_call's id test is enough to keep calls apart: whatever the browser answers, late or out
\* of order, and whichever events are taken for answers, the text returned for a page is never the
\* answer to another call
THEOREM AnswersOwned == WebSpec => []OwnAnswer
<1>1. WebInv => OwnAnswer
  BY DEF WebInv, AnswerOwned, OwnAnswer
<1> QED BY <1>1, WebInvariant, PTL

\* Every return path closes the tab it knows, and no child is forked over a live one
THEOREM NothingIsLeftBehind == WebSpec => []NothingLeftBehind
<1>1. WebInv => NothingLeftBehind
  BY DEF WebInv, TabsKnown, OneChild, NothingLeftBehind
<1> QED BY <1>1, WebInvariant, PTL

-----------------------------------------------------------------------------
(* Eval                                                                    *)

-----------------------------------------------------------------------------
(* The cases that are chosen                                               *)

LEMMA CasesAre ==
    /\ CoreCases \in Seq(EvalCases) /\ HardCases \in Seq(EvalCases)
    /\ \A c \in EvalCases : c.prompt \in Nat /\ c.budget \in Nat
    /\ Runs \subseteq EvalOptions /\ MaxContext \in Nat \ {0} /\ ThinkMaxMin \in Nat
  BY EvalAssumption

\* The loop that keeps some members of a sequence
LEMMA OnlyTurns ==
    ASSUME NEW S, NEW s \in Seq(S), NEW I
    PROVE  \E g \in [0..Len(s) -> Seq(S)] :
              g[0] = <<>> /\ Only(s, I) = g[Len(s)] /\ \A k \in 1..Len(s) : g[k] = IF k \in I THEN Append(g[k - 1], s[k]) ELSE g[k - 1]
<1> DEFINE N == Len(s)
           turn(x, k) == IF k \in I THEN Append(x, s[k]) ELSE x
           Step == [q \in Seq(S) \X (1..N) |-> turn(q[1], q[2])]
           p == CHOOSE g : g = [k \in 0..N |-> IF k = 0 THEN <<>> ELSE turn(g[k - 1], k)]
<1>1. N \in Nat /\ <<>> \in Seq(S)
  OBVIOUS
<1>2. \A x \in Seq(S), k \in 1..N : turn(x, k) \in Seq(S)
  <2> SUFFICES ASSUME NEW x \in Seq(S), NEW k \in 1..N PROVE turn(x, k) \in Seq(S)
    OBVIOUS
  <2>1. s[k] \in S
    BY ElementOfSeq
  <2>2. Append(x, s[k]) \in Seq(S)
    BY <2>1
  <2> QED BY <2>2

<1>3. Only(s, I) = p[N]
  BY DEF Only
<1> HIDE DEF turn, N
<1>4. Step \in [Seq(S) \X (1..N) -> Seq(S)]
  BY <1>2
<1>5. PICK g : g \in Turns(N, Seq(S), <<>>, Step)
  <2> HIDE DEF Step
  <2> QED BY <1>1, <1>4, TurnsExist
<1>6. g \in [0..N -> Seq(S)] /\ g[0] = <<>> /\ \A k \in 1..N : g[k] = turn(g[k - 1], k)
  <2>1. g \in [0..N -> Seq(S)] /\ g[0] = <<>> /\ \A k \in 1..N : g[k] = Step[<<g[k - 1], k>>]
    BY <1>5 DEF Turns
  <2>2. ASSUME NEW k \in 1..N PROVE g[k] = turn(g[k - 1], k)
    <3>1. <<g[k - 1], k>> \in Seq(S) \X (1..N)
      BY <1>1, <2>1
    <3> QED BY <2>1, <3>1
  <2> QED BY <2>1, <2>2
<1>7. g = [k \in 0..N |-> IF k = 0 THEN <<>> ELSE turn(g[k - 1], k)]
  BY <1>1, <1>6
<1>8. p = [k \in 0..N |-> IF k = 0 THEN <<>> ELSE turn(p[k - 1], k)]
  BY <1>7
<1> HIDE DEF p
<1>9. p[0] = <<>> /\ \A k \in 1..N : p[k] = turn(p[k - 1], k)
  BY <1>1, <1>8
<1>10. Alike(N, p, g)
  BY <1>1, <1>6, <1>8, <1>9 DEF Alike
<1>11. p = g
  BY <1>1, <1>10, SameTurns
<1> QED BY <1>3, <1>6, <1>11 DEF turn, N

LEMMA OnlySeq == ASSUME NEW S, NEW s \in Seq(S), NEW I PROVE Only(s, I) \in Seq(S)
<1>1. PICK g \in [0..Len(s) -> Seq(S)] : Only(s, I) = g[Len(s)]
  BY OnlyTurns
<1>2. Len(s) \in 0..Len(s)
  BY LenProperties
<1> QED BY <1>1, <1>2

LEMMA SelectSome == ASSUME cfg \in EvalOptions PROVE SelectCases \in Seq(EvalCases)
<1> DEFINE core == IF cfg.suite \in {"core", "all"} THEN CoreCases ELSE <<>>
           hard == IF cfg.suite \in {"hard", "all"} THEN HardCases
                   ELSE IF cfg.suite = "hard-smoke" THEN Only(HardCases, {i \in DOMAIN HardCases : HardCases[i].smoke})
                   ELSE <<>>
           suite == core \o hard
           matching == Only(suite, {i \in DOMAIN suite : cfg.source \in {"", suite[i].source}})
           n == IF cfg.limit > 0 THEN cfg.limit ELSE Len(matching)
<1>1. core \in Seq(EvalCases) /\ cfg.limit \in Nat
  BY CasesAre DEF EvalOptions
<1>2. hard \in Seq(EvalCases)
  BY CasesAre, OnlySeq
<1> HIDE DEF core, hard
<1>3. suite \in Seq(EvalCases)
  BY <1>1, <1>2, ConcatProperties
<1> HIDE DEF suite
<1>4. matching \in Seq(EvalCases) /\ Len(matching) \in Nat
  BY <1>3, OnlySeq, LenProperties
<1> HIDE DEF matching
<1>5. SelectCases = IF cfg.limit > Len(matching) THEN <<>> ELSE SubSeq(matching, 1, n)
  BY DEF SelectCases, core, hard, suite, matching
<1>6. cfg.limit <= Len(matching) => n \in 0..Len(matching)
  BY <1>1, <1>4
<1>7. cfg.limit <= Len(matching) => SubSeq(matching, 1, n) \in Seq(EvalCases)
  <2>1. cfg.limit <= Len(matching) => \A i \in 1..n : matching[i] \in EvalCases
    BY <1>4, <1>6, ElementOfSeq
  <2> HIDE DEF n
  <2> QED BY <1>4, <1>6, <2>1
<1> QED BY <1>1, <1>4, <1>5, <1>7

\* A --case-sequence that is accepted names cases that exist
LEMMA SequenceParsed ==
    ASSUME NEW text \in Seq(Int), NEW n \in Nat, ParseSequence(text, n) # <<>>
    PROVE  ParseSequence(text, n) \in Seq(0..n - 1)
<1> DEFINE t == Only(text, {i \in DOMAIN text : text[i] # Space})
           ok == \A i \in DOMAIN t : IF i % 2 = 1 THEN t[i] \in 1..n ELSE t[i] = Comma
           m == (Len(t) + 1) \div 2
           res == [i \in 1..m |-> t[2 * i - 1] - 1]
<1>1. ParseSequence(text, n) = IF ok THEN res ELSE <<>>
  BY DEF ParseSequence
<1>2. t \in Seq(Int) /\ Len(t) \in Nat /\ DOMAIN t = 1..Len(t)
  <2>1. t \in Seq(Int)
    BY OnlySeq
  <2> HIDE DEF t
  <2> QED BY <2>1, LenProperties
<1> HIDE DEF t
<1>3. m \in Nat
  BY <1>2
<1>4. ASSUME ok, NEW i \in 1..m PROVE t[2 * i - 1] - 1 \in 0..n - 1
  <2>1. 2 * i - 1 \in 1..Len(t) /\ (2 * i - 1) % 2 = 1
    BY <1>2
  <2> HIDE DEF m
  <2>2. t[2 * i - 1] \in 1..n
    BY <1>2, <1>4, <2>1
  <2> QED BY <2>2
<1> HIDE DEF m
<1>5. ok => res \in Seq(0..n - 1)
  <2> SUFFICES ASSUME ok PROVE res \in Seq(0..n - 1)
    OBVIOUS
  <2>1. res \in [1..m -> 0..n - 1]
    BY <1>4
  <2> HIDE DEF res
  <2> QED BY <1>3, <2>1
<1> QED BY <1>1, <1>5

-----------------------------------------------------------------------------
(* The context that is sized for the cases                                 *)

LEMMA LargestIs ==
    ASSUME NEW n \in Nat \ {0}, NEW f \in [1..n -> Nat]
    PROVE  LET S == {f[i] : i \in 1..n} IN Largest(S) \in S /\ \A y \in S : y <= Largest(S)
<1> DEFINE Best(k) == \E i \in 1..k + 1 : \A j \in 1..k + 1 : f[j] <= f[i]
           D == {k \in 0..n - 1 : Best(k)}
           S == {f[i] : i \in 1..n}
<1>1. n - 1 \in Nat
  OBVIOUS
<1>2. 0 \in D
  <2>1. \A j \in 1..0 + 1 : j = 1
    OBVIOUS
  <2>2. 1 \in 1..0 + 1 /\ f[1] <= f[1] /\ 0 \in 0..n - 1
    OBVIOUS
  <2> QED BY <2>1, <2>2
<1>3. ASSUME NEW k \in 0..(n - 1) - 1, k \in D PROVE k + 1 \in D
  <2>1. PICK i \in 1..k + 1 : \A j \in 1..k + 1 : f[j] <= f[i]
    BY <1>3
  <2> DEFINE m == k + 2
  <2>2. m \in 1..n /\ i \in 1..n /\ k + 1 \in 0..n - 1 /\ (k + 1) + 1 = m /\ m \in 1..m /\ i \in 1..m
    OBVIOUS
  <2>3. \A j \in 1..m : j \in 1..k + 1 \/ j = m
    OBVIOUS
  <2>4. \A j \in 1..m : j \in 1..n
    BY <2>2
  <2>5. f[m] \in Nat /\ f[i] \in Nat /\ \A j \in 1..m : f[j] \in Nat
    BY <2>2, <2>4
  <2> HIDE DEF m
  <2>6. CASE f[m] <= f[i]
    <3>1. \A j \in 1..m : f[j] <= f[i]
      BY <2>1, <2>3, <2>6
    <3> QED BY <2>2, <3>1
  <2>7. CASE ~(f[m] <= f[i])
    <3>1. \A j \in 1..m : f[j] <= f[m]
      BY <2>1, <2>3, <2>5, <2>7
    <3> QED BY <2>2, <3>1
  <2> QED BY <2>6, <2>7
<1>4. n - 1 \in D
  <2>1. \A k \in 0..n - 1 : k \in D
    <3> HIDE DEF D
    <3> QED BY <1>1, <1>2, <1>3, UpTo
  <2>2. n - 1 \in 0..n - 1
    BY <1>1
  <2> HIDE DEF D
  <2> QED BY <2>1, <2>2
<1>5. PICK i \in 1..n : \A j \in 1..n : f[j] <= f[i]
  <2>1. (n - 1) + 1 = n
    OBVIOUS
  <2> QED BY <1>4, <2>1
<1>6. f[i] \in S /\ \A y \in S : y <= f[i]
  BY <1>5
<1> HIDE DEF S
<1>7. Largest(S) \in S /\ \A y \in S : y <= Largest(S)
  BY <1>6 DEF Largest
<1> QED BY <1>7 DEF S

LEMMA BudgetIs ==
    ASSUME cfg \in EvalOptions, NEW c \in EvalCases, NEW retry \in BOOLEAN
    PROVE  /\ BudgetOf(c, retry) \in Nat \ {0} /\ BudgetOf(c, FALSE) <= BudgetOf(c, retry)
           /\ BudgetOf(c, retry) <= MaxContext
<1> DEFINE a == IF ~cfg.tokens_set /\ c.budget # 0 THEN c.budget ELSE cfg.tokens
<1>1. a \in Nat \ {0} /\ MaxContext \in Nat \ {0}
  BY CasesAre DEF EvalOptions
<1> HIDE DEF a
<1>2. a * 1 = a /\ a * 2 = 2 * a
  BY <1>1
<1>3. BudgetOf(c, FALSE) = IF a * 1 > MaxContext THEN MaxContext ELSE a * 1
  BY DEF BudgetOf, a
<1>4. BudgetOf(c, TRUE) = IF a * 2 > MaxContext THEN MaxContext ELSE a * 2
  BY DEF BudgetOf, a
<1>5. BudgetOf(c, retry) = BudgetOf(c, TRUE) \/ BudgetOf(c, retry) = BudgetOf(c, FALSE)
  <2>1. retry = TRUE \/ retry = FALSE
    BY Zenon
  <2> QED BY <2>1, Zenon
<1> DEFINE x == BudgetOf(c, FALSE)
           y == BudgetOf(c, TRUE)
           z == BudgetOf(c, retry)
<1>6. /\ x = (IF a * 1 > MaxContext THEN MaxContext ELSE a * 1)
      /\ y = (IF a * 2 > MaxContext THEN MaxContext ELSE a * 2) /\ (z = y \/ z = x)
  BY <1>3, <1>4, <1>5
<1> HIDE DEF x, y, z
<1>7. z \in Nat \ {0} /\ x <= z /\ z <= MaxContext
  BY <1>1, <1>2, <1>6
<1> QED BY <1>7 DEF x, z

LEMMA MaxBudgetIs ==
    ASSUME cfg \in EvalOptions, NEW cases \in Seq(EvalCases), cases # <<>>
    PROVE  /\ MaxBudget(cases) \in Nat \ {0}
           /\ \A i \in 1..Len(cases) : BudgetOf(cases[i], cfg.retry) <= MaxBudget(cases)
<1> DEFINE n == Len(cases)
           f == [i \in 1..n |-> BudgetOf(cases[i], cfg.retry)]
           S == {f[i] : i \in 1..n}
<1>1. n \in Nat \ {0} /\ DOMAIN cases = 1..n /\ cfg.retry \in BOOLEAN
  BY EmptySeq, LenProperties DEF EvalOptions
<1>2. \A i \in 1..n : BudgetOf(cases[i], cfg.retry) \in Nat \ {0}
  BY <1>1, ElementOfSeq, BudgetIs
<1>3. f \in [1..n -> Nat]
  BY <1>2
<1>4. MaxBudget(cases) = Largest(S)
  BY <1>1 DEF MaxBudget
<1>5. \A y \in S : y \in Nat \ {0}
  BY <1>2
<1>6. \A i \in 1..n : f[i] \in S
  OBVIOUS
<1>7. \A i \in 1..n : f[i] = BudgetOf(cases[i], cfg.retry)
  OBVIOUS
<1>8. Largest(S) \in S /\ \A y \in S : y <= Largest(S)
  <2> HIDE DEF f, n
  <2> QED BY <1>1, <1>3, LargestIs
<1> HIDE DEF f, S
<1> QED BY <1>4, <1>5, <1>6, <1>7, <1>8

LEMMA MaxPromptIs ==
    ASSUME NEW cases \in Seq(EvalCases), cases # <<>>, NEW ctx \in Nat
    PROVE  /\ MaxPrompt(cases, ctx) \in Nat
           /\ \A i \in 1..Len(cases) : PromptLen(cases[i], ctx) <= MaxPrompt(cases, ctx)
<1> DEFINE n == Len(cases)
           f == [i \in 1..n |-> PromptLen(cases[i], ctx)]
           S == {f[i] : i \in 1..n}
<1>1. n \in Nat \ {0} /\ DOMAIN cases = 1..n
  BY EmptySeq, LenProperties
<1>2. \A i \in 1..n : PromptLen(cases[i], ctx) \in Nat
  BY <1>1, ElementOfSeq, CasesAre DEF PromptLen
<1>3. f \in [1..n -> Nat]
  BY <1>2
<1>4. MaxPrompt(cases, ctx) = Largest(S)
  BY <1>1 DEF MaxPrompt
<1>5. \A y \in S : y \in Nat
  BY <1>2
<1>6. \A i \in 1..n : f[i] \in S
  OBVIOUS
<1>7. \A i \in 1..n : f[i] = PromptLen(cases[i], ctx)
  OBVIOUS
<1>8. Largest(S) \in S /\ \A y \in S : y <= Largest(S)
  <2> HIDE DEF f, n
  <2> QED BY <1>1, <1>3, LargestIs
<1> HIDE DEF f, S
<1> QED BY <1>4, <1>5, <1>6, <1>7, <1>8

\* Contexts on the same side of the minimum for maximal thinking make the same prompts
LEMMA SamePrompts ==
    ASSUME NEW cases, NEW a \in Nat, NEW b \in Nat, cfg.think = "max" => a >= ThinkMaxMin /\ b >= ThinkMaxMin
    PROVE  MaxPrompt(cases, a) = MaxPrompt(cases, b)
<1>1. \A c : PromptLen(c, a) = PromptLen(c, b)
  BY CasesAre DEF PromptLen
<1> QED BY <1>1 DEF MaxPrompt

\* What --ctx auto settles on has room for every prompt with every budget
LEMMA AutoFits ==
    ASSUME cfg \in EvalOptions, NEW cases \in Seq(EvalCases), cases # <<>>, AutoContext(cases) # 0
    PROVE  LET ctx == AutoContext(cases)
           IN  ctx \in Nat /\ MaxPrompt(cases, ctx) + MaxBudget(cases) <= ctx
<1> DEFINE Needs(ctx) == MaxPrompt(cases, ctx) + MaxBudget(cases)
           least == IF cfg.think = "max" THEN ThinkMaxMin ELSE 1
           Required(ctx) == IF Needs(ctx) < least THEN least ELSE Needs(ctx)
           Round(ctx) == IF ctx = 0 \/ Required(ctx) > MaxContext THEN 0 ELSE Required(ctx)
           x == Round(MaxContext)
           y == Round(x)
           z == Round(y)
<1>1. AutoContext(cases) = z
  BY DEF AutoContext
<1>2. \A ctx \in Nat : Needs(ctx) \in Nat
  BY MaxPromptIs, MaxBudgetIs
<1>3. least \in Nat /\ MaxContext \in Nat /\ ThinkMaxMin \in Nat
  BY CasesAre
<1> HIDE DEF Needs
<1>4. \A ctx \in Nat : Required(ctx) \in Nat /\ Required(ctx) >= Needs(ctx) /\ Required(ctx) >= least
  <2> SUFFICES ASSUME NEW ctx \in Nat
               PROVE  Required(ctx) \in Nat /\ Required(ctx) >= Needs(ctx) /\ Required(ctx) >= least
    OBVIOUS
  <2>1. Needs(ctx) \in Nat
    BY <1>2
  <2> HIDE DEF least
  <2> QED BY <1>3, <2>1
<1>5. \A ctx \in Nat : Round(ctx) \in Nat /\ (Round(ctx) # 0 => ctx # 0 /\ Round(ctx) = Required(ctx))
  <2> HIDE DEF Required
  <2> QED BY <1>4
<1> HIDE DEF Required, Round, least
<1>6. x \in Nat /\ y \in Nat /\ z \in Nat
  BY <1>3, <1>5
<1>7. z # 0 /\ y # 0 /\ z = Required(y) /\ y = Required(x)
  BY <1>1, <1>5, <1>6
<1>8. z >= Needs(y) /\ z >= least /\ y >= least
  BY <1>4, <1>6, <1>7
<1>9. cfg.think = "max" => z >= ThinkMaxMin /\ y >= ThinkMaxMin
  BY <1>8 DEF least
<1> HIDE DEF x, y, z
<1>10. Needs(z) = Needs(y)
  BY <1>6, <1>9, SamePrompts DEF Needs
<1> QED BY <1>1, <1>6, <1>8, <1>10 DEF Needs

-----------------------------------------------------------------------------
(* The same of given options and cases                                     *)

PromptFor(o, c) == c.prompt + (IF o.think = "max" /\ o.ctx >= ThinkMaxMin THEN 1 ELSE 0)
BudgetFor(o, c, retry) ==
    LET b == (IF ~o.tokens_set /\ c.budget # 0 THEN c.budget ELSE o.tokens) * (IF retry THEN 2 ELSE 1)
    IN  IF b > MaxContext THEN MaxContext ELSE b
RoomFor(o, cases, i, retry) ==
    LET room == o.ctx - PromptFor(o, cases[i + 1])
    IN  IF room < BudgetFor(o, cases[i + 1], retry) THEN room ELSE BudgetFor(o, cases[i + 1], retry)

\* No case is cut short by the context
Sized(o, cases) ==
    \A i \in 0..Len(cases) - 1, retry \in BOOLEAN :
        (retry => o.retry) => /\ RoomFor(o, cases, i, retry) = BudgetFor(o, cases[i + 1], retry)
                              /\ RoomFor(o, cases, i, retry) >= 1

LEMMA RoomIs ==
    ASSUME NEW i, NEW retry
    PROVE  Limit(i, retry) = RoomFor(cfg, chosen.cases, i, retry)
           /\ Budget(i, retry) = BudgetFor(cfg, chosen.cases[i + 1], retry)
  BY DEF Limit, Budget, CaseAt, PromptLen, BudgetOf, RoomFor, BudgetFor, PromptFor

LEMMA RoomInt ==
    ASSUME NEW o \in EvalOptions, NEW cases \in Seq(EvalCases), NEW i \in 0..Len(cases) - 1, NEW retry \in BOOLEAN
    PROVE  RoomFor(o, cases, i, retry) \in Int
<1> DEFINE c == cases[i + 1]
           a == IF ~o.tokens_set /\ c.budget # 0 THEN c.budget ELSE o.tokens
<1>1. i + 1 \in 1..Len(cases)
  BY LenProperties
<1>2. c \in EvalCases
  BY <1>1, ElementOfSeq
<1> HIDE DEF c
<1>3. c.prompt \in Nat /\ c.budget \in Nat /\ o.tokens \in Nat /\ o.ctx \in Nat /\ MaxContext \in Nat
  BY <1>2, CasesAre DEF EvalOptions
<1>4. a \in Nat /\ PromptFor(o, c) \in Nat
  BY <1>3 DEF PromptFor
<1> HIDE DEF a
<1>5. BudgetFor(o, c, retry) = IF a * (IF retry THEN 2 ELSE 1) > MaxContext THEN MaxContext
                               ELSE a * (IF retry THEN 2 ELSE 1)
  BY DEF BudgetFor, a
<1>6. BudgetFor(o, c, retry) \in Nat
  BY <1>3, <1>4, <1>5
<1>7. RoomFor(o, cases, i, retry) = IF o.ctx - PromptFor(o, c) < BudgetFor(o, c, retry)
                                    THEN o.ctx - PromptFor(o, c) ELSE BudgetFor(o, c, retry)
  BY DEF RoomFor, c
<1> QED BY <1>3, <1>4, <1>6, <1>7

\* A context that --ctx auto chose fits
LEMMA AutoSized ==
    ASSUME cfg \in EvalOptions, NEW cases \in Seq(EvalCases), cases # <<>>, AutoContext(cases) # 0
    PROVE  Sized([cfg EXCEPT !.ctx = AutoContext(cases)], cases)
<1> DEFINE ctx == AutoContext(cases)
           o == [cfg EXCEPT !.ctx = ctx]
<1>1. ctx \in Nat /\ MaxPrompt(cases, ctx) + MaxBudget(cases) <= ctx
  BY AutoFits
<1> HIDE DEF ctx
<1>2. /\ o.ctx = ctx /\ o.think = cfg.think /\ o.retry = cfg.retry /\ o.tokens_set = cfg.tokens_set
      /\ o.tokens = cfg.tokens
  BY DEF EvalOptions
<1> HIDE DEF o
<1>3. ASSUME NEW i \in 0..Len(cases) - 1, NEW retry \in BOOLEAN, retry => o.retry
      PROVE  /\ RoomFor(o, cases, i, retry) = BudgetFor(o, cases[i + 1], retry)
             /\ RoomFor(o, cases, i, retry) >= 1
  <2> DEFINE c == cases[i + 1]
  <2>1. i + 1 \in 1..Len(cases)
    BY LenProperties
  <2>2. c \in EvalCases
    BY <2>1, ElementOfSeq
  <2>3. PromptLen(c, ctx) <= MaxPrompt(cases, ctx) /\ MaxPrompt(cases, ctx) \in Nat
    BY <1>1, <2>1, MaxPromptIs
  <2>4. BudgetOf(c, cfg.retry) <= MaxBudget(cases) /\ MaxBudget(cases) \in Nat
    BY <2>1, MaxBudgetIs
  <2> HIDE DEF c
  <2>5. BudgetOf(c, retry) <= BudgetOf(c, cfg.retry) /\ BudgetOf(c, retry) \in Nat \ {0} /\ BudgetOf(c, cfg.retry) \in Nat
    <3>1. cfg.retry \in BOOLEAN
      BY DEF EvalOptions
    <3>2. retry = cfg.retry \/ retry = FALSE
      BY <1>2, <1>3, <3>1
    <3>3. BudgetOf(c, cfg.retry) \in Nat \ {0} /\ BudgetOf(c, FALSE) <= BudgetOf(c, cfg.retry) /\ BudgetOf(c, FALSE) \in Nat \ {0}
      BY <2>2, <3>1, BudgetIs
    <3>4. BudgetOf(c, retry) = BudgetOf(c, cfg.retry) \/ BudgetOf(c, retry) = BudgetOf(c, FALSE)
      BY <3>2, Zenon
    <3> DEFINE x == BudgetOf(c, FALSE)
               y == BudgetOf(c, cfg.retry)
               z == BudgetOf(c, retry)
    <3>5. y \in Nat \ {0} /\ x <= y /\ x \in Nat \ {0} /\ (z = y \/ z = x)
      BY <3>3, <3>4
    <3> HIDE DEF x, y, z
    <3>6. z <= y /\ z \in Nat \ {0} /\ y \in Nat
      BY <3>5
    <3> QED BY <3>6 DEF y, z
  <2>6. PromptLen(c, ctx) \in Nat
    BY <2>2, CasesAre DEF PromptLen
  <2>7. ctx - PromptLen(c, ctx) >= BudgetOf(c, retry)
    BY <1>1, <2>3, <2>4, <2>5, <2>6
  <2>8. PromptFor(o, c) = PromptLen(c, ctx) /\ BudgetFor(o, c, retry) = BudgetOf(c, retry)
    BY <1>2 DEF PromptFor, PromptLen, BudgetFor, BudgetOf
  <2>9. RoomFor(o, cases, i, retry) = IF ctx - PromptLen(c, ctx) < BudgetOf(c, retry)
                                      THEN ctx - PromptLen(c, ctx) ELSE BudgetOf(c, retry)
    BY <1>2, <2>8 DEF RoomFor, c
  <2> QED BY <1>1, <2>5, <2>6, <2>7, <2>8, <2>9 DEF c
<1>4. Sized(o, cases)
  BY <1>3 DEF Sized
<1> QED BY <1>4 DEF o, ctx

-----------------------------------------------------------------------------
(* The inductive invariant                                                 *)

Pcs == {"start", "top", "pick", "pick_wait", "prefill", "prefill_wait", "synced", "synced_wait", "loop",
        "token", "token_wait", "grade", "retry", "next", "done", "exit"}
InCase == {"prefill", "prefill_wait", "synced", "synced_wait", "loop", "token", "token_wait", "grade"}
Statuses == {"PENDING", "PREFILL", "THINKING", "PASSED", "FAILED", "INCOMPLETE", "STOPPED", "SKIPPED"}
Bad == {"FAILED", "INCOMPLETE"}

\* What an output is made of
Tokens == STRING \cup {"close", "half"}

Keys == [move : Int, enter : BOOLEAN, pause : BOOLEAN, quit : BOOLEAN]
Ui(n) == [status : [0..n - 1 -> Statuses], active : 0..n - 1, selected : 0..n - 1, selecting : BOOLEAN,
          requested : -1..n - 1, paused : BOOLEAN, quit : BOOLEAN]
Cur(n) == [idx : 0..n - 1, limit : Nat, raw : Seq(Tokens), in_think : BOOLEAN, forced : {0, 1}, retried : BOOLEAN]

Typed(o, ch, u, k, c, sp, r) ==
    /\ o \in EvalOptions /\ ch.cases \in Seq(EvalCases) /\ ch.cases # <<>>
    /\ ch.seq \in Seq(0..Len(ch.cases) - 1)
    /\ u \in Ui(Len(ch.cases)) /\ k \in Keys /\ c \in Cur(Len(ch.cases)) /\ sp \in Nat /\ r \in {0, 1}

\* Only the case that runs has the status of one; none is skipped in a context that was sized
StatusOk(ch, stp, u, c, r) ==
    /\ \A j \in 0..Len(ch.cases) - 1 : u.status[j] \in Running => j = c.idx /\ stp \in InCase
    /\ stp \in {"loop", "grade", "retry", "next"} => ~u.quit
    /\ stp = "done" /\ ch.seq = <<>> /\ r = 0 /\ ~u.quit =>
           \A j \in 0..Len(ch.cases) - 1 : u.status[j] # "PENDING"
    /\ ch.sized => \A j \in 0..Len(ch.cases) - 1 : u.status[j] # "SKIPPED"

SizeOk(o, ch, stp, c) ==
    /\ ch.sized => Sized(o, ch.cases)
    /\ stp \in InCase \cup {"retry", "next"} =>
           /\ c.limit = 0 \/ c.limit = RoomFor(o, ch.cases, c.idx, c.retried)
           /\ c.retried => o.retry
    /\ stp = "retry" => o.retry

\* A thought that is under way leaves room for the hard limit, a closed one rest it
Reserve(o, c) == IF c.limit < o.hard THEN c.limit ELSE o.hard
Closed(o, c) ==
    \E p \in 1..Len(c.raw) :
        c.raw[p] = "close" /\ (\A q \in 1..p - 1 : c.raw[q] # "close") /\ c.limit - p >= Reserve(o, c) - o.close

RoomOk(o, stp, c) ==
    stp \in InCase =>
        /\ Len(c.raw) <= c.limit
        /\ stp \in {"token", "token_wait"} => Len(c.raw) < c.limit
        /\ o.think # "none" =>
               /\ c.in_think /\ c.forced = 0 => c.limit - Len(c.raw) >= Reserve(o, c)
               /\ c.in_think /\ c.forced = 1 => o.close > 1 /\ c.limit - Len(c.raw) >= Reserve(o, c) - 1
               /\ c.in_think => \A q \in 1..Len(c.raw) : c.raw[q] # "close"
               /\ ~c.in_think => c.forced = 0 /\ Closed(o, c)

\* The last record of a case tells its status, unless it runs again
Latest(l, i) == \A j \in 1..Len(l) : j > i => l[j].idx # l[i].idx
LogOk(n, stp, u, c, l, r) ==
    /\ \E S : l \in Seq(S)
    /\ \A i \in 1..Len(l) : l[i].idx \in 0..n - 1
    /\ r = 0 => \A i \in 1..Len(l) :
                    Latest(l, i) => /\ l[i].status # "ERROR"
                                    /\ l[i].status \in Bad => \/ u.status[l[i].idx] = l[i].status
                                                              \/ stp \in InCase /\ c.idx = l[i].idx

EvalMain(o, ch, stp, u, k, c, sp, l, r) ==
    /\ Typed(o, ch, u, k, c, sp, r) /\ StatusOk(ch, stp, u, c, r) /\ SizeOk(o, ch, stp, c) /\ RoomOk(o, stp, c)
    /\ LogOk(Len(ch.cases), stp, u, c, l, r)

Accounted(l) == \A i \in 1..Len(l) : Latest(l, i) => l[i].status \notin {"FAILED", "INCOMPLETE", "ERROR"}

EvalInv ==
    /\ epc \in Pcs
    /\ epc = "start" => cfg \in EvalOptions /\ rc = 0 /\ log = <<>> /\ keys = NoKeys /\ cur = NoCase /\ seqPos = 0
    /\ epc \notin {"start", "exit"} => EvalMain(cfg, chosen, epc, ui, keys, cur, seqPos, log, rc)
    /\ epc = "exit" /\ rc = 0 => Accounted(log) /\ DOMAIN log = 1..Len(log)

-----------------------------------------------------------------------------
(* Records                                                                 *)

LEMMA UiFields ==
    ASSUME NEW n, NEW u \in Ui(n)
    PROVE  /\ u.status \in [0..n - 1 -> Statuses] /\ u.active \in 0..n - 1 /\ u.selected \in 0..n - 1
           /\ u.selecting \in BOOLEAN /\ u.requested \in -1..n - 1 /\ u.paused \in BOOLEAN /\ u.quit \in BOOLEAN
  BY DEF Ui

LEMMA UiMade ==
    ASSUME NEW n, NEW s \in [0..n - 1 -> Statuses], NEW a \in 0..n - 1, NEW b \in 0..n - 1, NEW d \in BOOLEAN,
           NEW e \in -1..n - 1, NEW p \in BOOLEAN, NEW q \in BOOLEAN
    PROVE  [status |-> s, active |-> a, selected |-> b, selecting |-> d, requested |-> e, paused |-> p, quit |-> q]
             \in Ui(n)
  BY DEF Ui

LEMMA CurFields ==
    ASSUME NEW n, NEW c \in Cur(n)
    PROVE  /\ c.idx \in 0..n - 1 /\ c.limit \in Nat /\ c.raw \in Seq(Tokens) /\ c.in_think \in BOOLEAN
           /\ c.forced \in {0, 1} /\ c.retried \in BOOLEAN
  BY DEF Cur

LEMMA StatusSet ==
    ASSUME NEW n, NEW u \in Ui(n), NEW i \in 0..n - 1, NEW s \in Statuses
    PROVE  /\ [u EXCEPT !.status[i] = s] \in Ui(n)
           /\ [u EXCEPT !.status[i] = s].status = [u.status EXCEPT ![i] = s]
           /\ [u EXCEPT !.status[i] = s].status \in [0..n - 1 -> Statuses]
           /\ [u EXCEPT !.status[i] = s].quit = u.quit
           /\ [u EXCEPT !.status[i] = s].requested = u.requested
<1> DEFINE t == [u.status EXCEPT ![i] = s]
           v == [u EXCEPT !.status[i] = s]
<1>1. /\ u.status \in [0..n - 1 -> Statuses] /\ u.active \in 0..n - 1 /\ u.selected \in 0..n - 1
      /\ u.selecting \in BOOLEAN /\ u.requested \in -1..n - 1 /\ u.paused \in BOOLEAN /\ u.quit \in BOOLEAN
  BY UiFields
<1>2. t \in [0..n - 1 -> Statuses]
  BY <1>1
<1>3. v = [status |-> t, active |-> u.active, selected |-> u.selected, selecting |-> u.selecting,
           requested |-> u.requested, paused |-> u.paused, quit |-> u.quit]
  BY DEF Ui
<1> HIDE DEF t, v
<1>4. v \in Ui(n)
  BY <1>1, <1>2, <1>3 DEF Ui
<1>5. v.status = t /\ v.quit = u.quit /\ v.requested = u.requested
  BY <1>3
<1> QED BY <1>2, <1>4, <1>5 DEF t, v

\* Consuming keys moves the selection and leaves the statuses alone
LEMMA ConsumedOk ==
    ASSUME NEW n \in Nat \ {0}, n = NCases, NEW u \in Ui(n), keys \in Keys
    PROVE  ConsumedBy(u) \in Ui(n) /\ ConsumedBy(u).status = u.status
<1> DEFINE a == [u EXCEPT !.quit = TRUE, !.paused = FALSE]
           b == [u EXCEPT !.paused = IF keys.pause THEN ~@ ELSE @]
           c == Moved(b)
           d == Entered(c)
<1>1. /\ u.status \in [0..n - 1 -> Statuses] /\ u.active \in 0..n - 1 /\ u.selected \in 0..n - 1
      /\ u.selecting \in BOOLEAN /\ u.requested \in -1..n - 1 /\ u.paused \in BOOLEAN /\ u.quit \in BOOLEAN
  BY UiFields
<1>2. a \in Ui(n) /\ a.status = u.status
  BY <1>1 DEF Ui
<1>3. b \in Ui(n) /\ b.status = u.status
  BY <1>1 DEF Ui
<1>4. ASSUME NEW v \in Ui(n) PROVE Selecting(v) \in Ui(n) /\ Selecting(v).status = v.status
  <2>1. [v EXCEPT !.selected = v.active, !.selecting = TRUE] \in Ui(n)
    BY UiFields DEF Ui
  <2>2. [v EXCEPT !.selected = v.active, !.selecting = TRUE].status = v.status
    BY DEF Ui
  <2> QED BY <2>1, <2>2 DEF Selecting
<1>5. ASSUME NEW i \in Int PROVE Clamped(i) \in 0..n - 1
  BY DEF Clamped
<1> HIDE DEF b
<1>6. c \in Ui(n) /\ c.status = b.status
  <2> DEFINE s == Selecting(b)
             x == Clamped(s.selected + keys.move)
  <2>1. s \in Ui(n) /\ s.status = b.status
    BY <1>3, <1>4
  <2> HIDE DEF s
  <2>2. s.selected \in Int /\ keys.move \in Int
    BY <2>1, UiFields DEF Keys
  <2>3. x \in 0..n - 1
    BY <1>5, <2>2
  <2> HIDE DEF x
  <2>4. [s EXCEPT !.selected = x] \in Ui(n) /\ [s EXCEPT !.selected = x].status = s.status
    BY <2>1, <2>3 DEF Ui
  <2>5. c = b \/ c = [s EXCEPT !.selected = x]
    BY DEF Moved, s, x
  <2> HIDE DEF c
  <2> QED BY <1>3, <2>1, <2>4, <2>5
<1> HIDE DEF c
<1>7. d \in Ui(n) /\ d.status = c.status
  <2> DEFINE s == Selecting(c)
  <2>1. s \in Ui(n) /\ s.status = c.status
    BY <1>3, <1>4, <1>6
  <2> HIDE DEF s
  <2>2. s.selected \in -1..n - 1
    <3>1. s.selected \in 0..n - 1
      BY <2>1, UiFields
    <3> QED BY <3>1
  <2>3. [s EXCEPT !.requested = s.selected] \in Ui(n) /\ [s EXCEPT !.requested = s.selected].status = s.status
    BY <2>1, <2>2 DEF Ui
  <2>4. d \in {c, s, [s EXCEPT !.requested = s.selected]}
    BY DEF Entered, s
  <2> HIDE DEF d
  <2> QED BY <1>6, <2>1, <2>3, <2>4
<1> HIDE DEF a, d
<1>8. ConsumedBy(u) \in {u, a, d}
  BY DEF ConsumedBy, a, b, c, d
<1> QED BY <1>2, <1>3, <1>6, <1>7, <1>8

-----------------------------------------------------------------------------
(* The log                                                                 *)

LEMMA AppendIs ==
    ASSUME NEW S, NEW l \in Seq(S), NEW x
    PROVE  /\ Append(l, x) \in Seq(S \cup {x})
           /\ Len(Append(l, x)) = Len(l) + 1 /\ Len(l) \in Nat
           /\ \A i \in 1..Len(l) : Append(l, x)[i] = l[i]
           /\ Append(l, x)[Len(l) + 1] = x
<1> DEFINE T == S \cup {x}
<1>1. l \in Seq(T) /\ Len(l) \in Nat
  <2>1. l \in [1..Len(l) -> T] /\ Len(l) \in Nat
    BY ElementOfSeq, LenProperties
  <2> HIDE DEF T
  <2> QED BY <2>1
<1> HIDE DEF T
<1>2. x \in T
  BY DEF T
<1>3. /\ Append(l, x) \in Seq(T) /\ Len(Append(l, x)) = Len(l) + 1
      /\ \A i \in 1..Len(l) : Append(l, x)[i] = l[i]
      /\ Append(l, x)[Len(l) + 1] = x
  BY <1>1, <1>2, AppendProperties
<1> QED BY <1>1, <1>3 DEF T

\* A record of a case whose status becomes s
LogStep(n, stp, u, c, l, r, u2, r2, rec, s) ==
    /\ n \in Nat /\ LogOk(n, stp, u, c, l, r) /\ u.status \in [0..n - 1 -> Statuses]
    /\ rec.idx \in 0..n - 1 /\ (stp \in InCase => c.idx = rec.idx)
    /\ u2.status = [u.status EXCEPT ![rec.idx] = s]
    /\ rec.status \in Bad => s = rec.status
    /\ r2 = 0 => r = 0 /\ rec.status # "ERROR"

LEMMA LogAppends ==
    ASSUME NEW n, NEW stp, NEW u, NEW c, NEW l, NEW r, NEW pc2, NEW u2, NEW c2, NEW r2, NEW rec, NEW s,
           LogStep(n, stp, u, c, l, r, u2, r2, rec, s)
    PROVE  LogOk(n, pc2, u2, c2, Append(l, rec), r2)
<1>0. /\ n \in Nat /\ LogOk(n, stp, u, c, l, r) /\ u.status \in [0..n - 1 -> Statuses]
      /\ rec.idx \in 0..n - 1 /\ (stp \in InCase => c.idx = rec.idx)
      /\ u2.status = [u.status EXCEPT ![rec.idx] = s]
      /\ rec.status \in Bad => s = rec.status
      /\ r2 = 0 => r = 0 /\ rec.status # "ERROR"
  BY DEF LogStep
<1> DEFINE l2 == Append(l, rec)
           N == Len(l)
           i == rec.idx
<1>1. PICK S : l \in Seq(S)
  BY <1>0 DEF LogOk
<1>2. /\ l2 \in Seq(S \cup {rec})
      /\ Len(l2) = N + 1 /\ N \in Nat /\ l2[N + 1] = rec
      /\ \A k \in 1..N : l2[k] = l[k]
  <2>1. /\ Append(l, rec) \in Seq(S \cup {rec})
        /\ Len(Append(l, rec)) = Len(l) + 1 /\ Len(l) \in Nat
        /\ \A k \in 1..Len(l) : Append(l, rec)[k] = l[k]
        /\ Append(l, rec)[Len(l) + 1] = rec
    BY <1>1, AppendIs
  <2> QED BY <2>1
<1> HIDE DEF l2, N
<1>3. ASSUME NEW k \in 1..Len(l2) PROVE k \in 1..N \/ k = N + 1
  BY <1>2
<1>4. \A k \in 1..N : l[k].idx \in 0..n - 1
  BY <1>0 DEF LogOk, N
<1>5. \A k \in 1..Len(l2) : l2[k].idx \in 0..n - 1
  <2> SUFFICES ASSUME NEW k \in 1..Len(l2) PROVE l2[k].idx \in 0..n - 1
    OBVIOUS
  <2>1. CASE k = N + 1
    BY <1>0, <1>2, <2>1
  <2>2. CASE k \in 1..N
    BY <1>2, <1>4, <2>2
  <2> QED BY <1>3, <2>1, <2>2
<1>6. ASSUME r2 = 0, NEW k \in 1..Len(l2), Latest(l2, k)
      PROVE  l2[k].status # "ERROR" /\ (l2[k].status \in Bad => u2.status[l2[k].idx] = l2[k].status)
  <2>1. CASE k = N + 1
    <3>1. u2.status[i] = s
      BY <1>0
    <3> QED BY <1>0, <1>2, <1>6, <2>1, <3>1
  <2>2. CASE k \in 1..N
    <3>1. l2[k] = l[k] /\ N + 1 \in 1..Len(l2) /\ N + 1 > k
      BY <1>2, <2>2
    <3>2. l[k].idx # i
      BY <1>2, <1>6, <3>1 DEF Latest
    <3>3. Latest(l, k)
      <4> SUFFICES ASSUME NEW j \in 1..N, j > k PROVE l[j].idx # l[k].idx
        BY DEF Latest, N
      <4>1. j \in 1..Len(l2) /\ l2[j] = l[j]
        BY <1>2
      <4> QED BY <1>6, <3>1, <4>1 DEF Latest
    <3>4. l[k].status # "ERROR" /\ (l[k].status \in Bad => u.status[l[k].idx] = l[k].status)
      BY <1>0, <1>6, <2>2, <3>2, <3>3 DEF LogOk, N
    <3>5. u2.status[l[k].idx] = u.status[l[k].idx]
      BY <1>0, <1>4, <2>2, <3>2
    <3> QED BY <3>1, <3>4, <3>5
  <2> QED BY <1>3, <2>1, <2>2
<1>7. r2 = 0 => \A k \in 1..Len(l2) : Latest(l2, k) =>
                    l2[k].status # "ERROR" /\ (l2[k].status \in Bad => u2.status[l2[k].idx] = l2[k].status)
  BY <1>6
<1>8. LogOk(n, pc2, u2, c2, l2, r2)
  BY <1>2, <1>5, <1>7 DEF LogOk
<1> QED BY <1>8 DEF l2

LEMMA LogQuiet ==
    ASSUME NEW n, NEW stp, NEW u, NEW c, NEW l, NEW r, LogOk(n, stp, u, c, l, r),
           NEW pc2, NEW u2, NEW c2, u2.status = u.status, stp \in InCase => pc2 \in InCase /\ c2.idx = c.idx
    PROVE  LogOk(n, pc2, u2, c2, l, r)
  BY DEF LogOk

\* A case that begins: the log says what its status was
LEMMA LogBegins ==
    ASSUME NEW n \in Nat, NEW stp, NEW u, NEW c, NEW l, NEW r, LogOk(n, stp, u, c, l, r),
           u.status \in [0..n - 1 -> Statuses], stp \notin InCase,
           NEW pc2 \in InCase, NEW u2, NEW c2, NEW i \in 0..n - 1, NEW s, c2.idx = i,
           u2.status = [u.status EXCEPT ![i] = s]
    PROVE  LogOk(n, pc2, u2, c2, l, r)
<1>1. ASSUME r = 0, NEW k \in 1..Len(l), Latest(l, k), l[k].status \in Bad
      PROVE  u2.status[l[k].idx] = l[k].status \/ (pc2 \in InCase /\ c2.idx = l[k].idx)
  <2>1. u.status[l[k].idx] = l[k].status /\ l[k].idx \in 0..n - 1
    BY <1>1 DEF LogOk
  <2>2. CASE l[k].idx = i
    BY <2>2
  <2>3. CASE l[k].idx # i
    BY <2>1, <2>3
  <2> QED BY <2>2, <2>3
<1> QED BY <1>1 DEF LogOk

-----------------------------------------------------------------------------
(* Steps                                                                   *)

LEMMA CountIs ==
    ASSUME NEW cases \in Seq(EvalCases), cases # <<>>
    PROVE  Len(cases) \in Nat \ {0} /\ DOMAIN cases = 1..Len(cases)
  BY EmptySeq, LenProperties

\* Nothing but keys, the selection and main's place
LEMMA QuietMain ==
    ASSUME NEW o, NEW ch, NEW stp, NEW u, NEW k, NEW c, NEW sp, NEW l, NEW r, EvalMain(o, ch, stp, u, k, c, sp, l, r),
           NEW pc2, NEW u2 \in Ui(Len(ch.cases)), NEW k2 \in Keys, u2.status = u.status,
           stp \in InCase => pc2 \in InCase,
           pc2 \in InCase \cup {"retry", "next"} => stp \in InCase /\ (pc2 = "retry" => stp = "retry"),
           pc2 \in {"loop", "grade", "retry", "next"} => ~u2.quit,
           pc2 = "done" => ch.seq # <<>> \/ u2.quit,
           pc2 \in {"token", "token_wait"} => Len(c.raw) < c.limit
    PROVE  EvalMain(o, ch, pc2, u2, k2, c, sp, l, r)
<1>1. Typed(o, ch, u2, k2, c, sp, r)
  BY DEF EvalMain, Typed
<1>2. StatusOk(ch, pc2, u2, c, r)
  BY DEF EvalMain, StatusOk
<1>3. SizeOk(o, ch, pc2, c)
  BY DEF EvalMain, SizeOk
<1>4. RoomOk(o, pc2, c)
  BY DEF EvalMain, RoomOk
<1>5. LogOk(Len(ch.cases), pc2, u2, c, l, r)
  BY LogQuiet DEF EvalMain
<1> QED BY <1>1, <1>2, <1>3, <1>4, <1>5 DEF EvalMain

\* A case that ends, fails or is rest is traced
EndStep(o, ch, stp, u, k, c, sp, l, r, pc2, u2, rec, s, r2) ==
    /\ EvalMain(o, ch, stp, u, k, c, sp, l, r) /\ stp \in InCase /\ pc2 \in {"next", "retry", "done"}
    /\ s \in Statuses /\ s \notin Running /\ (ch.sized => s # "SKIPPED") /\ r2 \in {0, 1}
    /\ u2 = [u EXCEPT !.status[c.idx] = s]
    /\ rec.idx = c.idx /\ (rec.status \in Bad => s = rec.status) /\ (r2 = 0 => r = 0 /\ rec.status # "ERROR")
    /\ (pc2 \in {"next", "retry"} => ~u.quit) /\ (pc2 = "done" => r2 = 1 \/ u.quit) /\ (pc2 = "retry" => o.retry)

LEMMA EndMain ==
    ASSUME NEW o, NEW ch, NEW stp, NEW u, NEW k, NEW c, NEW sp, NEW l, NEW r, NEW pc2, NEW u2, NEW rec, NEW s, NEW r2,
           EndStep(o, ch, stp, u, k, c, sp, l, r, pc2, u2, rec, s, r2)
    PROVE  EvalMain(o, ch, pc2, u2, k, c, sp, Append(l, rec), r2)
<1>0. /\ EvalMain(o, ch, stp, u, k, c, sp, l, r) /\ stp \in InCase /\ pc2 \in {"next", "retry", "done"}
      /\ s \in Statuses /\ s \notin Running /\ (ch.sized => s # "SKIPPED") /\ r2 \in {0, 1}
      /\ u2 = [u EXCEPT !.status[c.idx] = s]
      /\ rec.idx = c.idx /\ (rec.status \in Bad => s = rec.status) /\ (r2 = 0 => r = 0 /\ rec.status # "ERROR")
      /\ (pc2 \in {"next", "retry"} => ~u.quit) /\ (pc2 = "done" => r2 = 1 \/ u.quit) /\ (pc2 = "retry" => o.retry)
  BY DEF EndStep
<1> DEFINE n == Len(ch.cases)
<1>1. /\ o \in EvalOptions /\ ch.cases \in Seq(EvalCases) /\ ch.cases # <<>>
      /\ ch.seq \in Seq(0..n - 1) /\ u \in Ui(n) /\ k \in Keys /\ c \in Cur(n) /\ sp \in Nat
  BY <1>0 DEF EvalMain, Typed
<1>2. n \in Nat \ {0} /\ c.idx \in 0..n - 1
  BY <1>0, <1>1, CountIs, CurFields
<1> HIDE DEF n
<1>3. /\ u.status \in [0..n - 1 -> Statuses] /\ u.active \in 0..n - 1 /\ u.selected \in 0..n - 1
      /\ u.selecting \in BOOLEAN /\ u.requested \in -1..n - 1 /\ u.paused \in BOOLEAN /\ u.quit \in BOOLEAN
  BY <1>0, <1>1, UiFields
<1>4. u2.status = [u.status EXCEPT ![c.idx] = s] /\ u2.quit = u.quit /\ u2 \in Ui(n)
  BY <1>0, <1>1, <1>2, StatusSet
<1>5. u2 \in Ui(n)
  BY <1>0, <1>4
<1>6. Typed(o, ch, u2, k, c, sp, r2)
  BY <1>0, <1>1, <1>5 DEF Typed, n
<1>7. StatusOk(ch, pc2, u2, c, r2)
  <2>1. \A j \in 0..n - 1 : u.status[j] \in Running => j = c.idx
    BY <1>0 DEF EvalMain, StatusOk, n
  <2>2. \A j \in 0..n - 1 : u2.status[j] \notin Running
    BY <1>0, <1>2, <1>3, <1>4, <2>1
  <2>3. ch.sized => \A j \in 0..n - 1 : u.status[j] # "SKIPPED"
    BY <1>0 DEF EvalMain, StatusOk, n
  <2>4. ch.sized => \A j \in 0..n - 1 : u2.status[j] # "SKIPPED"
    BY <1>0, <1>2, <1>3, <1>4, <2>3
  <2> QED BY <1>0, <1>4, <2>2, <2>4 DEF StatusOk, n
<1>8. SizeOk(o, ch, pc2, c)
  BY <1>0 DEF EvalMain, SizeOk
<1>9. RoomOk(o, pc2, c)
  BY <1>0 DEF RoomOk, InCase
<1>10. LogOk(n, pc2, u2, c, Append(l, rec), r2)
  <2>1. LogOk(n, stp, u, c, l, r) /\ n \in Nat
    BY <1>0, <1>2 DEF EvalMain, n
  <2>2. u.status \in [0..n - 1 -> Statuses]
    BY <1>0, <1>3
  <2>3. LogStep(n, stp, u, c, l, r, u2, r2, rec, s)
    BY <1>0, <1>2, <1>4, <2>1, <2>2 DEF LogStep
  <2> QED BY <1>0, <2>3, LogAppends
<1> QED BY <1>0, <1>6, <1>7, <1>8, <1>9, <1>10 DEF EvalMain, n

\* A case begins, or has no room
LEMMA BeginMain ==
    ASSUME EvalMain(cfg, chosen, epc, ui, keys, cur, seqPos, log, rc), epc \in {"pick", "retry"},
           NEW i \in 0..Len(chosen.cases) - 1, NEW retry \in BOOLEAN, retry => cfg.retry,
           NEW u \in Ui(Len(chosen.cases)), u.status = ui.status, ~u.quit, BeginCase(i, retry, u)
    PROVE  epc' \in Pcs \ {"start", "exit"} /\ EvalMain(cfg, chosen, epc', ui', keys, cur', seqPos, log', rc)
<1> DEFINE n == Len(chosen.cases)
           v == [u EXCEPT !.active = i, !.selected = IF u.selecting THEN @ ELSE i]
           room == Limit(i, retry)
<1>1. /\ cfg \in EvalOptions /\ chosen.cases \in Seq(EvalCases) /\ chosen.cases # <<>>
      /\ chosen.seq \in Seq(0..n - 1) /\ ui \in Ui(n) /\ keys \in Keys /\ cur \in Cur(n) /\ seqPos \in Nat
      /\ rc \in {0, 1}
  BY DEF EvalMain, Typed
<1>2. n \in Nat \ {0} /\ epc \notin InCase
  BY <1>1, CountIs DEF InCase
<1>3. room = RoomFor(cfg, chosen.cases, i, retry) /\ room \in Int
  BY <1>1, RoomIs, RoomInt
<1>4. /\ chosen.sized => Sized(cfg, chosen.cases)
  BY DEF EvalMain, SizeOk
<1>5. chosen.sized => room >= 1
  BY <1>3, <1>4 DEF Sized
<1>6. BeginCase(i, retry, u)
  OBVIOUS
<1> HIDE DEF n, room
<1>7. /\ u.status \in [0..n - 1 -> Statuses] /\ u.active \in 0..n - 1 /\ u.selected \in 0..n - 1
      /\ u.selecting \in BOOLEAN /\ u.requested \in -1..n - 1 /\ u.paused \in BOOLEAN /\ u.quit \in BOOLEAN
      /\ i \in 0..n - 1
  BY UiFields DEF n
<1>8. v \in Ui(n) /\ v.status = u.status /\ v.quit = u.quit
  <2>1. u \in Ui(n)
    BY DEF n
  <2> DEFINE b == IF u.selecting THEN u.selected ELSE i
             a == [u EXCEPT !.active = i]
  <2>2. b \in 0..n - 1
    BY <1>7
  <2>3. a = [status |-> u.status, active |-> i, selected |-> u.selected,
             selecting |-> u.selecting, requested |-> u.requested, paused |-> u.paused, quit |-> u.quit]
    BY <2>1 DEF Ui
  <2>4. v = [a EXCEPT !.selected = IF u.selecting THEN @ ELSE i]
    BY DEF v
  <2> HIDE DEF a
  <2>5. v = [status |-> u.status, active |-> i, selected |-> b,
             selecting |-> u.selecting, requested |-> u.requested, paused |-> u.paused, quit |-> u.quit]
    BY <2>3, <2>4
  <2> HIDE DEF b, v
  <2>6. v \in Ui(n)
    BY <1>7, <2>2, <2>5 DEF Ui
  <2> QED BY <2>5, <2>6
<1> HIDE DEF v
<1>9. \A j \in 0..n - 1 : ui.status[j] \notin Running
  BY <1>2 DEF EvalMain, StatusOk, n
<1>10. /\ (chosen.sized => \A j \in 0..n - 1 : ui.status[j] # "SKIPPED")
       /\ LogOk(n, epc, ui, cur, log, rc)
  BY DEF EvalMain, StatusOk, n
<1>11. /\ v.status \in [0..n - 1 -> Statuses] /\ v.active \in 0..n - 1 /\ v.selected \in 0..n - 1
       /\ v.selecting \in BOOLEAN /\ v.requested \in -1..n - 1 /\ v.paused \in BOOLEAN /\ v.quit = FALSE
  BY <1>8, UiFields
<1>12. CASE room < 1
  <2> DEFINE rec == [idx |-> i, status |-> "SKIPPED", picked |-> <<>>, output |-> <<>>]
  <2>1. /\ ui' = [v EXCEPT !.status[i] = "SKIPPED"] /\ log' = Append(log, rec)
        /\ epc' = "next" /\ cur' = [NoCase EXCEPT !.idx = i]
    BY <1>6, <1>12 DEF BeginCase, v, room, Traced
  <2>2. ~chosen.sized
    BY <1>3, <1>5, <1>12
  <2>3. ui' = [status |-> [v.status EXCEPT ![i] = "SKIPPED"], active |-> v.active, selected |-> v.selected,
               selecting |-> v.selecting, requested |-> v.requested, paused |-> v.paused, quit |-> v.quit]
    BY <1>8, <2>1 DEF Ui
  <2>4. [v.status EXCEPT ![i] = "SKIPPED"] \in [0..n - 1 -> Statuses]
    BY <1>11 DEF Statuses
  <2>5. ui' \in Ui(n) /\ ui'.status = [ui.status EXCEPT ![i] = "SKIPPED"] /\ ~ui'.quit
    BY <1>8, <1>11, <2>3, <2>4, UiMade
  <2>6. cur' = [idx |-> i, limit |-> 0, raw |-> <<>>, in_think |-> FALSE, forced |-> 0, retried |-> FALSE]
    BY <2>1 DEF NoCase
  <2>7. cur' \in Cur(n) /\ cur'.limit = 0 /\ cur'.retried = FALSE
    BY <1>7, <2>6 DEF Cur
  <2>8. Typed(cfg, chosen, ui', keys, cur', seqPos, rc)
    BY <1>1, <2>5, <2>7 DEF Typed, n
  <2>9. StatusOk(chosen, epc', ui', cur', rc)
    <3>1. \A j \in 0..n - 1 : ui'.status[j] \notin Running
      BY <1>8, <1>9, <1>11, <2>5 DEF Running
    <3> QED BY <2>1, <2>2, <2>5, <3>1 DEF StatusOk, n
  <2>10. SizeOk(cfg, chosen, epc', cur')
    BY <2>1, <2>2, <2>7 DEF SizeOk
  <2>11. RoomOk(cfg, epc', cur')
    BY <2>1 DEF RoomOk, InCase
  <2>12. LogOk(n, epc', ui', cur', log', rc)
    <3>1. rec.idx = i /\ rec.status \notin Bad /\ rec.status # "ERROR" /\ n \in Nat
      BY <1>2 DEF Bad
    <3>2. ui.status \in [0..n - 1 -> Statuses]
      BY <1>8, <1>11
    <3> HIDE DEF rec
    <3>3. LogStep(n, epc, ui, cur, log, rc, ui', rc, rec, "SKIPPED")
      BY <1>2, <1>7, <1>10, <2>5, <3>1, <3>2 DEF LogStep
    <3>4. LogOk(n, epc', ui', cur', Append(log, rec), rc)
      BY <3>3, LogAppends
    <3> QED BY <2>1, <3>4 DEF rec
  <2> QED BY <2>1, <2>8, <2>9, <2>10, <2>11, <2>12 DEF EvalMain, n, Pcs
<1>13. CASE ~(room < 1)
  <2>1. /\ ui' = [v EXCEPT !.status[i] = "PREFILL", !.requested = -1] /\ epc' = "prefill" /\ log' = log
        /\ cur' = [idx |-> i, limit |-> room, raw |-> <<>>, in_think |-> Thinks, forced |-> 0, retried |-> retry]
    BY <1>6, <1>13 DEF BeginCase, v, room
  <2>2. room \in Nat \ {0}
    BY <1>3, <1>13
  <2>3. ui' = [status |-> [v.status EXCEPT ![i] = "PREFILL"], active |-> v.active, selected |-> v.selected,
               selecting |-> v.selecting, requested |-> -1, paused |-> v.paused, quit |-> v.quit]
    BY <1>8, <2>1 DEF Ui
  <2>4. /\ [v.status EXCEPT ![i] = "PREFILL"] \in [0..n - 1 -> Statuses]
        /\ -1 \in -1..n - 1
    <3>1. -1 \in -1..n - 1
      BY <1>2
    <3>2. "PREFILL" \in Statuses
      BY DEF Statuses
    <3>3. [v.status EXCEPT ![i] = "PREFILL"] \in [0..n - 1 -> Statuses]
      BY <1>7, <1>11, <3>2
    <3> QED BY <3>1, <3>3
  <2>5. ui' \in Ui(n) /\ ui'.status = [ui.status EXCEPT ![i] = "PREFILL"] /\ ~ui'.quit
    BY <1>8, <1>11, <2>3, <2>4, UiMade
  <2>6. Thinks \in BOOLEAN /\ <<>> \in Seq(Tokens) /\ Len(<<>>) = 0 /\ retry \in BOOLEAN
    BY EmptySeq DEF Thinks
  <2>7. cur' \in Cur(n)
    BY <1>7, <2>1, <2>2, <2>6 DEF Cur
  <2>8. /\ cur'.idx = i /\ cur'.limit = room /\ cur'.raw = <<>> /\ cur'.in_think = Thinks /\ cur'.forced = 0
        /\ cur'.retried = retry
    BY <2>1
  <2>9. Typed(cfg, chosen, ui', keys, cur', seqPos, rc)
    BY <1>1, <2>5, <2>7 DEF Typed, n
  <2>10. StatusOk(chosen, epc', ui', cur', rc)
    <3>1. \A j \in 0..n - 1 : ui'.status[j] \in Running => j = i
      BY <1>8, <1>9, <1>11, <2>5 DEF Running
    <3>2. chosen.sized => \A j \in 0..n - 1 : ui'.status[j] # "SKIPPED"
      BY <1>8, <1>10, <1>11, <2>5
    <3> QED BY <2>1, <2>5, <2>8, <3>1, <3>2 DEF StatusOk, n, InCase
  <2>11. SizeOk(cfg, chosen, epc', cur')
    BY <1>3, <1>4, <2>1, <2>8 DEF SizeOk
  <2>12. RoomOk(cfg, epc', cur')
    <3>1. cfg.hard \in Nat
      BY <1>1 DEF EvalOptions
    <3>2. Reserve(cfg, cur') <= cur'.limit
      BY <2>2, <2>8, <3>1 DEF Reserve
    <3>3. cfg.think # "none" => cur'.in_think
      BY <2>8 DEF Thinks
    <3>4. Len(cur'.raw) = 0 /\ cur'.forced = 0 /\ cur'.limit \in Nat /\ Reserve(cfg, cur') \in Nat
      BY <2>2, <2>6, <2>8, <3>1 DEF Reserve
    <3> QED BY <2>1, <3>2, <3>3, <3>4 DEF RoomOk
  <2>13. LogOk(n, epc', ui', cur', log, rc)
    <3>1. epc' \in InCase /\ n \in Nat
      BY <1>2, <2>1 DEF InCase
    <3>2. ui.status \in [0..n - 1 -> Statuses]
      BY <1>8, <1>11
    <3>3. /\ LogOk(n, epc, ui, cur, log, rc) /\ n \in Nat /\ epc \notin InCase /\ epc' \in InCase
          /\ i \in 0..n - 1 /\ cur'.idx = i /\ ui'.status = [ui.status EXCEPT ![i] = "PREFILL"]
      BY <1>2, <1>7, <1>10, <2>5, <2>8, <3>1
    <3> QED BY ONLY <3>2, <3>3, LogBegins
  <2> QED BY <2>1, <2>9, <2>10, <2>11, <2>12, <2>13 DEF EvalMain, n, Pcs
<1> QED BY <1>12, <1>13

-----------------------------------------------------------------------------
(* A token                                                                 *)

\* What a token leaves of the room
EmitOk(o, c, w, f) ==
    LET rest == c.limit - Len(c.raw) - 1 IN
    \/ o.think = "none"
    \/ c.in_think /\ w = "close" /\ f = 0 /\ rest >= Reserve(o, c) - o.close
    \/ c.in_think /\ w # "close" /\ f = 1 /\ o.close > 1 /\ rest >= Reserve(o, c) - 1
    \/ c.in_think /\ w # "close" /\ f = 0 /\ rest >= Reserve(o, c)
    \/ ~c.in_think /\ f = 0

Emitted(c, w, f) == [c EXCEPT !.raw = Append(@, w), !.forced = f, !.in_think = @ /\ w # "close"]
EmittedIs(n, c, w, f, c2) ==
    /\ c2 \in Cur(n) /\ c2.idx = c.idx /\ c2.limit = c.limit /\ c2.retried = c.retried /\ c2.forced = f
    /\ c2.raw = Append(c.raw, w) /\ c2.in_think = (c.in_think /\ w # "close")

LEMMA EmitIs ==
    ASSUME NEW n, NEW c \in Cur(n), NEW w \in Tokens, NEW f \in {0, 1}
    PROVE  EmittedIs(n, c, w, f, Emitted(c, w, f))
<1> DEFINE a == [c EXCEPT !.raw = Append(@, w)]
           b == [a EXCEPT !.forced = f]
           t == c.in_think /\ w # "close"
           r == Append(c.raw, w)
           c2 == Emitted(c, w, f)
<1>0. c \in Cur(n)
  OBVIOUS
<1>1. /\ c.idx \in 0..n - 1 /\ c.limit \in Nat /\ c.raw \in Seq(Tokens) /\ c.in_think \in BOOLEAN
      /\ c.forced \in {0, 1} /\ c.retried \in BOOLEAN
  BY CurFields
<1>2. r \in Seq(Tokens) /\ t \in BOOLEAN
  BY <1>1, AppendProperties
<1> HIDE DEF r
<1>3. a = [idx |-> c.idx, limit |-> c.limit, raw |-> r, in_think |-> c.in_think, forced |-> c.forced,
           retried |-> c.retried]
  <2>2. c = [idx |-> c.idx, limit |-> c.limit, raw |-> c.raw, in_think |-> c.in_think, forced |-> c.forced,
             retried |-> c.retried]
    BY ONLY <1>0 DEF Cur
  <2> DEFINE i == c.idx  l == c.limit  x == c.raw  h == c.in_think  g == c.forced  m == c.retried
  <2>3. c = [idx |-> i, limit |-> l, raw |-> x, in_think |-> h, forced |-> g, retried |-> m] /\ x = c.raw
    BY ONLY <2>2
  <2>4. a = [c EXCEPT !.raw = r]
    BY DEF a, r
  <2> HIDE DEF i, l, x, h, g, m, r, a
  <2>5. a = [idx |-> i, limit |-> l, raw |-> r, in_think |-> h, forced |-> g, retried |-> m]
    BY ONLY <2>3, <2>4
  <2> QED BY ONLY <2>5 DEF i, l, h, g, m
<1>4. c2 = [b EXCEPT !.in_think = @ /\ w # "close"]
  BY DEF Emitted
<1> HIDE DEF a, c2
<1>5. b = [idx |-> c.idx, limit |-> c.limit, raw |-> r, in_think |-> c.in_think, forced |-> f,
           retried |-> c.retried]
  BY <1>3
<1> HIDE DEF b
<1>6. c2 = [idx |-> c.idx, limit |-> c.limit, raw |-> r, in_think |-> t, forced |-> f, retried |-> c.retried]
  BY ONLY <1>4, <1>5 DEF t
<1> HIDE DEF t
<1>7. c2 \in Cur(n)
  BY <1>1, <1>2, <1>6 DEF Cur
<1>8. /\ c2.idx = c.idx /\ c2.limit = c.limit /\ c2.retried = c.retried /\ c2.forced = f /\ c2.raw = r
      /\ c2.in_think = t
  BY ONLY <1>6
<1> QED BY <1>7, <1>8 DEF r, t, c2, EmittedIs

LEMMA EmitRoom ==
    ASSUME NEW n, NEW o \in EvalOptions, NEW c \in Cur(n), RoomOk(o, "token", c), NEW w \in Tokens, NEW f \in {0, 1},
           EmitOk(o, c, w, f), NEW c2, c2.limit = c.limit, c2.forced = f, c2.raw = Append(c.raw, w),
           c2.in_think = (c.in_think /\ w # "close")
    PROVE  RoomOk(o, "loop", c2)
<1> DEFINE N == Len(c.raw)
           raw2 == Append(c.raw, w)
           R == Reserve(o, c)
<1>1. /\ c.limit \in Nat /\ c.raw \in Seq(Tokens) /\ c.in_think \in BOOLEAN /\ c.forced \in {0, 1}
  BY CurFields
<1>2. o.hard \in Nat /\ o.close \in Nat \ {0}
  BY DEF EvalOptions
<1>3. Len(raw2) = N + 1 /\ N \in Nat /\ raw2[N + 1] = w /\ \A q \in 1..N : raw2[q] = c.raw[q]
  BY <1>1, AppendIs
<1>4. /\ N < c.limit
      /\ o.think # "none" =>
             /\ c.in_think => \A q \in 1..N : c.raw[q] # "close"
             /\ ~c.in_think => Closed(o, c)
  BY DEF RoomOk, InCase
<1>5. R \in Nat /\ Reserve(o, c2) = R
  BY <1>1, <1>2 DEF Reserve
<1>6. EmitOk(o, c, w, f) /\ c2.raw = raw2 /\ c2.limit = c.limit /\ c2.forced = f
      /\ c2.in_think = (c.in_think /\ w # "close")
  OBVIOUS
<1> HIDE DEF N, raw2, R
<1>7. Len(c2.raw) <= c2.limit
  BY <1>1, <1>3, <1>4, <1>6
<1>8. ASSUME o.think # "none", c.in_think, w = "close" PROVE Closed(o, c2)
  <2>1. c.limit - (N + 1) >= R - o.close
    BY <1>1, <1>2, <1>3, <1>5, <1>6, <1>8 DEF EmitOk, N, R
  <2>2. N + 1 \in 1..Len(c2.raw) /\ c2.raw[N + 1] = "close"
    BY <1>3, <1>6, <1>8
  <2>3. \A q \in 1..(N + 1) - 1 : c2.raw[q] # "close"
    BY <1>3, <1>4, <1>6, <1>8
  <2> QED BY <1>5, <1>6, <2>1, <2>2, <2>3 DEF Closed
<1>9. ASSUME o.think # "none", ~c.in_think PROVE Closed(o, c2)
  <2>1. PICK p \in 1..N : c.raw[p] = "close" /\ (\A q \in 1..p - 1 : c.raw[q] # "close")
                          /\ c.limit - p >= R - o.close
    BY <1>4, <1>9 DEF Closed, N, R
  <2>2. p \in 1..Len(c2.raw) /\ c2.raw[p] = "close"
    BY <1>3, <1>6, <2>1
  <2>3. \A q \in 1..p - 1 : c2.raw[q] # "close"
    <3> SUFFICES ASSUME NEW q \in 1..p - 1 PROVE c2.raw[q] # "close"
      OBVIOUS
    <3>1. q \in 1..N
      BY <1>3, <2>1
    <3> QED BY <1>3, <1>6, <2>1, <3>1
  <2> QED BY <1>5, <1>6, <2>1, <2>2, <2>3 DEF Closed
<1>10. ASSUME o.think # "none", c.in_think, w # "close"
       PROVE  /\ \A q \in 1..Len(c2.raw) : c2.raw[q] # "close"
              /\ f = 0 => c2.limit - Len(c2.raw) >= R
              /\ f = 1 => o.close > 1 /\ c2.limit - Len(c2.raw) >= R - 1
  <2>1. \A q \in 1..Len(c2.raw) : q \in 1..N \/ q = N + 1
    BY <1>3, <1>6
  <2>2. \A q \in 1..Len(c2.raw) : c2.raw[q] # "close"
    BY <1>3, <1>4, <1>6, <1>10, <2>1
  <2>3. /\ f = 0 => c2.limit - Len(c2.raw) >= R
        /\ f = 1 => o.close > 1 /\ c2.limit - Len(c2.raw) >= R - 1
    BY <1>1, <1>2, <1>3, <1>5, <1>6, <1>10 DEF EmitOk, N, R
  <2> QED BY <2>2, <2>3
<1>11. ASSUME o.think # "none", ~c2.in_think PROVE c2.forced = 0
  BY <1>6, <1>11 DEF EmitOk
<1>12. ASSUME o.think # "none", ~c2.in_think PROVE Closed(o, c2)
  BY <1>6, <1>8, <1>9, <1>12
<1>13. ASSUME o.think # "none", c2.in_think
       PROVE  /\ \A q \in 1..Len(c2.raw) : c2.raw[q] # "close"
              /\ c2.forced = 0 => c2.limit - Len(c2.raw) >= Reserve(o, c2)
              /\ c2.forced = 1 => o.close > 1 /\ c2.limit - Len(c2.raw) >= Reserve(o, c2) - 1
  BY <1>5, <1>6, <1>10, <1>13
<1> QED BY <1>7, <1>11, <1>12, <1>13 DEF RoomOk

LEMMA EmitMain ==
    ASSUME EvalMain(cfg, chosen, "token", ui, keys, cur, seqPos, log, rc), ~ui.quit,
           NEW w \in Tokens, NEW f \in {0, 1}, Emit(w, f), EmitOk(cfg, cur, w, f)
    PROVE  epc' = "loop" /\ EvalMain(cfg, chosen, "loop", ui', keys, cur', seqPos, log', rc')
<1> DEFINE n == Len(chosen.cases)
<1>1. /\ cfg \in EvalOptions /\ chosen.cases \in Seq(EvalCases) /\ chosen.cases # <<>>
      /\ chosen.seq \in Seq(0..n - 1) /\ ui \in Ui(n) /\ keys \in Keys /\ cur \in Cur(n) /\ seqPos \in Nat
      /\ rc \in {0, 1}
  BY DEF EvalMain, Typed
<1>2. /\ cur' = Emitted(cur, w, f)
      /\ epc' = "loop" /\ ui' = ui /\ log' = log /\ rc' = rc
  BY DEF Emit, Emitted
<1>3. /\ cur' \in Cur(n) /\ cur'.idx = cur.idx /\ cur'.limit = cur.limit /\ cur'.retried = cur.retried
      /\ cur'.forced = f /\ cur'.raw = Append(cur.raw, w) /\ cur'.in_think = (cur.in_think /\ w # "close")
  <2>1. EmittedIs(n, cur, w, f, Emitted(cur, w, f))
    BY <1>1, EmitIs
  <2> QED BY <1>2, <2>1 DEF EmittedIs
<1>4. RoomOk(cfg, "loop", cur')
  <2>1. RoomOk(cfg, "token", cur)
    BY DEF EvalMain
  <2> QED BY <1>1, <1>3, <2>1, EmitRoom
<1>5. Typed(cfg, chosen, ui', keys, cur', seqPos, rc')
  BY <1>1, <1>2, <1>3 DEF Typed, n
<1>6. StatusOk(chosen, "loop", ui', cur', rc')
  BY <1>2, <1>3 DEF EvalMain, StatusOk, InCase
<1>7. SizeOk(cfg, chosen, "loop", cur')
  BY <1>3 DEF EvalMain, SizeOk, InCase
<1>8. LogOk(n, "loop", ui', cur', log', rc')
  <2>1. LogOk(n, "token", ui, cur, log, rc)
    BY DEF EvalMain, n
  <2>2. "loop" \in InCase /\ ui'.status = ui.status
    BY <1>2 DEF InCase
  <2>3. LogOk(n, "loop", ui', cur', log, rc)
    BY <1>3, <2>1, <2>2, LogQuiet
  <2> QED BY <1>2, <2>3
<1> QED BY <1>2, <1>4, <1>5, <1>6, <1>7, <1>8 DEF EvalMain, n

-----------------------------------------------------------------------------
(* Actions                                                                 *)

LEMMA MainIs ==
    ASSUME EvalInv, epc \notin {"start", "exit"}
    PROVE  /\ EvalMain(cfg, chosen, epc, ui, keys, cur, seqPos, log, rc)
           /\ cfg \in EvalOptions /\ chosen.cases \in Seq(EvalCases) /\ chosen.cases # <<>>
           /\ chosen.seq \in Seq(0..Len(chosen.cases) - 1) /\ ui \in Ui(Len(chosen.cases)) /\ keys \in Keys
           /\ cur \in Cur(Len(chosen.cases)) /\ seqPos \in Nat /\ rc \in {0, 1}
           /\ Len(chosen.cases) \in Nat \ {0} /\ NCases = Len(chosen.cases)
           /\ cur.idx \in 0..Len(chosen.cases) - 1
<1>1. EvalMain(cfg, chosen, epc, ui, keys, cur, seqPos, log, rc)
  BY DEF EvalInv
<1>2. /\ cfg \in EvalOptions /\ chosen.cases \in Seq(EvalCases) /\ chosen.cases # <<>>
      /\ chosen.seq \in Seq(0..Len(chosen.cases) - 1) /\ ui \in Ui(Len(chosen.cases)) /\ keys \in Keys
      /\ cur \in Cur(Len(chosen.cases)) /\ seqPos \in Nat /\ rc \in {0, 1}
  BY <1>1 DEF EvalMain, Typed
<1> QED BY <1>1, <1>2, CountIs, CurFields DEF NCases

LEMMA Going ==
    ASSUME epc' \in Pcs \ {"start", "exit"},
           EvalMain(cfg', chosen', epc', ui', keys', cur', seqPos', log', rc')
    PROVE  EvalInv'
  BY DEF EvalInv

LEMMA NoKeysAre == NoKeys \in Keys
  BY DEF NoKeys, Keys

LEMMA ConsumedMain ==
    ASSUME EvalInv, epc \notin {"start", "exit"}
    PROVE  Consumed \in Ui(Len(chosen.cases)) /\ Consumed.status = ui.status
  BY MainIs, ConsumedOk DEF Consumed

LEMMA PressInv == ASSUME EvalInv, NEW k \in {"up", "down", "enter", "p", "q"}, Press(k) PROVE EvalInv'
<1>1. epc \notin {"start", "done", "exit"} /\ epc' = epc /\ UNCHANGED <<config, ui, cur, seqPos, log, rc>>
  BY DEF Press
<1>2. keys' \in Keys
  <2>1. /\ keys.move \in Int /\ keys.enter \in BOOLEAN /\ keys.pause \in BOOLEAN /\ keys.quit \in BOOLEAN
        /\ keys \in Keys
    BY <1>1, MainIs DEF Keys
  <2>2. \/ keys' = [keys EXCEPT !.move = @ - 1] \/ keys' = [keys EXCEPT !.move = @ + 1]
        \/ keys' = [keys EXCEPT !.enter = TRUE] \/ keys' = [keys EXCEPT !.pause = TRUE]
        \/ keys' = [keys EXCEPT !.quit = TRUE]
    BY DEF Press
  <2>3. [keys EXCEPT !.move = @ - 1] \in Keys
    BY <2>1 DEF Keys
  <2>4. [keys EXCEPT !.move = @ + 1] \in Keys
    BY <2>1 DEF Keys
  <2>5. [keys EXCEPT !.enter = TRUE] \in Keys
    BY <2>1 DEF Keys
  <2>6. [keys EXCEPT !.pause = TRUE] \in Keys
    BY <2>1 DEF Keys
  <2>7. [keys EXCEPT !.quit = TRUE] \in Keys
    BY <2>1 DEF Keys
  <2> QED BY <2>2, <2>3, <2>4, <2>5, <2>6, <2>7
<1>3. EvalMain(cfg, chosen, epc, ui, keys, cur, seqPos, log, rc)
  BY <1>1, MainIs
<1>4. EvalMain(cfg, chosen, epc, ui, keys', cur, seqPos, log, rc)
  BY <1>2, <1>3 DEF EvalMain, Typed
<1>5. EvalMain(cfg', chosen', epc', ui', keys', cur', seqPos', log', rc')
  BY <1>1, <1>4 DEF config
<1> QED BY <1>1, <1>5, Going DEF EvalInv

LEMMA WaitInv == ASSUME EvalInv, Wait PROVE EvalInv'
<1>1. /\ epc \in {"pick_wait", "prefill_wait", "synced_wait", "token_wait"}
      /\ ui' = Consumed /\ keys' = NoKeys /\ epc' \in {epc, Waits[epc]} /\ UNCHANGED <<config, cur, seqPos, log, rc>>
  BY DEF Wait, Waits, Consume
<1>2. /\ EvalMain(cfg, chosen, epc, ui, keys, cur, seqPos, log, rc)
      /\ Consumed \in Ui(Len(chosen.cases)) /\ Consumed.status = ui.status
  BY <1>1, MainIs, ConsumedMain
<1>3. /\ epc = "pick_wait" => epc' \in {"pick_wait", "pick"}
      /\ epc = "prefill_wait" => epc' \in {"prefill_wait", "prefill"}
      /\ epc = "synced_wait" => epc' \in {"synced_wait", "synced"}
      /\ epc = "token_wait" => epc' \in {"token_wait", "token"}
  BY <1>1 DEF Waits
<1>4. epc' \in {"token", "token_wait"} => Len(cur.raw) < cur.limit
  BY <1>1, <1>2, <1>3 DEF EvalMain, RoomOk, InCase
<1>5. EvalMain(cfg, chosen, epc', Consumed, NoKeys, cur, seqPos, log, rc)
  BY <1>1, <1>2, <1>3, <1>4, NoKeysAre, QuietMain DEF InCase
<1>6. EvalMain(cfg', chosen', epc', ui', keys', cur', seqPos', log', rc')
  BY <1>1, <1>5 DEF config
<1> QED BY <1>1, <1>3, <1>6, Going DEF Pcs

\* Between cases the record of the case may be any
LEMMA IdleMain ==
    ASSUME NEW o, NEW ch, NEW stp \in {"top", "pick", "pick_wait"}, NEW u, NEW k, NEW c, NEW sp, NEW l, NEW r,
           EvalMain(o, ch, stp, u, k, c, sp, l, r), NEW c2 \in Cur(Len(ch.cases)), NEW sp2 \in Nat
    PROVE  EvalMain(o, ch, stp, u, k, c2, sp2, l, r)
<1>1. stp \notin InCase \cup {"retry", "next"}
  BY DEF InCase
<1>2. Typed(o, ch, u, k, c2, sp2, r)
  BY DEF EvalMain, Typed
<1>3. StatusOk(ch, stp, u, c2, r)
  BY <1>1 DEF EvalMain, StatusOk
<1>4. SizeOk(o, ch, stp, c2)
  BY <1>1 DEF EvalMain, SizeOk
<1>5. RoomOk(o, stp, c2)
  BY <1>1 DEF RoomOk
<1>6. LogOk(Len(ch.cases), stp, u, c2, l, r)
  BY <1>1 DEF EvalMain, LogOk
<1> QED BY <1>2, <1>3, <1>4, <1>5, <1>6 DEF EvalMain

LEMMA DoneMain ==
    ASSUME NEW o, NEW ch, NEW u, NEW k, NEW c, NEW sp, NEW l, NEW r,
           EvalMain(o, ch, "top", u, k, c, sp, l, r), \A j \in 0..Len(ch.cases) - 1 : u.status[j] # "PENDING"
    PROVE  EvalMain(o, ch, "done", u, k, c, sp, l, r)
<1>1. Typed(o, ch, u, k, c, sp, r)
  BY DEF EvalMain
<1>2. StatusOk(ch, "done", u, c, r)
  BY DEF EvalMain, StatusOk, InCase
<1>3. SizeOk(o, ch, "done", c)
  BY DEF EvalMain, SizeOk, InCase
<1>4. RoomOk(o, "done", c)
  BY DEF RoomOk, InCase
<1>5. LogOk(Len(ch.cases), "done", u, c, l, r)
  BY DEF EvalMain, LogOk, InCase
<1> QED BY <1>1, <1>2, <1>3, <1>4, <1>5 DEF EvalMain

LEMMA IdxSet ==
    ASSUME NEW n, NEW c \in Cur(n), NEW i \in 0..n - 1
    PROVE  [c EXCEPT !.idx = i] \in Cur(n) /\ [NoCase EXCEPT !.idx = i] \in Cur(n)
<1>1. [c EXCEPT !.idx = i] \in Cur(n)
  BY DEF Cur
<1> DEFINE r == <<>>
<1>0. NoCase = [idx |-> 0, limit |-> 0, raw |-> r, in_think |-> FALSE, forced |-> 0, retried |-> FALSE]
  BY DEF NoCase
<1> HIDE DEF r
<1>2. ASSUME NEW v, v = [NoCase EXCEPT !.idx = i]
      PROVE  v = [idx |-> i, limit |-> 0, raw |-> r, in_think |-> FALSE, forced |-> 0, retried |-> FALSE]
  BY <1>0, <1>2
<1>3. r \in Seq(Tokens) /\ 0 \in Nat
  BY EmptySeq DEF r
<1>4. [NoCase EXCEPT !.idx = i] \in Cur(n)
  <2>1. ASSUME NEW v, v = [idx |-> i, limit |-> 0, raw |-> r, in_think |-> FALSE, forced |-> 0, retried |-> FALSE]
        PROVE  v \in Cur(n)
    BY <1>3, <2>1 DEF Cur
  <2> QED BY <1>2, <2>1
<1> QED BY <1>1, <1>4

LEMMA SelectSet ==
    ASSUME NEW n, NEW u \in Ui(n), NEW i \in 0..n - 1
    PROVE  /\ [u EXCEPT !.selected = i, !.selecting = FALSE] \in Ui(n)
           /\ [u EXCEPT !.selected = i, !.selecting = FALSE].status = u.status
           /\ [u EXCEPT !.selected = i, !.selecting = FALSE].quit = u.quit
<1> DEFINE v == [u EXCEPT !.selected = i, !.selecting = FALSE]
           a == [u EXCEPT !.selected = i]
<1>1. v = [a EXCEPT !.selecting = FALSE] /\ u \in Ui(n)
  OBVIOUS
<1>2. a \in Ui(n) /\ a.status = u.status /\ a.quit = u.quit
  BY DEF Ui
<1> HIDE DEF a, v
<1>3. v \in Ui(n) /\ v.status = a.status /\ v.quit = a.quit
  BY ONLY <1>1, <1>2 DEF Ui
<1> QED BY <1>2, <1>3 DEF v

\* The case at the cursor, and no request
Asked(u, i) == [u EXCEPT !.requested = -1, !.selecting = FALSE, !.selected = i]

LEMMA AskedSet ==
    ASSUME NEW n \in Nat \ {0}, NEW u \in Ui(n), NEW i \in 0..n - 1
    PROVE  Asked(u, i) \in Ui(n) /\ Asked(u, i).status = u.status /\ Asked(u, i).quit = u.quit
<1> DEFINE a == [u EXCEPT !.requested = -1]
           v == [a EXCEPT !.selected = i, !.selecting = FALSE]
<1>1. -1 \in -1..n - 1
  OBVIOUS
<1>2. a \in Ui(n) /\ a.status = u.status /\ a.quit = u.quit
  BY <1>1 DEF Ui
<1>3. Asked(u, i) = v
  BY DEF Asked
<1> HIDE DEF a
<1>4. v \in Ui(n) /\ v.status = a.status /\ v.quit = a.quit
  BY <1>2, SelectSet
<1> HIDE DEF v
<1> QED BY <1>2, <1>3, <1>4

LEMMA TopInv == ASSUME EvalInv, Top PROVE EvalInv'
<1> DEFINE n == Len(chosen.cases)
<1>1. /\ EvalMain(cfg, chosen, "top", ui, keys, cur, seqPos, log, rc) /\ epc = "top" /\ ui \in Ui(n)
      /\ chosen.seq \in Seq(0..n - 1) /\ cur \in Cur(n) /\ seqPos \in Nat /\ keys \in Keys /\ n \in Nat \ {0}
      /\ NCases = n
  BY MainIs DEF Top
<1>2. UNCHANGED <<config, log, rc>>
  BY DEF Top
<1>3. CASE chosen.seq # <<>> /\ seqPos >= Len(chosen.seq)
  <2>1. epc' = "done" /\ UNCHANGED <<ui, keys, cur, seqPos>>
    BY <1>3 DEF Top
  <2>2. EvalMain(cfg, chosen, "done", ui, keys, cur, seqPos, log, rc)
    BY <1>1, <1>3, QuietMain DEF InCase
  <2>3. EvalMain(cfg', chosen', epc', ui', keys', cur', seqPos', log', rc')
    BY <1>2, <2>1, <2>2 DEF config
  <2> QED BY <2>1, <2>3, Going DEF Pcs
<1>4. CASE ~(chosen.seq # <<>> /\ seqPos >= Len(chosen.seq))
  <2> DEFINE i == chosen.seq[seqPos + 1]
             v == [ui EXCEPT !.selected = i, !.selecting = FALSE]
             w == IF chosen.seq = <<>> THEN ui ELSE v
             u == ConsumedBy(w)
             c2 == IF chosen.seq = <<>> THEN cur ELSE [cur EXCEPT !.idx = i]
             sp2 == IF chosen.seq = <<>> THEN 0 ELSE seqPos + 1
  <2>1. chosen.seq # <<>> => i \in 0..n - 1
    <3> SUFFICES ASSUME chosen.seq # <<>> PROVE i \in 0..n - 1
      OBVIOUS
    <3>1. seqPos + 1 \in 1..Len(chosen.seq)
      BY <1>1, <1>4, LenProperties
    <3> HIDE DEF n
    <3> QED BY <1>1, <3>1, ElementOfSeq
  <2> HIDE DEF n, i
  <2>2. w \in Ui(n) /\ w.status = ui.status
    <3>1. chosen.seq # <<>> => v \in Ui(n) /\ v.status = ui.status
      BY <1>1, <2>1, SelectSet
    <3> QED BY <1>1, <3>1
  <2>3. ui' = u /\ keys' = NoKeys /\ epc' \in {"pick", "pick_wait"} /\ cur' = c2 /\ seqPos' = sp2
    <3>1. w = ui \/ w = v
      OBVIOUS
    <3> QED BY <1>4 DEF Top, Consumed, i
  <2> HIDE DEF w
  <2>4. u \in Ui(n) /\ u.status = ui.status
    BY <1>1, <2>2, ConsumedOk
  <2> HIDE DEF u
  <2>5. c2 \in Cur(n) /\ sp2 \in Nat
    <3>1. chosen.seq # <<>> => [cur EXCEPT !.idx = i] \in Cur(n)
      BY <1>1, <2>1, IdxSet
    <3>2. c2 \in Cur(n)
      BY <1>1, <3>1
    <3> QED BY <1>1, <3>2
  <2> HIDE DEF c2, sp2
  <2>6. EvalMain(cfg, chosen, epc', u, NoKeys, cur, seqPos, log, rc)
    BY <1>1, <2>3, <2>4, NoKeysAre, QuietMain DEF InCase, n
  <2>7. EvalMain(cfg, chosen, epc', u, NoKeys, c2, sp2, log, rc)
    BY <2>3, <2>5, <2>6, IdleMain DEF n
  <2>8. EvalMain(cfg', chosen', epc', ui', keys', cur', seqPos', log', rc')
    BY <1>2, <2>3, <2>7 DEF config
  <2> QED BY <2>3, <2>8, Going DEF Pcs
<1> QED BY <1>3, <1>4

LEMMA PickInv == ASSUME EvalInv, Pick PROVE EvalInv'
<1> DEFINE n == Len(chosen.cases)
<1>1. /\ EvalMain(cfg, chosen, epc, ui, keys, cur, seqPos, log, rc) /\ epc = "pick" /\ ui \in Ui(n)
      /\ keys \in Keys /\ cur.idx \in 0..n - 1 /\ n \in Nat \ {0}
  BY MainIs DEF Pick
<1>2. UNCHANGED <<config, keys, seqPos, rc>>
  BY DEF Pick
<1>3. CASE ui.quit
  <2>1. epc' = "done" /\ UNCHANGED <<ui, cur, log>>
    BY <1>3 DEF Pick
  <2>2. EvalMain(cfg, chosen, "done", ui, keys, cur, seqPos, log, rc)
    BY <1>1, <1>3, QuietMain DEF InCase
  <2>3. EvalMain(cfg', chosen', epc', ui', keys', cur', seqPos', log', rc')
    BY <1>2, <2>1, <2>2 DEF config
  <2> QED BY <2>1, <2>3, Going DEF Pcs
<1>4. CASE ~ui.quit
  <2>1. epc' \in Pcs \ {"start", "exit"} /\ EvalMain(cfg, chosen, epc', ui', keys, cur', seqPos, log', rc)
    <3>1. CASE chosen.seq = <<>> /\ ui.requested >= 0
      <4> DEFINE u == Asked(ui, ui.requested)
      <4>1. ui.requested \in 0..n - 1
        BY <1>1, <3>1, UiFields
      <4>2. BeginCase(ui.requested, FALSE, u)
        BY <1>4, <3>1 DEF Pick, Asked
      <4>3. u \in Ui(n) /\ u.status = ui.status /\ ~u.quit
        BY <1>1, <1>4, <4>1, AskedSet
      <4> HIDE DEF u
      <4> QED BY <1>1, <4>1, <4>2, <4>3, BeginMain
    <3>2. CASE ~(chosen.seq = <<>> /\ ui.requested >= 0)
      <4>1. BeginCase(cur.idx, FALSE, ui)
        BY <1>4, <3>2 DEF Pick
      <4> QED BY <1>1, <1>4, <4>1, BeginMain
    <3> QED BY <3>1, <3>2
  <2>2. EvalMain(cfg', chosen', epc', ui', keys', cur', seqPos', log', rc')
    BY <1>2, <2>1 DEF config
  <2> QED BY <2>1, <2>2, Going
<1> QED BY <1>3, <1>4

LEMMA RetryInv == ASSUME EvalInv, Retry PROVE EvalInv'
<1>1. /\ EvalMain(cfg, chosen, epc, ui, keys, cur, seqPos, log, rc) /\ epc = "retry"
      /\ ui \in Ui(Len(chosen.cases)) /\ cur.idx \in 0..Len(chosen.cases) - 1
  BY MainIs DEF Retry
<1>2. BeginCase(cur.idx, TRUE, ui) /\ UNCHANGED <<config, keys, seqPos, rc>>
  BY DEF Retry
<1>3. cfg.retry /\ ~ui.quit
  BY <1>1 DEF EvalMain, SizeOk, StatusOk
<1>4. epc' \in Pcs \ {"start", "exit"} /\ EvalMain(cfg, chosen, epc', ui', keys, cur', seqPos, log', rc)
  BY <1>1, <1>2, <1>3, BeginMain
<1>5. EvalMain(cfg', chosen', epc', ui', keys', cur', seqPos', log', rc')
  BY <1>2, <1>4 DEF config
<1> QED BY <1>4, <1>5, Going

LEMMA ModIs ==
    ASSUME NEW n \in Nat \ {0}, NEW j \in 0..n - 1
    PROVE  j % n = j /\ (j + n) % n = j
  OBVIOUS

LEMMA ModIn == ASSUME NEW n \in Nat \ {0}, NEW x \in Int PROVE x % n \in 0..n - 1
  OBVIOUS

LEMMA FirstIn ==
    ASSUME NEW P, P \subseteq Nat, P # {}, NEW none
    PROVE  First(P, none) \in P
<1>1. PICK i \in P : \A j \in P : i <= j
  BY LeastNatural
<1> QED BY <1>1 DEF First

\* The search goes around all cases
LEMMA PendingFound ==
    ASSUME NEW i \in 1..NCases, NCases \in Nat \ {0}
    PROVE  \/ NextPending(i) = -1 /\ \A j \in 0..NCases - 1 : ui.status[j] # "PENDING"
           \/ NextPending(i) \in 0..NCases - 1
<1> DEFINE N == NCases
           P == {d \in 0..(N - 1) : ui.status[(i + d) % N] = "PENDING"}
<1>1. NextPending(i) = IF P = {} THEN -1 ELSE (i + First(P, 0)) % N
  BY DEF NextPending
<1> HIDE DEF N
<1>2. N \in Nat \ {0} /\ i \in 1..N
  BY DEF N
<1>3. CASE P = {}
  <2>1. ASSUME NEW j \in 0..N - 1 PROVE ui.status[j] # "PENDING"
    <3> DEFINE d == IF j >= i THEN j - i ELSE j - i + N
    <3>1. d \in 0..N - 1 /\ (i + d = j \/ i + d = j + N)
      BY <1>2
    <3>2. (i + d) % N = j
      BY <1>2, <3>1, ModIs
    <3> HIDE DEF d
    <3> QED BY <1>3, <3>1, <3>2
  <2> QED BY <1>1, <1>3, <2>1 DEF N
<1>4. CASE P # {}
  <2>1. First(P, 0) \in P /\ P \subseteq Nat
    <3>1. P \subseteq Nat
      BY <1>2
    <3> HIDE DEF P
    <3> QED BY <1>4, <3>1, FirstIn
  <2> HIDE DEF P
  <2>2. i + First(P, 0) \in Int
    <3>1. First(P, 0) \in Nat
      BY ONLY <2>1
    <3> QED BY <1>2, <3>1
  <2>3. (i + First(P, 0)) % N \in 0..N - 1
    BY <1>2, <2>2, ModIn
  <2> QED BY <1>1, <1>4, <2>3 DEF N
<1> QED BY <1>3, <1>4

LEMMA NextCaseInv == ASSUME EvalInv, NextCaseOf PROVE EvalInv'
<1> DEFINE n == Len(chosen.cases)
           u == [ui EXCEPT !.quit = FALSE]
           m == IF ui.requested >= 0 THEN ui.requested ELSE NextPending(cur.idx + 1)
           v == [u EXCEPT !.requested = -1, !.selecting = FALSE, !.selected = m]
<1>1. /\ EvalMain(cfg, chosen, "next", ui, keys, cur, seqPos, log, rc) /\ epc = "next" /\ ui \in Ui(n)
      /\ keys \in Keys /\ cur \in Cur(n) /\ cur.idx \in 0..n - 1 /\ n \in Nat \ {0} /\ NCases = n /\ seqPos \in Nat
  BY MainIs DEF NextCaseOf
<1>2. UNCHANGED <<config, keys, seqPos, log, rc>>
  BY DEF NextCaseOf
<1>3. ~ui.quit
  BY <1>1 DEF EvalMain, StatusOk
<1>4. u \in Ui(n) /\ u.status = ui.status /\ ~u.quit
  BY <1>1 DEF Ui
<1>5. \/ epc' = "top" /\ ui' = u /\ cur' = cur
      \/ chosen.seq = <<>> /\ m < 0 /\ epc' = "done" /\ ui' = u /\ cur' = cur
      \/ ~(m < 0) /\ epc' = "top" /\ cur' = [NoCase EXCEPT !.idx = m] /\ ui' = v
  BY DEF NextCaseOf
<1> HIDE DEF n, u
<1>6. EvalMain(cfg, chosen, "top", u, keys, cur, seqPos, log, rc)
  BY <1>1, <1>4, QuietMain DEF InCase, n
<1>7. \/ m = -1 /\ \A j \in 0..n - 1 : ui.status[j] # "PENDING"
      \/ m \in 0..n - 1
  <2>1. CASE ui.requested >= 0
    <3>1. ui.requested \in 0..n - 1
      BY <1>1, <2>1, UiFields
    <3> QED BY <2>1, <3>1
  <2>2. CASE ~(ui.requested >= 0)
    <3>1. cur.idx + 1 \in 1..NCases
      BY <1>1
    <3> HIDE DEF m
    <3>2. m = NextPending(cur.idx + 1)
      BY <2>2 DEF m
    <3> QED BY <1>1, <3>1, <3>2, PendingFound
  <2> QED BY <2>1, <2>2
<1> HIDE DEF m, v
<1>8. CASE epc' = "top" /\ ui' = u /\ cur' = cur
  <2>1. EvalMain(cfg', chosen', epc', ui', keys', cur', seqPos', log', rc')
    BY <1>2, <1>6, <1>8 DEF config
  <2> QED BY <1>8, <2>1, Going DEF Pcs
<1>9. CASE chosen.seq = <<>> /\ m < 0 /\ epc' = "done" /\ ui' = u /\ cur' = cur
  <2>1. \A j \in 0..n - 1 : u.status[j] # "PENDING"
    BY <1>4, <1>7, <1>9
  <2>2. EvalMain(cfg, chosen, "done", u, keys, cur, seqPos, log, rc)
    BY <1>6, <2>1, DoneMain DEF n
  <2>3. EvalMain(cfg', chosen', epc', ui', keys', cur', seqPos', log', rc')
    BY <1>2, <1>9, <2>2 DEF config
  <2> QED BY <1>9, <2>3, Going DEF Pcs
<1>10. CASE ~(m < 0) /\ epc' = "top" /\ cur' = [NoCase EXCEPT !.idx = m] /\ ui' = v
  <2>1. m \in 0..n - 1
    BY <1>7, <1>10
  <2>2. v \in Ui(n) /\ v.status = u.status /\ v.quit = u.quit
    <3>1. v = Asked(u, m)
      BY DEF v, Asked
    <3>2. Asked(u, m) \in Ui(n) /\ Asked(u, m).status = u.status /\ Asked(u, m).quit = u.quit
      BY <1>1, <1>4, <2>1, AskedSet
    <3> QED BY <3>1, <3>2
  <2>3. EvalMain(cfg, chosen, "top", v, keys, cur, seqPos, log, rc)
    BY <1>1, <1>4, <1>6, <2>2, QuietMain DEF InCase, n
  <2>4. cur' \in Cur(n)
    BY <1>1, <1>10, <2>1, IdxSet
  <2>5. EvalMain(cfg, chosen, "top", v, keys, cur', seqPos, log, rc)
    BY <1>1, <2>3, <2>4, IdleMain DEF n
  <2>6. EvalMain(cfg', chosen', epc', ui', keys', cur', seqPos', log', rc')
    BY <1>2, <1>10, <2>5 DEF config
  <2> QED BY <1>10, <2>6, Going DEF Pcs
<1> QED BY <1>5, <1>8, <1>9, <1>10

-----------------------------------------------------------------------------
(* Actions of a case                                                       *)

LEMMA TracedIs ==
    ASSUME NEW i, NEW status, NEW picked, NEW output, Traced(i, status, picked, output)
    PROVE  \E rec : rec.idx = i /\ rec.status = status /\ log' = Append(log, rec)
<1> DEFINE rec == [idx |-> i, status |-> status, picked |-> picked, output |-> output]
<1>1. rec.idx = i /\ rec.status = status /\ log' = Append(log, rec)
  BY DEF Traced
<1> QED BY <1>1

\* A case is stopped, or rest for another
LEMMA LeftMain ==
    ASSUME NEW stp \in InCase, NEW u, NEW k, EvalMain(cfg, chosen, stp, u, k, cur, seqPos, log, rc),
           Stop(u) \/ Switch(u)
    PROVE  /\ epc' \in {"next", "done"} /\ cur' = cur /\ rc' = rc
           /\ EvalMain(cfg, chosen, epc', ui', k, cur, seqPos, log', rc)
<1>1. u \in Ui(Len(chosen.cases)) /\ rc \in {0, 1}
  BY DEF EvalMain, Typed
<1>2. CASE Stop(u)
  <2> DEFINE s == "STOPPED"
  <2>1. /\ epc' = "done" /\ ui' = [u EXCEPT !.status[cur.idx] = s] /\ u.quit /\ cur' = cur /\ rc' = rc
        /\ Traced(cur.idx, "STOPPED", <<>>, cur.raw)
    BY <1>2 DEF Stop
  <2>2. PICK rec : rec.idx = cur.idx /\ rec.status = "STOPPED" /\ log' = Append(log, rec)
    BY <2>1, TracedIs
  <2>3. /\ rec.status \notin Bad /\ rec.status # "ERROR" /\ s \in Statuses /\ s \notin Running
        /\ s # "SKIPPED" /\ "done" \in {"next", "retry", "done"} /\ "done" # "retry"
    BY <2>2 DEF Bad, Statuses, Running
  <2> HIDE DEF s
  <2>4. EvalMain(cfg, chosen, "done", ui', k, cur, seqPos, Append(log, rec), rc)
    <3>1. EndStep(cfg, chosen, stp, u, k, cur, seqPos, log, rc, "done", ui', rec, s, rc)
      BY <1>1, <2>1, <2>2, <2>3 DEF EndStep
    <3> QED BY <3>1, EndMain
  <2> QED BY <2>1, <2>2, <2>4
<1>3. CASE Switch(u)
  <2> DEFINE s == "PENDING"
  <2>1. /\ epc' = "next" /\ ui' = [u EXCEPT !.status[cur.idx] = s] /\ ~u.quit /\ cur' = cur /\ rc' = rc
        /\ Traced(cur.idx, "SWITCHED", <<>>, cur.raw)
    BY <1>3 DEF Switch
  <2>2. PICK rec : rec.idx = cur.idx /\ rec.status = "SWITCHED" /\ log' = Append(log, rec)
    BY <2>1, TracedIs
  <2>3. /\ rec.status \notin Bad /\ rec.status # "ERROR" /\ s \in Statuses /\ s \notin Running
        /\ s # "SKIPPED" /\ "next" \in {"next", "retry", "done"} /\ "next" # "retry"
    BY <2>2 DEF Bad, Statuses, Running
  <2> HIDE DEF s
  <2>4. EvalMain(cfg, chosen, "next", ui', k, cur, seqPos, Append(log, rec), rc)
    <3>1. EndStep(cfg, chosen, stp, u, k, cur, seqPos, log, rc, "next", ui', rec, s, rc)
      BY <1>1, <2>1, <2>2, <2>3 DEF EndStep
    <3> QED BY <3>1, EndMain
  <2> QED BY <2>1, <2>2, <2>4
<1> QED BY <1>2, <1>3

LEMMA ErrorMain ==
    ASSUME NEW stp \in InCase, EvalMain(cfg, chosen, stp, ui, keys, cur, seqPos, log, rc), RunError
    PROVE  epc' = "done" /\ EvalMain(cfg, chosen, "done", ui', keys', cur', seqPos, log', rc')
<1> DEFINE n == Len(chosen.cases)
           was == ui.status[cur.idx]
           s == IF was \in Running THEN "STOPPED" ELSE was
<1>1. /\ ui' = [ui EXCEPT !.status[cur.idx] = IF @ \in Running THEN "STOPPED" ELSE @] /\ rc' = 1 /\ epc' = "done"
      /\ keys' = keys /\ cur' = cur /\ Traced(cur.idx, "ERROR", <<>>, cur.raw)
  BY DEF RunError
<1>2. /\ ui \in Ui(n) /\ cur.idx \in 0..n - 1 /\ ui.status \in [0..n - 1 -> Statuses]
  <2>1. ui \in Ui(n) /\ cur \in Cur(n)
    BY DEF EvalMain, Typed
  <2> HIDE DEF n
  <2> QED BY <2>1, UiFields, CurFields
<1>3. was \in Statuses /\ (chosen.sized => was # "SKIPPED")
  BY <1>2 DEF EvalMain, StatusOk
<1>4. s \in Statuses /\ s \notin Running /\ (chosen.sized => s # "SKIPPED")
  BY <1>3 DEF Statuses, Running
<1>5. ui' = [ui EXCEPT !.status[cur.idx] = s]
  BY <1>1
<1> HIDE DEF s
<1>6. PICK rec : rec.idx = cur.idx /\ rec.status = "ERROR" /\ log' = Append(log, rec)
  BY <1>1, TracedIs
<1>7. rec.status \notin Bad
  BY <1>6 DEF Bad
<1>8. EvalMain(cfg, chosen, "done", ui', keys, cur, seqPos, Append(log, rec), 1)
  <2>1. EndStep(cfg, chosen, stp, ui, keys, cur, seqPos, log, rc, "done", ui', rec, s, 1)
    BY <1>4, <1>5, <1>6, <1>7 DEF EndStep
  <2> QED BY <2>1, EndMain
<1> QED BY <1>1, <1>6, <1>8

LEMMA PrefillInv == ASSUME EvalInv, Prefill PROVE EvalInv'
<1>1. /\ EvalMain(cfg, chosen, "prefill", ui, keys, cur, seqPos, log, rc) /\ epc = "prefill"
      /\ Consumed \in Ui(Len(chosen.cases)) /\ Consumed.status = ui.status
  BY MainIs, ConsumedMain DEF Prefill
<1>2. UNCHANGED <<config, seqPos>>
  BY DEF Prefill
<1>3. CASE RunError
  <2>1. epc' = "done" /\ EvalMain(cfg, chosen, "done", ui', keys', cur', seqPos, log', rc')
    BY <1>1, <1>3, ErrorMain DEF InCase
  <2>2. EvalMain(cfg', chosen', epc', ui', keys', cur', seqPos', log', rc')
    BY <1>2, <2>1 DEF config
  <2> QED BY <2>1, <2>2, Going DEF Pcs
<1>4. CASE /\ ui' = Consumed /\ keys' = NoKeys /\ epc' \in {"prefill", "prefill_wait", "synced", "synced_wait"}
           /\ UNCHANGED <<cur, log, rc>>
  <2>1. EvalMain(cfg, chosen, epc', Consumed, NoKeys, cur, seqPos, log, rc)
    BY <1>1, <1>4, NoKeysAre, QuietMain DEF InCase
  <2>2. EvalMain(cfg', chosen', epc', ui', keys', cur', seqPos', log', rc')
    BY <1>2, <1>4, <2>1 DEF config
  <2> QED BY <1>4, <2>2, Going DEF Pcs
<1> QED BY <1>3, <1>4 DEF Prefill, Consume

LEMMA LeftInv ==
    ASSUME EvalInv, epc \in InCase, Stop(ui) \/ Switch(ui), UNCHANGED <<config, keys, seqPos>>
    PROVE  EvalInv'
<1>1. EvalMain(cfg, chosen, epc, ui, keys, cur, seqPos, log, rc)
  BY MainIs DEF InCase
<1>2. /\ epc' \in {"next", "done"} /\ cur' = cur /\ rc' = rc
      /\ EvalMain(cfg, chosen, epc', ui', keys, cur, seqPos, log', rc)
  BY <1>1, LeftMain
<1>3. EvalMain(cfg', chosen', epc', ui', keys', cur', seqPos', log', rc')
  BY <1>2 DEF config
<1> QED BY <1>2, <1>3, Going DEF Pcs

LEMMA TokenLeftInv == ASSUME EvalInv, TokenLeft PROVE EvalInv'
  BY LeftInv DEF TokenLeft, InCase

LEMMA SyncedInv == ASSUME EvalInv, Synced PROVE EvalInv'
<1> DEFINE n == Len(chosen.cases)
<1>1. /\ EvalMain(cfg, chosen, "synced", ui, keys, cur, seqPos, log, rc) /\ epc = "synced" /\ ui \in Ui(n)
      /\ cur.idx \in 0..n - 1 /\ UNCHANGED <<config, keys, seqPos>>
  BY MainIs DEF Synced
<1>2. CASE Stop(ui) \/ Switch(ui)
  BY <1>1, <1>2, LeftInv DEF InCase
<1>3. CASE /\ ~ui.quit /\ epc' = "loop" /\ ui' = [ui EXCEPT !.status[cur.idx] = "THINKING"]
           /\ UNCHANGED <<cur, log, rc>>
  <2> HIDE DEF n
  <2>1. "THINKING" \in Statuses
    BY DEF Statuses
  <2>2. /\ ui' \in Ui(n) /\ ui'.status = [ui.status EXCEPT ![cur.idx] = "THINKING"] /\ ui'.quit = ui.quit
        /\ ui.status \in [0..n - 1 -> Statuses]
    BY <1>1, <1>3, <2>1, StatusSet, UiFields
  <2>3. Typed(cfg, chosen, ui', keys, cur, seqPos, rc)
    BY <1>1, <2>2 DEF EvalMain, Typed, n
  <2>4. StatusOk(chosen, "loop", ui', cur, rc)
    <3>1. \A j \in 0..n - 1 : j # cur.idx => ui'.status[j] = ui.status[j]
      BY <2>2
    <3>2. ui'.status[cur.idx] = "THINKING"
      BY <1>1, <2>2
    <3>3. /\ \A j \in 0..n - 1 : ui.status[j] \in Running => j = cur.idx
          /\ chosen.sized => \A j \in 0..n - 1 : ui.status[j] # "SKIPPED"
      BY <1>1 DEF EvalMain, StatusOk, n
    <3>4. /\ \A j \in 0..n - 1 : ui'.status[j] \in Running => j = cur.idx
          /\ chosen.sized => \A j \in 0..n - 1 : ui'.status[j] # "SKIPPED"
      BY <3>1, <3>2, <3>3
    <3> QED BY <1>3, <2>2, <3>4 DEF StatusOk, InCase, n
  <2>5. SizeOk(cfg, chosen, "loop", cur)
    BY <1>1 DEF EvalMain, SizeOk, InCase
  <2>6. RoomOk(cfg, "loop", cur)
    BY <1>1 DEF EvalMain, RoomOk, InCase
  <2>7. LogOk(n, "loop", ui', cur, log, rc)
    <3>1. \A i \in 1..Len(log) : log[i].idx = cur.idx \/ ui'.status[log[i].idx] = ui.status[log[i].idx]
      BY <1>1, <2>2 DEF EvalMain, LogOk, n
    <3>2. LogOk(n, "synced", ui, cur, log, rc)
      BY <1>1 DEF EvalMain, n
    <3> QED BY <3>1, <3>2 DEF LogOk, InCase
  <2>8. EvalMain(cfg, chosen, "loop", ui', keys, cur, seqPos, log, rc)
    BY <2>3, <2>4, <2>5, <2>6, <2>7 DEF EvalMain, n
  <2>9. EvalMain(cfg', chosen', epc', ui', keys', cur', seqPos', log', rc')
    BY <1>1, <1>3, <2>8 DEF config
  <2> QED BY <1>3, <2>9, Going DEF Pcs
<1> QED BY <1>2, <1>3 DEF Synced

LEMMA LoopHeadInv == ASSUME EvalInv, LoopHead PROVE EvalInv'
<1>1. /\ EvalMain(cfg, chosen, "loop", ui, keys, cur, seqPos, log, rc) /\ epc = "loop"
      /\ Consumed \in Ui(Len(chosen.cases)) /\ Consumed.status = ui.status
      /\ ui \in Ui(Len(chosen.cases)) /\ keys \in Keys /\ cur \in Cur(Len(chosen.cases))
  BY MainIs, ConsumedMain DEF LoopHead
<1>2. UNCHANGED <<config, seqPos>>
  BY DEF LoopHead
<1>3. ~ui.quit
  BY <1>1 DEF EvalMain, StatusOk
<1>4. CASE Len(cur.raw) >= cur.limit
  <2>1. epc' = "grade" /\ UNCHANGED <<ui, keys, cur, log, rc>>
    BY <1>4 DEF LoopHead
  <2>2. EvalMain(cfg, chosen, "grade", ui, keys, cur, seqPos, log, rc)
    BY <1>1, <1>3, QuietMain DEF InCase
  <2>3. EvalMain(cfg', chosen', epc', ui', keys', cur', seqPos', log', rc')
    BY <1>2, <2>1, <2>2 DEF config
  <2> QED BY <2>1, <2>3, Going DEF Pcs
<1>5. CASE ~(Len(cur.raw) >= cur.limit)
  <2>1. /\ keys' = NoKeys
        /\ \/ Stop(Consumed) \/ Switch(Consumed)
           \/ ui' = Consumed /\ epc' \in {"token", "token_wait"} /\ UNCHANGED <<cur, log, rc>>
    BY <1>5 DEF LoopHead
  <2>2. EvalMain(cfg, chosen, "synced", Consumed, NoKeys, cur, seqPos, log, rc)
    BY <1>1, NoKeysAre, QuietMain DEF InCase
  <2>3. CASE Stop(Consumed) \/ Switch(Consumed)
    <3>1. /\ epc' \in {"next", "done"} /\ cur' = cur /\ rc' = rc
          /\ EvalMain(cfg, chosen, epc', ui', NoKeys, cur, seqPos, log', rc)
      BY <2>2, <2>3, LeftMain DEF InCase
    <3>2. EvalMain(cfg', chosen', epc', ui', keys', cur', seqPos', log', rc')
      BY <1>2, <2>1, <3>1 DEF config
    <3> QED BY <3>1, <3>2, Going DEF Pcs
  <2>4. CASE ui' = Consumed /\ epc' \in {"token", "token_wait"} /\ UNCHANGED <<cur, log, rc>>
    <3>1. Len(cur.raw) < cur.limit
      <4>1. Len(cur.raw) \in Nat /\ cur.limit \in Nat
        BY <1>1, CurFields, LenProperties
      <4> QED BY <1>5, <4>1
    <3>2. EvalMain(cfg, chosen, epc', Consumed, NoKeys, cur, seqPos, log, rc)
      BY <1>1, <2>4, <3>1, NoKeysAre, QuietMain DEF InCase
    <3>3. EvalMain(cfg', chosen', epc', ui', keys', cur', seqPos', log', rc')
      BY <1>2, <2>1, <2>4, <3>2 DEF config
    <3> QED BY <2>4, <3>3, Going DEF Pcs
  <2> QED BY <2>1, <2>3, <2>4
<1> QED BY <1>4, <1>5

LEMMA TokenInv == ASSUME EvalInv, Token PROVE EvalInv'
<1> DEFINE rest == cur.limit - Len(cur.raw) - 1
           R == Reserve(cfg, cur)
<1>1. /\ EvalMain(cfg, chosen, "token", ui, keys, cur, seqPos, log, rc) /\ epc = "token" /\ ~ui.quit
      /\ cfg \in EvalOptions /\ cur \in Cur(Len(chosen.cases)) /\ UNCHANGED <<config, keys, seqPos>>
      /\ ui \in Ui(Len(chosen.cases)) /\ keys \in Keys
  BY MainIs DEF Token
<1>2. /\ cur.limit \in Nat /\ Len(cur.raw) \in Nat /\ cur.in_think \in BOOLEAN /\ cur.forced \in {0, 1}
      /\ cfg.hard \in Nat /\ cfg.soft \in Nat /\ cfg.close \in Nat \ {0} /\ cfg.words \subseteq Tokens
  <2>1. cfg.words \subseteq STRING
    BY <1>1 DEF EvalOptions
  <2>2. STRING \subseteq Tokens
    BY DEF Tokens
  <2> QED BY <1>1, <2>1, <2>2, CurFields, LenProperties DEF EvalOptions
<1>3. /\ R \in Nat /\ R <= cfg.hard
      /\ cfg.think # "none" =>
             /\ cur.in_think /\ cur.forced = 0 => rest >= R - 1
             /\ cur.in_think /\ cur.forced = 1 => cfg.close > 1 /\ rest >= R - 2
             /\ ~cur.in_think => cur.forced = 0
  <2>1. R \in Nat /\ R <= cfg.hard
    BY <1>2 DEF Reserve
  <2>2. /\ cfg.think # "none" =>
             /\ cur.in_think /\ cur.forced = 0 => cur.limit - Len(cur.raw) >= R
             /\ cur.in_think /\ cur.forced = 1 => cfg.close > 1 /\ cur.limit - Len(cur.raw) >= R - 1
             /\ ~cur.in_think => cur.forced = 0
    BY <1>1 DEF EvalMain, RoomOk, InCase
  <2> QED BY <1>2, <2>1, <2>2
<1> HIDE DEF R
<1>4. \A w, f : w \in Tokens /\ f \in {0, 1} /\ Emit(w, f) /\ EmitOk(cfg, cur, w, f) => EvalInv'
  <2> SUFFICES ASSUME NEW w \in Tokens, NEW f \in {0, 1}, Emit(w, f), EmitOk(cfg, cur, w, f)
               PROVE  EvalInv'
    OBVIOUS
  <2>1. epc' = "loop" /\ EvalMain(cfg, chosen, "loop", ui', keys, cur', seqPos, log', rc')
    BY <1>1, EmitMain
  <2>2. EvalMain(cfg', chosen', epc', ui', keys', cur', seqPos', log', rc')
    BY <1>1, <2>1 DEF config
  <2> QED BY <2>1, <2>2, Going DEF Pcs
<1> DEFINE close == "close"
           half == "half"
<1>0. close \in Tokens /\ half \in Tokens /\ 0 \in {0, 1} /\ 1 \in {0, 1} /\ close = "close" /\ half # "close"
      /\ half = "half"
  <2>1. close \in Tokens /\ half \in Tokens
    BY DEF Tokens
  <2>2. 0 \in {0, 1} /\ 1 \in {0, 1} /\ close = "close" /\ half # "close" /\ half = "half"
    OBVIOUS
  <2> QED BY <2>1, <2>2
<1> HIDE DEF close, half
<1>5. CASE cur.forced = 1 /\ Emit("close", 0)
  <2>1. EmitOk(cfg, cur, "close", 0)
    <3>1. cfg.think = "none" \/ (cur.in_think /\ rest >= R - cfg.close)
      BY <1>2, <1>3, <1>5
    <3> QED BY <3>1 DEF EmitOk, R
  <2>2. Emit(close, 0) /\ EmitOk(cfg, cur, close, 0)
    BY <1>0, <1>5, <2>1
  <2> QED BY <1>0, <1>4, <2>2
<1>6. CASE (HardClose \/ SoftClose) /\ CloseTag
  <2>1. cur.in_think /\ cur.forced = 0
    BY <1>6 DEF HardClose, SoftClose
  <2>2. CASE cfg.close = 1
    <3>1. Emit("close", 0)
      BY <1>6, <2>2 DEF CloseTag
    <3>2. cfg.think = "none" \/ (cur.in_think /\ rest >= R - cfg.close)
      BY <1>2, <1>3, <2>1, <2>2
    <3>3. EmitOk(cfg, cur, "close", 0)
      BY <3>2 DEF EmitOk, R
    <3>4. Emit(close, 0) /\ EmitOk(cfg, cur, close, 0)
      BY <1>0, <3>1, <3>3
    <3> QED BY <1>0, <1>4, <3>4
  <2>3. CASE cfg.close # 1
    <3>1. Emit("half", 1)
      BY <1>6, <2>3 DEF CloseTag
    <3>2. cfg.think = "none" \/ (cur.in_think /\ cfg.close > 1 /\ rest >= R - 1)
      BY <1>2, <1>3, <2>1, <2>3
    <3>3. EmitOk(cfg, cur, "half", 1)
      BY <3>2 DEF EmitOk, R
    <3>4. Emit(half, 1) /\ EmitOk(cfg, cur, half, 1)
      BY <1>0, <3>1, <3>3
    <3> QED BY <1>0, <1>4, <3>4
  <2> QED BY <2>2, <2>3
<1>7. CASE cur.forced = 0 /\ ~HardClose /\ \E w \in cfg.words : Emit(w, 0)
  <2>1. PICK w \in cfg.words : Emit(w, 0)
    BY <1>7
  <2>2. cur.in_think => rest >= R
    BY <1>2, <1>3, <1>7 DEF HardClose, Remaining
  <2>3. EmitOk(cfg, cur, w, 0)
    <3>1. CASE ~cur.in_think
      BY <3>1 DEF EmitOk
    <3>2. CASE cur.in_think /\ w = "close"
      <4>1. rest >= R - cfg.close
        BY <1>2, <1>3, <2>2, <3>2
      <4> QED BY <3>2, <4>1 DEF EmitOk, R
    <3>3. CASE cur.in_think /\ w # "close"
      BY <2>2, <3>3 DEF EmitOk, R
    <3> QED BY <3>1, <3>2, <3>3
  <2>4. w \in Tokens
    BY <1>2
  <2> QED BY <1>0, <1>4, <2>1, <2>3, <2>4
<1>8. CASE cur.forced = 0 /\ ~HardClose /\ cur.in_think /\ Emit("close", 0)
  <2>1. rest >= R - cfg.close
    BY <1>2, <1>3, <1>8 DEF HardClose, Remaining
  <2>2. EmitOk(cfg, cur, "close", 0)
    BY <1>8, <2>1 DEF EmitOk, R
  <2>3. Emit(close, 0) /\ EmitOk(cfg, cur, close, 0)
    BY <1>0, <1>8, <2>2
  <2> QED BY <1>0, <1>4, <2>3
<1>9. CASE epc' = "grade" /\ UNCHANGED <<ui, cur, log, rc>>
  <2>1. EvalMain(cfg, chosen, "grade", ui, keys, cur, seqPos, log, rc)
    BY <1>1, QuietMain DEF InCase
  <2>2. EvalMain(cfg', chosen', epc', ui', keys', cur', seqPos', log', rc')
    BY <1>1, <1>9, <2>1 DEF config
  <2> QED BY <1>9, <2>2, Going DEF Pcs
<1>10. CASE RunError
  <2>1. epc' = "done" /\ EvalMain(cfg, chosen, "done", ui', keys', cur', seqPos, log', rc')
    BY <1>1, <1>10, ErrorMain DEF InCase
  <2>2. EvalMain(cfg', chosen', epc', ui', keys', cur', seqPos', log', rc')
    BY <1>1, <2>1 DEF config
  <2> QED BY <2>1, <2>2, Going DEF Pcs
<1> QED BY <1>5, <1>6, <1>7, <1>8, <1>9, <1>10 DEF Token

LEMMA GradeInv == ASSUME EvalInv, Grade PROVE EvalInv'
<1> DEFINE c == CaseAt(cur.idx)
           v == Verdict(c)
<1>1. /\ EvalMain(cfg, chosen, "grade", ui, keys, cur, seqPos, log, rc) /\ epc = "grade" /\ rc \in {0, 1}
      /\ UNCHANGED <<config, keys, cur, seqPos, rc>>
  BY MainIs DEF Grade
<1>2. v \in {"INCOMPLETE", "PASSED", "FAILED"}
  BY DEF Verdict
<1>3. /\ ui' = [ui EXCEPT !.status[cur.idx] = v] /\ Traced(cur.idx, v, StrictAnswer(c.kind, cur.raw), cur.raw)
      /\ epc' \in {"retry", "next"} /\ (epc' = "retry" => cfg.retry)
  BY DEF Grade
<1>4. ~ui.quit
  BY <1>1 DEF EvalMain, StatusOk
<1> HIDE DEF c, v
<1>5. PICK rec : rec.idx = cur.idx /\ rec.status = v /\ log' = Append(log, rec)
  BY <1>3, TracedIs
<1>6. v \in Statuses /\ v \notin Running /\ v # "SKIPPED" /\ rec.status # "ERROR"
  BY <1>2, <1>5 DEF Statuses, Running
<1>7. EvalMain(cfg, chosen, epc', ui', keys, cur, seqPos, Append(log, rec), rc)
  <2>1. EndStep(cfg, chosen, "grade", ui, keys, cur, seqPos, log, rc, epc', ui', rec, v, rc)
    BY <1>1, <1>3, <1>4, <1>5, <1>6 DEF EndStep, InCase
  <2> QED BY <2>1, EndMain
<1>8. EvalMain(cfg', chosen', epc', ui', keys', cur', seqPos', log', rc')
  BY <1>1, <1>5, <1>7 DEF config
<1> QED BY <1>3, <1>8, Going DEF Pcs

LEMMA ReportInv == ASSUME EvalInv, Report PROVE EvalInv'
<1> DEFINE n == Len(chosen.cases)
<1>1. /\ EvalMain(cfg, chosen, "done", ui, keys, cur, seqPos, log, rc) /\ epc = "done" /\ ui \in Ui(n)
  BY MainIs DEF Report
<1>2. epc' = "exit" /\ log' = log
      /\ rc' = IF rc # 0 \/ \E i \in DOMAIN ui.status : ui.status[i] \in {"FAILED", "INCOMPLETE"} THEN 1 ELSE 0
  BY DEF Report
<1>3. ASSUME rc' = 0 PROVE Accounted(log) /\ DOMAIN log = 1..Len(log)
  <2>1. rc = 0 /\ \A i \in DOMAIN ui.status : ui.status[i] \notin {"FAILED", "INCOMPLETE"}
    BY <1>2, <1>3
  <2>2. DOMAIN ui.status = 0..n - 1
    BY <1>1, UiFields
  <2>3. LogOk(n, "done", ui, cur, log, rc)
    BY <1>1 DEF EvalMain
  <2>4. ASSUME NEW i \in 1..Len(log), Latest(log, i) PROVE log[i].status \notin {"FAILED", "INCOMPLETE", "ERROR"}
    <3>1. /\ log[i].status # "ERROR"
          /\ log[i].status \in Bad => ui.status[log[i].idx] = log[i].status
          /\ log[i].idx \in 0..n - 1
      BY <2>1, <2>3, <2>4 DEF LogOk, InCase
    <3> QED BY <2>1, <2>2, <3>1 DEF Bad
  <2>5. PICK S : log \in Seq(S)
    BY <2>3 DEF LogOk
  <2>6. DOMAIN log = 1..Len(log)
    BY <2>5, LenProperties
  <2> QED BY <2>4, <2>6 DEF Accounted
<1> QED BY <1>2, <1>3 DEF EvalInv, Pcs

-----------------------------------------------------------------------------
(* The start, and the theorems                                             *)

LEMMA StartMain ==
    ASSUME NEW o \in EvalOptions, NEW ch, NEW n \in Nat \ {0}, ch.cases \in Seq(EvalCases), Len(ch.cases) = n,
           ch.cases # <<>>, ch.seq \in Seq(0..n - 1), ch.sized => Sized(o, ch.cases)
    PROVE  EvalMain(o, ch, "top", NewUi(n), NoKeys, NoCase, 0, <<>>, 0)
<1> DEFINE u == NewUi(n)
           st == [i \in 0..(n - 1) |-> "PENDING"]
<1>1. "PENDING" \in Statuses /\ "PENDING" \notin Running /\ "PENDING" # "SKIPPED"
  BY DEF Statuses, Running
<1>2. st \in [0..n - 1 -> Statuses] /\ \A j \in 0..n - 1 : st[j] = "PENDING"
  BY <1>1
<1>3. u = [status |-> st, active |-> 0, selected |-> 0, selecting |-> FALSE, requested |-> -1, paused |-> FALSE,
           quit |-> FALSE]
  BY DEF NewUi
<1> HIDE DEF st, u
<1>4. 0 \in 0..n - 1 /\ -1 \in -1..n - 1
  OBVIOUS
<1>5. u \in Ui(n)
  BY <1>2, <1>3, <1>4 DEF Ui
<1>6. u.status = st /\ u.quit = FALSE
  BY <1>3
<1>7. NoCase \in Cur(n)
  <2> DEFINE r == <<>>
  <2>1. NoCase = [idx |-> 0, limit |-> 0, raw |-> r, in_think |-> FALSE, forced |-> 0, retried |-> FALSE]
    BY DEF NoCase
  <2>2. r \in Seq(Tokens)
    BY EmptySeq
  <2> HIDE DEF r
  <2> QED BY <1>4, <2>1, <2>2 DEF Cur
<1>8. Typed(o, ch, u, NoKeys, NoCase, 0, 0)
  BY <1>5, <1>7, NoKeysAre DEF Typed
<1>9. StatusOk(ch, "top", u, NoCase, 0)
  BY <1>1, <1>2, <1>6 DEF StatusOk
<1>10. SizeOk(o, ch, "top", NoCase)
  BY DEF SizeOk, InCase
<1>11. RoomOk(o, "top", NoCase)
  BY DEF RoomOk, InCase
<1>12. LogOk(n, "top", u, NoCase, <<>>, 0)
  <2>1. <<>> \in Seq({}) /\ Len(<<>>) = 0
    BY EmptySeq
  <2> QED BY <2>1 DEF LogOk
<1> QED BY <1>8, <1>9, <1>10, <1>11, <1>12 DEF EvalMain, u

LEMMA StartInv == ASSUME EvalInv, Start PROVE EvalInv'
<1> DEFINE cases == SelectCases
           text == cfg.sequence
           seq == IF text = NoSequence THEN <<>> ELSE ParseSequence(text, Len(cases))
           ctx == IF cfg.ctx = 0 THEN AutoContext(cases) ELSE cfg.ctx
           refused == \/ ~OptionsAccepted \/ cases = <<>> \/ HardLimitConflict(cases)
                      \/ text # NoSequence /\ seq = <<>>
<1>1. epc = "start" /\ cfg \in EvalOptions /\ rc = 0 /\ log = <<>> /\ keys = NoKeys /\ cur = NoCase /\ seqPos = 0
  BY DEF EvalInv, Start
<1>2. cases \in Seq(EvalCases)
  BY <1>1, SelectSome
<1> HIDE DEF cases
<1>3. UNCHANGED <<keys, cur, seqPos, log>>
  BY DEF Start
<1>4. CASE epc' = "exit" /\ rc' = IF refused \/ ctx = 0 THEN 2 ELSE 1
  BY <1>4 DEF EvalInv, Pcs
<1>5. CASE /\ ~refused /\ ctx # 0
           /\ cfg' = [cfg EXCEPT !.ctx = ctx]
           /\ chosen' = [cases |-> cases, seq |-> seq, sized |-> cfg.ctx = 0]
           /\ ui' = NewUi(Len(cases)) /\ epc' = "top" /\ rc' = rc
  <2> DEFINE n == Len(cases)
             sized == cfg.ctx = 0
  <2>1. cases # <<>> /\ (text # NoSequence => seq # <<>>) /\ ctx # 0
    BY <1>5
  <2>2. n \in Nat \ {0}
    BY <1>2, <2>1, CountIs
  <2>3. seq \in Seq(0..n - 1)
    <3>1. CASE text = NoSequence
      <4>1. seq = <<>>
        BY <3>1
      <4> HIDE DEF seq
      <4> QED BY <4>1, EmptySeq
    <3>2. CASE text # NoSequence
      <4>1. seq = ParseSequence(text, n) /\ seq # <<>>
        BY <2>1, <3>2
      <4>2. text \in Seq(Int)
        BY <1>1 DEF EvalOptions
      <4> HIDE DEF seq, text, n
      <4>3. ParseSequence(text, n) \in Seq(0..n - 1)
        BY <2>2, <4>1, <4>2, SequenceParsed
      <4> QED BY <4>1, <4>3
    <3> QED BY <3>1, <3>2
  <2>4. ctx \in Nat
    <3>1. cfg.ctx \in Nat
      BY <1>1 DEF EvalOptions
    <3>2. cfg.ctx = 0 => AutoContext(cases) \in Nat
      BY <1>1, <1>2, <2>1, AutoFits
    <3> QED BY <3>1, <3>2
  <2>5. cfg' \in EvalOptions
    <3> HIDE DEF ctx
    <3> QED BY <1>1, <1>5, <2>4 DEF EvalOptions
  <2>6. sized => Sized(cfg', cases)
    <3> SUFFICES ASSUME cfg.ctx = 0 PROVE Sized(cfg', cases)
      OBVIOUS
    <3>1. cfg' = [cfg EXCEPT !.ctx = AutoContext(cases)] /\ AutoContext(cases) # 0
      BY <1>5, <2>1
    <3>2. Sized([cfg EXCEPT !.ctx = AutoContext(cases)], cases)
      BY <1>1, <1>2, <2>1, <3>1, AutoSized
    <3> QED BY <3>1, <3>2
  <2>7. sized \in BOOLEAN /\ chosen' = [cases |-> cases, seq |-> seq, sized |-> sized]
    BY <1>5
  <2> HIDE DEF seq, sized
  <2>8. chosen'.cases = cases /\ chosen'.seq = seq /\ chosen'.sized = sized
    BY <2>7
  <2>9. EvalMain(cfg', chosen', "top", NewUi(n), NoKeys, NoCase, 0, <<>>, 0)
    <3>1. chosen'.sized => Sized(cfg', chosen'.cases)
      BY <2>6, <2>8
    <3> HIDE DEF n
    <3>2. Len(chosen'.cases) = n
      BY <2>8 DEF n
    <3> QED BY <1>2, <2>1, <2>2, <2>3, <2>5, <2>8, <3>1, <3>2, StartMain
  <2>10. EvalMain(cfg', chosen', epc', ui', keys', cur', seqPos', log', rc')
    BY <1>1, <1>3, <1>5, <2>9
  <2> QED BY <1>5, <2>10, Going DEF Pcs
<1>6. \/ epc' = "exit" /\ rc' = IF refused \/ ctx = 0 THEN 2 ELSE 1
      \/ /\ ~refused /\ ctx # 0
         /\ cfg' = [cfg EXCEPT !.ctx = ctx]
         /\ chosen' = [cases |-> cases, seq |-> seq, sized |-> cfg.ctx = 0]
         /\ ui' = NewUi(Len(cases)) /\ epc' = "top" /\ rc' = rc
  BY DEF Start, cases
<1> QED BY <1>4, <1>5, <1>6

LEMMA StutterInv == ASSUME EvalInv, UNCHANGED evalVars PROVE EvalInv'
  BY DEF EvalInv, evalVars, config, EvalMain, Typed, StatusOk, SizeOk, RoomOk, LogOk, Accounted, Latest

LEMMA EvalInvHolds == EvalSpec => []EvalInv
<1>1. EvalInit => EvalInv
  BY CasesAre DEF EvalInit, EvalInv, Pcs
<1>2. EvalInv /\ [EvalNext]_evalVars => EvalInv'
  <2> SUFFICES ASSUME EvalInv, [EvalNext]_evalVars PROVE EvalInv'
    OBVIOUS
  <2> QED BY PressInv, StartInv, ReportInv, WaitInv, TopInv, PickInv, NextCaseInv, PrefillInv, SyncedInv,
             LoopHeadInv, TokenInv, TokenLeftInv, GradeInv, RetryInv, StutterInv DEF EvalNext
<1> QED BY <1>1, <1>2, PTL DEF EvalSpec

\* However the user moves among the cases, none is rest out when the program ends by itself, and
\* its exit code is what the trace says
THEOREM EvalCasesAccounted == EvalSpec => []CasesAccounted
<1>1. EvalInv => CasesAccounted
  <2> SUFFICES ASSUME EvalInv PROVE CasesAccounted
    OBVIOUS
  <2>1. epc = "exit" /\ rc = 0 => \A i \in DOMAIN log :
               (\A j \in DOMAIN log : j > i => log[j].idx # log[i].idx)
                   => log[i].status \notin {"FAILED", "INCOMPLETE", "ERROR"}
    BY DEF EvalInv, Accounted, Latest
  <2>2. ASSUME epc = "done", chosen.seq = <<>>, rc = 0, ~ui.quit
        PROVE  \A i \in DOMAIN ui.status : ui.status[i] \notin Running \cup {"PENDING"}
    <3>1. EvalMain(cfg, chosen, "done", ui, keys, cur, seqPos, log, rc) /\ ui \in Ui(Len(chosen.cases))
      BY <2>2, MainIs
    <3>2. DOMAIN ui.status = 0..Len(chosen.cases) - 1
      BY <3>1, UiFields
    <3> QED BY <2>2, <3>1, <3>2 DEF EvalMain, StatusOk, InCase
  <2>3. epc = "next" => ~ui.quit
    BY MainIs DEF EvalMain, StatusOk
  <2> QED BY <2>1, <2>2, <2>3 DEF CasesAccounted
<1> QED BY <1>1, EvalInvHolds, PTL

\* A case that uses up its budget leaves the answer the room of the hard limit, and a context that
\* was sized for the cases cuts none short
THEOREM EvalAnswerRoom == EvalSpec => []AnswerRoom
<1>1. EvalInv => AnswerRoom
  <2> SUFFICES ASSUME EvalInv PROVE AnswerRoom
    OBVIOUS
  <2> DEFINE reserve == IF cur.limit < cfg.hard THEN cur.limit ELSE cfg.hard
             P == Positions(cur.raw, {"close"})
             close == First(P, 0)
  <2>1. ASSUME chosen.sized, epc \in {"prefill", "next"}
        PROVE  ui.status[cur.idx] # "SKIPPED" /\ cur.limit \in {0, Budget(cur.idx, cur.retried)}
    <3>1. /\ EvalMain(cfg, chosen, epc, ui, keys, cur, seqPos, log, rc) /\ cur.idx \in 0..Len(chosen.cases) - 1
          /\ cur \in Cur(Len(chosen.cases))
      BY <2>1, MainIs
    <3>2. ui.status[cur.idx] # "SKIPPED"
      BY <2>1, <3>1 DEF EvalMain, StatusOk
    <3>3. /\ Sized(cfg, chosen.cases) /\ (cur.retried => cfg.retry)
          /\ cur.limit = 0 \/ cur.limit = RoomFor(cfg, chosen.cases, cur.idx, cur.retried)
      BY <2>1, <3>1 DEF EvalMain, SizeOk, InCase
    <3>4. RoomFor(cfg, chosen.cases, cur.idx, cur.retried) = Budget(cur.idx, cur.retried)
      <4>1. cur.retried \in BOOLEAN
        BY <3>1, CurFields
      <4>2. RoomFor(cfg, chosen.cases, cur.idx, cur.retried)
              = BudgetFor(cfg, chosen.cases[cur.idx + 1], cur.retried)
        BY <3>1, <3>3, <4>1 DEF Sized
      <4> QED BY <4>2, RoomIs
    <3> QED BY <3>2, <3>3, <3>4
  <2>2. ASSUME epc = "grade", Thinks, Len(cur.raw) = cur.limit, reserve >= cfg.close
        PROVE  close > 0 /\ cur.limit - close >= reserve - cfg.close
    <3>1. /\ EvalMain(cfg, chosen, "grade", ui, keys, cur, seqPos, log, rc) /\ cur \in Cur(Len(chosen.cases))
          /\ cfg \in EvalOptions
      BY <2>2, MainIs
    <3>2. /\ cur.limit \in Nat /\ cur.raw \in Seq(Tokens) /\ cur.in_think \in BOOLEAN /\ cur.forced \in {0, 1}
          /\ cfg.hard \in Nat /\ cfg.close \in Nat \ {0}
      BY <3>1, CurFields DEF EvalOptions
    <3>3. /\ cur.in_think /\ cur.forced = 0 => cur.limit - Len(cur.raw) >= Reserve(cfg, cur)
          /\ cur.in_think /\ cur.forced = 1 => cfg.close > 1 /\ cur.limit - Len(cur.raw) >= Reserve(cfg, cur) - 1
          /\ ~cur.in_think => Closed(cfg, cur)
      BY <2>2, <3>1 DEF EvalMain, RoomOk, InCase, Thinks
    <3>4. Reserve(cfg, cur) = reserve /\ reserve \in Nat
      BY <3>2 DEF Reserve
    <3> HIDE DEF reserve
    <3>5. ~cur.in_think
      BY <2>2, <3>2, <3>3, <3>4
    <3>6. PICK p \in 1..Len(cur.raw) : /\ cur.raw[p] = "close" /\ \A q \in 1..p - 1 : cur.raw[q] # "close"
                                       /\ cur.limit - p >= reserve - cfg.close
      BY <3>3, <3>4, <3>5 DEF Closed
    <3>7. P \subseteq Nat /\ p \in P /\ \A q \in P : p <= q
      <4>1. DOMAIN cur.raw = 1..Len(cur.raw) /\ Len(cur.raw) \in Nat
        BY <3>2, LenProperties
      <4>2. P = {q \in 1..Len(cur.raw) : cur.raw[q] = "close"}
        BY <4>1 DEF Positions
      <4>3. ASSUME NEW q \in P PROVE p <= q
        <5>1. q \in 1..Len(cur.raw) /\ cur.raw[q] = "close"
          BY <4>2
        <5>2. q \notin 1..p - 1
          BY <3>6, <5>1
        <5> QED BY <3>6, <4>1, <5>1, <5>2
      <4> QED BY <3>6, <4>1, <4>2, <4>3
    <3>8. close = p
      <4> HIDE DEF P
      <4>1. close \in P /\ \A q \in P : close <= q
        <5>1. close = CHOOSE i \in P : \A j \in P : i <= j
          BY <3>7 DEF First
        <5> QED BY <3>7, <5>1
      <4>2. close <= p /\ p <= close /\ close \in Nat /\ p \in Nat
        BY <3>7, <4>1
      <4> HIDE DEF close
      <4> QED BY <4>2
    <3> HIDE DEF close, P
    <3> QED BY <3>2, <3>6, <3>8
  <2> QED BY <2>1, <2>2 DEF AnswerRoom
<1> QED BY <1>1, EvalInvHolds, PTL
=============================================================================
