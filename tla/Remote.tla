------------------------------- MODULE Remote -------------------------------
(***************************************************************************)
(* The client of a remote server (p36_remote.c): one request whose reply   *)
(* arrives in segments of any size, through the header, the chunk decoder, *)
(* the SSE line splitter and the fold of events into a result; the         *)
(* connection may fail, close anywhere, time out or be interrupted.        *)
(*                                                                         *)
(* A reply is a sequence of symbols [part, ev]: "header" (ev.arg = 1 names *)
(* the chunked encoding) and "blank", then in a chunked body "size" and    *)
(* "eol" of the framing; "first" and "second" are the halves of the line   *)
(* of an event, whose JSON is useless until it is whole, "lf" ends a line. *)
(***************************************************************************)
EXTENDS Integers, Sequences, FiniteSets, SequencesExt

CONSTANTS
    Replies,        \* what the server may send: [status, wire, cut]
    MaxSegment,     \* bound: symbols per recv
    Calls           \* the tool-call indices that call_slot accepts

VARIABLES
    phase,          \* "idle", "connect", "recv", "done"
    sent,           \* the reply under way
    got,            \* how many of its symbols were received
    http,           \* http_state with the header read so far and in_body
    sink,           \* chat_sink: the line, the whole body, done
    result,         \* p36_remote_result
    returned        \* what p36_remote_chat returned

rmVars == <<phase, sent, got, http, sink, result, returned>>

NoHttp == [hdr |-> <<>>, inBody |-> FALSE, status |-> 0, chunked |-> FALSE,
           cstate |-> "size", cleft |-> 0, csize |-> 0]
NoSink == [line |-> <<>>, whole |-> <<>>, done |-> FALSE]
NoResult == [content |-> <<>>, calls |-> <<>>, finish |-> FALSE, err |-> ""]

-----------------------------------------------------------------------------
(* Events                                                                  *)

\* call_slot: calls up to idx exist afterwards
CallSlot(calls, idx) ==
    IF idx < Len(calls) THEN calls
    ELSE calls \o [i \in 1..(idx + 1 - Len(calls)) |-> <<>>]

\* take_chunk, on an event [kind, arg]
TakeChunk(r, ev) ==
    CASE ev.kind = "error" -> [r EXCEPT !.err = IF @ = "" THEN "server error" ELSE @]
      [] ev.kind = "finish" -> [r EXCEPT !.finish = TRUE]
      [] ev.kind = "text" -> [r EXCEPT !.content = Append(@, ev.arg)]
      [] ev.kind = "call" /\ ev.arg \in Calls ->
             [r EXCEPT !.calls = [CallSlot(@, ev.arg) EXCEPT ![ev.arg + 1] = Append(@, "args")]]
      [] ev.kind = "call" /\ ev.arg \notin Calls ->
             [r EXCEPT !.err = IF @ = "" THEN "too many calls" ELSE @]
      [] ev.kind = "message" -> [r EXCEPT !.content = Append(@, ev.arg), !.finish = TRUE]

\* an event whose two halves are there; NoEvent for anything else (p36_jv_parse fails)
NoEvent == [kind |-> "none", arg |-> 0]
EventOf(s) ==
    IF Len(s) = 2 /\ s[1].part = "first" /\ s[2].part = "second" /\ s[1].ev = s[2].ev THEN s[1].ev ELSE NoEvent

\* sse_line: the body of a reply that is not a stream is no "data:" line
SseLine(k, r, s) ==
    LET ev == EventOf(s) IN
    CASE ev.kind = "done" -> [sink |-> [k EXCEPT !.done = TRUE], result |-> r]
      [] ev.kind \in {"none", "message"} -> [sink |-> k, result |-> r]
      [] OTHER -> [sink |-> k, result |-> TakeChunk(r, ev)]

LF == [part |-> "lf", ev |-> NoEvent]

\* chat_sink_fn
ChatSink(k, r, data) ==
    LET Byte(acc, b) ==
            IF b = LF
            THEN LET l == SseLine(acc.sink, acc.result, acc.sink.line)
                 IN  [l EXCEPT !.sink.line = <<>>]
            ELSE [acc EXCEPT !.sink.line = Append(@, b)]
    IN  FoldLeft(Byte, [sink |-> [k EXCEPT !.whole = @ \o data], result |-> r], data)

-----------------------------------------------------------------------------
(* The body                                                                *)

IsSize(x) == x.part = "size"
IsEol(x) == x.part = "eol"
SizeOf(x) == x.ev.arg

\* body_feed: states size, data, crlf, end
RECURSIVE BodyFeed(_, _, _, _)
BodyFeed(h, k, r, data) ==
    LET Feed(h2, n) == BodyFeed(h2, k, r, SubSeq(data, n + 1, Len(data))) IN
    IF ~h.chunked THEN [http |-> h] @@ ChatSink(k, r, data)
    ELSE IF data = <<>> \/ h.cstate = "end" THEN [http |-> h, sink |-> k, result |-> r]
    ELSE CASE h.cstate = "size" /\ ~IsEol(data[1]) -> Feed([h EXCEPT !.csize = SizeOf(data[1])], 1)
           [] h.cstate = "size" /\ IsEol(data[1]) ->
                  Feed([h EXCEPT !.cleft = h.csize, !.csize = 0,
                                 !.cstate = IF h.csize = 0 THEN "end" ELSE "data"], 1)
           [] h.cstate = "data" ->
                  LET take == IF Len(data) < h.cleft THEN Len(data) ELSE h.cleft
                      fed == ChatSink(k, r, SubSeq(data, 1, take))
                  IN  BodyFeed([h EXCEPT !.cleft = @ - take,
                                         !.cstate = IF take = h.cleft THEN "crlf" ELSE "data"],
                               fed.sink, fed.result, SubSeq(data, take + 1, Len(data)))
           [] h.cstate = "crlf" ->
                  Feed([h EXCEPT !.cstate = IF IsEol(data[1]) THEN "size" ELSE "crlf"], 1)

IsBlankLine(x) == x.part = "blank"
IsHeader(x) == x.part = "header"
IsChunkedHeader(x) == x.part = "header" /\ x.ev.arg = 1

\* mutant: what follows the header in its segment is dropped
ReceivedHeaderOnly(seg) ==
    LET hdr == http.hdr \o seg
        ended == \E i \in DOMAIN hdr : IsBlankLine(hdr[i])
    IN  IF http.inBody THEN BodyFeed(http, sink, result, seg)
        ELSE [http |-> [http EXCEPT !.hdr = hdr, !.inBody = ended,
                                    !.status = IF ended THEN sent.status ELSE 0,
                                    !.chunked = \E i \in DOMAIN hdr : IsChunkedHeader(hdr[i])],
              sink |-> sink, result |-> result]

\* the part of http_do after a recv: the header may end in the middle of the segment
Received(seg) ==
    LET hdr == http.hdr \o seg
        ends == {i \in DOMAIN hdr : IsBlankLine(hdr[i])}
        end == CHOOSE i \in ends : \A j \in ends : i <= j
        h == [http EXCEPT !.hdr = SubSeq(hdr, 1, end), !.inBody = TRUE, !.status = sent.status,
                          !.chunked = \E i \in 1..end : IsChunkedHeader(hdr[i])]
        Body(h2, data) ==
            IF sent.status = 200 THEN BodyFeed(h2, sink, result, data)
            ELSE [http |-> h2, sink |-> sink, result |-> result]
    IN  IF http.inBody THEN Body(http, seg)
        ELSE IF ends = {} THEN [http |-> [http EXCEPT !.hdr = hdr], sink |-> sink, result |-> result]
        ELSE Body(h, SubSeq(hdr, end + 1, Len(hdr)))

-----------------------------------------------------------------------------
(* The call                                                                *)

RmInit ==
    /\ phase = "idle" /\ sent \in Replies /\ got = 0
    /\ http = NoHttp /\ sink = NoSink /\ result = NoResult /\ returned = 0

\* p36_remote_chat up to the request; connecting and sending may fail
Connect ==
    /\ phase = "idle"
    /\ \/ phase' = "recv" /\ UNCHANGED <<result, returned>>
       \/ phase' = "done" /\ returned' = -1 /\ result' = [result EXCEPT !.err = "cannot connect"]
    /\ UNCHANGED <<sent, got, http, sink>>

Recv(n) ==
    /\ phase = "recv" /\ got + n <= Len(sent.wire)
    /\ LET s == Received(SubSeq(sent.wire, got + 1, got + n))
       IN  http' = s.http /\ sink' = s.sink /\ result' = s.result
    /\ got' = got + n
    /\ UNCHANGED <<phase, sent, returned>>

Fail(why) ==
    /\ phase = "recv" /\ phase' = "done" /\ returned' = -1
    /\ result' = [result EXCEPT !.err = why]
    /\ UNCHANGED <<sent, got, http, sink>>

Interrupted == Fail("interrupted")
TimedOut == Fail("timed out")
RecvFailed == Fail("recv failed")

\* what p36_remote_chat makes of a 2xx reply: the last line, or the whole body as one object
Finished(k, r) ==
    LET last == IF k.line # <<>> THEN SseLine(k, r, k.line).result ELSE r
        ev == EventOf(k.whole)
        res == IF ~last.finish /\ ev.kind = "message" THEN TakeChunk(last, ev) ELSE last
    IN  IF res.err = "" /\ ~res.finish THEN [res EXCEPT !.err = "no finish_reason"] ELSE res

\* the server closes the connection: anywhere, or only at the end of the reply
Closed ==
    /\ phase = "recv" /\ (sent.cut \/ got = Len(sent.wire))
    /\ phase' = "done"
    /\ result' = IF ~http.inBody THEN [result EXCEPT !.err = "closed before replying"]
                 ELSE IF http.status # 200 THEN [result EXCEPT !.err = "HTTP status"]
                 ELSE Finished(sink, result)
    /\ returned' = IF result'.err = "" THEN 0 ELSE -1
    /\ UNCHANGED <<sent, got, http, sink>>

RmNext ==
    \/ Connect \/ Interrupted \/ TimedOut \/ RecvFailed \/ Closed
    \/ \E n \in 1..MaxSegment : Recv(n)

-----------------------------------------------------------------------------
(* Properties                                                              *)

\* the events whose both halves, and the end of whose line, are among the symbols
Payload(w) == SelectSeq(w, LAMBDA x : x.part \in {"lf", "first", "second"})
RECURSIVE SseLines(_, _)
SseLines(s, l) ==
    IF s = <<>> THEN (IF l = <<>> THEN <<>> ELSE <<l>>)
    ELSE IF s[1] = LF THEN <<l>> \o SseLines(Tail(s), <<>>) ELSE SseLines(Tail(s), Append(l, s[1]))
EventsIn(w) ==
    SelectSeq([i \in DOMAIN SseLines(Payload(w), <<>>) |-> EventOf(SseLines(Payload(w), <<>>)[i])],
              LAMBDA e : e.kind \notin {"none", "done"})

\* However the reply was cut into segments, and wherever the connection closed, the call's text
\* and tool calls are those of the events that arrived whole, and it succeeds exactly when a
\* finish arrived and no error did (p36_remote_chat, body_feed, chat_sink_fn).
ReplyAsSent ==
    phase = "done" /\ http.status = 200 /\ result.err \notin {"interrupted", "timed out", "recv failed"} =>
        LET evs == EventsIn(SubSeq(sent.wire, 1, got))
            all == FoldLeft(TakeChunk, NoResult, evs)
        IN  /\ result.content = all.content /\ result.calls = all.calls
            /\ (returned = 0) = (all.err = "" /\ all.finish)
=============================================================================
