---------------------------- MODULE OllamaStream ----------------------------
(***************************************************************************)
(* The conversion of OpenRouter's event stream into Ollama's stream of     *)
(* JSON lines (OllamaStreamState in clientd/routes.rs).  The upstream text *)
(* is a sequence of pieces of bytes that arrive in chunks cut anywhere: an *)
(* event is the piece "data:" and the two halves of its payload, so that a *)
(* chunk may end inside a line, a payload or a line break.                 *)
(***************************************************************************)
EXTENDS Integers, Sequences, SequencesExt

\* None: a missing optional value.
CONSTANT None

-----------------------------------------------------------------------------
(* The upstream's events *)

Delta(content, thinking, tools) ==
  [content |-> content, thinking |-> thinking, tools |-> tools]

NoDelta == Delta("", "", FALSE)

Event(delta, reason, usage, error) ==
  [delta |-> delta, reason |-> reason, usage |-> usage, error |-> error]

NoUsage == [prompt |-> None, completion |-> None]

\* The JSON events by name.  A usage block may have only one of its counts.
JsonEvents ==
  [text   |-> Event(Delta("text", "", FALSE), None, NoUsage, FALSE),
   think  |-> Event(Delta("", "thought", FALSE), None, NoUsage, FALSE),
   tool   |-> Event(Delta("", "", TRUE), None, NoUsage, FALSE),
   last   |-> Event(NoDelta, "length", [prompt |-> 3, completion |-> None], FALSE),
   count  |-> Event(Delta("tail", "", FALSE), None,
                    [prompt |-> 4, completion |-> 5], FALSE),
   error  |-> Event(NoDelta, None, NoUsage, TRUE)]

\* "done" is the [DONE] marker and "bad" a payload that is no JSON.
Payload == DOMAIN JsonEvents \cup {"done", "bad"}

\* A line is an event, a comment or a data line without payload.
StreamLines == Payload \cup {"comment", "blank"}

Piece(name, part) == <<name, part>>

NewLine == Piece("\n", 0)
Return  == Piece("\r", 0)
Data    == Piece("data:", 0)

LinePieces(line) ==
  CASE line = "comment" -> << Piece("comment", 0) >>
    [] line = "blank"   -> << Data >>
    [] OTHER            -> << Data, Piece(line, 1), Piece(line, 2) >>

\* The text of some lines, each ended by the line break of the upstream.
TextOf(lines, break) ==
  FlattenSeq([i \in DOMAIN lines |-> LinePieces(lines[i]) \o break])

-----------------------------------------------------------------------------
(* The converter *)

OllamaStreamState ==
  [input |-> << >>, output |-> << >>, usage |-> [prompt |-> 0, completion |-> 0],
   finish_reason |-> "stop", finished |-> FALSE]

Message(delta) == [kind |-> "message", delta |-> delta]

DoneItem(reason, usage) == [kind |-> "done", reason |-> reason, usage |-> usage]

ErrorItem  == [kind |-> "error"]
BrokenItem == [kind |-> "broken"]

enqueue(st, item) == [st EXCEPT !.output = Append(@, item)]

enqueue_done(st) ==
  IF st.finished THEN st
  ELSE [enqueue(st, DoneItem(st.finish_reason, st.usage)) EXCEPT !.finished = TRUE]

Counted(usage, reported) ==
  [k \in DOMAIN usage |-> IF reported[k] # None THEN reported[k] ELSE usage[k]]

\* An event: its usage is noted first, then an error ends the stream, then
\* the finish reason is noted and a delta that says something is passed on.
consume_event(st, event) ==
  LET counted  == [st EXCEPT !.usage = Counted(@, event.usage)]
      reasoned == [counted EXCEPT !.finish_reason =
                     IF event.reason # None THEN event.reason ELSE @]
  IN  CASE event.error -> [enqueue(counted, ErrorItem) EXCEPT !.finished = TRUE]
        [] ~ event.error /\ event.delta = NoDelta -> reasoned
        [] OTHER -> enqueue(reasoned, Message(event.delta))

\* The whole of a JSON payload, with white space after it.
JsonPayload(payload) ==
  {e \in DOMAIN JsonEvents :
     payload \in {<<Piece(e, 1), Piece(e, 2)>>, <<Piece(e, 1), Piece(e, 2), Return>>}}

\* A line without its line break: no data line, a data line without payload,
\* the end marker, JSON, or something that cannot be read.
consume_sse_line(st, line) ==
  LET payload == Tail(line)
  IN  CASE line = << >> \/ Head(line) # Data -> st
        [] line = << Data >> -> st
        [] line = LinePieces("done") -> enqueue_done(st)
        [] Len(line) > 1 /\ Head(line) = Data /\ JsonPayload(payload) # {} ->
             consume_event(st, JsonEvents[CHOOSE e \in JsonPayload(payload) : TRUE])
        [] OTHER -> [enqueue(st, BrokenItem) EXCEPT !.finished = TRUE]

WithoutReturn(line) ==
  IF line # << >> /\ Last(line) = Return THEN Front(line) ELSE line

\* A piece is kept until its line is complete, or for good once the stream has ended.
consume_piece(st, piece) ==
  IF st.finished \/ piece # NewLine THEN [st EXCEPT !.input = Append(@, piece)]
  ELSE consume_sse_line([st EXCEPT !.input = << >>], WithoutReturn(st.input))

\* Every complete line of the input is consumed, until the stream has ended;
\* the rest stays in the input.
consume_complete_lines(st) ==
  LET after[i \in 0 .. Len(st.input)] ==
        IF i = 0 THEN [st EXCEPT !.input = << >>]
                 ELSE consume_piece(after[i - 1], st.input[i])
  IN  after[Len(st.input)]

\* Mistake: what a chunk leaves over is read as a line of its own.
ChunkArrives_Unbuffered(st, chunk) ==
  LET s == consume_complete_lines([st EXCEPT !.input = chunk])
  IN  IF s.finished THEN s
      ELSE [consume_sse_line(s, s.input) EXCEPT !.input = << >>]

\* The upstream's next chunk, its error, and its end: what is left of the
\* input is one more line.
ChunkArrives(st, chunk) ==
  consume_complete_lines([st EXCEPT !.input = @ \o chunk])

UpstreamBreaks(st) == [enqueue(st, BrokenItem) EXCEPT !.finished = TRUE]

UpstreamEnds(st) ==
  enqueue_done(consume_sse_line([st EXCEPT !.input = << >>], st.input))

-----------------------------------------------------------------------------
(* What the converter should have written, from the upstream's lines *)

Ending(lines) == {i \in DOMAIN lines : lines[i] \in {"done", "bad", "error"}}

\* The lines before the one that ends the stream.
Spoken(lines) ==
  IF Ending(lines) = {} THEN lines
  ELSE SubSeq(lines, 1, (CHOOSE i \in Ending(lines) : \A j \in Ending(lines) : i <= j) - 1)

Speaks(line) == line \in DOMAIN JsonEvents /\ JsonEvents[line].delta # NoDelta

\* The messages of the lines that say something, in their order.
Messages(lines) ==
  FlattenSeq([i \in DOMAIN lines |-> IF Speaks(lines[i])
                                     THEN << Message(JsonEvents[lines[i]].delta) >>
                                     ELSE << >>])

\* The value of a field in the last event that has it.
LastOf(lines, Field(_), default) ==
  LET said == {i \in DOMAIN lines : lines[i] \in DOMAIN JsonEvents
                                    /\ Field(JsonEvents[lines[i]]) # None}
  IN  IF said = {} THEN default
      ELSE Field(JsonEvents[lines[CHOOSE i \in said : \A j \in said : j <= i]])

DoneFor(lines) ==
  DoneItem(LastOf(lines, LAMBDA e : e.reason, "stop"),
           [prompt     |-> LastOf(lines, LAMBDA e : e.usage.prompt, 0),
            completion |-> LastOf(lines, LAMBDA e : e.usage.completion, 0)])

\* The messages of the lines, and the terminator if one of them has ended
\* the stream.
Translation(lines) ==
  LET spoken == Spoken(lines)
      ended  == Len(spoken) < Len(lines)
      by     == lines[Len(spoken) + 1]
      end    == CASE by = "done"  -> DoneFor(spoken)
                  [] by = "bad"   -> BrokenItem
                  [] by = "error" -> ErrorItem
  IN  Messages(spoken) \o (IF ended THEN << end >> ELSE << >>)

=============================================================================
