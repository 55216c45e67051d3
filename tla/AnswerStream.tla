---------------------------- MODULE AnswerStream ----------------------------
(***************************************************************************)
(* One answer on its way from the model's provider to a client: the        *)
(* provider's event stream, synthesizeStream, the SSE endpoint and the     *)
(* reader of the dashboard, of the TypeScript SDK or of the Go SDK; or the *)
(* JSON endpoint and one of the SDKs' plain calls.  Both streams are cut   *)
(* into chunks anywhere: a line is two halves and a newline (so a chunk    *)
(* may end within a character, too), a frame ends with two newlines.       *)
(***************************************************************************)
EXTENDS Naturals, Sequences, SequencesExt

CONSTANTS
    Deltas,     \* the pieces of text that the provider has to say, in order
    Vendors,    \* providers that are looked at
    Clients     \* clients that are looked at

Streamers == {"browser", "typescript", "go"}
PlainClients == {"tsExecute", "goExecute", "python"}
Compatible == {"openai", "openrouter", "grok"}   \* openai's wire format
ByokOnly == {"grok", "gemini"}

Events == ToSet(Deltas) \cup {"meta", "done", "done, degraded", "error"}

(* A piece of text is none of the words by which this module calls the end *)
(* mark, the events without text, and what is no event.                    *)
Reserved == {"[DONE]", "break", "meta", "done", "done, degraded", "error", "no data"}
ASSUME AnswerStreamAssumption ==
    /\ Deltas \in Seq(STRING) /\ ToSet(Deltas) \cap Reserved = {}
    /\ Vendors \subseteq Compatible \cup {"anthropic", "gemini"}
    /\ Clients \subseteq Streamers \cup PlainClients

VARIABLES
    vendor, client,   \* of this answer
    llm,      \* the provider's stream: how far it was read, the rest of a line, lines to be looked at
    server,   \* the request's handler
    pipe,     \* what was written to the client and not read
    reader,   \* the client
    gone      \* the client has closed the connection

answerVars == <<vendor, client, llm, server, pipe, reader, gone>>

NL == <<"newline", 0>>
Halves(x) == <<<<x, 1>>, <<x, 2>>>>
Frame(x) == Halves(x) \o <<NL, NL>>

(* What the provider has to send: the lines of its words, one after another. *)
Lines(words) == [i \in 1 .. 3 * Len(words) |-> IF i % 3 = 0 THEN NL ELSE <<words[(i + 2) \div 3], i % 3>>]
Words == IF vendor \in Compatible THEN Append(Deltas, "[DONE]") ELSE Deltas
Script == Lines(Words)

(* A fold, from the first element to the last. *)
Folded(op(_, _), base, seq) ==
    LET taken[i \in 0 .. Len(seq)] == IF i = 0 THEN base ELSE op(taken[i - 1], seq[i])
    IN taken[Len(seq)]

AnswerInit ==
    /\ vendor \in Vendors /\ client \in Clients
    /\ llm = [pc |-> "off", at |-> 0, buf |-> <<>>, lines |-> <<>>]
    /\ server = [pc |-> "asked", answer |-> <<>>, degraded |-> FALSE]
    /\ pipe = <<>>
    /\ reader = [verdict |-> "none", meta |-> FALSE, buf |-> <<>>, text |-> <<>>]
    /\ gone = FALSE

Verdicts == {"none", "whole", "degraded", "error", "byok", "quota", "guess", "ended", "null", "left"}
AnswerTypeOK ==
    /\ llm.pc \in {"off", "open", "eof", "failed"} /\ llm.at \in 0 .. Len(Script)
    /\ server.pc \in {"asked", "synth", "log", "closed"} /\ server.answer \in Prefixes(Deltas) /\ server.degraded \in BOOLEAN
    /\ reader.verdict \in Verdicts /\ ToSet(reader.text) \subseteq ToSet(Deltas) /\ reader.meta \in BOOLEAN
    /\ gone \in BOOLEAN

---------------------------------------------------------------------------
(* llm-client.ts *)

(* The organization's own key; without one, the vendor's from the environment. *)
ResolveKey(own, env) == own \/ env

(* The plain calls: they return a text, or throw on a status that is not   *)
(* 2xx and on an answer without content.                                   *)
CallAnthropic(own, env, reply) == ResolveKey(own, env) /\ reply = "text"
CallOpenRouter(own, env, reply) == ResolveKey(own, env) /\ reply = "text"
CallOpenAI(own, env, reply) == ResolveKey(own, env) /\ reply = "text"
CallGrok(own, reply) == own /\ reply = "text"
CallGemini(own, reply) == own /\ reply = "text"
CallChatLLM(v, own, env, reply) ==
    CASE v = "gemini" -> CallGemini(own, reply)
      [] v = "anthropic" -> CallAnthropic(own, env, reply)
      [] v = "openai" -> CallOpenAI(own, env, reply)
      [] v = "openrouter" -> CallOpenRouter(own, env, reply)
      [] v = "grok" -> CallGrok(own, reply)

(* readSSELines: the lines that a chunk completes, and what is left; the   *)
(* rest of the last line is a line when the stream ends.                   *)
ReadLine(acc, t) ==
    IF t # NL THEN [acc EXCEPT !.buf = Append(@, t)]
    ELSE [buf |-> <<>>, lines |-> IF acc.buf = <<>> THEN acc.lines ELSE Append(acc.lines, acc.buf)]
ReadSSELines(buf, chunk) == Folded(ReadLine, [buf |-> buf, lines |-> <<>>], chunk)
Tail1(buf) == IF buf = <<>> THEN <<>> ELSE <<buf>>
NoTail(buf) == <<>>
LinesAtEnd(buf) == Tail1(buf)

(* What a line yields: partial and unknown ones are skipped, and only one  *)
(* of the formats has an end mark.                                         *)
StreamOpenAICompatible(line) ==
    IF line = Halves("[DONE]") THEN {"break"} ELSE {d \in ToSet(Deltas) : line = Halves(d)}
StreamAnthropic(line) == {d \in ToSet(Deltas) : line = Halves(d)}
StreamGemini(line) == {d \in ToSet(Deltas) : line = Halves(d)}
StreamChatLLM(line) ==
    CASE vendor = "gemini" -> StreamGemini(line)
      [] vendor = "anthropic" -> StreamAnthropic(line)
      [] vendor \in Compatible -> StreamOpenAICompatible(line)

---------------------------------------------------------------------------
(* The provider. *)

Speaks ==
    /\ server.pc = "synth" /\ llm.pc = "open" /\ llm.lines = <<>>
    /\ \E n \in 1 .. Len(Script) - llm.at :
         LET read == ReadSSELines(llm.buf, SubSeq(Script, llm.at + 1, llm.at + n)) IN
         llm' = [llm EXCEPT !.at = @ + n, !.buf = read.buf, !.lines = read.lines]
    /\ UNCHANGED <<vendor, client, server, pipe, reader, gone>>

(* The end, early or not. *)
Ends ==
    /\ server.pc = "synth" /\ llm.pc = "open" /\ llm.lines = <<>>
    /\ llm' = [llm EXCEPT !.pc = "eof", !.buf = <<>>, !.lines = LinesAtEnd(llm.buf)]
    /\ UNCHANGED <<vendor, client, server, pipe, reader, gone>>

(* An error that the provider reports within the stream: none of the       *)
(* formats looks for one, so it is a line without text and then the end.   *)
ReportsError ==
    /\ server.pc = "synth" /\ llm.pc = "open" /\ llm.lines = <<>> /\ llm.buf = <<>>
    /\ llm' = [llm EXCEPT !.pc = "eof", !.lines = <<Halves("error")>>]
    /\ UNCHANGED <<vendor, client, server, pipe, reader, gone>>

(* A refused request, a broken connection, or the timer's abort. *)
Breaks ==
    /\ server.pc = "synth" /\ llm.pc = "open" /\ llm.lines = <<>>
    /\ llm' = [llm EXCEPT !.pc = "failed", !.buf = <<>>]
    /\ UNCHANGED <<vendor, client, server, pipe, reader, gone>>

---------------------------------------------------------------------------
(* The handler.  Nothing is written to a client that has left. *)
WriteEvent(e) == pipe' = IF gone THEN pipe ELSE pipe \o Frame(e)

(* executeStream up to `meta`: the headers are out already, and an error   *)
(* (no credential, no quota, a failed search) is a frame.  A client that   *)
(* left ends the generator at its first yield.                             *)
Retrieves ==
    /\ client \in Streamers /\ server.pc = "asked"
    /\ \/ /\ WriteEvent("meta")
          /\ server' = [server EXCEPT !.pc = IF gone THEN "closed" ELSE "synth"]
          /\ llm' = IF gone THEN llm ELSE [llm EXCEPT !.pc = "open"]
       \/ WriteEvent("error") /\ server' = [server EXCEPT !.pc = "closed"] /\ UNCHANGED llm
    /\ UNCHANGED <<vendor, client, reader, gone>>

(* synthesizeStream: every delta is kept and passed on. *)
SynthesizeStream ==
    /\ server.pc = "synth" /\ llm.lines # <<>>
    /\ LET out == StreamChatLLM(Head(llm.lines)) IN
       \/ /\ out \cap ToSet(Deltas) = {} /\ "break" \notin out
          /\ llm' = [llm EXCEPT !.lines = Tail(@)]
          /\ UNCHANGED <<server, pipe>>
       \/ /\ "break" \in out
          /\ llm' = [llm EXCEPT !.pc = "eof", !.lines = <<>>]
          /\ UNCHANGED <<server, pipe>>
       \/ \E d \in out \cap ToSet(Deltas) :
            /\ llm' = [llm EXCEPT !.lines = Tail(@)]
            /\ server' = [server EXCEPT !.answer = Append(@, d), !.pc = IF gone THEN "log" ELSE @]
            /\ WriteEvent(d)
    /\ UNCHANGED <<vendor, client, reader, gone>>

Synthesized ==
    /\ server.pc = "synth" /\ llm.lines = <<>> /\ llm.pc \in {"eof", "failed"}
    /\ server' = [server EXCEPT !.pc = "log", !.degraded = llm.pc = "failed"]
    /\ UNCHANGED <<vendor, client, llm, pipe, reader, gone>>

(* The query is logged and counted; then comes `done`, or an error. *)
Finishes ==
    /\ server.pc = "log"
    /\ \E e \in {"error", IF server.degraded THEN "done, degraded" ELSE "done"} : WriteEvent(e)
    /\ server' = [server EXCEPT !.pc = "closed"]
    /\ UNCHANGED <<vendor, client, llm, reader, gone>>

(* The JSON endpoint: synthesize calls the provider once, within the time. *)
Replies == {"text", "status", "empty", "late"}
Executes ==
    /\ client \in PlainClients /\ server.pc = "asked"
    /\ \/ \E reply \in Replies :
            LET ok == CallChatLLM(vendor, TRUE, FALSE, reply) IN
            /\ server' = [pc |-> "closed", answer |-> IF ok THEN Deltas ELSE <<>>, degraded |-> ~ok]
            /\ pipe' = <<IF ok THEN "200" ELSE "200, degraded">>
       \/ \E code \in {"BYOK_REQUIRED", "QUOTA_EXCEEDED", "500"} :
            server' = [server EXCEPT !.pc = "closed"] /\ pipe' = <<code>>
    /\ UNCHANGED <<vendor, client, llm, reader, gone>>

---------------------------------------------------------------------------
(* The readers.  Frames are separated by an empty line. *)
ReadFrame(acc, t) ==
    IF t = NL /\ acc.buf # <<>> /\ Last(acc.buf) = NL THEN [buf |-> <<>>, frames |-> Append(acc.frames, Front(acc.buf))]
    ELSE [acc EXCEPT !.buf = Append(@, t)]
FramesPerChunk(buf, chunk) ==   \* what a chunk leaves over is forgotten
    Folded(ReadFrame, [buf |-> <<>>, frames |-> <<>>], chunk)
Frames(buf, chunk) == Folded(ReadFrame, [buf |-> buf, frames |-> <<>>], chunk)
(* A frame without a line of data is skipped. *)
EventOf(frame) == IF \E e \in Events : frame = Halves(e) THEN CHOOSE e \in Events : frame = Halves(e) ELSE "no data"

Told(e) == IF e = "done" THEN "whole" ELSE IF e = "error" THEN "error" ELSE "degraded"
Hears(r, e, needsMeta) ==
    IF e \in ToSet(Deltas) THEN [r EXCEPT !.text = Append(@, e)]
    ELSE IF e = "meta" THEN [r EXCEPT !.meta = TRUE]
    ELSE IF e = "no data" \/ (e # "error" /\ needsMeta /\ ~r.meta) THEN r
    ELSE [r EXCEPT !.verdict = Told(e)]

(* run, up to a verdict; an error clears the text. *)
BrowserHears(r, e) ==
    IF r.verdict # "none" THEN r
    ELSE IF e = "error" THEN [r EXCEPT !.verdict = "error", !.text = <<>>]
    ELSE Hears(r, e, TRUE)
(* The SDKs hand every event to their caller. *)
TypeScriptHears(r, e) == Hears(r, e, FALSE)
GoHears(r, e) == Hears(r, e, FALSE)

Hear(r, e) == CASE client = "browser" -> BrowserHears(r, e)
                [] client = "typescript" -> TypeScriptHears(r, e)
                [] client = "go" -> GoHears(r, e)

HearFrame(r, frame) == Hear(r, EventOf(frame))

ReadsChunk ==
    /\ client \in Streamers /\ reader.verdict = "none"
    /\ \E n \in 1 .. Len(pipe) :
         LET read == Frames(reader.buf, SubSeq(pipe, 1, n)) IN
         /\ reader' = Folded(HearFrame, [reader EXCEPT !.buf = read.buf], read.frames)
         /\ pipe' = SubSeq(pipe, n + 1, Len(pipe))
    /\ UNCHANGED <<vendor, client, llm, server, gone>>

(* The end of a stream that nobody has called done. *)
BrowserEnd(r) ==
    {[r EXCEPT !.verdict = IF ~r.meta THEN "ended" ELSE IF r.text = <<>> THEN "degraded" ELSE "guess"]}
TypeScriptEnd(r) == {[r EXCEPT !.verdict = "ended"]}
(* Scan hands out the last line as well: an event that only lacks its empty *)
(* line is one, half an event is no JSON, less than that is skipped.        *)
Trimmed(buf) == IF buf # <<>> /\ Last(buf) = NL THEN Front(buf) ELSE buf
GoEnd(r) ==
    LET last == EventOf(Trimmed(r.buf))
        heard == GoHears(r, last)
    IN IF r.buf = <<>> THEN {[r EXCEPT !.verdict = "ended"]}
       ELSE IF last = "no data" THEN {[r EXCEPT !.verdict = v] : v \in {"ended", "error"}}
       ELSE {IF heard.verdict = "none" THEN [heard EXCEPT !.verdict = "ended"] ELSE heard}

StreamEnds ==
    /\ client \in Streamers /\ reader.verdict = "none" /\ ~gone
    /\ reader' \in CASE client = "browser" -> BrowserEnd(reader)
                     [] client = "typescript" -> TypeScriptEnd(reader)
                     [] client = "go" -> GoEnd(reader)
    /\ gone' = TRUE   \* of a proxy that ends it early, or of the server
    /\ UNCHANGED <<vendor, client, llm, server, pipe>>

Cut ==
    /\ reader.verdict = "none"
    /\ reader' = [reader EXCEPT !.verdict = IF client = "tsExecute" /\ server.pc = "closed" THEN "null" ELSE "error",
                                !.text = IF client = "browser" THEN <<>> ELSE @]
    /\ gone' = TRUE
    /\ UNCHANGED <<vendor, client, llm, server, pipe>>

Leaves ==
    /\ reader.verdict = "none" /\ ~gone
    /\ reader' = [reader EXCEPT !.verdict = "left"]
    /\ gone' = TRUE
    /\ UNCHANGED <<vendor, client, llm, server, pipe>>

(* errorFromResponse *)
TypeScriptError(code) == CASE code = "BYOK_REQUIRED" -> "byok" [] code = "QUOTA_EXCEEDED" -> "quota" [] OTHER -> "error"
GoError(code) == CASE code = "BYOK_REQUIRED" -> "byok" [] code = "QUOTA_EXCEEDED" -> "quota" [] OTHER -> "error"
PythonError(code) == "error"   \* with the code in it

RequestJson(body) ==
    IF body \in {"200", "200, degraded"} THEN IF body = "200" THEN "whole" ELSE "degraded" ELSE TypeScriptError(body)
DecodeJSONResponse(body) ==
    IF body \in {"200", "200, degraded"} THEN IF body = "200" THEN "whole" ELSE "degraded" ELSE GoError(body)
PythonQuery(body) ==
    IF body \in {"200", "200, degraded"} THEN IF body = "200" THEN "whole" ELSE "degraded" ELSE PythonError(body)

Returns ==
    /\ client \in PlainClients /\ pipe # <<>> /\ reader.verdict = "none"
    /\ reader' = [reader EXCEPT !.text = server.answer,
                    !.verdict = CASE client = "tsExecute" -> RequestJson(Head(pipe))
                                  [] client = "goExecute" -> DecodeJSONResponse(Head(pipe))
                                  [] client = "python" -> PythonQuery(Head(pipe))]
    /\ pipe' = <<>>
    /\ UNCHANGED <<vendor, client, llm, server, gone>>

AnswerNext ==
    \/ Speaks \/ Ends \/ ReportsError \/ Breaks
    \/ Retrieves \/ SynthesizeStream \/ Synthesized \/ Finishes \/ Executes
    \/ ReadsChunk \/ StreamEnds \/ Cut \/ Leaves \/ Returns

AnswerSpec == AnswerInit /\ [][AnswerNext]_answerVars

---------------------------------------------------------------------------
(* Whole lines that the provider had sent by the time it was read to: two  *)
(* halves are a line once the stream has ended.                            *)
Beginning(n) == SubSeq(Deltas, 1, IF n > Len(Deltas) THEN Len(Deltas) ELSE n)
Said == Beginning((llm.at + IF llm.pc = "eof" THEN 1 ELSE 0) \div 3)

(* An answer that its client is told to be whole and not degraded is all   *)
(* the provider has sent, in its order, wherever the two streams are cut   *)
(* into chunks.  (A provider that ends early counts as whole, also after   *)
(* an error within its stream: two of the formats have no end mark, and    *)
(* nobody asks for the third's.)                                           *)
ToldWholeIsWhole == reader.verdict = "whole" /\ client \in Streamers => reader.text = Said
==============================================================================
