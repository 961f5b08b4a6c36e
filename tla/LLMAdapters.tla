------------------------------ MODULE LLMAdapters ------------------------------
(***************************************************************************)
(* How HelloAgentsLLM asks the providers: which adapter a service address  *)
(* gets, what becomes of a history and of a choice of tools on the way,    *)
(* and what of an answer or of a stream on the way back.  The history is   *)
(* in the form of OpenAI, whose adapter sends it as it is.  Texts are      *)
(* opaque; "" is no text.                                                  *)
(***************************************************************************)
EXTENDS Integers, Sequences, FiniteSets, SequencesExt

ToolUse(id, tool) == [id |-> id, tool |-> tool]

System(text) == [role |-> "system", text |-> text, calls |-> <<>>, id |-> ""]
User(text) == [role |-> "user", text |-> text, calls |-> <<>>, id |-> ""]
Asks(calls) == [role |-> "assistant", text |-> "", calls |-> calls, id |-> ""]
ToolResult(id, text) == [role |-> "tool", text |-> text, calls |-> <<>>, id |-> id]

(* create_adapter                                                          *)
AdapterOf(address) ==
    CASE address = "anthropic.com" -> "Claude"
      [] address \in {"googleapis.com", "generativelanguage"} -> "Gemini"
      [] OTHER -> "OpenAI"

------------------------------------------------------------------------------
(* The system text of a request is that of the last system message.        *)
IsSystem(m) == m.role = "system"

SystemText(messages) ==
    LET texts == SelectSeq(messages, IsSystem)
    IN  IF texts = <<>> THEN "" ELSE Last(texts).text

Rest(messages) == SelectSeq(messages, LAMBDA m : ~IsSystem(m))

(* AnthropicAdapter._convert_messages: calls become blocks of the answer,  *)
(* each result a message of the user.                                      *)
Blocks(m) ==
    (IF m.text = "" THEN <<>> ELSE <<[type |-> "text", id |-> "", tool |-> ""]>>)
      \o [i \in DOMAIN m.calls |-> [type |-> "tool_use", id |-> m.calls[i].id,
                                    tool |-> m.calls[i].tool]]

ToClaude(messages) ==
    LET rest == Rest(messages) IN
    [i \in DOMAIN rest |->
        CASE rest[i].role = "assistant" /\ rest[i].calls # <<>> ->
               [role |-> "assistant", blocks |-> Blocks(rest[i])]
          [] rest[i].role = "tool" ->
               [role |-> "user", blocks |-> <<[type |-> "tool_result", id |-> rest[i].id,
                                               tool |-> ""]>>]
          [] OTHER -> [role |-> rest[i].role, blocks |-> <<>>]]

(* GeminiAdapter._convert_messages: a result is named after the tool of    *)
(* the last call before it that has its id.                                *)
CallsBefore(messages, i) == FlattenSeq([j \in 1..(i - 1) |-> messages[j].calls])

NameOf(messages, i) ==
    LET named == SelectSeq(CallsBefore(messages, i),
                           LAMBDA c : c.id = messages[i].id /\ c.id # "" /\ c.tool # "")
    IN  IF named = <<>> THEN "tool_result" ELSE Last(named).tool

ToGemini(messages) ==
    LET rest == Rest(messages) IN
    [i \in DOMAIN rest |->
        CASE rest[i].role = "assistant" -> [role |-> "model", tools |->
                                              [j \in DOMAIN rest[i].calls |-> rest[i].calls[j].tool]]
          [] rest[i].role = "tool" -> [role |-> "tool", tools |-> <<NameOf(rest, i)>>]
          [] OTHER -> [role |-> "user", tools |-> <<>>]]

------------------------------------------------------------------------------
(* A choice of tools, "auto", "none", "required" or the name of one, and   *)
(* what the provider is told; "" is nothing, which is auto to all.         *)
ClaudeChoice(choice) ==
    CASE choice \in {"", "auto", "none"} -> "" [] choice = "required" -> "any"
      [] OTHER -> choice

GeminiChoice(choice) ==
    CASE choice \in {"", "auto"} -> "" [] choice = "none" -> "NONE"
      [] choice = "required" -> "ANY" [] OTHER -> choice

------------------------------------------------------------------------------
(* The calls of an answer with tools, of parts that are text or a call.    *)
(* Gemini gives calls no id; its adapter takes the millisecond.            *)
IsCall(part) == part.type = "call"

CallsIn(parts) == LET calls == SelectSeq(parts, IsCall)
                  IN  [i \in DOMAIN calls |-> ToolUse(calls[i].id, calls[i].tool)]

GeminiCalls(parts, clock) ==
    LET calls == SelectSeq(parts, IsCall)
    IN  [i \in DOMAIN calls |-> ToolUse(clock[i], calls[i].tool)]

(* A stream: the chunks that have text are passed on, the usage is that of *)
(* the last chunk that states one.  A stream that breaks leaves last_stats *)
(* as it was before, and raises.                                           *)
StreamOf(chunks, breaks, before) ==
    LET stated == SelectSeq(chunks, LAMBDA c : c.usage # 0) IN
    [passed |-> SelectSeq(chunks, LAMBDA c : c.text # ""),
     stats |-> IF breaks THEN before ELSE IF stated = <<>> THEN 0 ELSE Last(stated).usage,
     raised |-> breaks]

(* BaseLLMAdapter.astream_invoke passes a stream through a queue: chunks,  *)
(* the exception if any, and None; what comes out is the same.             *)
Queued(stream) ==
    stream.passed \o (IF stream.raised THEN <<"exception">> ELSE <<>>) \o <<"None">>

Unqueued(queue) ==
    LET end == CHOOSE i \in DOMAIN queue : /\ queue[i] \in {"exception", "None"}
                                           /\ \A j \in 1..(i - 1) : queue[j] \notin {"exception", "None"}
    IN  [passed |-> SubSeq(queue, 1, end - 1), raised |-> queue[end] = "exception"]

------------------------------------------------------------------------------
(* What HelloAgentsLLM passes on: what the call says, or else what the     *)
(* client was set to, except for the ways that leave that out.  0 is none. *)
Parameters(call, client, way) ==
    [temperature |->
       IF call.temperature # 0 \/ way \in {"stream_invoke", "astream_invoke"}
       THEN call.temperature ELSE client.temperature,
     max_tokens |->
       IF call.max_tokens # 0 \/ way = "astream_invoke"
       THEN call.max_tokens ELSE client.max_tokens]

------------------------------------------------------------------------------
Tools == {"f", "g"}
CallIds == {"1", "2"}
ToolRounds == {<<Asks(<<ToolUse(i, f), ToolUse(j, g)>>), ToolResult(i, "x"), ToolResult(j, "y")>> :
              i \in CallIds, j \in CallIds, f \in Tools, g \in Tools}
Histories == {<<System("a"), User("b")>> \o r \o s : r \in ToolRounds, s \in ToolRounds}

(* Whether the ids of an answer tell its calls apart.                      *)
IdsApart(calls) == \A i, j \in DOMAIN calls : calls[i].id = calls[j].id => i = j

(* Claude finds the call of every result.                                  *)
ASSUME ResultsFollowCalls ==
    \A h \in Histories : LET c == ToClaude(h) IN
       \A i \in DOMAIN c : \A b \in ToSet(c[i].blocks) : b.type = "tool_result" =>
          \E j \in 1..(i - 1) : \E d \in ToSet(c[j].blocks) :
             d.type = "tool_use" /\ d.id = b.id

(* Gemini is told for every result which tool it is of, as long as the ids *)
(* of an answer tell its calls apart, even if later answers repeat them    *)
(* (GeminiAdapter._convert_messages).                                      *)
ASSUME ResultsAreNamed ==
    \A h \in Histories : LET g == ToGemini(h) IN
       IdsApart(h[3].calls) /\ IdsApart(h[6].calls) =>
          /\ <<g[3].tools[1], g[4].tools[1]>> = g[2].tools
          /\ <<g[6].tools[1], g[7].tools[1]>> = g[5].tools

(* Two calls of one millisecond get one id, and the result of the first    *)
(* then goes out under the name of the second tool.                        *)
ASSUME SameMillisecond ==
    LET parts == <<[type |-> "call", id |-> "", tool |-> "f"],
                   [type |-> "call", id |-> "", tool |-> "g"]>>
        calls == GeminiCalls(parts, <<"1", "1">>)
        g == ToGemini(<<Asks(calls), ToolResult("1", "x"), ToolResult("1", "y")>>)
    IN  ~IdsApart(calls) /\ g[2].tools = <<"g">>

(* A second system message replaces the first for Claude and Gemini; to    *)
(* Claude, the choice of no tool is no choice.                             *)
ASSUME LostOnTheWay ==
    /\ SystemText(<<System("a"), User("b"), System("c")>>) = "c"
    /\ ClaudeChoice("none") = ClaudeChoice("auto") /\ GeminiChoice("none") = "NONE"

(* The queue of a stream in a thread gives out what the stream gave.       *)
ASSUME QueuedIsSame ==
    \A chunks \in UNION {[1..n -> [text : {"", "t"}, usage : 0..1]] : n \in 0..3}, b \in BOOLEAN :
       LET s == StreamOf(chunks, b, 7)
           out == Unqueued(Queued([s EXCEPT !.passed = [i \in DOMAIN s.passed |-> s.passed[i].text]]))
       IN  Len(out.passed) = Len(s.passed) /\ out.raised = s.raised

(* Two of the three ways to stream go out without the temperature of the   *)
(* client, and the asynchronous one without its limit of tokens as well.   *)
ASSUME ClientLeftOut ==
    LET none == [temperature |-> 0, max_tokens |-> 0]
        client == [temperature |-> 7, max_tokens |-> 9]
    IN  /\ Parameters(none, client, "think") = client
        /\ Parameters(none, client, "stream_invoke") = [client EXCEPT !.temperature = 0]
        /\ Parameters(none, client, "astream_invoke") = none

(* A stream that breaks reports the usage of the stream before.            *)
ASSUME StaleStats == StreamOf(<<[text |-> "t", usage |-> 5]>>, TRUE, 7).stats = 7
==============================================================================
