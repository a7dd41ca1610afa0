-------------------------------- MODULE Wire --------------------------------
(***************************************************************************)
(* The two ends of a turn on the wire: the request that a provider makes   *)
(* of the session's messages (chat/message.rs, provider.rs, deepseek.rs),  *)
(* and the chunks of its answer, which TokenBus turns into token events    *)
(* and process_token_stream into what ReActLoop calls text, acc and        *)
(* finish.  Model, tools and reasoning level travel as they are.           *)
(***************************************************************************)
EXTENDS ReActLoop

-----------------------------------------------------------------------------
(* The request. *)

Json(role, content, calls, answers) ==
  [role |-> role, content |-> content, tool_calls |-> calls, tool_call_id |-> answers]

\* The provider's own name for the tool call a message is about.
CallId(m) == [call |-> m.call, turn |-> m.turn, index |-> m.index]

\* FuneraMessage::format_json: a request has no content, anything else a text.
FormatJson(m) ==
  CASE m.kind = "request"  -> Json("assistant", "absent", <<CallId(m)>>, Nothing)
    [] m.kind = "response" -> Json("tool", "text", <<>>, CallId(m))
    [] m.kind = "text"     -> Json("assistant", "text", <<>>, Nothing)
    [] OTHER               -> Json(m.kind, "text", <<>>, Nothing)

\* The prompts of the active skills go last, and are not stored.
StandardMessages(ms, skilled) ==
  [i \in DOMAIN ms |-> FormatJson(ms[i])]
    \o (IF skilled THEN <<Json("system", "text", <<>>, Nothing)>> ELSE <<>>)

Calling(j) == j.role = "assistant" /\ j.tool_calls # <<>>

\* Fault: a tool call joins the text of its turn.
Merge_Roles(out, j) ==
  IF out # <<>> /\ Last(out).role = "assistant" /\ j.role = "assistant"
  THEN [out EXCEPT ![Len(out)].tool_calls = @ \o j.tool_calls]
  ELSE Append(out, j)

Merge(out, j) ==
  IF ~Calling(j) THEN Append(out, j)
  ELSE IF out # <<>> /\ Calling(Last(out)) THEN [out EXCEPT ![Len(out)].tool_calls = @ \o j.tool_calls]
       ELSE Append(out, [j EXCEPT !.content = "null"])

\* DeepSeek: tool calls that follow one another become one message, whose
\* content is null.
Merged(js) ==
  LET merged[i \in 0 .. Len(js)] == IF i = 0 THEN <<>> ELSE Merge(merged[i - 1], js[i])
  IN  merged[Len(js)]

DeepSeekMessages(ms, skilled) == Merged(StandardMessages(ms, skilled))

-----------------------------------------------------------------------------
(* The answer.  A chunk has one choice: the request asks for no more.  A   *)
(* text is a sequence of pieces, empty where it is absent; id 0 is "".     *)

Token(type, body, absent) == IF body = absent THEN <<>> ELSE <<[type |-> type, body |-> body]>>

\* extract_events of OpenAI's chunks, and of DeepSeek's, which bring reasoning.
Content(chunk) ==
  Token("text", chunk.content, <<>>)
    \o [k \in DOMAIN chunk.tool_calls |-> [type |-> "delta", body |-> chunk.tool_calls[k]]]
OpenAITokens(chunk) ==
  Token("usage", chunk.usage, Nothing) \o Token("finish", chunk.finish, "None") \o Content(chunk)
DeepSeekTokens(chunk) ==
  Token("finish", chunk.finish, "None") \o Token("reasoning", chunk.reasoning, <<>>)
    \o Content(chunk) \o Token("usage", chunk.usage, Nothing)

\* TokenBus::recv hands on the tokens of one chunk after the other.
Received(chunks, deepSeek) ==
  FlattenSeq([n \in DOMAIN chunks |->
                IF deepSeek THEN DeepSeekTokens(chunks[n]) ELSE OpenAITokens(chunks[n])])

\* Fault: every delta is taken to bring the whole header.
Delta_Headed(accums, d) ==
  LET args == IF d.index \in DOMAIN accums THEN accums[d.index].args ELSE <<>>
  IN  [i \in DOMAIN accums \cup {d.index} |->
         IF i = d.index THEN [call_id |-> d.call_id, name |-> d.name, args |-> args \o d.args]
         ELSE accums[i]]

\* ToolCallAccumulator: what a delta leaves out stays.
Delta(accums, d) ==
  LET a == IF d.index \in DOMAIN accums THEN accums[d.index]
           ELSE [call_id |-> 0, name |-> Nothing, args |-> <<>>]
      b == [call_id |-> IF d.call_id = 0 THEN a.call_id ELSE d.call_id,
            name    |-> IF d.name = Nothing THEN a.name ELSE d.name,
            args    |-> a.args \o d.args]
  IN  [i \in DOMAIN accums \cup {d.index} |-> IF i = d.index THEN b ELSE accums[i]]

Take(turn, token) ==
  CASE token.type = "text"      -> [turn EXCEPT !.text = @ \o token.body]
    [] token.type = "reasoning" -> [turn EXCEPT !.reasoning = @ \o token.body]
    [] token.type = "delta"     -> [turn EXCEPT !.accums = Delta(@, token.body)]
    [] token.type = "finish"    -> [turn EXCEPT !.finish = token.body]
    [] token.type = "usage"     -> [turn EXCEPT !.usage = token.body]

\* process_token_stream, on a stream that is not cut off.
Assembled(tokens) ==
  LET none == [text |-> <<>>, reasoning |-> <<>>, accums |-> <<>>, finish |-> "None", usage |-> Nothing]
      taken[n \in 0 .. Len(tokens)] == IF n = 0 THEN none ELSE Take(taken[n - 1], tokens[n])
  IN  taken[Len(tokens)]

-----------------------------------------------------------------------------
(* The ways a turn may be cut into two chunks: every text and the arguments *)
(* of every call have two pieces, and only the first piece of a call says   *)
(* which call it is.                                                        *)

Splits == {<<<<1, 2>>, <<>>>>, <<<<1>>, <<2>>>>, <<<<>>, <<1, 2>>>>}

Turn(withText, indices, reason) ==
  [text |-> IF withText THEN <<1, 2>> ELSE <<>>, reasoning |-> <<1, 2>>,
   accums |-> [i \in indices |-> [call_id |-> i, name |-> i, args |-> <<1, 2>>]],
   finish |-> reason, usage |-> 1]

Cuts(indices) ==
  [text : Splits, reasoning : Splits, args : [indices -> Splits], finish : 1 .. 2, usage : 1 .. 2,
   order : SetToSeqs(indices)]

Deltas(i, pieces) ==
  [k \in DOMAIN pieces |->
     [index |-> i, call_id |-> IF pieces[k] = 1 THEN i ELSE 0,
      name |-> IF pieces[k] = 1 THEN i ELSE Nothing, args |-> <<pieces[k]>>]]

CutChunk(turn, cut, n) ==
  [content |-> IF turn.text = <<>> THEN <<>> ELSE cut.text[n],
   reasoning |-> cut.reasoning[n],
   tool_calls |-> FlattenSeq([k \in DOMAIN cut.order |-> Deltas(cut.order[k], cut.args[cut.order[k]][n])]),
   finish |-> IF cut.finish = n THEN turn.finish ELSE "None",
   usage |-> IF cut.usage = n THEN turn.usage ELSE Nothing]

\* The turns that every cut of theirs brings back.
Turns == {<<t, i, f>> : t \in BOOLEAN, i \in SUBSET (1 .. Width), f \in Finishes}
Healed ==
  {t \in Turns :
     LET turn == Turn(t[1], t[2], t[3])
     IN  \A cut \in Cuts(t[2]) :
           LET chunks == [n \in 1 .. 2 |-> CutChunk(turn, cut, n)]
           IN  /\ Assembled(Received(chunks, TRUE)) = turn
               /\ Assembled(Received(chunks, FALSE)) = [turn EXCEPT !.reasoning = <<>>]}

-----------------------------------------------------------------------------
(* Properties. *)

(***************************************************************************)
(* What the accumulators stand for is the turn the provider sent, however  *)
(* it cut the turn into chunks and mixed its tool calls: text, reasoning   *)
(* and arguments whole and in order, under the call they belong to, with   *)
(* the finish reason and the usage wherever they came.                     *)
(***************************************************************************)
Reassembled == pc = "streamed" => <<text, acc, finish>> \in Healed

(***************************************************************************)
(* A request to DeepSeek never carries a tool call of this send without    *)
(* its result, or a result without its call: each message with tool calls  *)
(* is followed at once by one result for each of them, in their order, and *)
(* no other message is a result; unless a middleware blocked a request or  *)
(* a result, or the session was cleared.                                   *)
(***************************************************************************)
RequestWellFormed ==
  pc = "request" /\ clears = 0 /\ blocked \cap {"request", "response"} = {} =>
    \A skilled \in BOOLEAN :
      LET sent == DeepSeekMessages(context, skilled)
          OwnCalls(i) == Calling(sent[i]) /\ sent[i].tool_calls[1].call = call
          Answers(i, k) == LET r == i + k
                           IN  r \in DOMAIN sent /\ sent[r].tool_call_id = sent[i].tool_calls[k]
      IN  \A i \in DOMAIN sent :
            /\ OwnCalls(i) => /\ sent[i].content = "null"
                              /\ \A k \in DOMAIN sent[i].tool_calls : Answers(i, k)
            /\ sent[i].role = "tool" /\ sent[i].tool_call_id.call = call =>
                 \E h \in 1 .. i - 1 : OwnCalls(h) /\ i - h \in DOMAIN sent[h].tool_calls
=============================================================================
