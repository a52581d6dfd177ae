--------------------------- MODULE ProviderStreams ---------------------------
(***************************************************************************)
(* A streamed chat: the routes /chat/completions/stream, /proxy/...        *)
(* /stream and /cohere/chat/stream, the provider adapter that translates   *)
(* the request and reads the vendor's lines, and the client that reads the *)
(* events.  The handler checks the prompt and returns a generator; whether *)
(* the rest of the generator runs depends on vendor and client.            *)
(*                                                                         *)
(* A text is a number, 0 the empty one; a vendor's line is what the        *)
(* adapter makes of it.                                                    *)
(***************************************************************************)
EXTENDS Absence, Naturals, Sequences, Functions

CONSTANTS
  Streams,      \* streamed requests
  StreamBodies, \* request bodies: messages, the fields "message" and "prompt"
  History,      \* messages of the conversation a request may name
  MaxLines      \* bound: lines a vendor sends

(* "assistant" stands for every other role *)
Message == [role : {"system", "user", "assistant"}, text : Nat]

ASSUME StreamAssumption ==
  /\ MaxLines \in Nat \ {0}
  /\ StreamBodies \subseteq [messages : Seq(Message), message : Nat \cup {None}, prompt : Nat]
  /\ History \in Seq(Message)
  /\ None \notin Nat \cup Seq(Nat)

OpenAICompatible == {"openai", "ollama"}
AdapterNames == OpenAICompatible \cup {"anthropic", "google", "cohere", "mock"}
StreamRoutes == {"chat", "proxy", "cohere"}

VARIABLES
  at,      \* where the request is
  request, \* route, adapter, whether a conversation is named, what is checked and sent
  lines,   \* lines read of the vendor's answer
  shown,   \* events the client was sent
  judged,  \* texts the output check looked at
  stored,  \* texts saved as the assistant's message
  logged   \* whether the stream was audited

stream_vars == <<at, request, lines, shown, judged, stored, logged>>

-----------------------------------------------------------------------------
(* Translation of requests *)

(* the members of a set, in their order; SelectSeq, which the provers do   *)
(* not know                                                                *)
Among(seq, S) ==
  LET found[i \in 0..Len(seq)] ==
        IF i = 0 THEN <<>>
        ELSE IF seq[i] \in S THEN Append(found[i - 1], seq[i]) ELSE found[i - 1]
  IN  found[Len(seq)]

NonEmpty(texts) == Among(texts, Range(texts) \ {0})
Texts(messages) == [i \in DOMAIN messages |-> messages[i].text]
SaidBy(messages, role) == Among(messages, {msg \in Range(messages) : msg.role = role})
LastOr(texts, t) == IF texts = <<>> THEN t ELSE texts[Len(texts)]

(* mutant: the first user message *)
FirstUserText(messages) == Head(Texts(SaidBy(messages, "user")) \o <<0>>)

(* the text of the last user message, "" without one *)
LastUserText(messages) == LastOr(Texts(SaidBy(messages, "user")), 0)

(* normalize_request of each adapter, with the body its chat_stream posts: *)
(* the text the guardrails will check, and the texts sent to the vendor    *)
OpenAICompatRequest(body) ==
  LET last == LastUserText(body.messages)
  IN  [checked |-> NonEmpty(IF last # 0 THEN <<last>> ELSE Texts(body.messages)),
       sent |-> NonEmpty(Texts(body.messages))]

(* one system prompt, the last, goes beside the messages *)
LastSystemText(messages) == LastOr(Texts(SaidBy(messages, "system")), 0)
NotSystem(messages) == Among(messages, {msg \in Range(messages) : msg.role # "system"})

AnthropicRequest(body) ==
  [checked |-> NonEmpty(<<LastUserText(NotSystem(body.messages))>>),
   sent |-> NonEmpty(<<LastSystemText(body.messages)>> \o Texts(NotSystem(body.messages)))]

GoogleRequest(body) ==
  [checked |-> NonEmpty(<<LastUserText(body.messages)>>),
   sent |-> NonEmpty(<<LastSystemText(body.messages)>> \o Texts(NotSystem(body.messages)))]

(* Cohere's own format: one "message", or else one "prompt" *)
CohereRequest(body) ==
  LET text == NonEmpty(<<IF body.message # None THEN body.message ELSE body.prompt>>)
  IN  [checked |-> text, sent |-> text]

MockRequest(body) ==
  LET text == NonEmpty(<<LastUserText(body.messages)>>) IN [checked |-> text, sent |-> text]

NormalizeRequest(adapter, body) ==
  CASE adapter \in OpenAICompatible -> OpenAICompatRequest(body)
    [] adapter = "anthropic" -> AnthropicRequest(body)
    [] adapter = "google" -> GoogleRequest(body)
    [] adapter = "cohere" -> CohereRequest(body)
    [] adapter = "mock" -> MockRequest(body)

(* The chat routes take "message" out of the body and add it to the       *)
(* conversation's history; without a conversation it counts only if there *)
(* are no "messages".                                                     *)
ChatBody(body, named, history) ==
  LET new == <<[role |-> "user", text |-> body.message]>>
  IN  [body EXCEPT !.message = None,
                   !.messages = IF body.message = None THEN @
                                ELSE IF named THEN history \o new
                                ELSE IF @ = <<>> THEN new ELSE @]

(* what the client wants answered *)
Said(route, adapter, body) ==
  IF route = "chat" /\ body.message # None THEN body.message
  ELSE IF adapter = "cohere" THEN IF body.message # None THEN body.message ELSE body.prompt
  ELSE LastUserText(body.messages)

(* detect_provider: the first prefix of the table that fits, openai if none *)
PrefixTable == <<"gpt-", "claude-", "gemini-", "command-", "llama">>
ProviderOfPrefix ==
  [p \in {"gpt-", "claude-", "gemini-", "command-", "llama"} |->
     CASE p = "gpt-" -> "openai" [] p = "claude-" -> "anthropic" [] p = "gemini-" -> "google"
       [] p = "command-" -> "cohere" [] p = "llama" -> "ollama"]
DetectProvider(fits) ==
  LET hits == {i \in DOMAIN PrefixTable : PrefixTable[i] \in fits}
  IN  IF hits = {} THEN "openai"
      ELSE ProviderOfPrefix[PrefixTable[CHOOSE i \in hits : \A j \in hits : i <= j]]

(* the providers a route can reach *)
ProvidersOf(route) ==
  CASE route = "chat" -> AdapterNames
    [] route = "proxy" -> {DetectProvider(fits) : fits \in {{}} \cup {{p} : p \in Range(PrefixTable)}}
    [] route = "cohere" -> {"cohere"}

-----------------------------------------------------------------------------
(* Lines of a vendor: "text" carries one text; "other" none (comments,     *)
(* unparsable lines, other events, an error the vendor reports in an       *)
(* event); "stop" ends the stream; "odd" is JSON of another shape, which   *)
(* the parser does not expect.                                             *)
OpenAICompatLines == {"text", "other", "stop", "odd"}
AnthropicLines == {"text", "other", "stop", "odd"}
GoogleLines == {"text", "other", "odd"}
CohereLines == {"text", "other", "stop", "odd"}
MockLines == {"text"}

LineKinds(adapter) ==
  CASE adapter \in OpenAICompatible -> OpenAICompatLines
    [] adapter = "anthropic" -> AnthropicLines
    [] adapter = "google" -> GoogleLines
    [] adapter = "cohere" -> CohereLines
    [] adapter = "mock" -> MockLines

StreamInit ==
  /\ at = [s \in Streams |-> "idle"]
  /\ request = [s \in Streams |-> [route |-> None, adapter |-> None, named |-> FALSE, both |-> FALSE,
                                   said |-> 0, checked |-> <<>>, sent |-> <<>>]]
  /\ lines = [s \in Streams |-> 0]
  /\ shown = [s \in Streams |-> <<>>]
  /\ judged = [s \in Streams |-> None]
  /\ stored = [s \in Streams |-> None]
  /\ logged = [s \in Streams |-> FALSE]

StreamGoes(s, where) == at' = [at EXCEPT ![s] = where]
Show(s, event) == shown' = [shown EXCEPT ![s] = Append(@, event)]

(* The request is read and translated. *)
Arrive(s) ==
  /\ at[s] = "idle"
  /\ \E route \in StreamRoutes, body \in StreamBodies, named \in BOOLEAN :
       \E adapter \in ProvidersOf(route) :
         LET b == IF route = "chat" THEN ChatBody(body, named, History) ELSE body
         IN  /\ named => route = "chat"
             /\ request' = [request EXCEPT ![s] =
                  [route |-> route, adapter |-> adapter, named |-> named,
                   both |-> body.message # None /\ body.messages # <<>>,
                   said |-> Said(route, adapter, body),
                   checked |-> NormalizeRequest(adapter, b).checked,
                   sent |-> NormalizeRequest(adapter, b).sent]]
             /\ StreamGoes(s, "guard")
  /\ UNCHANGED <<lines, shown, judged, stored, logged>>

(* A field is missing or the provider unknown: 400 or 500, no stream. *)
TurnDown(s) ==
  /\ at[s] = "idle"
  /\ StreamGoes(s, "refused")
  /\ UNCHANGED <<request, lines, shown, judged, stored, logged>>

(* run_input_guardrails on the prompt: blocklisted or an injection is a 403 *)
Guard(s) ==
  /\ at[s] = "guard"
  /\ StreamGoes(s, "refused") \/ StreamGoes(s, "stream")
  /\ UNCHANGED <<request, lines, shown, judged, stored, logged>>

(* The adapter reads a line and the generator passes its text on. *)
ReadLine(s) ==
  /\ at[s] = "stream" /\ lines[s] < MaxLines
  /\ lines' = [lines EXCEPT ![s] = @ + 1]
  /\ \E kind \in LineKinds(request[s].adapter) :
       CASE kind = "text" -> Show(s, <<"content", lines'[s]>>) /\ UNCHANGED at
         [] kind = "other" -> UNCHANGED <<at, shown>>
         [] kind = "stop" -> StreamGoes(s, "screen") /\ UNCHANGED shown
         [] kind = "odd" -> StreamGoes(s, "failed") /\ Show(s, <<"error">>)
  /\ UNCHANGED <<request, judged, stored, logged>>

(* The vendor closes the connection, with or without having said so: for   *)
(* the adapter the stream is complete.                                     *)
VendorCloses(s) ==
  /\ at[s] = "stream"
  /\ StreamGoes(s, "screen")
  /\ UNCHANGED <<request, lines, shown, judged, stored, logged>>

(* mutant: a failed stream goes on like a complete one *)
VendorFailsOn(s) ==
  /\ at[s] = "stream" /\ request[s].adapter # "mock"
  /\ StreamGoes(s, "screen")
  /\ Show(s, <<"error">>)
  /\ UNCHANGED <<request, lines, judged, stored, logged>>

(* No key or URL, an HTTP error, a timeout, a lost connection: one error   *)
(* event, and the generator returns.                                       *)
VendorFails(s) ==
  /\ at[s] = "stream" /\ request[s].adapter # "mock"
  /\ StreamGoes(s, "failed")
  /\ Show(s, <<"error">>)
  /\ UNCHANGED <<request, lines, judged, stored, logged>>

ContentOf(events) ==
  LET content == Among(events, {e \in Range(events) : e[1] = "content"})
  IN  [i \in DOMAIN content |-> content[i][2]]

(* the output check: run_input_guardrails(full_text) and the safety event *)
ScreenOutput(s) ==
  /\ at[s] = "screen"
  /\ judged' = [judged EXCEPT ![s] = ContentOf(shown[s])]
  /\ Show(s, <<"safety">>)
  /\ StreamGoes(s, IF request[s].route = "chat" /\ request[s].named THEN "save" ELSE "log")
  /\ UNCHANGED <<request, lines, stored, logged>>

(* add_message, whose failure is passed over *)
Save(s) ==
  /\ at[s] = "save"
  /\ stored' \in {stored, [stored EXCEPT ![s] = ContentOf(shown[s])]}
  /\ StreamGoes(s, "log")
  /\ UNCHANGED <<request, lines, shown, judged, logged>>

(* log_audit, then [DONE] *)
Log(s) ==
  /\ at[s] = "log"
  /\ logged' = [logged EXCEPT ![s] = TRUE]
  /\ Show(s, <<"[DONE]">>)
  /\ StreamGoes(s, "complete")
  /\ UNCHANGED <<request, lines, judged, stored>>

(* The client disconnects: the generator is cancelled where it stands. *)
ClientLeaves(s) ==
  /\ at[s] \in {"stream", "screen", "save", "log"}
  /\ StreamGoes(s, "left")
  /\ UNCHANGED <<request, lines, shown, judged, stored, logged>>

StreamStep(s) ==
  Guard(s) \/ ReadLine(s) \/ VendorCloses(s) \/ VendorFails(s) \/ ScreenOutput(s) \/ Save(s) \/ Log(s)

StreamNext ==
  \E s \in Streams : Arrive(s) \/ TurnDown(s) \/ StreamStep(s) \/ ClientLeaves(s)

(* Reads from a vendor have a timeout. *)
StreamFairness == \A s \in Streams : WF_stream_vars(StreamStep(s))

StreamSpec == StreamInit /\ [][StreamNext]_stream_vars /\ StreamFairness

-----------------------------------------------------------------------------
StreamTypeOK ==
  /\ at \in [Streams -> {"idle", "guard", "refused", "stream", "screen", "save", "log",
                         "complete", "failed", "left"}]
  /\ \A s \in Streams :
       /\ request[s].adapter \in AdapterNames \cup {None}
       /\ request[s].route \in StreamRoutes \cup {None}
       /\ lines[s] \in 0..MaxLines
       /\ \A i \in DOMAIN shown[s] : shown[s][i][1] \in {"content", "error", "safety", "[DONE]"}
  /\ logged \in [Streams -> BOOLEAN]

Ended(s) == at[s] \in {"complete", "failed", "left", "refused"}

(***************************************************************************)
(* What a client was shown of a model's answer and what the gateway judged,*)
(* saved and logged of it agree (the three event_generator functions).     *)
(* [DONE] follows exactly one verdict, over everything that was shown,     *)
(* and an audit entry; a stream that broke has an error as its last event, *)
(* no verdict and no trace in the log or the conversation; nothing is      *)
(* saved that was not shown and judged, and a stream no client left        *)
(* never ends without [DONE] or an error.                                  *)
(***************************************************************************)
StreamsAreAccounted ==
  \A s \in Streams :
    LET has(kind) == \E i \in DOMAIN shown[s] : shown[s][i][1] = kind IN
      /\ has("[DONE]") => judged[s] = ContentOf(shown[s]) /\ logged[s] /\ ~has("error")
      /\ has("error") => /\ shown[s][Len(shown[s])] = <<"error">>
                         /\ judged[s] = None /\ stored[s] = None /\ ~logged[s]
      /\ stored[s] # None => stored[s] = judged[s] /\ request[s].named
      /\ logged[s] => judged[s] # None
      /\ at[s] \in {"complete", "failed"} => has("[DONE]") \/ has("error")

(***************************************************************************)
(* What the client wants answered is what the guardrails check, and the    *)
(* model is sent it, through every adapter and route (normalize_request    *)
(* and the routes' message handling).  Two cases are excepted: Cohere's    *)
(* adapter reads a field the chat routes have removed, so both are empty   *)
(* there; and a "message" beside "messages" is dropped.                    *)
(***************************************************************************)
PromptIsCheckedAndSent ==
  \A s \in Streams : LET r == request[s] IN
    /\ r.said \notin {0, None}
    /\ ~(r.route = "chat" /\ (r.adapter = "cohere" \/ (r.both /\ ~r.named)))
    => r.said \in Range(r.checked) /\ r.said \in Range(r.sent)

(***************************************************************************)
(* Every stream ends, whatever the vendor does.                            *)
(***************************************************************************)
StreamsEnd == \A s \in Streams : at[s] # "idle" ~> Ended(s)
=============================================================================
