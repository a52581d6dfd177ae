----------------------------- MODULE Conversations -----------------------------
(***************************************************************************)
(* The gateway's server-side chat memory: POST /completions and            *)
(* /completions/stream of routers/chat.py as far as they load, trim and    *)
(* save conversations through gateway/app/chat_store.py, and the DELETE    *)
(* route.  The safety pipeline in between is taken at its promise          *)
(* (PipelinePromise, which SafetyPipeline implements).                     *)
(*                                                                         *)
(* Every statement runs in a transaction of its own.  get_history and      *)
(* add_message look the conversation up first, but a conversation deleted  *)
(* in between has no messages to list and refuses new ones by its foreign  *)
(* key, so each is one step.  updated_at, which only orders lists of       *)
(* conversations, and users (every caller is "system") are left out.       *)
(***************************************************************************)
EXTENDS Absence, Naturals, Sequences

CONSTANTS
  Requests,
  Ids,           \* conversation ids
  HistoryLimit,  \* rows get_history returns, 100 in the code
  Window,        \* tokens trim_history leaves for the prompt
  Tokens         \* tokens of a message, by role

Roles == {"user", "assistant", "client"}

ASSUME LimitAssumption == HistoryLimit \in Nat \ {0} /\ Window \in Nat
ASSUME TokensAssumption == Tokens \in [Roles -> Nat \ {0}]
ASSUME IdsAssumption == None \notin Ids

VARIABLES
  (* the request *)
  mode,      \* "run" or "stream"
  shape,     \* which of "message", "messages" the body has, or "both"
  conv,      \* the conversation it names, later the one it created
  (* its coroutine *)
  pc,
  context,   \* the messages the provider is given
  outcome, calls,
  (* the database *)
  conversation, \* "unused", "live" or "deleted", per id
  history,      \* the messages of each, oldest first
  (* the observer *)
  save_failed,  \* requests that could not save a message
  earlier       \* the requests replied to before this one was sent

request == <<mode, shape, conv>>
pipeline == <<outcome, calls>>
database == <<conversation, history>>
vars == <<request, pc, context, pipeline, database, save_failed, earlier>>

Pipeline == INSTANCE PipelinePromise

Message(r, role) == [from |-> r, role |-> role]
HasMessage(r) == shape[r] \in {"message", "both"}

-----------------------------------------------------------------------------
(* context_limits.py *)

(* the tokens of the first i messages, for every i *)
TokensUpTo(messages) ==
  LET sum[i \in 0..Len(messages)] ==
        IF i = 0 THEN 0 ELSE sum[i - 1] + Tokens[messages[i].role]
  IN  sum

TotalTokens(messages) == TokensUpTo(messages)[Len(messages)]

From(messages, i) == SubSeq(messages, i, Len(messages))

(* walks back from the newest message and stops at the first that does not *)
(* fit, but always keeps the newest                                        *)
TrimHistory(messages) ==
  LET fitting == {i \in 1..Len(messages) : TotalTokens(From(messages, i)) <= Window}
                   \cup {Len(messages)}
  IN  IF messages = <<>> THEN <<>>
      ELSE From(messages, CHOOSE i \in fitting : \A j \in fitting : i <= j)

(* mutant: the newest row is left to the caller *)
GetHistoryAllButNewest(c) ==
  SubSeq(history[c], 1, IF Len(history[c]) < HistoryLimit THEN Len(history[c]) - 1 ELSE HistoryLimit)

(* get_history: ORDER BY created_at ASC LIMIT, and [] for no conversation *)
GetHistory(c) ==
  SubSeq(history[c], 1, IF Len(history[c]) < HistoryLimit THEN Len(history[c]) ELSE HistoryLimit)

-----------------------------------------------------------------------------
Init ==
  /\ mode = [r \in Requests |-> None]
  /\ shape = [r \in Requests |-> None]
  /\ conv = [r \in Requests |-> None]
  /\ pc = [r \in Requests |-> "unsent"]
  /\ context = [r \in Requests |-> <<>>]
  /\ Pipeline!PromiseInit
  /\ conversation = [c \in Ids |-> "unused"]
  /\ history = [c \in Ids |-> <<>>]
  /\ save_failed = {}
  /\ earlier = [r \in Requests |-> {}]

Goto(r, label) == pc' = [pc EXCEPT ![r] = label]

(* a client knows the ids it was told: it may name a deleted one *)
Send(r) ==
  /\ pc[r] = "unsent"
  /\ \E m \in {"run", "stream"}, s \in {"message", "messages", "both"} :
       mode' = [mode EXCEPT ![r] = m] /\ shape' = [shape EXCEPT ![r] = s]
  /\ \E c \in {None} \cup {i \in Ids : conversation[i] # "unused"} : conv' = [conv EXCEPT ![r] = c]
  /\ earlier' = [earlier EXCEPT ![r] = {q \in Requests : pc[q] = "replied"}]
  /\ Goto(r, "load")
  /\ UNCHANGED <<context, pipeline, database, save_failed>>

(* the messages before the new ones; a stream without "message" has none *)
Loaded(r) ==
  IF conv[r] # None /\ (mode[r] = "run" \/ HasMessage(r)) THEN GetHistory(conv[r]) ELSE <<>>

(* "message" counts only with a conversation, or in place of "messages" *)
NewMessage(r) ==
  IF HasMessage(r) /\ (conv[r] # None \/ shape[r] = "message")
  THEN Message(r, "user") ELSE Message(r, "client")

Load(r) ==
  /\ pc[r] = "load"
  /\ \/ /\ context' = [context EXCEPT ![r] =
                        LET messages == Append(Loaded(r), NewMessage(r))
                        IN  IF conv[r] = None THEN messages ELSE TrimHistory(messages)]
        /\ Goto(r, "pipeline")
     \/ (* the database is down: 500 *)
        conv[r] # None /\ Goto(r, "failed") /\ UNCHANGED context
  /\ UNCHANGED <<request, pipeline, database, save_failed, earlier>>

(* mutant: only the answer is saved *)
AfterAnswerNoQuestion(r) ==
  IF conv[r] # None THEN "save_assistant"
  ELSE IF mode[r] = "run" /\ HasMessage(r) THEN "create" ELSE "replied"

(* where the route goes on with an answer *)
AfterAnswer(r) ==
  IF conv[r] # None THEN IF HasMessage(r) THEN "save_user" ELSE "save_assistant"
  ELSE IF mode[r] = "run" /\ HasMessage(r) THEN "create" ELSE "replied"

(* mutant: a failed call is saved like an answered one *)
RunPipelineSavesAll(r) ==
  /\ pc[r] = "pipeline"
  /\ \/ Pipeline!Reject(r) /\ Goto(r, "failed")
     \/ Pipeline!CallProvider(r) /\ Goto(r, IF outcome'[r] = "failed" THEN AfterAnswer(r) ELSE "pipeline")
     \/ Pipeline!Screen(r) /\ UNCHANGED pc
     \/ Pipeline!Answer(r) /\ Goto(r, AfterAnswer(r))
  /\ UNCHANGED <<request, context, database, save_failed, earlier>>

(* run_full_pipeline, or the stream route's own guard, call and guard: an  *)
(* exception or an error event ends the request before anything is saved   *)
RunPipeline(r) ==
  /\ pc[r] = "pipeline"
  /\ \/ Pipeline!Reject(r) /\ Goto(r, "failed")
     \/ Pipeline!CallProvider(r) /\ Goto(r, IF outcome'[r] = "failed" THEN "failed" ELSE "pipeline")
     \/ Pipeline!Screen(r) /\ UNCHANGED pc
     \/ Pipeline!Answer(r) /\ Goto(r, AfterAnswer(r))
  /\ UNCHANGED <<request, context, database, save_failed, earlier>>

(* any exception while saving: a warning or nothing, and the answer all the same *)
SaveFails(r) ==
  /\ save_failed' = save_failed \cup {r}
  /\ Goto(r, "replied")

CreateConversation(r) ==
  /\ pc[r] = "create"
  /\ \/ \E c \in {i \in Ids : conversation[i] = "unused"} :
          /\ conversation' = [conversation EXCEPT ![c] = "live"]
          /\ conv' = [conv EXCEPT ![r] = c]
          /\ Goto(r, "save_user")
          /\ UNCHANGED save_failed
     \/ SaveFails(r) /\ UNCHANGED <<conversation, conv>>
  /\ UNCHANGED <<mode, shape, context, pipeline, history, earlier>>

(* mutant: neither the look-up nor the foreign key *)
AddMessageBlindly(r, role, next) ==
  \/ /\ history' = [history EXCEPT ![conv[r]] = Append(@, Message(r, role))]
     /\ Goto(r, next)
     /\ UNCHANGED save_failed
  \/ SaveFails(r) /\ UNCHANGED history

AddMessage(r, role, next) ==
  \/ /\ conversation[conv[r]] = "live"
     /\ history' = [history EXCEPT ![conv[r]] = Append(@, Message(r, role))]
     /\ Goto(r, next)
     /\ UNCHANGED save_failed
  \/ SaveFails(r) /\ UNCHANGED history

(* mutant: each save in a try of its own *)
SaveUserGoesOn(r) ==
  /\ pc[r] = "save_user"
  /\ \/ AddMessage(r, "user", "save_assistant")
     \/ /\ save_failed' = save_failed \cup {r}
        /\ Goto(r, "save_assistant")
        /\ UNCHANGED history
  /\ UNCHANGED <<request, context, pipeline, conversation, earlier>>

SaveUser(r) ==
  /\ pc[r] = "save_user"
  /\ AddMessage(r, "user", "save_assistant")
  /\ UNCHANGED <<request, context, pipeline, conversation, earlier>>

SaveAssistant(r) ==
  /\ pc[r] = "save_assistant"
  /\ AddMessage(r, "assistant", "replied")
  /\ UNCHANGED <<request, context, pipeline, conversation, earlier>>

(* the process stops, or the client of a stream leaves and its generator is cancelled *)
Abandon(r) ==
  /\ pc[r] \notin {"unsent", "replied", "failed", "gone"}
  /\ Goto(r, "gone")
  /\ Pipeline!Drop(r) \/ (mode[r] = "stream" /\ Pipeline!Leave(r)) \/ (outcome[r] = "answered" /\ UNCHANGED pipeline)
  /\ UNCHANGED <<request, context, database, save_failed, earlier>>

(* DELETE /conversations/{conv_id}, whose messages go with it *)
DeleteConversation(c) ==
  /\ conversation[c] = "live"
  /\ conversation' = [conversation EXCEPT ![c] = "deleted"]
  /\ history' = [history EXCEPT ![c] = <<>>]
  /\ UNCHANGED <<request, pc, context, pipeline, save_failed, earlier>>

Next ==
  \/ \E r \in Requests :
       \/ Send(r) \/ Load(r) \/ RunPipeline(r) \/ CreateConversation(r)
       \/ SaveUser(r) \/ SaveAssistant(r) \/ Abandon(r)
  \/ \E c \in Ids : DeleteConversation(c)

Spec == Init /\ [][Next]_vars

-----------------------------------------------------------------------------
Messages == [from : Requests, role : Roles]
Contents(c) == {history[c][i] : i \in DOMAIN history[c]}

TypeOK ==
  /\ mode \in [Requests -> {"run", "stream", None}]
  /\ shape \in [Requests -> {"message", "messages", "both", None}]
  /\ conv \in [Requests -> Ids \cup {None}]
  /\ pc \in [Requests -> {"unsent", "load", "pipeline", "create", "save_user",
                          "save_assistant", "replied", "failed", "gone"}]
  /\ context \in [Requests -> Seq(Messages)]
  /\ outcome \in [Requests -> Pipeline!Outcomes]
  /\ calls \in [Requests -> 0..1]
  /\ conversation \in [Ids -> {"unused", "live", "deleted"}]
  /\ history \in [Ids -> Seq(Messages)]
  /\ save_failed \subseteq Requests
  /\ earlier \in [Requests -> SUBSET Requests]

(***************************************************************************)
(* Only what went through the pipeline is remembered: no later prompt is   *)
(* built on a question that was rejected, failed or is still being asked.  *)
(***************************************************************************)
OnlyAnsweredRemembered ==
  \A c \in Ids : \A m \in Contents(c) : outcome[m.from] = "answered" /\ calls[m.from] = 1

(***************************************************************************)
(* However requests to one conversation interleave, fail or are cut off,   *)
(* an answer stands in it after its question, neither of them twice; only  *)
(* a request without "message" leaves its answer alone.                    *)
(***************************************************************************)
AnswersFollowQuestions ==
  \A c \in Ids : \A i \in DOMAIN history[c] :
    /\ \A j \in DOMAIN history[c] : history[c][i] = history[c][j] => i = j
    /\ history[c][i].role = "assistant" /\ HasMessage(history[c][i].from) =>
         \E j \in 1..(i - 1) : history[c][j] = Message(history[c][i].from, "user")

(***************************************************************************)
(* A reply that names a conversation was remembered there in full, unless  *)
(* saving failed or the conversation has been deleted since.               *)
(***************************************************************************)
RepliesRemembered ==
  \A r \in Requests :
    pc[r] = "replied" /\ r \notin save_failed /\ conv[r] # None /\ conversation[conv[r]] = "live" =>
      /\ Message(r, "assistant") \in Contents(conv[r])
      /\ HasMessage(r) => Message(r, "user") \in Contents(conv[r])

(* a deleted conversation stays empty, though requests that named it go on *)
DeletedForGood == \A c \in Ids : conversation[c] # "live" => history[c] = <<>>

Fits(r) ==
  /\ Len(history[conv[r]]) <= HistoryLimit
  /\ TotalTokens(Append(history[conv[r]], Message(r, "user"))) <= Window

(***************************************************************************)
(* The provider is always given the new message, last; and a follow-up     *)
(* finds the whole of every exchange its client has seen answered, as long *)
(* as the conversation fits get_history's limit and the context window.    *)
(***************************************************************************)
FollowUpsRemember ==
  \A r \in Requests : calls[r] = 1 =>
    /\ context[r] # <<>> /\ context[r][Len(context[r])].from = r
    /\ outcome[r] = "pending" /\ HasMessage(r) /\ conv[r] # None /\ Fits(r) =>
         \A q \in earlier[r] : \A m \in Contents(conv[r]) :
           m.from = q => \E i \in DOMAIN context[r] : context[r][i] = m

(***************************************************************************)
(* What the gateway remembers (chat_store.py, routers/chat.py): only what  *)
(* went through the pipeline, each answer behind its question, every reply *)
(* unless its saving failed, nothing of a deleted conversation; and the    *)
(* next prompt is built on all of it.                                      *)
(***************************************************************************)
MemoryHolds ==
  /\ OnlyAnsweredRemembered /\ AnswersFollowQuestions /\ RepliesRemembered
  /\ FollowUpsRemember /\ DeletedForGood
================================================================================
