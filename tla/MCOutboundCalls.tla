---------------------------- MODULE MCOutboundCalls ----------------------------
(* Three components that call out, side by side.  They share no state, so   *)
(* each behaviour exercises one of them, the one in `focus'.                *)
EXTENDS SdkCalls, ServiceCalls, ProviderStreams

VARIABLE focus

MCRequests == Calls \X (1..(MaxRetries + 1))

Says(role, text) == [role |-> role, text |-> text]
Body(messages, message, prompt) ==
  [messages |-> messages, message |-> message, prompt |-> prompt]

(* texts with and without a system prompt, an empty last message, no user *)
(* message, one more in the field "message", and Cohere's own form        *)
MCBodies ==
  {Body(<<Says("user", 1)>>, None, 0),
   Body(<<Says("system", 1), Says("user", 2), Says("assistant", 3)>>, None, 0),
   Body(<<Says("user", 1), Says("system", 2), Says("user", 0)>>, None, 0),
   Body(<<Says("assistant", 1)>>, None, 0),
   Body(<<>>, 5, 0),
   Body(<<Says("user", 1), Says("user", 2)>>, None, 6),
   Body(<<Says("user", 1)>>, 5, 0)}
MCHistory == <<Says("user", 8), Says("assistant", 9)>>

mc_vars == <<calls_vars, service_vars, stream_vars, focus>>

MCInit ==
  /\ SdkInit /\ ServiceInit /\ StreamInit
  /\ focus \in {"sdk", "services", "streams"}

MCNext ==
  /\ UNCHANGED focus
  /\ \/ focus = "sdk" /\ SdkNext /\ UNCHANGED <<service_vars, stream_vars>>
     \/ focus = "services" /\ ServiceNext /\ UNCHANGED <<calls_vars, stream_vars>>
     \/ focus = "streams" /\ StreamNext /\ UNCHANGED <<calls_vars, service_vars>>

MCSpec == MCInit /\ [][MCNext]_mc_vars /\ SdkFairness /\ ServiceFairness /\ StreamFairness

(* The three type invariants. *)
OutboundTypeOK == SdkTypeOK /\ ServiceTypeOK /\ StreamTypeOK

(***************************************************************************)
(* Every call of the SDK returns or raises, every call between services    *)
(* comes back and every stream ends, whatever the other side does.         *)
(***************************************************************************)
CallsEnd == CallsReturn /\ TasksEnd /\ StreamsEnd

(***************************************************************************)
(* A call is sent again only while it may be unanswered, returns the last  *)
(* verdict and not a late one; a call between services asks a bounded      *)
(* number of times and its alarms name a client error only for one.        *)
(***************************************************************************)
CallsAreSettled ==
  RetriedOnlyUnsettled /\ ResultIsTheLastVerdict /\ ReportsAreBounded /\ AlarmsNameAClientError

(***************************************************************************)
(* A stream shows, judges, saves and logs one and the same text, whoever   *)
(* gives up, and the prompt that was checked is the one that is sent.      *)
(***************************************************************************)
StreamsAreGuarded == StreamsAreAccounted /\ PromptIsCheckedAndSent
================================================================================
