------------------------------ MODULE BrowserChat ------------------------------
(***************************************************************************)
(* The chat page (frontend/public/chat.html): one list of messages on the  *)
(* screen, requests that push onto whichever list is there when they are   *)
(* answered, and loads of a conversation that replace it.  The disabled    *)
(* button does not stop Enter or a suggestion.  The gateway, whose saves   *)
(* may fail on their way, answers all the same.                            *)
(***************************************************************************)
EXTENDS Absence, Naturals, Sequences

CONSTANTS
  Sends,   \* calls of sendMessage, each a message
  Loads,   \* calls of loadServerMessages
  LastChat \* bound: conversations made

ASSUME ChatsAssumption == None \notin Nat \* conversations are numbered, None is no number

ChatIds == 1..LastChat

VARIABLES
  activeConv,
  currentMessages, \* entries of a send: "user", "typing", "error", and its reply, drawn
                   \* alike whether it is stored, "assistant", or not, "unsaved"
  serverConversations, \* those the list offers
  chats,    \* the gateway's conversations: their messages and replies
  sending,  \* per send: step, the conversation sent to or answered, whether it is stored
  loading,  \* per load: step, the conversation, and what was returned
  hurried   \* something was begun while something was under way

chat_vars == <<activeConv, currentMessages, serverConversations, chats, sending, loading, hurried>>

Line(s, role) == [of |-> s, role |-> role]

ChatInit ==
  /\ activeConv = None /\ currentMessages = <<>>
  /\ serverConversations = {} /\ chats = <<>>
  /\ sending = [s \in Sends |-> [step |-> "new", file |-> FALSE, conv |-> None, saved |-> FALSE]]
  /\ loading = [l \in Loads |-> [step |-> "new", conv |-> None, got |-> <<>>]]
  /\ hurried = FALSE

UnderWay == \/ \E s \in Sends : sending[s].step \notin {"new", "done"}
            \/ \E l \in Loads : loading[l].step \notin {"new", "done"}
Begins == hurried' = (hurried \/ UnderWay)

-----------------------------------------------------------------------------
(* newChat *)
NewChat ==
  /\ activeConv # None \/ currentMessages # <<>>
  /\ activeConv' = None /\ currentMessages' = <<>>
  /\ Begins
  /\ UNCHANGED <<serverConversations, chats, sending, loading>>

(* selectServerConversation: the old messages stay until loaded *)
SelectConversation(l, c) ==
  /\ loading[l].step = "new" /\ c \in serverConversations
  /\ activeConv' = c
  /\ loading' = [loading EXCEPT ![l] = [step |-> "asked", conv |-> c, got |-> <<>>]]
  /\ Begins
  /\ UNCHANGED <<currentMessages, serverConversations, chats, sending>>

(* loadServerMessages: what is stored then, or nothing if it failed, ... *)
MessagesRead(l) ==
  /\ loading[l].step = "asked"
  /\ \E got \in {chats[loading[l].conv], <<>>} :
       loading' = [loading EXCEPT ![l].step = "answered", ![l].got = got]
  /\ UNCHANGED <<activeConv, currentMessages, serverConversations, chats, sending, hurried>>

(* ... replaces the list, whatever was selected or sent since *)
ShowMessages(l) ==
  /\ loading[l].step = "answered"
  /\ currentMessages' = loading[l].got
  /\ loading' = [loading EXCEPT ![l].step = "done", ![l].got = <<>>]
  /\ UNCHANGED <<activeConv, serverConversations, chats, sending, hurried>>

(* sendMessage, up to the file's upload or the request *)
BeginSend(s, file) ==
  /\ sending[s].step = "new"
  /\ currentMessages' = currentMessages \o <<Line(s, "user"), Line(s, "typing")>>
  /\ sending' = [sending EXCEPT ![s] =
       [step |-> IF file THEN "uploads" ELSE "posted", file |-> file,
        conv |-> IF file THEN None ELSE activeConv, saved |-> FALSE]]
  /\ Begins
  /\ UNCHANGED <<activeConv, serverConversations, chats, loading>>

(* The upload's answer goes into a history that is not sent; the message   *)
(* goes to the conversation selected by now.                               *)
Uploaded(s) ==
  /\ sending[s].step = "uploads"
  /\ sending' = [sending EXCEPT ![s].step = "posted", ![s].conv = activeConv]
  /\ UNCHANGED <<activeConv, currentMessages, serverConversations, chats, loading, hurried>>

(* a message and its reply as the gateway keeps them, and what is kept of  *)
(* them when a save fails                                                  *)
Exchange(s) == <<Line(s, "user"), Line(s, "assistant")>>
Kept(s) == {<<>>, <<Line(s, "user")>>, Exchange(s)}

(* The gateway makes a conversation if none is named, and saves; whichever *)
(* of it fails, it answers, with null for a conversation it could not make.*)
GatewayStores(s) ==
  /\ sending[s].step = "posted"
  /\ \E kept \in Kept(s) :
       LET served(c) == [sending EXCEPT ![s].step = "served", ![s].conv = c,
                                        ![s].saved = (kept = Exchange(s))]
       IN  \/ /\ sending[s].conv # None
              /\ chats' = [chats EXCEPT ![sending[s].conv] = @ \o kept]
              /\ sending' = served(sending[s].conv)
           \/ /\ sending[s].conv = None /\ Len(chats) < LastChat
              /\ chats' = Append(chats, kept)
              /\ sending' = served(Len(chats) + 1)
           \/ /\ sending[s].conv = None /\ kept = <<>>
              /\ UNCHANGED chats
              /\ sending' = served(None)
  /\ UNCHANGED <<activeConv, currentMessages, serverConversations, loading, hurried>>

(* filter; SelectSeq, which the provers do not know *)
Without(messages, line) ==
  LET left[i \in 0..Len(messages)] ==
        IF i = 0 THEN <<>>
        ELSE IF messages[i] = line THEN left[i - 1] ELSE Append(left[i - 1], messages[i])
  IN  left[Len(messages)]

WithoutTyping(s) == Without(currentMessages, Line(s, "typing"))

Answered(s) == Line(s, IF sending[s].saved THEN "assistant" ELSE "unsaved")

(* mutant: a conversation is never taken up *)
ReplyLeavesConversation(s) ==
  /\ sending[s].step = "served"
  /\ currentMessages' = Append(WithoutTyping(s), Answered(s))
  /\ UNCHANGED activeConv
  /\ serverConversations' \in {DOMAIN chats, {}}
  /\ sending' = [sending EXCEPT ![s].step = "done"]
  /\ UNCHANGED <<chats, loading, hurried>>

(* The reply: its conversation, if it has one, becomes the selected one if *)
(* there is none, and the list of conversations is loaded again, which may *)
(* fail.                                                                   *)
Reply(s) ==
  /\ sending[s].step = "served"
  /\ currentMessages' = Append(WithoutTyping(s), Answered(s))
  /\ IF activeConv = None /\ sending[s].conv # None
     THEN activeConv' = sending[s].conv /\ serverConversations' \in {DOMAIN chats, {}}
     ELSE UNCHANGED <<activeConv, serverConversations>>
  /\ sending' = [sending EXCEPT ![s].step = "done"]
  /\ UNCHANGED <<chats, loading, hurried>>

(* mutant: the indicator of a failed request is left *)
SendFailsTyping(s) ==
  /\ sending[s].step \in {"posted", "served"}
  /\ currentMessages' = Append(currentMessages, Line(s, "error"))
  /\ sending' = [sending EXCEPT ![s].step = "done"]
  /\ UNCHANGED <<activeConv, serverConversations, chats, loading, hurried>>

(* refused, failed, not reached, or answered but not heard *)
SendFails(s) ==
  /\ sending[s].step \in {"posted", "served"}
  /\ currentMessages' = Append(WithoutTyping(s), Line(s, "error"))
  /\ sending' = [sending EXCEPT ![s].step = "done"]
  /\ UNCHANGED <<activeConv, serverConversations, chats, loading, hurried>>

ChatNext ==
  \/ NewChat
  \/ \E l \in Loads : MessagesRead(l) \/ ShowMessages(l) \/ \E c \in ChatIds : SelectConversation(l, c)
  \/ \E s \in Sends :
       \/ Uploaded(s) \/ GatewayStores(s) \/ Reply(s) \/ SendFails(s)
       \/ \E file \in BOOLEAN : BeginSend(s, file)

ChatSpec == ChatInit /\ [][ChatNext]_chat_vars

-----------------------------------------------------------------------------
Replies(messages) == {i \in DOMAIN messages : messages[i].role = "assistant"}

(* every stored reply shown is one of those stored there, in the same order *)
RepliesOf(shown, stored) ==
  \E at \in [Replies(shown) -> Replies(stored)] :
    /\ \A i \in Replies(shown) : shown[i] = stored[at[i]]
    /\ \A i, j \in Replies(shown) : i < j => at[i] < at[j]

(***************************************************************************)
(* To someone who waits for each answer, the replies on the screen are     *)
(* those of the selected conversation, in its order, and none while none   *)
(* is selected, but for replies the gateway answered and could not store;  *)
(* some may be missing that were not heard or not loaded.  However one     *)
(* hurries, the list offers only conversations the gateway has, and an     *)
(* indicator is shown only while its message is under way.                 *)
(***************************************************************************)
ScreenIsTheConversation ==
  /\ activeConv \in DOMAIN chats \cup {None} /\ serverConversations \subseteq DOMAIN chats
  /\ ~hurried /\ ~UnderWay =>
       IF activeConv = None THEN Replies(currentMessages) = {}
       ELSE RepliesOf(currentMessages, chats[activeConv])
  /\ \A i \in DOMAIN currentMessages :
       currentMessages[i].role = "typing" => sending[currentMessages[i].of].step \notin {"new", "done"}
================================================================================
