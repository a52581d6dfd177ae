---------------------------- MODULE MCConversations ----------------------------
(***************************************************************************)
(* The gateway's memory of conversations and the page that shows them.     *)
(* The page takes the gateway at its promise, so they share no variable:   *)
(* a behaviour is that of one, the other stays as it begins.               *)
(***************************************************************************)
EXTENDS Conversations, BrowserChat, TLC

VARIABLE focus \* the side that moves

(* an answer is twice as long as a question, and "messages" more than fits *)
MCTokens ==
  [role \in Roles |-> CASE role = "user" -> 1 [] role = "assistant" -> 2 [] OTHER -> Window + 1]

(* Identifiers that are only compared; no liveness is checked. *)
Symmetry ==
  Permutations(Requests) \cup Permutations(Ids)

-----------------------------------------------------------------------------
MCInit ==
  /\ focus \in {"gateway", "browser"}
  /\ Init /\ ChatInit

MCNext ==
  /\ UNCHANGED focus
  /\ IF focus = "gateway" THEN Next ELSE UNCHANGED vars
  /\ IF focus = "browser" THEN ChatNext ELSE UNCHANGED chat_vars

MCSpec == MCInit /\ [][MCNext]_<<focus, vars, chat_vars>>

================================================================================
