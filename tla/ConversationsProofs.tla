------------------------- MODULE ConversationsProofs -------------------------
(***************************************************************************)
(* Proofs about Conversations, for any requests, conversations, limits and *)
(* token counts, and about BrowserChat, for any sends and loads.           *)
(*                                                                         *)
(* MemoryHolds speaks of what is saved and replied.  To be inductive it    *)
(* has to say what holds of a request on its way there (Progress), whose   *)
(* messages a conversation can hold (NamedIsMade, Written), that a request *)
(* about to save its answer has its question saved (QuestionSaved), and    *)
(* what the prompt holds before the provider is called (EndsWithOwn,       *)
(* ContextComplete): there, a message saved later can only be of a request *)
(* not replied to when this one was sent (EarlierReplied), and makes the   *)
(* conversation longer, so what fits now fitted when it was loaded.  That  *)
(* the token count grows with the messages is proved of the recursive      *)
(* function in TokensUpTo, by induction.                                   *)
(*                                                                         *)
(* ScreenIsTheConversation speaks of a page at rest.  To be inductive it   *)
(* has to say, of someone who waits, that one thing is under way at a time *)
(* (OneAtATime), where a message goes and that its reply, once stored,     *)
(* follows all that is on the screen (SentThere), and that what is being   *)
(* loaded is the conversation selected (LoadedThere); and of anyone, that  *)
(* no indicator reaches the gateway (Indicators).                          *)
(***************************************************************************)
EXTENDS MCConversations, SequenceTheorems, WellFoundedInduction, TLAPS

-----------------------------------------------------------------------------
(* How far a request has come shows in what became of it: nothing is saved *)
(* before it is answered, and it is saved where it names a conversation.   *)
Progress ==
  \A r \in Requests :
    /\ pc[r] \in {"unsent", "load"} => outcome[r] = "pending" /\ calls[r] = 0
    /\ pc[r] = "pipeline" => outcome[r] \in {"pending", "screened"}
    /\ pc[r] \in {"create", "save_user", "save_assistant", "replied"} => outcome[r] = "answered"
    /\ pc[r] = "failed" => outcome[r] # "answered" /\ (outcome[r] = "pending" => calls[r] = 0)
    /\ pc[r] = "gone" => outcome[r] # "pending"
    /\ outcome[r] \in {"screened", "answered"} => calls[r] = 1
    /\ pc[r] = "create" => conv[r] = None
    /\ pc[r] \in {"create", "save_user"} => HasMessage(r)
    /\ pc[r] \in {"save_user", "save_assistant"} => conv[r] # None

(* A request names a conversation that was made, never one still to come. *)
NamedIsMade == \A r \in Requests : conv[r] # None => conversation[conv[r]] # "unused"

(* Every message of a conversation was written by a request to it that was *)
(* answered and is past the step that writes such a message.               *)
Written ==
  \A c \in Ids : \A i \in DOMAIN history[c] :
    LET m == history[c][i] IN
    /\ conv[m.from] = c /\ outcome[m.from] = "answered"
    /\ m.role \in {"user", "assistant"}
    /\ pc[m.from] # "save_user"
    /\ m.role = "assistant" => pc[m.from] # "save_assistant"

(* An answer is saved only once its question was, or the conversation is gone. *)
QuestionSaved ==
  \A r \in Requests :
    pc[r] = "save_assistant" /\ HasMessage(r) /\ conversation[conv[r]] = "live" =>
      Message(r, "user") \in Contents(conv[r])

EarlierReplied == \A r \in Requests : \A q \in earlier[r] : pc[q] = "replied"

(* The prompt ends with the request's own message from the moment it is made. *)
EndsWithOwn ==
  \A r \in Requests : pc[r] = "pipeline" \/ calls[r] = 1 =>
    context[r] # <<>> /\ context[r][Len(context[r])].from = r

(* The prompt holds all the earlier exchanges while it may still be sent.  *)
ContextComplete ==
  \A r \in Requests :
    pc[r] = "pipeline" /\ HasMessage(r) /\ conv[r] # None /\ Fits(r) =>
      \A q \in earlier[r] : \A m \in Contents(conv[r]) :
        m.from = q => \E i \in DOMAIN context[r] : context[r][i] = m

IInv ==
  /\ TypeOK /\ Progress /\ NamedIsMade /\ Written /\ QuestionSaved /\ EarlierReplied
  /\ EndsWithOwn /\ ContextComplete
  /\ AnswersFollowQuestions /\ RepliesRemembered /\ DeletedForGood

-----------------------------------------------------------------------------
(* Induction, from the library's theorem on well-founded relations. *)
LEMMA LeastNatural ==
  ASSUME NEW S \in SUBSET Nat, S # {}
  PROVE  \E m \in S : \A k \in S : m <= k
<1> DEFINE R == OpToRel(<, Nat)
<1>1. IsWellFoundedOn(R, Nat)
  BY NatLessThanWellFounded
<1>2. \A x, y \in Nat : <<y, x>> \in R <=> y < x
  BY DEF OpToRel
<1> HIDE DEF R
<1>3. PICK x \in S : \A y \in S : ~(<<y, x>> \in R)
  BY <1>1, WFMin
<1>4. x \in Nat /\ \A y \in S : y \in Nat
  OBVIOUS
<1>5. \A y \in S : ~(y < x)
  BY <1>2, <1>3, <1>4
<1>6. \A y \in S : x <= y
  BY <1>4, <1>5
<1> QED
  BY <1>6

LEMMA SetInduction ==
  ASSUME NEW T, 0 \in T, \A n \in Nat : n \in T => n + 1 \in T
  PROVE  Nat \subseteq T
<1> DEFINE B == {n \in Nat : n \notin T}
<1> SUFFICES ASSUME B # {} PROVE FALSE
  OBVIOUS
<1>1. PICK m \in B : \A k \in B : m <= k
  BY LeastNatural
<1>2. m # 0
  BY <1>1
<1>3. m - 1 \in Nat /\ m - 1 \notin B
  BY <1>1, <1>2
<1>4. (m - 1) + 1 \in T
  BY <1>3
<1> QED
  BY <1>4, <1>1

-----------------------------------------------------------------------------
(* The sum of the tokens: it exists, and is what its recursion says. *)
Sums(f, messages) ==
  /\ DOMAIN f = 0..Len(messages)
  /\ f[0] = 0
  /\ \A i \in 1..Len(messages) : f[i] = f[i - 1] + Tokens[messages[i].role]

LEMMA MessageTokens ==
  ASSUME NEW messages \in Seq(Messages), NEW i \in 1..Len(messages)
  PROVE  Tokens[messages[i].role] \in Nat \ {0}
<1>1. messages[i] \in Messages
  BY ElementOfSeq
<1>2. messages[i].role \in Roles
  BY <1>1 DEF Messages
<1> QED
  BY <1>2, TokensAssumption

LEMMA TokensExist ==
  ASSUME NEW messages \in Seq(Messages)
  PROVE  Sums(TokensUpTo(messages), messages)
<1> DEFINE IsSum(g, n) ==
      g = [i \in 0..n |-> IF i = 0 THEN 0 ELSE g[i - 1] + Tokens[messages[i].role]]
<1> DEFINE T == {n \in Nat : \E g : IsSum(g, n)}
<1>1. 0 \in T
  <2> DEFINE g == [i \in 0..0 |-> 0]
  <2>1. IsSum(g, 0)
    OBVIOUS
  <2> QED
    BY <2>1
<1>2. ASSUME NEW n \in Nat, n \in T PROVE n + 1 \in T
  <2>1. PICK g : IsSum(g, n)
    BY <1>2
  <2> DEFINE h == [i \in 0..(n + 1) |->
                     IF i = n + 1 THEN g[n] + Tokens[messages[n + 1].role] ELSE g[i]]
  <2>2. \A i \in 0..(n + 1) : h[i] = IF i = 0 THEN 0 ELSE h[i - 1] + Tokens[messages[i].role]
    BY <2>1
  <2>3. IsSum(h, n + 1)
    BY <2>2
  <2> HIDE DEF h
  <2>4. \E k : IsSum(k, n + 1)
    BY <2>3, Zenon
  <2>5. n + 1 \in Nat
    OBVIOUS
  <2> HIDE DEF IsSum
  <2> QED
    BY <2>4, <2>5
<1>3. Nat \subseteq T
  <2> HIDE DEF T
  <2> QED
    BY <1>1, <1>2, SetInduction
<1>4. Len(messages) \in Nat
  BY LenProperties
<1>5. PICK g : IsSum(g, Len(messages))
  BY <1>3, <1>4
<1> DEFINE s == TokensUpTo(messages)
<1>6. s = [i \in 0..Len(messages) |-> IF i = 0 THEN 0 ELSE s[i - 1] + Tokens[messages[i].role]]
  BY <1>5, Zenon DEF TokensUpTo
<1> HIDE DEF s
<1>7. Sums(s, messages)
  BY <1>4, <1>6 DEF Sums
<1> QED
  BY <1>7 DEF s

(* Every partial sum is a number. *)
LEMMA TokensAreNumbers ==
  ASSUME NEW messages \in Seq(Messages)
  PROVE  \A i \in 0..Len(messages) : TokensUpTo(messages)[i] \in Nat
<1> DEFINE sum == TokensUpTo(messages)
<1> DEFINE T == {n \in Nat : n <= Len(messages) => sum[n] \in Nat}
<1>1. Sums(sum, messages) /\ Len(messages) \in Nat
  BY TokensExist, LenProperties
<1>2. \A i \in 1..Len(messages) : Tokens[messages[i].role] \in Nat
  BY MessageTokens
<1> HIDE DEF sum
<1>3. 0 \in T
  BY <1>1 DEF Sums
<1>4. ASSUME NEW n \in Nat, n \in T PROVE n + 1 \in T
  <2>1. CASE n + 1 <= Len(messages)
    <3>1. sum[n] \in Nat /\ n + 1 \in 1..Len(messages)
      BY <1>1, <1>4, <2>1
    <3>2. sum[n + 1] = sum[n] + Tokens[messages[n + 1].role]
      BY <1>1, <3>1 DEF Sums
    <3> QED
      BY <1>2, <3>1, <3>2
  <2>2. CASE ~(n + 1 <= Len(messages))
    BY <2>2
  <2> QED
    BY <2>1, <2>2
<1>5. Nat \subseteq T
  <2> HIDE DEF T
  <2> QED
    BY <1>3, <1>4, SetInduction
<1> QED
  BY <1>1, <1>5 DEF sum

(* A message more adds its tokens to the total. *)
LEMMA TotalTokensAppend ==
  ASSUME NEW messages \in Seq(Messages), NEW e \in Messages
  PROVE  /\ TotalTokens(messages) \in Nat
         /\ TotalTokens(Append(messages, e)) = TotalTokens(messages) + Tokens[e.role]
<1> DEFINE more == Append(messages, e)
<1> DEFINE sum == TokensUpTo(messages)
<1> DEFINE total == TokensUpTo(more)
<1>1. /\ more \in Seq(Messages) /\ Len(more) = Len(messages) + 1 /\ Len(messages) \in Nat
      /\ \A i \in 1..Len(messages) : more[i] = messages[i]
      /\ more[Len(messages) + 1] = e
  BY AppendProperties, LenProperties
<1>2. Sums(sum, messages) /\ Sums(total, more)
  BY <1>1, TokensExist
<1> DEFINE T == {n \in Nat : n <= Len(messages) => total[n] = sum[n]}
<1> HIDE DEF sum, total, more
<1>3. 0 \in T
  BY <1>2 DEF Sums
<1>4. ASSUME NEW n \in Nat, n \in T PROVE n + 1 \in T
  <2>1. CASE n + 1 <= Len(messages)
    <3>1. total[n] = sum[n] /\ n + 1 \in 1..Len(messages) /\ n + 1 \in 1..Len(more)
      BY <1>1, <1>4, <2>1
    <3>2. sum[n + 1] = sum[(n + 1) - 1] + Tokens[messages[n + 1].role]
      BY <1>2, <3>1 DEF Sums
    <3>3. total[n + 1] = total[(n + 1) - 1] + Tokens[more[n + 1].role]
      BY <1>2, <3>1 DEF Sums
    <3>4. more[n + 1] = messages[n + 1] /\ (n + 1) - 1 = n
      BY <1>1, <3>1
    <3> QED
      BY <3>1, <3>2, <3>3, <3>4
  <2>2. CASE ~(n + 1 <= Len(messages))
    BY <2>2
  <2> QED
    BY <2>1, <2>2
<1>5. Nat \subseteq T
  <2> HIDE DEF T
  <2> QED
    BY <1>3, <1>4, SetInduction
<1>6. total[Len(messages)] = sum[Len(messages)]
  BY <1>1, <1>5
<1>7. total[Len(messages) + 1] = total[Len(messages)] + Tokens[e.role]
  <2>1. Len(messages) + 1 \in 1..Len(more)
    BY <1>1
  <2>2. total[Len(messages) + 1] = total[(Len(messages) + 1) - 1] + Tokens[more[Len(messages) + 1].role]
    BY <1>2, <2>1 DEF Sums
  <2>3. (Len(messages) + 1) - 1 = Len(messages)
    BY <1>1
  <2> QED
    BY <1>1, <2>2, <2>3
<1>8. TotalTokens(messages) = sum[Len(messages)] /\ TotalTokens(more) = total[Len(more)]
  BY DEF TotalTokens, sum, total
<1>9. TotalTokens(messages) \in Nat
  <2>1. Len(messages) \in 0..Len(messages)
    BY <1>1
  <2> QED
    BY <2>1, TokensAreNumbers DEF TotalTokens
<1> QED
  BY <1>1, <1>6, <1>7, <1>8, <1>9 DEF more

-----------------------------------------------------------------------------
(* What trim_history keeps: always the newest message, and everything if   *)
(* it fits.                                                                *)
LEMMA FromFirst ==
  ASSUME NEW s \in Seq(Messages)
  PROVE  From(s, 1) = s
  BY LenProperties DEF From

LEMMA FromProperties ==
  ASSUME NEW s \in Seq(Messages), NEW i \in 1..Len(s)
  PROVE  /\ From(s, i) \in Seq(Messages) /\ From(s, i) # <<>>
         /\ From(s, i)[Len(From(s, i))] = s[Len(s)]
<1>1. Len(s) \in Nat /\ i \in Nat /\ i >= 1 /\ i <= Len(s)
  BY LenProperties
<1>2. From(s, i) = [j \in 1..(Len(s) - i + 1) |-> s[i + j - 1]]
  BY <1>1 DEF From
<1>3. \A j \in 1..(Len(s) - i + 1) : s[i + j - 1] \in Messages
  BY <1>1, ElementOfSeq
<1>4. From(s, i) \in Seq(Messages) /\ Len(From(s, i)) = Len(s) - i + 1
  BY <1>1, <1>2, <1>3
<1> QED
  BY <1>1, <1>2, <1>4

LEMMA TrimKeeps ==
  ASSUME NEW s \in Seq(Messages), s # <<>>
  PROVE  /\ TrimHistory(s) \in Seq(Messages) /\ TrimHistory(s) # <<>>
         /\ TrimHistory(s)[Len(TrimHistory(s))] = s[Len(s)]
         /\ TotalTokens(s) <= Window => TrimHistory(s) = s
<1> DEFINE fitting == {i \in 1..Len(s) : TotalTokens(From(s, i)) <= Window} \cup {Len(s)}
<1> DEFINE first == CHOOSE i \in fitting : \A j \in fitting : i <= j
<1>1. Len(s) \in Nat /\ Len(s) >= 1
  BY LenProperties, EmptySeq
<1>2. fitting \in SUBSET Nat /\ fitting # {} /\ fitting \subseteq 1..Len(s)
  BY <1>1
<1>3. first \in fitting /\ \A j \in fitting : first <= j
  <2> HIDE DEF fitting
  <2> QED
    BY <1>2, LeastNatural
<1>4. TrimHistory(s) = From(s, first)
  BY DEF TrimHistory
<1>5. TotalTokens(s) <= Window => first = 1
  <2>1. ASSUME TotalTokens(s) <= Window PROVE first = 1
    <3>1. 1 \in fitting
      BY <1>1, <2>1, FromFirst
    <3> HIDE DEF fitting, first
    <3>2. first <= 1 /\ first \in 1..Len(s)
      BY <1>2, <1>3, <3>1
    <3> QED
      BY <3>2
  <2> QED
    BY <2>1
<1> HIDE DEF fitting, first
<1>6. first \in 1..Len(s)
  BY <1>2, <1>3
<1> QED
  BY <1>4, <1>5, <1>6, FromFirst, FromProperties

-----------------------------------------------------------------------------
LEMMA InitIInv == Init => IInv
<1> SUFFICES ASSUME Init PROVE IInv
  OBVIOUS
<1> USE DEF Init, Pipeline!PromiseInit
<1>1. TypeOK
  BY DEF TypeOK, Pipeline!Outcomes
<1>2. Progress /\ NamedIsMade /\ QuestionSaved /\ EarlierReplied /\ EndsWithOwn /\ ContextComplete
  BY DEF Progress, NamedIsMade, QuestionSaved, EarlierReplied, EndsWithOwn, ContextComplete
<1>3. Written /\ AnswersFollowQuestions /\ RepliesRemembered /\ DeletedForGood
  BY DEF Written, AnswersFollowQuestions, RepliesRemembered, DeletedForGood
<1> QED
  BY <1>1, <1>2, <1>3 DEF IInv

-----------------------------------------------------------------------------
LEMMA MessageIs ==
  ASSUME NEW r \in Requests, NEW role \in Roles
  PROVE  Message(r, role) \in Messages /\ Message(r, role).from = r /\ Message(r, role).role = role
  BY DEF Message, Messages

LEMMA StoredMessages ==
  ASSUME TypeOK
  PROVE  \A c \in Ids : \A i \in DOMAIN history[c] :
           history[c][i] \in Messages /\ history[c][i].from \in Requests
<1> SUFFICES ASSUME NEW c \in Ids, NEW i \in DOMAIN history[c]
             PROVE  history[c][i] \in Messages /\ history[c][i].from \in Requests
  OBVIOUS
<1>1. history[c] \in Seq(Messages)
  BY DEF TypeOK
<1>2. history[c][i] \in Messages
  BY <1>1, ElementOfSeq, LenProperties
<1> QED
  BY <1>2 DEF Messages

LEMMA LoadedType ==
  ASSUME TypeOK, NEW r \in Requests
  PROVE  /\ Loaded(r) \in Seq(Messages)
         /\ HasMessage(r) /\ conv[r] # None /\ Len(history[conv[r]]) <= HistoryLimit =>
              Loaded(r) = history[conv[r]]
<1>1. ASSUME conv[r] # None
      PROVE  /\ GetHistory(conv[r]) \in Seq(Messages)
             /\ Len(history[conv[r]]) <= HistoryLimit => GetHistory(conv[r]) = history[conv[r]]
  <2> DEFINE h == history[conv[r]]
  <2>1. conv[r] \in Ids /\ h \in Seq(Messages)
    BY <1>1 DEF TypeOK
  <2> HIDE DEF h
  <2> DEFINE n == IF Len(h) < HistoryLimit THEN Len(h) ELSE HistoryLimit
  <2>2. Len(h) \in Nat /\ n \in 0..Len(h) /\ (Len(h) <= HistoryLimit => n = Len(h))
    BY <2>1, LenProperties, LimitAssumption
  <2>3. GetHistory(conv[r]) = SubSeq(h, 1, n)
    BY DEF GetHistory, h
  <2> HIDE DEF n
  <2>4. SubSeq(h, 1, n) \in Seq(Messages) /\ SubSeq(h, 1, Len(h)) = h
    <3>1. \A i \in 1..n : h[i] \in Messages
      BY <2>1, <2>2, ElementOfSeq
    <3>2. SubSeq(h, 1, n) = [i \in 1..n |-> h[i]]
      BY <2>1, <2>2
    <3>3. [i \in 1..n |-> h[i]] \in Seq(Messages)
      BY <2>2, <3>1
    <3>4. SubSeq(h, 1, Len(h)) = h
      BY <2>1, <2>2
    <3> QED
      BY <3>2, <3>3, <3>4
  <2> QED
    BY <2>2, <2>3, <2>4 DEF h
<1>2. <<>> \in Seq(Messages)
  OBVIOUS
<1> QED
  BY <1>1, <1>2 DEF Loaded

(* What a step of the pipeline does to the outcome and the calls. *)
LEMMA PipelineStep ==
  ASSUME TypeOK, NEW r \in Requests,
         \/ Pipeline!Reject(r) \/ Pipeline!CallProvider(r) \/ Pipeline!Screen(r)
         \/ Pipeline!Answer(r) \/ Pipeline!Leave(r) \/ Pipeline!Drop(r)
  PROVE  /\ outcome' \in [Requests -> Pipeline!Outcomes]
         /\ calls' \in [Requests -> 0..1]
         /\ \A q \in Requests \ {r} : outcome'[q] = outcome[q] /\ calls'[q] = calls[q]
<1>1. PICK o \in Pipeline!Outcomes : outcome' = [outcome EXCEPT ![r] = o]
  BY DEF Pipeline!Reject, Pipeline!CallProvider, Pipeline!Screen, Pipeline!Answer,
     Pipeline!Leave, Pipeline!Drop, Pipeline!Becomes, Pipeline!Outcomes
<1>2. calls' = calls \/ calls' = [calls EXCEPT ![r] = 1]
  BY DEF Pipeline!Reject, Pipeline!CallProvider, Pipeline!Screen, Pipeline!Answer,
     Pipeline!Leave, Pipeline!Drop
<1>3. outcome \in [Requests -> Pipeline!Outcomes] /\ calls \in [Requests -> 0..1]
  BY DEF TypeOK
<1>4. /\ outcome' \in [Requests -> Pipeline!Outcomes]
      /\ \A q \in Requests \ {r} : outcome'[q] = outcome[q]
  BY <1>1, <1>3
<1>5. calls' \in [Requests -> 0..1] /\ \A q \in Requests \ {r} : calls'[q] = calls[q]
  BY <1>2, <1>3
<1> QED
  BY <1>4, <1>5

LEMMA AfterAnswerIs ==
  ASSUME NEW r \in Requests
  PROVE  /\ AfterAnswer(r) \in {"save_user", "save_assistant", "create", "replied"}
         /\ AfterAnswer(r) = "save_user" => conv[r] # None /\ HasMessage(r)
         /\ AfterAnswer(r) = "save_assistant" => conv[r] # None /\ ~HasMessage(r)
         /\ AfterAnswer(r) = "create" => conv[r] = None /\ HasMessage(r)
         /\ AfterAnswer(r) = "replied" => conv[r] = None
<1>1. CASE conv[r] # None /\ HasMessage(r)
  BY <1>1 DEF AfterAnswer, HasMessage
<1>2. CASE conv[r] # None /\ ~HasMessage(r)
  BY <1>2 DEF AfterAnswer, HasMessage
<1>3. CASE conv[r] = None /\ mode[r] = "run" /\ HasMessage(r)
  BY <1>3 DEF AfterAnswer, HasMessage
<1>4. CASE conv[r] = None /\ ~(mode[r] = "run" /\ HasMessage(r))
  BY <1>4 DEF AfterAnswer, HasMessage
<1> QED
  BY <1>1, <1>2, <1>3, <1>4

LEMMA NewMessageType ==
  ASSUME NEW r \in Requests
  PROVE  /\ NewMessage(r) \in Messages /\ NewMessage(r).from = r
         /\ HasMessage(r) /\ conv[r] # None => NewMessage(r) = Message(r, "user")
  BY MessageIs DEF NewMessage, Roles

(* The prompt Load makes. *)
LEMMA LoadedPrompt ==
  ASSUME TypeOK, NEW r \in Requests, pc[r] = "load", Goto(r, "pipeline"),
         context' = [context EXCEPT ![r] =
                       LET messages == Append(Loaded(r), NewMessage(r))
                       IN  IF conv[r] = None THEN messages ELSE TrimHistory(messages)]
  PROVE  /\ context' \in [Requests -> Seq(Messages)]
         /\ context'[r] # <<>> /\ context'[r][Len(context'[r])].from = r
         /\ HasMessage(r) /\ conv[r] # None /\ Fits(r) =>
              context'[r] = Append(history[conv[r]], Message(r, "user"))
<1> DEFINE messages == Append(Loaded(r), NewMessage(r))
<1>1. /\ messages \in Seq(Messages) /\ messages # <<>>
      /\ messages[Len(messages)] = NewMessage(r)
  BY LoadedType, NewMessageType, AppendProperties
<1>2. /\ HasMessage(r) /\ conv[r] # None /\ Fits(r) =>
           /\ messages = Append(history[conv[r]], Message(r, "user"))
           /\ TotalTokens(messages) <= Window
  BY LoadedType, NewMessageType DEF Fits
<1> HIDE DEF messages
<1>3. context'[r] = IF conv[r] = None THEN messages ELSE TrimHistory(messages)
  BY DEF TypeOK, messages
<1>4. context'[r] \in Seq(Messages)
  BY <1>1, <1>3, TrimKeeps
<1>5. \A q \in Requests \ {r} : context'[q] = context[q]
  BY DEF TypeOK
<1>6. context' = [q \in Requests |-> context'[q]]
  BY DEF TypeOK
<1>7. context' \in [Requests -> Seq(Messages)]
  BY <1>4, <1>5, <1>6 DEF TypeOK
<1>8. context'[r] # <<>> /\ context'[r][Len(context'[r])] = NewMessage(r)
  BY <1>1, <1>3, TrimKeeps
<1>9. NewMessage(r).from = r
  BY NewMessageType
<1>10. HasMessage(r) /\ conv[r] # None /\ Fits(r) => context'[r] = messages
  BY <1>1, <1>2, <1>3, TrimKeeps
<1> QED
  BY <1>2, <1>7, <1>8, <1>9, <1>10

(* A conversation is its history with a message more. *)
LEMMA Grows ==
  ASSUME TypeOK, NEW c \in Ids, NEW m \in Messages,
         history' = [history EXCEPT ![c] = Append(@, m)]
  PROVE  /\ history' \in [Ids -> Seq(Messages)]
         /\ \A d \in Ids \ {c} : history'[d] = history[d]
         /\ history'[c] = Append(history[c], m)
         /\ DOMAIN history'[c] = 1..(Len(history[c]) + 1)
         /\ Len(history[c]) \in Nat /\ DOMAIN history[c] = 1..Len(history[c])
         /\ \A i \in DOMAIN history[c] : history'[c][i] = history[c][i]
         /\ history'[c][Len(history[c]) + 1] = m
<1>1. history[c] \in Seq(Messages)
  BY DEF TypeOK
<1>2. history'[c] = Append(history[c], m) /\ \A d \in Ids \ {c} : history'[d] = history[d]
  BY DEF TypeOK
<1>3. Append(history[c], m) \in Seq(Messages)
  BY <1>1, AppendProperties
<1>4. history' \in [Ids -> Seq(Messages)]
  BY <1>3 DEF TypeOK
<1> QED
  BY <1>1, <1>2, <1>4, AppendProperties, LenProperties

-----------------------------------------------------------------------------
(* One lemma per action: it keeps the invariant. *)
LEMMA SendKeeps ==
  ASSUME IInv, NEW r \in Requests, Send(r)
  PROVE  IInv'
<1> USE DEF request, pipeline, database
<1>1. /\ pc[r] = "unsent" /\ Goto(r, "load")
      /\ UNCHANGED <<context, outcome, calls, conversation, history, save_failed>>
  BY DEF Send
<1>2. PICK id \in {None} \cup {i \in Ids : conversation[i] # "unused"} : conv' = [conv EXCEPT ![r] = id]
  BY DEF Send
<1>3. PICK how \in {"run", "stream"}, s \in {"message", "messages", "both"} :
        mode' = [mode EXCEPT ![r] = how] /\ shape' = [shape EXCEPT ![r] = s]
  BY DEF Send
<1>4. earlier' = [earlier EXCEPT ![r] = {q \in Requests : pc[q] = "replied"}]
  BY DEF Send
<1>5. TypeOK'
  BY <1>1, <1>2, <1>3, <1>4 DEF IInv, TypeOK, Goto
<1>6. /\ pc'[r] = "load"
      /\ \A q \in Requests \ {r} :
           pc'[q] = pc[q] /\ conv'[q] = conv[q] /\ shape'[q] = shape[q] /\ earlier'[q] = earlier[q]
  BY <1>1, <1>2, <1>3, <1>4 DEF IInv, TypeOK, Goto
<1>7. outcome[r] = "pending" /\ calls[r] = 0
  BY <1>1 DEF IInv, Progress
<1>8. Progress'
  BY <1>1, <1>6, <1>7 DEF IInv, Progress, HasMessage
<1>9. NamedIsMade'
  BY <1>1, <1>2, <1>6 DEF IInv, TypeOK, NamedIsMade
<1>10. \A c \in Ids : \A i \in DOMAIN history[c] :
         history[c][i].from \in Requests \ {r} /\ Contents(c)' = Contents(c)
  <2> SUFFICES ASSUME NEW c \in Ids, NEW i \in DOMAIN history[c]
               PROVE  history[c][i].from \in Requests \ {r} /\ Contents(c)' = Contents(c)
    OBVIOUS
  <2>1. history[c][i] \in Messages
    BY ElementOfSeq, LenProperties DEF IInv, TypeOK
  <2>2. outcome[history[c][i].from] = "answered"
    BY DEF IInv, Written
  <2> QED
    BY <1>1, <1>7, <2>1, <2>2 DEF Messages, Contents
<1>11. Written'
  BY <1>1, <1>6, <1>10 DEF IInv, Written
<1>12. QuestionSaved'
  BY <1>1, <1>6 DEF IInv, QuestionSaved, HasMessage, Contents, Message
<1>13. EarlierReplied'
  <2>1. \A q \in earlier'[r] : pc[q] = "replied" /\ q \in Requests
    BY <1>4 DEF IInv, TypeOK
  <2>2. \A p \in Requests \ {r} : \A q \in earlier[p] : pc[q] = "replied" /\ q \in Requests
    BY DEF IInv, TypeOK, EarlierReplied
  <2>3. \A q \in Requests : pc[q] = "replied" => pc'[q] = "replied"
    BY <1>1, <1>6
  <2> QED
    BY <1>6, <2>1, <2>2, <2>3 DEF EarlierReplied
<1>14. EndsWithOwn'
  BY <1>1, <1>6, <1>7 DEF IInv, EndsWithOwn
<1>15. ContextComplete'
  <2>1. \A q \in Requests \ {r} : HasMessage(q)' = HasMessage(q) /\ Fits(q)' = Fits(q)
    BY <1>1, <1>6 DEF HasMessage, Fits
  <2>2. ASSUME NEW q \in Requests \ {r} PROVE Contents(conv[q])' = Contents(conv[q])
    BY <1>1, <1>6 DEF Contents
  <2>3. /\ UNCHANGED context /\ pc'[r] # "pipeline"
        /\ \A q \in Requests \ {r} : pc'[q] = pc[q] /\ conv'[q] = conv[q] /\ earlier'[q] = earlier[q]
    BY <1>1, <1>6
  <2>4. ASSUME NEW q \in Requests \ {r},
               pc[q] = "pipeline" /\ HasMessage(q) /\ conv[q] # None /\ Fits(q)
        PROVE  \A p \in earlier[q] : \A m \in Contents(conv[q]) :
                 m.from = p => \E i \in DOMAIN context[q] : context[q][i] = m
    BY <2>4 DEF IInv, ContextComplete
  <2> SUFFICES ASSUME NEW q \in Requests, pc'[q] = "pipeline" /\ HasMessage(q)' /\ conv'[q] # None /\ Fits(q)'
               PROVE  \A p \in earlier'[q] : \A m \in Contents(conv[q])' :
                        m.from = p => \E i \in DOMAIN context'[q] : context'[q][i] = m
    BY DEF ContextComplete
  <2>5. q \in Requests \ {r}
    BY <2>3
  <2>6. pc[q] = "pipeline" /\ HasMessage(q) /\ conv[q] # None /\ Fits(q)
    BY <2>1, <2>3, <2>5
  <2>7. earlier'[q] = earlier[q] /\ context'[q] = context[q] /\ Contents(conv[q])' = Contents(conv[q])
    BY <2>2, <2>3, <2>5
  <2> QED
    BY <2>4, <2>5, <2>6, <2>7
<1>16. AnswersFollowQuestions'
  BY <1>1, <1>6, <1>10 DEF IInv, AnswersFollowQuestions, HasMessage, Message
<1>17. RepliesRemembered'
  BY <1>1, <1>6 DEF IInv, RepliesRemembered, HasMessage, Contents, Message
<1>18. DeletedForGood'
  BY <1>1 DEF IInv, DeletedForGood
<1> QED
  BY <1>5, <1>8, <1>9, <1>11, <1>12, <1>13, <1>14, <1>15, <1>16, <1>17, <1>18 DEF IInv

LEMMA LoadKeeps ==
  ASSUME IInv, NEW r \in Requests, Load(r)
  PROVE  IInv'
<1> USE DEF request, pipeline, database
<1>1. /\ pc[r] = "load" /\ outcome[r] = "pending" /\ calls[r] = 0
      /\ UNCHANGED <<mode, shape, conv, outcome, calls, conversation, history, save_failed, earlier>>
  BY DEF Load, IInv, Progress
<1>2. /\ \A q \in Requests \ {r} : pc'[q] = pc[q]
      /\ pc'[r] \in {"pipeline", "failed"}
      /\ pc' \in [Requests -> {"unsent", "load", "pipeline", "create", "save_user",
                               "save_assistant", "replied", "failed", "gone"}]
  BY DEF Load, Goto, IInv, TypeOK
<1>3. \/ /\ UNCHANGED context /\ pc'[r] = "failed"
      \/ /\ context' \in [Requests -> Seq(Messages)]
         /\ context'[r] # <<>> /\ context'[r][Len(context'[r])].from = r
         /\ \A q \in Requests \ {r} : context'[q] = context[q]
         /\ HasMessage(r) /\ conv[r] # None /\ Fits(r) =>
              context'[r] = Append(history[conv[r]], Message(r, "user"))
  <2>1. CASE Goto(r, "failed") /\ UNCHANGED context
    BY <2>1 DEF Goto, IInv, TypeOK
  <2>2. CASE /\ Goto(r, "pipeline")
             /\ context' = [context EXCEPT ![r] =
                              LET messages == Append(Loaded(r), NewMessage(r))
                              IN  IF conv[r] = None THEN messages ELSE TrimHistory(messages)]
    <3>1. \A q \in Requests \ {r} : context'[q] = context[q]
      BY <2>2 DEF IInv, TypeOK
    <3>2. TypeOK
      BY DEF IInv
    <3> QED
      BY <1>1, <2>2, <3>1, <3>2, LoadedPrompt
  <2> QED
    BY <2>1, <2>2 DEF Load
<1>4. TypeOK'
  BY <1>1, <1>2, <1>3 DEF IInv, TypeOK
<1>5. /\ \A q \in Requests : HasMessage(q)' = HasMessage(q) /\ Fits(q)' = Fits(q)
      /\ \A c \in Ids : Contents(c)' = Contents(c)
  BY <1>1 DEF HasMessage, Fits, Contents, Message
<1>6. Progress'
  BY <1>1, <1>2, <1>5 DEF IInv, Progress
<1>7. NamedIsMade' /\ DeletedForGood'
  BY <1>1 DEF IInv, NamedIsMade, DeletedForGood
<1>8. Written'
  <2>1. \A c \in Ids : \A i \in DOMAIN history[c] : history[c][i].from # r
    BY <1>1 DEF IInv, Written
  <2>2. \A c \in Ids : \A i \in DOMAIN history[c] : history[c][i] \in Messages
    BY ElementOfSeq, LenProperties DEF IInv, TypeOK
  <2>3. \A c \in Ids : \A i \in DOMAIN history[c] : pc'[history[c][i].from] = pc[history[c][i].from]
    BY <1>2, <2>1, <2>2 DEF Messages
  <2> QED
    BY <1>1, <2>3 DEF IInv, Written
<1>9. QuestionSaved' /\ RepliesRemembered'
  <2>1. \A q \in Requests : conv[q] # None => Contents(conv[q])' = Contents(conv[q])
    BY <1>1, <1>5 DEF IInv, TypeOK
  <2>2. \A q \in Requests : pc[q] = "save_assistant" => conv[q] # None
    BY DEF IInv, Progress
  <2>3. QuestionSaved'
    BY <1>1, <1>2, <1>5, <2>1, <2>2 DEF IInv, QuestionSaved
  <2>4. RepliesRemembered'
    BY <1>1, <1>2, <1>5, <2>1 DEF IInv, RepliesRemembered
  <2> QED
    BY <2>3, <2>4
<1>10. EarlierReplied'
  BY <1>1, <1>2 DEF IInv, TypeOK, EarlierReplied
<1>11. EndsWithOwn'
  BY <1>1, <1>2, <1>3 DEF IInv, EndsWithOwn
<1>12. ContextComplete'
  <2> SUFFICES ASSUME NEW q \in Requests, pc'[q] = "pipeline", HasMessage(q), conv[q] # None, Fits(q),
                      NEW p \in earlier[q], NEW m \in Contents(conv[q]), m.from = p
               PROVE  \E i \in DOMAIN context'[q] : context'[q][i] = m
    <3>1. \A q \in Requests : conv[q] # None => Contents(conv[q])' = Contents(conv[q])
      BY <1>1, <1>5 DEF IInv, TypeOK
    <3> QED
      BY <1>1, <1>5, <3>1 DEF ContextComplete
  <2>1. CASE q = r
    <3>1. /\ context'[r] = Append(history[conv[r]], Message(r, "user"))
          /\ history[conv[r]] \in Seq(Messages)
      BY <1>3, <2>1 DEF IInv, TypeOK
    <3>2. PICK i \in DOMAIN history[conv[r]] : history[conv[r]][i] = m
      BY <2>1 DEF Contents
    <3>3. i \in DOMAIN context'[r] /\ context'[r][i] = m
      BY <3>1, <3>2, AppendProperties, LenProperties
    <3> QED
      BY <2>1, <3>3
  <2>2. CASE q # r
    BY <1>2, <1>3, <2>2 DEF IInv, ContextComplete
  <2> QED
    BY <2>1, <2>2
<1>13. AnswersFollowQuestions'
  BY <1>1, <1>5 DEF IInv, AnswersFollowQuestions, HasMessage, Message
<1> QED
  BY <1>4, <1>6, <1>7, <1>8, <1>9, <1>10, <1>11, <1>12, <1>13 DEF IInv

(* A step of r's coroutine that saves nothing and leaves its prompt alone. *)
LEMMA CoroutineKeeps ==
  ASSUME IInv, NEW r \in Requests, TypeOK', Progress',
         UNCHANGED <<mode, shape, conv, context, conversation, history, save_failed, earlier>>,
         \A q \in Requests \ {r} : pc'[q] = pc[q] /\ outcome'[q] = outcome[q] /\ calls'[q] = calls[q],
         pc[r] # "replied",
         outcome[r] = "answered" => outcome'[r] = "answered" /\ pc'[r] = "gone",
         pc'[r] = "pipeline" => pc[r] = "pipeline",
         calls'[r] = 1 => pc[r] = "pipeline" \/ calls[r] = 1,
         pc'[r] = "save_assistant" => ~HasMessage(r),
         pc'[r] = "replied" => conv[r] = None
  PROVE  IInv'
<1>1. /\ \A q \in Requests : HasMessage(q)' = HasMessage(q) /\ Fits(q)' = Fits(q)
      /\ \A q \in Requests : conv[q] # None => Contents(conv[q])' = Contents(conv[q])
  BY DEF HasMessage, Fits, Contents
<1>2. NamedIsMade' /\ DeletedForGood'
  BY DEF IInv, NamedIsMade, DeletedForGood
<1>3. Written'
  <2>1. \A c \in Ids : \A i \in DOMAIN history[c] : history[c][i].from \in Requests
    BY StoredMessages DEF IInv
  <2>2. \A q \in Requests : outcome[q] = "answered" =>
          /\ outcome'[q] = "answered"
          /\ pc[q] # "save_user" => pc'[q] # "save_user"
          /\ pc[q] # "save_assistant" => pc'[q] # "save_assistant"
    OBVIOUS
  <2> QED
    BY <2>1, <2>2 DEF IInv, Written
<1>4. QuestionSaved'
  <2>1. \A q \in Requests : pc[q] = "save_assistant" => conv[q] # None
    BY DEF IInv, Progress
  <2> QED
    BY <1>1, <2>1 DEF IInv, QuestionSaved
<1>5. RepliesRemembered'
  BY <1>1 DEF IInv, RepliesRemembered
<1>6. EarlierReplied'
  BY DEF IInv, TypeOK, EarlierReplied
<1>7. EndsWithOwn'
  BY DEF IInv, EndsWithOwn
<1>8. ContextComplete'
  BY <1>1 DEF IInv, ContextComplete
<1>9. AnswersFollowQuestions'
  <2>1. \A c \in Ids : \A i \in DOMAIN history[c] : history[c][i].from \in Requests
    BY StoredMessages DEF IInv
  <2> QED
    BY <1>1, <2>1 DEF IInv, AnswersFollowQuestions, Message
<1> QED
  BY <1>2, <1>3, <1>4, <1>5, <1>6, <1>7, <1>8, <1>9 DEF IInv

LEMMA RunPipelineKeeps ==
  ASSUME IInv, NEW r \in Requests, RunPipeline(r)
  PROVE  IInv'
<1> USE DEF request, database
<1>1. /\ pc[r] = "pipeline" /\ outcome[r] \in {"pending", "screened"}
      /\ UNCHANGED <<mode, shape, conv, context, conversation, history, save_failed, earlier>>
  BY DEF RunPipeline, IInv, Progress
<1>2. TypeOK
  BY DEF IInv
<1>3. /\ outcome' \in [Requests -> Pipeline!Outcomes]
      /\ calls' \in [Requests -> 0..1]
      /\ \A q \in Requests \ {r} : outcome'[q] = outcome[q] /\ calls'[q] = calls[q]
  BY <1>2, PipelineStep DEF RunPipeline
<1>4. /\ pc' \in [Requests -> {"unsent", "load", "pipeline", "create", "save_user",
                               "save_assistant", "replied", "failed", "gone"}]
      /\ \A q \in Requests \ {r} : pc'[q] = pc[q]
  BY <1>2, AfterAnswerIs DEF RunPipeline, Goto, TypeOK
<1>5. \/ pc'[r] = "failed" /\ outcome'[r] = "rejected"
      \/ pc'[r] = "failed" /\ outcome'[r] = "failed"
      \/ pc'[r] = "pipeline" /\ outcome'[r] = "pending"
      \/ pc'[r] = "pipeline" /\ outcome'[r] = "screened" /\ calls'[r] = 1
      \/ pc'[r] = AfterAnswer(r) /\ outcome'[r] = "answered" /\ calls'[r] = 1
  <2> USE <1>1, <1>2 DEF TypeOK, Goto, Pipeline!Becomes
  <2>1. CASE Pipeline!Reject(r) /\ Goto(r, "failed")
    BY <2>1 DEF Pipeline!Reject
  <2>2. CASE Pipeline!CallProvider(r) /\ Goto(r, IF outcome'[r] = "failed" THEN "failed" ELSE "pipeline")
    <3>1. CASE Pipeline!Becomes(r, "pending")
      BY <2>2, <3>1
    <3>2. CASE Pipeline!Becomes(r, "failed")
      BY <2>2, <3>2
    <3> QED
      BY <2>2, <3>1, <3>2 DEF Pipeline!CallProvider
  <2>3. CASE Pipeline!Screen(r) /\ UNCHANGED pc
    BY <2>3 DEF Pipeline!Screen
  <2>4. CASE Pipeline!Answer(r) /\ Goto(r, AfterAnswer(r))
    BY <2>4 DEF Pipeline!Answer, IInv, Progress
  <2> QED
    BY <2>1, <2>2, <2>3, <2>4 DEF RunPipeline
<1>6. TypeOK'
  BY <1>1, <1>2, <1>3, <1>4 DEF TypeOK
<1>7. Progress'
  <2>1. \A q \in Requests : HasMessage(q)' = HasMessage(q)
    BY <1>1 DEF HasMessage
  <2> QED
    BY <1>1, <1>3, <1>4, <1>5, <2>1, AfterAnswerIs DEF IInv, Progress
<1> QED
  BY <1>1, <1>3, <1>4, <1>5, <1>6, <1>7, AfterAnswerIs, CoroutineKeeps

LEMMA AbandonKeeps ==
  ASSUME IInv, NEW r \in Requests, Abandon(r)
  PROVE  IInv'
<1> USE DEF request, database, pipeline
<1>1. /\ pc[r] \notin {"unsent", "replied", "failed", "gone"} /\ Goto(r, "gone")
      /\ UNCHANGED <<mode, shape, conv, context, conversation, history, save_failed, earlier>>
      /\ Pipeline!Drop(r) \/ Pipeline!Leave(r) \/ (outcome[r] = "answered" /\ UNCHANGED <<outcome, calls>>)
  BY DEF Abandon
<1>2. TypeOK
  BY DEF IInv
<1>3. /\ outcome' \in [Requests -> Pipeline!Outcomes]
      /\ calls' \in [Requests -> 0..1]
      /\ \A q \in Requests \ {r} : outcome'[q] = outcome[q] /\ calls'[q] = calls[q]
  <2>1. CASE Pipeline!Drop(r) \/ Pipeline!Leave(r)
    BY <1>2, <2>1, PipelineStep
  <2>2. CASE UNCHANGED <<outcome, calls>>
    BY <1>2, <2>2 DEF TypeOK
  <2> QED
    BY <1>1, <2>1, <2>2
<1>4. pc'[r] = "gone" /\ \A q \in Requests \ {r} : pc'[q] = pc[q]
  BY <1>1, <1>2 DEF TypeOK, Goto
<1>5. /\ calls'[r] = calls[r]
      /\ outcome'[r] \in {"dropped", "failed"} \/ (outcome'[r] = "answered" /\ outcome[r] = "answered")
      /\ outcome[r] = "answered" => outcome'[r] = "answered"
  <2> USE <1>2 DEF TypeOK, Pipeline!Becomes
  <2>1. CASE Pipeline!Drop(r)
    BY <2>1 DEF Pipeline!Drop, Pipeline!Running
  <2>2. CASE Pipeline!Leave(r)
    BY <2>2 DEF Pipeline!Leave
  <2>3. CASE outcome[r] = "answered" /\ UNCHANGED <<outcome, calls>>
    BY <2>3
  <2> QED
    BY <1>1, <2>1, <2>2, <2>3
<1>6. TypeOK'
  BY <1>1, <1>2, <1>3 DEF TypeOK, Goto
<1>7. Progress'
  <2>1. \A q \in Requests : HasMessage(q)' = HasMessage(q)
    BY <1>1 DEF HasMessage
  <2> QED
    BY <1>1, <1>3, <1>4, <1>5, <2>1 DEF IInv, Progress
<1> QED
  BY <1>1, <1>3, <1>4, <1>5, <1>6, <1>7, CoroutineKeeps

(* A reply without its saving: any exception while saving ends it there. *)
LEMMA SaveFailsKeeps ==
  ASSUME IInv, NEW r \in Requests, pc[r] \in {"create", "save_user", "save_assistant"},
         SaveFails(r),
         UNCHANGED <<mode, shape, conv, context, outcome, calls, conversation, history, earlier>>
  PROVE  IInv'
<1>1. /\ pc'[r] = "replied" /\ \A q \in Requests \ {r} : pc'[q] = pc[q]
      /\ save_failed' = save_failed \cup {r}
      /\ outcome[r] = "answered"
  BY DEF SaveFails, Goto, IInv, TypeOK, Progress
<1>2. TypeOK'
  BY DEF SaveFails, Goto, IInv, TypeOK
<1>3. /\ \A q \in Requests : HasMessage(q)' = HasMessage(q) /\ Fits(q)' = Fits(q)
      /\ \A q \in Requests : conv[q] # None => Contents(conv[q])' = Contents(conv[q])
  BY DEF HasMessage, Fits, Contents
<1>4. Progress'
  BY <1>1, <1>3 DEF IInv, Progress
<1>5. NamedIsMade' /\ DeletedForGood'
  BY DEF IInv, NamedIsMade, DeletedForGood
<1>6. Written'
  <2>1. \A c \in Ids : \A i \in DOMAIN history[c] : history[c][i].from \in Requests
    BY StoredMessages DEF IInv
  <2> QED
    BY <1>1, <2>1 DEF IInv, Written
<1>7. QuestionSaved'
  <2>1. \A q \in Requests : pc[q] = "save_assistant" => conv[q] # None
    BY DEF IInv, Progress
  <2> QED
    BY <1>1, <1>3, <2>1 DEF IInv, QuestionSaved
<1>8. RepliesRemembered'
  BY <1>1, <1>3 DEF IInv, RepliesRemembered
<1>9. EarlierReplied'
  BY <1>1 DEF IInv, TypeOK, EarlierReplied
<1>10. EndsWithOwn'
  BY <1>1 DEF IInv, EndsWithOwn
<1>11. ContextComplete'
  BY <1>1, <1>3 DEF IInv, ContextComplete
<1>12. AnswersFollowQuestions'
  <2>1. \A c \in Ids : \A i \in DOMAIN history[c] : history[c][i].from \in Requests
    BY StoredMessages DEF IInv
  <2> QED
    BY <1>3, <2>1 DEF IInv, AnswersFollowQuestions, Message
<1> QED
  BY <1>2, <1>4, <1>5, <1>6, <1>7, <1>8, <1>9, <1>10, <1>11, <1>12 DEF IInv

LEMMA CreateConversationKeeps ==
  ASSUME IInv, NEW r \in Requests, CreateConversation(r)
  PROVE  IInv'
<1> USE DEF pipeline
<1>1. CASE SaveFails(r) /\ UNCHANGED <<conversation, conv>>
  <2>1. /\ pc[r] = "create"
        /\ UNCHANGED <<mode, shape, conv, context, outcome, calls, conversation, history, earlier>>
    BY <1>1 DEF CreateConversation
  <2> QED
    BY <1>1, <2>1, SaveFailsKeeps
<1>2. ASSUME NEW c \in {i \in Ids : conversation[i] = "unused"},
             conversation' = [conversation EXCEPT ![c] = "live"],
             conv' = [conv EXCEPT ![r] = c],
             Goto(r, "save_user"),
             UNCHANGED save_failed
      PROVE  IInv'
  <2>1. /\ pc[r] = "create" /\ conv[r] = None /\ outcome[r] = "answered" /\ HasMessage(r)
        /\ UNCHANGED <<mode, shape, context, outcome, calls, history, earlier, save_failed>>
    BY <1>2 DEF CreateConversation, IInv, Progress
  <2>2. /\ pc'[r] = "save_user" /\ conv'[r] = c /\ conversation'[c] = "live"
        /\ \A q \in Requests \ {r} : pc'[q] = pc[q] /\ conv'[q] = conv[q]
        /\ \A d \in Ids \ {c} : conversation'[d] = conversation[d]
        /\ conversation[c] = "unused" /\ c # None
    BY <1>2, IdsAssumption DEF Goto, IInv, TypeOK
  <2>3. TypeOK'
    BY <1>2, <2>1 DEF Goto, IInv, TypeOK
  <2>4. /\ \A q \in Requests : HasMessage(q)' = HasMessage(q)
        /\ \A q \in Requests \ {r} : Fits(q)' = Fits(q)
        /\ \A q \in Requests \ {r} : conv[q] # None =>
             /\ conv[q] # c /\ conversation'[conv[q]] = conversation[conv[q]]
             /\ Contents(conv[q])' = Contents(conv[q])
    BY <2>1, <2>2 DEF HasMessage, Fits, Contents, IInv, TypeOK, NamedIsMade
  <2>5. history[c] = <<>>
    BY <2>2 DEF IInv, DeletedForGood
  <2>6. Progress'
    BY <2>1, <2>2, <2>4 DEF IInv, Progress
  <2>7. NamedIsMade'
    BY <2>2, <2>4 DEF IInv, NamedIsMade
  <2>8. DeletedForGood'
    BY <2>1, <2>2, <2>5 DEF IInv, DeletedForGood
  <2>9. \A d \in Ids : \A i \in DOMAIN history[d] :
          history[d][i].from \in Requests \ {r}
    <3>1. \A d \in Ids : \A i \in DOMAIN history[d] : conv[history[d][i].from] = d
      BY DEF IInv, Written
    <3>2. \A d \in Ids : \A i \in DOMAIN history[d] : history[d][i].from \in Requests
      BY StoredMessages DEF IInv
    <3> QED
      BY <2>1, <3>1, <3>2, IdsAssumption
  <2>10. Written'
    BY <2>1, <2>2, <2>9 DEF IInv, Written
  <2>11. QuestionSaved'
    <3>1. \A q \in Requests : pc[q] = "save_assistant" => conv[q] # None
      BY DEF IInv, Progress
    <3> QED
      BY <2>2, <2>4, <3>1 DEF IInv, QuestionSaved
  <2>12. RepliesRemembered'
    BY <2>1, <2>2, <2>4 DEF IInv, RepliesRemembered
  <2>13. EarlierReplied'
    BY <2>1, <2>2 DEF IInv, TypeOK, EarlierReplied
  <2>14. EndsWithOwn'
    BY <2>1, <2>2 DEF IInv, EndsWithOwn
  <2>15. ContextComplete'
    BY <2>1, <2>2, <2>4 DEF IInv, ContextComplete
  <2>16. AnswersFollowQuestions'
    BY <2>1, <2>4, <2>9 DEF IInv, AnswersFollowQuestions, Message
  <2> QED
    BY <2>3, <2>6, <2>7, <2>8, <2>10, <2>11, <2>12, <2>13, <2>14, <2>15, <2>16 DEF IInv
<1> QED
  BY <1>1, <1>2 DEF CreateConversation

-----------------------------------------------------------------------------
(* What fits with a message more fitted without it. *)
LEMMA FitsShrinks ==
  ASSUME NEW h \in Seq(Messages), NEW m \in Messages, NEW u \in Messages,
         TotalTokens(Append(Append(h, m), u)) <= Window
  PROVE  TotalTokens(Append(h, u)) <= Window
<1>1. Append(h, m) \in Seq(Messages)
  BY AppendProperties
<1>2. /\ TotalTokens(Append(Append(h, m), u)) = TotalTokens(Append(h, m)) + Tokens[u.role]
      /\ TotalTokens(Append(h, m)) = TotalTokens(h) + Tokens[m.role]
      /\ TotalTokens(Append(h, u)) = TotalTokens(h) + Tokens[u.role]
      /\ TotalTokens(h) \in Nat
  BY <1>1, TotalTokensAppend
<1>3. Tokens[m.role] \in Nat /\ Tokens[u.role] \in Nat /\ Window \in Nat
  BY TokensAssumption, LimitAssumption DEF Messages
<1> QED
  BY <1>2, <1>3

(* A message saved to a conversation that is there. *)
LEMMA SaveKeeps ==
  ASSUME IInv, NEW r \in Requests, NEW role \in {"user", "assistant"},
         pc[r] = IF role = "user" THEN "save_user" ELSE "save_assistant",
         Goto(r, IF role = "user" THEN "save_assistant" ELSE "replied"),
         conversation[conv[r]] = "live",
         history' = [history EXCEPT ![conv[r]] = Append(@, Message(r, role))],
         UNCHANGED <<mode, shape, conv, context, outcome, calls, conversation, save_failed, earlier>>
  PROVE  IInv'
<1> DEFINE c == conv[r]
<1> DEFINE m == Message(r, role)
<1> DEFINE n == Len(history[c])
<1>1. /\ c \in Ids /\ c # None /\ outcome[r] = "answered" /\ calls[r] = 1
      /\ role = "user" => HasMessage(r)
  BY DEF IInv, TypeOK, Progress
<1>2. m \in Messages /\ m.from = r /\ m.role = role
  BY MessageIs DEF Roles
<1>3. TypeOK
  BY DEF IInv
<1>4. /\ history' \in [Ids -> Seq(Messages)]
      /\ \A d \in Ids \ {c} : history'[d] = history[d]
      /\ history'[c] = Append(history[c], m)
      /\ DOMAIN history'[c] = 1..(n + 1)
      /\ n \in Nat /\ DOMAIN history[c] = 1..n
      /\ \A i \in DOMAIN history[c] : history'[c][i] = history[c][i]
      /\ history'[c][n + 1] = m
  BY <1>1, <1>2, <1>3, Grows
<1>5. /\ pc'[r] = IF role = "user" THEN "save_assistant" ELSE "replied"
      /\ \A q \in Requests \ {r} : pc'[q] = pc[q]
  BY <1>3 DEF TypeOK, Goto
<1>6. TypeOK'
  BY <1>3, <1>4 DEF TypeOK, Goto
<1>7. \A q \in Requests : HasMessage(q)' = HasMessage(q)
  BY DEF HasMessage
<1>8. /\ \A d \in Ids \ {c} : Contents(d)' = Contents(d)
      /\ \A e : e \in Contents(c)' <=> e \in Contents(c) \/ e = m
  BY <1>4 DEF Contents
<1>9. Progress'
  BY <1>1, <1>5, <1>7 DEF IInv, Progress
<1>10. NamedIsMade'
  BY DEF IInv, NamedIsMade
<1>11. DeletedForGood'
  BY <1>4 DEF IInv, DeletedForGood
<1>12. Written'
  <2> SUFFICES ASSUME NEW d \in Ids, NEW i \in DOMAIN history'[d]
               PROVE  LET e == history'[d][i] IN
                      /\ conv[e.from] = d /\ outcome[e.from] = "answered"
                      /\ e.role \in {"user", "assistant"}
                      /\ pc'[e.from] # "save_user"
                      /\ e.role = "assistant" => pc'[e.from] # "save_assistant"
    BY DEF Written
  <2>1. CASE d = c /\ i = n + 1
    <3>1. history'[d][i] = m
      BY <1>4, <2>1
    <3>2. m.from = r /\ m.role = role
      BY <1>2
    <3> HIDE DEF m
    <3> QED
      BY <1>1, <1>5, <2>1, <3>1, <3>2
  <2>2. CASE ~(d = c /\ i = n + 1)
    <3>1. i \in DOMAIN history[d] /\ history'[d][i] = history[d][i]
      BY <1>1, <1>4, <2>2
    <3>2. history[d][i].from \in Requests
      BY <1>3, <3>1, StoredMessages
    <3>3. /\ conv[history[d][i].from] = d /\ outcome[history[d][i].from] = "answered"
          /\ history[d][i].role \in {"user", "assistant"}
          /\ pc[history[d][i].from] # "save_user"
          /\ history[d][i].role = "assistant" => pc[history[d][i].from] # "save_assistant"
      BY <3>1 DEF IInv, Written
    <3> QED
      BY <1>5, <3>1, <3>2, <3>3
  <2> QED
    BY <2>1, <2>2
<1>13. QuestionSaved'
  <2> SUFFICES ASSUME NEW q \in Requests, pc'[q] = "save_assistant", HasMessage(q),
                      conversation[conv[q]] = "live"
               PROVE  Message(q, "user") \in Contents(conv[q])'
    BY <1>7 DEF QuestionSaved
  <2>1. CASE q = r
    BY <1>5, <1>8, <2>1
  <2>2. CASE q # r
    <3>1. Message(q, "user") \in Contents(conv[q]) /\ conv[q] \in Ids
      BY <1>3, <1>5, <2>2 DEF IInv, QuestionSaved, Progress, TypeOK
    <3> QED
      BY <1>8, <3>1
  <2> QED
    BY <2>1, <2>2
<1>14. RepliesRemembered'
  <2> SUFFICES ASSUME NEW q \in Requests, pc'[q] = "replied", q \notin save_failed, conv[q] # None,
                      conversation[conv[q]] = "live"
               PROVE  /\ Message(q, "assistant") \in Contents(conv[q])'
                      /\ HasMessage(q) => Message(q, "user") \in Contents(conv[q])'
    BY <1>7 DEF RepliesRemembered
  <2>1. CASE q = r
    <3>1. HasMessage(r) => Message(r, "user") \in Contents(c)
      BY <1>5, <2>1 DEF IInv, QuestionSaved
    <3> QED
      BY <1>5, <1>8, <2>1, <3>1
  <2>2. CASE q # r
    <3>1. /\ Message(q, "assistant") \in Contents(conv[q]) /\ conv[q] \in Ids
          /\ HasMessage(q) => Message(q, "user") \in Contents(conv[q])
      BY <1>3, <1>5, <2>2 DEF IInv, RepliesRemembered, TypeOK
    <3> QED
      BY <1>8, <3>1
  <2> QED
    BY <2>1, <2>2
<1>15. EarlierReplied'
  BY <1>5 DEF IInv, TypeOK, EarlierReplied
<1>16. EndsWithOwn'
  BY <1>5 DEF IInv, EndsWithOwn
<1>17. ContextComplete'
  <2> SUFFICES ASSUME NEW q \in Requests, pc'[q] = "pipeline", HasMessage(q), conv[q] # None, Fits(q)',
                      NEW p \in earlier[q], NEW e \in Contents(conv[q])', e.from = p
               PROVE  \E i \in DOMAIN context[q] : context[q][i] = e
    BY <1>7 DEF ContextComplete
  <2>1. q # r /\ pc[q] = "pipeline" /\ conv[q] \in Ids
    BY <1>3, <1>5 DEF TypeOK
  <2>2. p # r
    BY <1>5 DEF IInv, EarlierReplied
  <2>3. e \in Contents(conv[q])
    BY <1>2, <1>8, <2>1, <2>2
  <2>4. Fits(q)
    <3>1. CASE conv[q] = c
      <4>1. /\ Len(history'[c]) <= HistoryLimit
            /\ TotalTokens(Append(history'[c], Message(q, "user"))) <= Window
        BY <3>1 DEF Fits
      <4>2. history[c] \in Seq(Messages) /\ Message(q, "user") \in Messages
        BY <1>1, <1>3, MessageIs DEF TypeOK, Roles
      <4>3. TotalTokens(Append(history[c], Message(q, "user"))) <= Window
        BY <1>2, <1>4, <4>1, <4>2, FitsShrinks
      <4>4. Len(history'[c]) = n + 1
        BY <1>2, <1>4, <4>2, AppendProperties
      <4>5. Len(history[c]) <= HistoryLimit
        BY <1>4, <4>1, <4>4, LimitAssumption
      <4> QED
        BY <3>1, <4>3, <4>5 DEF Fits
    <3>2. CASE conv[q] # c
      BY <1>4, <2>1, <3>2 DEF Fits
    <3> QED
      BY <3>1, <3>2
  <2>5. ContextComplete
    BY DEF IInv
  <2> QED
    BY <2>1, <2>3, <2>4, <2>5 DEF ContextComplete
<1>18. AnswersFollowQuestions'
  <2>1. \A j \in DOMAIN history[c] : history[c][j] # m
    BY <1>1, <1>2 DEF IInv, Written
  <2>2. m.role = "assistant" /\ HasMessage(r) => \E j \in 1..n : history[c][j] = Message(r, "user")
    <3>1. m.role = "assistant" /\ HasMessage(r) => Message(r, "user") \in Contents(c)
      BY <1>2 DEF IInv, QuestionSaved
    <3> QED
      BY <1>4, <3>1 DEF Contents
  <2>3. \A d \in Ids : \A i \in DOMAIN history[d] :
          /\ \A j \in DOMAIN history[d] : history[d][i] = history[d][j] => i = j
          /\ history[d][i].role = "assistant" /\ HasMessage(history[d][i].from) =>
               \E j \in 1..(i - 1) : history[d][j] = Message(history[d][i].from, "user")
    BY DEF IInv, AnswersFollowQuestions
  <2>4. ASSUME NEW d \in Ids \ {c}, NEW i \in DOMAIN history'[d]
        PROVE  /\ \A j \in DOMAIN history'[d] : history'[d][i] = history'[d][j] => i = j
               /\ history'[d][i].role = "assistant" /\ HasMessage(history'[d][i].from) =>
                    \E j \in 1..(i - 1) : history'[d][j] = Message(history'[d][i].from, "user")
    BY <1>4, <2>3
  <2>5. ASSUME NEW i \in 1..n
        PROVE  /\ \A j \in 1..(n + 1) : history'[c][i] = history'[c][j] => i = j
               /\ history'[c][i].role = "assistant" /\ HasMessage(history'[c][i].from) =>
                    \E j \in 1..(i - 1) : history'[c][j] = Message(history'[c][i].from, "user")
    <3>1. history'[c][i] = history[c][i] /\ history[c][i] # m /\ history'[c][n + 1] = m
      BY <1>4, <2>1
    <3>2. \A j \in 1..n : history'[c][j] = history[c][j]
      BY <1>4
    <3>3. \A j \in 1..(n + 1) : history'[c][i] = history'[c][j] => i = j
      <4>1. \A j \in 1..n : history[c][i] = history[c][j] => i = j
        BY <1>1, <1>4, <2>3
      <4>2. \A j \in 1..(n + 1) : j \in 1..n \/ j = n + 1
        BY <1>4
      <4> HIDE DEF n
      <4> QED
        BY <3>1, <3>2, <4>1, <4>2
    <3>4. history[c][i].role = "assistant" /\ HasMessage(history[c][i].from) =>
            \E j \in 1..(i - 1) : history[c][j] = Message(history[c][i].from, "user")
      BY <1>1, <1>4, <2>3
    <3>5. \A j \in 1..(i - 1) : j \in 1..n
      BY <1>4
    <3> QED
      BY <3>1, <3>2, <3>3, <3>4, <3>5
  <2>6. /\ \A j \in 1..(n + 1) : history'[c][n + 1] = history'[c][j] => n + 1 = j
        /\ history'[c][n + 1].role = "assistant" /\ HasMessage(history'[c][n + 1].from) =>
             \E j \in 1..((n + 1) - 1) : history'[c][j] = Message(history'[c][n + 1].from, "user")
    <3>1. (n + 1) - 1 = n /\ \A j \in 1..n : history'[c][j] = history[c][j]
      BY <1>4
    <3>2. \A j \in 1..(n + 1) : history'[c][n + 1] = history'[c][j] => n + 1 = j
      <4>1. \A j \in 1..(n + 1) : j \in 1..n \/ j = n + 1
        BY <1>4
      <4>2. \A j \in 1..n : history'[c][j] # m
        BY <1>4, <2>1, <3>1
      <4>3. history'[c][n + 1] = m
        BY <1>4
      <4> HIDE DEF n, m
      <4> QED
        BY <4>1, <4>2, <4>3
    <3>3. history'[c][n + 1] = m /\ m.role = role /\ m.from = r
      BY <1>2, <1>4
    <3> HIDE DEF n, m
    <3>4. m.role = "assistant" /\ HasMessage(r) => \E j \in 1..((n + 1) - 1) : history'[c][j] = Message(r, "user")
      BY <2>2, <3>1
    <3> QED
      BY <3>2, <3>3, <3>4
  <2>7. \A i \in DOMAIN history'[c] : i \in 1..n \/ i = n + 1
    BY <1>4
  <2> HIDE DEF c, m, n
  <2>8. ASSUME NEW i \in DOMAIN history'[c]
        PROVE  /\ \A j \in DOMAIN history'[c] : history'[c][i] = history'[c][j] => i = j
               /\ history'[c][i].role = "assistant" /\ HasMessage(history'[c][i].from) =>
                    \E j \in 1..(i - 1) : history'[c][j] = Message(history'[c][i].from, "user")
    <3>1. DOMAIN history'[c] = 1..(n + 1)
      BY <1>4
    <3>2. CASE i \in 1..n
      BY <2>5, <3>1, <3>2
    <3>3. CASE i = n + 1
      BY <2>6, <3>1, <3>3
    <3> QED
      BY <2>7, <3>2, <3>3
  <2>9. ASSUME NEW d \in Ids, NEW i \in DOMAIN history'[d]
        PROVE  /\ \A j \in DOMAIN history'[d] : history'[d][i] = history'[d][j] => i = j
               /\ history'[d][i].role = "assistant" /\ HasMessage(history'[d][i].from) =>
                    \E j \in 1..(i - 1) : history'[d][j] = Message(history'[d][i].from, "user")
    BY <2>4, <2>8
  <2> QED
    BY <2>9 DEF AnswersFollowQuestions, HasMessage
<1> QED
  BY <1>6, <1>9, <1>10, <1>11, <1>12, <1>13, <1>14, <1>15, <1>16, <1>17, <1>18 DEF IInv

LEMMA SaveUserKeeps ==
  ASSUME IInv, NEW r \in Requests, SaveUser(r)
  PROVE  IInv'
<1> USE DEF request, pipeline
<1>1. CASE SaveFails(r) /\ UNCHANGED history
  BY <1>1, SaveFailsKeeps DEF SaveUser
<1>2. CASE /\ conversation[conv[r]] = "live"
           /\ history' = [history EXCEPT ![conv[r]] = Append(@, Message(r, "user"))]
           /\ Goto(r, "save_assistant")
           /\ UNCHANGED save_failed
  BY <1>2, SaveKeeps DEF SaveUser
<1> QED
  BY <1>1, <1>2 DEF SaveUser, AddMessage

LEMMA SaveAssistantKeeps ==
  ASSUME IInv, NEW r \in Requests, SaveAssistant(r)
  PROVE  IInv'
<1> USE DEF request, pipeline
<1>1. CASE SaveFails(r) /\ UNCHANGED history
  BY <1>1, SaveFailsKeeps DEF SaveAssistant
<1>2. CASE /\ conversation[conv[r]] = "live"
           /\ history' = [history EXCEPT ![conv[r]] = Append(@, Message(r, "assistant"))]
           /\ Goto(r, "replied")
           /\ UNCHANGED save_failed
  BY <1>2, SaveKeeps DEF SaveAssistant
<1> QED
  BY <1>1, <1>2 DEF SaveAssistant, AddMessage

LEMMA DeleteConversationKeeps ==
  ASSUME IInv, NEW c \in Ids, DeleteConversation(c)
  PROVE  IInv'
<1> USE DEF request, pipeline
<1>1. /\ conversation[c] = "live"
      /\ UNCHANGED <<mode, shape, conv, pc, context, outcome, calls, save_failed, earlier>>
  BY DEF DeleteConversation
<1>2. /\ conversation'[c] = "deleted" /\ history'[c] = <<>>
      /\ \A d \in Ids \ {c} : conversation'[d] = conversation[d] /\ history'[d] = history[d]
  BY DEF DeleteConversation, IInv, TypeOK
<1>3. TypeOK'
  <2>1. history' \in [Ids -> Seq(Messages)]
    BY DEF DeleteConversation, IInv, TypeOK
  <2>2. conversation' \in [Ids -> {"unused", "live", "deleted"}]
    BY DEF DeleteConversation, IInv, TypeOK
  <2> QED
    BY <1>1, <2>1, <2>2 DEF IInv, TypeOK
<1>4. \A q \in Requests : HasMessage(q)' = HasMessage(q)
  BY <1>1 DEF HasMessage
<1>5. /\ \A e : e \notin Contents(c)'
      /\ \A d \in Ids \ {c} : Contents(d)' = Contents(d)
  BY <1>2 DEF Contents
<1>6. Progress'
  BY <1>1, <1>4 DEF IInv, Progress
<1>7. NamedIsMade' /\ DeletedForGood'
  BY <1>1, <1>2 DEF IInv, TypeOK, NamedIsMade, DeletedForGood
<1>8. Written'
  BY <1>1, <1>2 DEF IInv, Written
<1>9. QuestionSaved'
  <2>1. \A q \in Requests : pc[q] = "save_assistant" => conv[q] \in Ids
    BY DEF IInv, TypeOK, Progress
  <2> QED
    BY <1>1, <1>2, <1>4, <1>5, <2>1 DEF IInv, QuestionSaved
<1>10. RepliesRemembered'
  <2>1. \A q \in Requests : conv[q] # None => conv[q] \in Ids
    BY DEF IInv, TypeOK
  <2> QED
    BY <1>1, <1>2, <1>4, <1>5, <2>1 DEF IInv, RepliesRemembered
<1>11. EarlierReplied' /\ EndsWithOwn'
  BY <1>1 DEF IInv, EarlierReplied, EndsWithOwn
<1>12. ContextComplete'
  <2>1. \A q \in Requests : conv[q] # None => conv[q] \in Ids
    BY DEF IInv, TypeOK
  <2>2. \A q \in Requests : conv[q] # None /\ conv[q] # c => Fits(q)' = Fits(q)
    BY <1>1, <1>2, <2>1 DEF Fits
  <2> QED
    BY <1>1, <1>4, <1>5, <2>1, <2>2 DEF IInv, ContextComplete
<1>13. AnswersFollowQuestions'
  BY <1>1, <1>2, <1>4 DEF IInv, AnswersFollowQuestions, HasMessage, Message
<1> QED
  BY <1>3, <1>6, <1>7, <1>8, <1>9, <1>10, <1>11, <1>12, <1>13 DEF IInv

-----------------------------------------------------------------------------
LEMMA NextKeeps ==
  ASSUME IInv, [Next]_vars
  PROVE  IInv'
<1>1. CASE UNCHANGED vars
  <2> USE <1>1 DEF vars, request, pipeline, database
  <2>1. \A q : HasMessage(q)' = HasMessage(q) /\ Fits(q)' = Fits(q) /\ Contents(q)' = Contents(q)
    BY DEF HasMessage, Fits, Contents
  <2>2. TypeOK' /\ Progress' /\ NamedIsMade' /\ Written'
    BY <2>1 DEF IInv, TypeOK, Progress, NamedIsMade, Written
  <2>3. QuestionSaved' /\ EarlierReplied' /\ EndsWithOwn' /\ ContextComplete'
    <3>1. QuestionSaved'
      BY <2>1 DEF IInv, QuestionSaved
    <3>2. EarlierReplied' /\ EndsWithOwn'
      BY DEF IInv, EarlierReplied, EndsWithOwn
    <3>3. ContextComplete'
      <4>1. \A q : Contents(conv[q])' = Contents(conv[q])
        BY DEF Contents
      <4> QED
        BY <2>1, <4>1 DEF IInv, ContextComplete
    <3> QED
      BY <3>1, <3>2, <3>3
  <2>4. AnswersFollowQuestions' /\ RepliesRemembered' /\ DeletedForGood'
    BY <2>1 DEF IInv, AnswersFollowQuestions, RepliesRemembered, DeletedForGood, Contents, Message
  <2> QED
    BY <2>2, <2>3, <2>4 DEF IInv
<1> QED
  BY <1>1, SendKeeps, LoadKeeps, RunPipelineKeeps, CreateConversationKeeps, SaveUserKeeps,
     SaveAssistantKeeps, AbandonKeeps, DeleteConversationKeeps DEF Next

(* Every reachable state satisfies the inductive invariant, the types first. *)
THEOREM Invariance == Spec => []IInv
<1> QED
  BY InitIInv, NextKeeps, PTL DEF Spec

(* Whatever the requests meet, the tables, the requests' records and what    *)
(* each sent and was told keep their types (chat.py, chat_store.py).         *)
THEOREM Typing == Spec => []TypeOK
<1>1. IInv => TypeOK
  BY DEF IInv
<1> QED
  BY <1>1, Invariance, PTL

LEMMA InvariantSaysMemory == IInv => MemoryHolds
<1> SUFFICES ASSUME IInv PROVE MemoryHolds
  OBVIOUS
<1>1. OnlyAnsweredRemembered
  <2>1. \A c \in Ids : \A i \in DOMAIN history[c] :
          outcome[history[c][i].from] = "answered" /\ history[c][i].from \in Requests
    BY StoredMessages DEF IInv, Written
  <2>2. \A r \in Requests : outcome[r] = "answered" => calls[r] = 1
    BY DEF IInv, Progress
  <2> QED
    BY <2>1, <2>2 DEF OnlyAnsweredRemembered, Contents
<1>2. FollowUpsRemember
  <2>1. \A r \in Requests : calls[r] = 1 /\ outcome[r] = "pending" => pc[r] = "pipeline"
    <3>1. pc \in [Requests -> {"unsent", "load", "pipeline", "create", "save_user",
                              "save_assistant", "replied", "failed", "gone"}]
      BY DEF IInv, TypeOK
    <3>2. Progress
      BY DEF IInv
    <3> QED
      BY <3>1, <3>2 DEF Progress
  <2> QED
    BY <2>1 DEF IInv, EndsWithOwn, ContextComplete, FollowUpsRemember
<1> QED
  BY <1>1, <1>2 DEF IInv, MemoryHolds

(* However many requests meet in however many conversations, be they cut   *)
(* off, unsaved or deleted under their feet (chat.py, chat_store.py): only *)
(* what went through the pipeline is remembered, in order and once; a      *)
(* reply is remembered in full unless its saving failed; and a follow-up   *)
(* that fits is given all the exchanges its client has seen.               *)
THEOREM Memory == Spec => []MemoryHolds
<1> QED
  BY Invariance, InvariantSaysMemory, PTL
-----------------------------------------------------------------------------
(* The chat page.  What is left of a list of messages without one of them, *)
(* a message after the other.                                              *)
IsLeft(g, messages, line) ==
  g = [i \in 0..Len(messages) |->
         IF i = 0 THEN <<>>
         ELSE IF messages[i] = line THEN g[i - 1] ELSE Append(g[i - 1], messages[i])]

LEMMA LeftExists ==
  ASSUME NEW T, NEW messages \in Seq(T), NEW line
  PROVE  \E g : IsLeft(g, messages, line)
<1> DEFINE F(g, i) == IF i = 0 THEN <<>>
                      ELSE IF messages[i] = line THEN g[i - 1] ELSE Append(g[i - 1], messages[i])
           N == {n \in Nat : \E g : g = [i \in 0..n |-> F(g, i)]}
<1>1. 0 \in N
  <2> DEFINE g == [i \in 0..0 |-> <<>>]
  <2>1. g = [i \in 0..0 |-> F(g, i)]
    OBVIOUS
  <2> QED
    BY <2>1
<1>2. ASSUME NEW n \in Nat, n \in N PROVE n + 1 \in N
  <2>1. PICK g : g = [i \in 0..n |-> F(g, i)]
    BY <1>2
  <2> DEFINE h == [i \in 0..(n + 1) |->
                     IF i = n + 1
                     THEN IF messages[i] = line THEN g[i - 1] ELSE Append(g[i - 1], messages[i])
                     ELSE g[i]]
  <2>2. ASSUME NEW i \in 0..(n + 1) PROVE h[i] = F(h, i)
    <3>1. CASE i = n + 1
      <4>1. i # 0 /\ i - 1 \in 0..(n + 1) /\ i - 1 # n + 1
        BY <3>1
      <4>2. h[i - 1] = g[i - 1]
        BY <4>1
      <4> QED
        BY <3>1, <4>1, <4>2
    <3>2. CASE i \in 0..n /\ i = 0
      <4>1. h[i] = g[i] /\ g[i] = <<>>
        BY <2>1, <3>2
      <4> QED
        BY <3>2, <4>1
    <3>3. CASE i \in 0..n /\ i # 0
      <4>1. i # n + 1 /\ i - 1 \in 0..(n + 1) /\ i - 1 # n + 1
        BY <3>3
      <4>2. h[i] = g[i] /\ h[i - 1] = g[i - 1]
        BY <4>1
      <4>3. g[i] = F(g, i)
        BY <2>1, <3>3
      <4> QED
        BY <3>3, <4>2, <4>3
    <3> QED
      BY <3>1, <3>2, <3>3
  <2> HIDE DEF F
  <2>3. h = [i \in 0..(n + 1) |-> F(h, i)]
    BY <2>2
  <2> HIDE DEF h
  <2> QED
    BY <2>3
<1> HIDE DEF N, F
<1>3. Len(messages) \in N
  BY <1>1, <1>2, SetInduction
<1> USE DEF N, F
<1> QED
  BY <1>3 DEF IsLeft

LEMMA LeftAt ==
  ASSUME NEW T, NEW messages \in Seq(T), NEW line
  PROVE  \E g :
           /\ Without(messages, line) = g[Len(messages)]
           /\ g[0] = <<>>
           /\ \A n \in Nat : n + 1 <= Len(messages) =>
                g[n + 1] = IF messages[n + 1] = line THEN g[n] ELSE Append(g[n], messages[n + 1])
<1> DEFINE g == CHOOSE g : IsLeft(g, messages, line)
           F(i) == IF i = 0 THEN <<>>
                   ELSE IF messages[i] = line THEN g[i - 1] ELSE Append(g[i - 1], messages[i])
<1>1. Without(messages, line) = g[Len(messages)]
  BY DEF Without, IsLeft
<1>2. IsLeft(g, messages, line)
  BY LeftExists
<1> HIDE DEF g
<1>3. g = [i \in 0..Len(messages) |-> F(i)]
  BY <1>2 DEF IsLeft
<1> HIDE DEF F
<1>4. Len(messages) \in Nat
  OBVIOUS
<1>5. \A i \in 0..Len(messages) : g[i] = F(i)
  BY <1>3
<1>6. 0 \in 0..Len(messages) /\ \A n \in Nat : n + 1 <= Len(messages) => n + 1 \in 0..Len(messages)
  BY <1>4
<1>7. g[0] = F(0) /\ F(0) = <<>>
  BY <1>5, <1>6 DEF F
<1>8. ASSUME NEW n \in Nat, n + 1 <= Len(messages)
      PROVE  g[n + 1] = IF messages[n + 1] = line THEN g[n] ELSE Append(g[n], messages[n + 1])
  <2>1. g[n + 1] = F(n + 1)
    BY <1>5, <1>6, <1>8
  <2>2. n + 1 # 0 /\ n + 1 - 1 = n
    OBVIOUS
  <2> QED
    BY <2>1, <2>2 DEF F
<1> QED
  BY <1>1, <1>7, <1>8

(* What is left: messages of the list, in its order, and not the one taken. *)
LeavesOf(left, messages, n, line) ==
  \E at \in [DOMAIN left -> 1..n] :
    /\ \A i \in DOMAIN left : left[i] = messages[at[i]] /\ left[i] # line
    /\ \A i, j \in DOMAIN left : i < j => at[i] < at[j]

LEMMA WithoutLeaves ==
  ASSUME NEW T, NEW messages \in Seq(T), NEW line
  PROVE  /\ Without(messages, line) \in Seq(T)
         /\ LeavesOf(Without(messages, line), messages, Len(messages), line)
<1>1. PICK g :
        /\ Without(messages, line) = g[Len(messages)]
        /\ g[0] = <<>>
        /\ \A n \in Nat : n + 1 <= Len(messages) =>
             g[n + 1] = IF messages[n + 1] = line THEN g[n] ELSE Append(g[n], messages[n + 1])
  BY LeftAt
<1> DEFINE N == {n \in Nat : n <= Len(messages) => g[n] \in Seq(T) /\ LeavesOf(g[n], messages, n, line)}
<1>2. Len(messages) \in Nat
  OBVIOUS
<1>3. 0 \in N
  <2>1. <<>> \in Seq(T) /\ DOMAIN <<>> = {}
    OBVIOUS
  <2> DEFINE at == [i \in {} |-> 1]
  <2>2. at \in [DOMAIN <<>> -> 1..0]
    BY <2>1
  <2>3. LeavesOf(<<>>, messages, 0, line)
    BY <2>1, <2>2 DEF LeavesOf
  <2> QED
    BY <1>1, <2>1, <2>3
<1>4. ASSUME NEW n \in Nat, n \in N PROVE n + 1 \in N
  <2> SUFFICES ASSUME n + 1 <= Len(messages)
               PROVE  g[n + 1] \in Seq(T) /\ LeavesOf(g[n + 1], messages, n + 1, line)
    OBVIOUS
  <2> DEFINE e == messages[n + 1]
             old == g[n]
  <2>1. n <= Len(messages) /\ e \in T
    BY <1>2
  <2>2. old \in Seq(T)
    BY <1>4, <2>1
  <2>3. LeavesOf(old, messages, n, line)
    BY <1>4, <2>1
  <2>4. PICK at \in [DOMAIN old -> 1..n] :
          /\ \A i \in DOMAIN old : old[i] = messages[at[i]] /\ old[i] # line
          /\ \A i, j \in DOMAIN old : i < j => at[i] < at[j]
    BY <2>3 DEF LeavesOf
  <2>5. CASE e = line
    <3>1. g[n + 1] = old
      BY <1>1, <2>5
    <3>2. at \in [DOMAIN old -> 1..(n + 1)]
      <4>1. 1..n \subseteq 1..(n + 1)
        OBVIOUS
      <4> HIDE DEF old
      <4> QED
        BY <4>1
    <3>3. LeavesOf(old, messages, n + 1, line)
      BY <2>4, <3>2 DEF LeavesOf
    <3> QED
      BY <2>2, <3>1, <3>3
  <2>6. CASE e # line
    <3>1. g[n + 1] = Append(old, e)
      BY <1>1, <2>6
    <3> HIDE DEF old, e
    <3> DEFINE m == Len(old)
               new == Append(old, e)
               by == [i \in 1..(m + 1) |-> IF i = m + 1 THEN n + 1 ELSE at[i]]
    <3>2. /\ new \in Seq(T) /\ DOMAIN new = 1..(m + 1) /\ DOMAIN old = 1..m /\ m \in Nat
          /\ new[m + 1] = e /\ \A i \in 1..m : new[i] = old[i]
      BY <2>1, <2>2, AppendProperties
    <3> HIDE DEF new, m
    <3>3. /\ \A i \in 1..m : i \in 1..(m + 1) /\ i # m + 1 /\ at[i] \in 1..n
          /\ \A i \in 1..(m + 1) : i = m + 1 \/ i \in 1..m
          /\ n + 1 \in 1..(n + 1) /\ 1..n \subseteq 1..(n + 1)
      BY <2>4, <3>2
    <3>4. by[m + 1] = n + 1 /\ \A i \in 1..m : by[i] = at[i]
      BY <3>2, <3>3
    <3>5. by \in [DOMAIN new -> 1..(n + 1)]
      BY <3>2, <3>3
    <3> HIDE DEF by
    <3>6. ASSUME NEW i \in DOMAIN new PROVE new[i] = messages[by[i]] /\ new[i] # line
      <4>1. CASE i = m + 1
        BY <2>6, <3>2, <3>4, <4>1 DEF e
      <4>2. CASE i \in 1..m
        BY <2>4, <3>2, <3>4, <4>2
      <4> QED
        BY <3>2, <3>3, <4>1, <4>2
    <3>7. ASSUME NEW i \in DOMAIN new, NEW j \in DOMAIN new, i < j PROVE by[i] < by[j]
      <4>1. i \in 1..m
        BY <3>2, <3>7
      <4>2. CASE j = m + 1
        BY <3>3, <3>4, <4>1, <4>2
      <4>3. CASE j \in 1..m
        BY <2>4, <3>2, <3>4, <3>7, <4>1, <4>3
      <4> QED
        BY <3>2, <3>3, <4>2, <4>3
    <3>8. LeavesOf(new, messages, n + 1, line)
      BY <3>5, <3>6, <3>7 DEF LeavesOf
    <3> QED
      BY <3>1, <3>2, <3>8 DEF new
  <2> QED
    BY <2>5, <2>6
<1> HIDE DEF N
<1>5. Len(messages) \in N
  BY <1>2, <1>3, <1>4, SetInduction
<1> USE DEF N
<1> QED
  BY <1>1, <1>2, <1>5

LEMMA RepliesOfItself ==
  ASSUME NEW T, NEW messages \in Seq(T)
  PROVE  RepliesOf(messages, messages)
<1> DEFINE at == [i \in Replies(messages) |-> i]
<1>1. at \in [Replies(messages) -> Replies(messages)] /\ \A i \in Replies(messages) : at[i] = i
  OBVIOUS
<1> HIDE DEF at
<1> QED
  BY <1>1 DEF RepliesOf

LEMMA NoReplies ==
  ASSUME NEW shown, NEW stored, Replies(shown) = {}
  PROVE  RepliesOf(shown, stored)
<1> DEFINE at == [i \in {} |-> 1]
<1>1. at \in [Replies(shown) -> Replies(stored)]
  OBVIOUS
<1> QED
  BY <1>1 DEF RepliesOf

(* Fewer messages show no reply that was not shown. *)
LEMMA RepliesWithout ==
  ASSUME NEW T, NEW shown \in Seq(T), NEW line
  PROVE  /\ Replies(shown) = {} => Replies(Without(shown, line)) = {}
         /\ \A stored : RepliesOf(shown, stored) => RepliesOf(Without(shown, line), stored)
<1> DEFINE left == Without(shown, line)
<1>1. PICK to \in [DOMAIN left -> 1..Len(shown)] :
        /\ \A i \in DOMAIN left : left[i] = shown[to[i]] /\ left[i] # line
        /\ \A i, j \in DOMAIN left : i < j => to[i] < to[j]
  BY WithoutLeaves DEF LeavesOf
<1> HIDE DEF left
<1>2. DOMAIN shown = 1..Len(shown)
  OBVIOUS
<1>3. \A i \in Replies(left) : i \in DOMAIN left /\ to[i] \in Replies(shown)
  BY <1>1, <1>2 DEF Replies
<1>4. ASSUME NEW stored, RepliesOf(shown, stored) PROVE RepliesOf(left, stored)
  <2>1. PICK at \in [Replies(shown) -> Replies(stored)] :
          /\ \A i \in Replies(shown) : shown[i] = stored[at[i]]
          /\ \A i, j \in Replies(shown) : i < j => at[i] < at[j]
    BY <1>4 DEF RepliesOf
  <2> DEFINE by == [i \in Replies(left) |-> at[to[i]]]
  <2>2. by \in [Replies(left) -> Replies(stored)] /\ \A i \in Replies(left) : by[i] = at[to[i]]
    BY <1>3, <2>1
  <2> HIDE DEF by
  <2>3. \A i \in Replies(left) : left[i] = stored[by[i]]
    BY <1>1, <1>3, <2>1, <2>2
  <2>4. \A i, j \in Replies(left) : i < j => by[i] < by[j]
    BY <1>1, <1>3, <2>1, <2>2
  <2> QED
    BY <2>2, <2>3, <2>4 DEF RepliesOf
<1> QED
  BY <1>3, <1>4 DEF left

(* What is stored after them leaves the replies where they are. *)
LEMMA RepliesStay ==
  ASSUME NEW T, NEW stored \in Seq(T), NEW more \in Seq(T), NEW shown, RepliesOf(shown, stored)
  PROVE  RepliesOf(shown, stored \o more)
<1> DEFINE longer == stored \o more
<1>1. /\ DOMAIN stored \subseteq DOMAIN longer
      /\ \A i \in DOMAIN stored : longer[i] = stored[i]
  BY ConcatProperties
<1> HIDE DEF longer
<1>2. PICK at \in [Replies(shown) -> Replies(stored)] :
        /\ \A i \in Replies(shown) : shown[i] = stored[at[i]]
        /\ \A i, j \in Replies(shown) : i < j => at[i] < at[j]
  BY DEF RepliesOf
<1>3. \A i \in Replies(stored) : i \in Replies(longer) /\ longer[i] = stored[i]
  BY <1>1 DEF Replies
<1>4. at \in [Replies(shown) -> Replies(longer)] /\ \A i \in Replies(shown) : shown[i] = longer[at[i]]
  BY <1>2, <1>3
<1> QED
  BY <1>2, <1>4 DEF RepliesOf, longer

(* Messages that are no replies may be shown after them. *)
LEMMA OthersShown ==
  ASSUME NEW T, NEW shown \in Seq(T), NEW more \in Seq(T), Replies(more) = {}
  PROVE  /\ Replies(shown \o more) = Replies(shown)
         /\ \A stored : RepliesOf(shown, stored) => RepliesOf(shown \o more, stored)
<1> DEFINE longer == shown \o more
           n == Len(shown)
           k == Len(more)
<1>1. /\ n \in Nat /\ k \in Nat /\ DOMAIN shown = 1..n /\ DOMAIN more = 1..k /\ DOMAIN longer = 1..(n + k)
      /\ \A i \in 1..n : longer[i] = shown[i]
      /\ \A i \in 1..k : longer[n + i] = more[i]
  BY ConcatProperties
<1> HIDE DEF longer, n, k
<1>2. ASSUME NEW i \in 1..(n + k), i \notin 1..n PROVE longer[i].role # "assistant"
  <2>1. i - n \in 1..k /\ n + (i - n) = i
    BY <1>1, <1>2
  <2>2. longer[i] = more[i - n]
    BY <1>1, <2>1
  <2> QED
    BY <1>1, <2>1, <2>2 DEF Replies
<1>3. Replies(longer) = Replies(shown) /\ \A i \in Replies(shown) : longer[i] = shown[i]
  <2>1. 1..n \subseteq 1..(n + k)
    BY <1>1
  <2> QED
    BY <1>1, <1>2, <2>1 DEF Replies
<1>4. ASSUME NEW stored, RepliesOf(shown, stored) PROVE RepliesOf(longer, stored)
  BY <1>3, <1>4 DEF RepliesOf
<1> QED
  BY <1>3, <1>4 DEF longer

(* A reply shown last is that stored last. *)
LEMMA ReplyShown ==
  ASSUME NEW T, NEW shown \in Seq(T), NEW stored \in Seq(T), RepliesOf(shown, stored),
         NEW question \in T, NEW reply \in T, reply.role = "assistant"
  PROVE  RepliesOf(Append(shown, reply), stored \o <<question, reply>>)
<1> DEFINE new == Append(shown, reply)
           longer == stored \o <<question, reply>>
           n == Len(shown)
           k == Len(stored)
<1>1. /\ n \in Nat /\ DOMAIN shown = 1..n /\ DOMAIN new = 1..(n + 1)
      /\ new[n + 1] = reply /\ \A i \in 1..n : new[i] = shown[i]
  BY AppendProperties
<1>2. /\ k \in Nat /\ DOMAIN stored = 1..k /\ DOMAIN longer = 1..(k + 2)
      /\ longer[k + 2] = reply /\ \A i \in 1..k : longer[i] = stored[i]
  BY ConcatProperties
<1> HIDE DEF new, longer, n, k
<1>3. PICK at \in [Replies(shown) -> Replies(stored)] :
        /\ \A i \in Replies(shown) : shown[i] = stored[at[i]]
        /\ \A i, j \in Replies(shown) : i < j => at[i] < at[j]
  BY DEF RepliesOf
<1>4. /\ \A i \in Replies(new) : i = n + 1 \/ (i # n + 1 /\ i \in Replies(shown) /\ i \in 1..n)
      /\ \A i \in Replies(shown) : i \in 1..n /\ i # n + 1
  BY <1>1 DEF Replies
<1>5. /\ k + 2 \in Replies(longer)
      /\ \A i \in Replies(stored) : i \in Replies(longer) /\ i \in 1..k
  BY <1>2 DEF Replies
<1> DEFINE by == [i \in Replies(new) |-> IF i = n + 1 THEN k + 2 ELSE at[i]]
<1>6. \A i \in Replies(new) : IF i = n + 1 THEN by[i] = k + 2 ELSE by[i] = at[i] /\ at[i] \in Replies(stored)
  BY <1>3, <1>4
<1>7. by \in [Replies(new) -> Replies(longer)]
  BY <1>3, <1>4, <1>5
<1> HIDE DEF by
<1>8. ASSUME NEW i \in Replies(new) PROVE new[i] = longer[by[i]]
  <2>1. CASE i = n + 1
    BY <1>1, <1>2, <1>6, <2>1
  <2>2. CASE i # n + 1
    BY <1>1, <1>2, <1>3, <1>4, <1>5, <1>6, <2>2
  <2> QED
    BY <2>1, <2>2
<1>9. ASSUME NEW i \in Replies(new), NEW j \in Replies(new), i < j PROVE by[i] < by[j]
  <2>1. i # n + 1
    BY <1>1, <1>4, <1>9
  <2>2. i \in Replies(shown) /\ by[i] = at[i] /\ at[i] \in 1..k
    BY <1>4, <1>5, <1>6, <2>1
  <2>3. CASE j = n + 1
    BY <1>2, <1>6, <2>2, <2>3
  <2>4. CASE j # n + 1
    BY <1>3, <1>4, <1>6, <1>9, <2>2, <2>4
  <2> QED
    BY <2>3, <2>4
<1>10. RepliesOf(new, longer)
  BY <1>7, <1>8, <1>9 DEF RepliesOf
<1> QED
  BY <1>10 DEF new, longer

-----------------------------------------------------------------------------
(* The inductive invariant of the page. *)
Entries == [of : Sends, role : {"user", "typing", "assistant", "unsaved", "error"}]

SendSteps == {"new", "uploads", "posted", "served", "done"}
LoadSteps == {"new", "asked", "answered", "done"}
SendRecords == [step : SendSteps, file : BOOLEAN, conv : DOMAIN chats \cup {None},
                saved : BOOLEAN]
LoadRecords == [step : LoadSteps, conv : DOMAIN chats \cup {None}, got : Seq(Entries)]

ChatTypeOK ==
  /\ chats \in Seq(Seq(Entries)) /\ currentMessages \in Seq(Entries)
  /\ activeConv \in DOMAIN chats \cup {None} /\ serverConversations \subseteq DOMAIN chats
  /\ sending \in [Sends -> SendRecords] /\ loading \in [Loads -> LoadRecords]
  /\ hurried \in BOOLEAN

SentOff(s) == sending[s].step \notin {"new", "done"}
AskedFor(l) == loading[l].step \notin {"new", "done"}

(* What was stored is stored somewhere, what is loaded is somewhere. *)
Placed ==
  /\ \A s \in Sends :
       sending[s].step = "served" /\ sending[s].saved => sending[s].conv # None
  /\ \A l \in Loads : AskedFor(l) => loading[l].conv # None

NoIndicator(messages) == \A i \in DOMAIN messages : messages[i].role # "typing"

(* No indicator reaches the gateway, so none is loaded from it. *)
Indicators ==
  /\ \A i \in DOMAIN currentMessages :
       currentMessages[i].role = "typing" => SentOff(currentMessages[i].of)
  /\ \A c \in DOMAIN chats : NoIndicator(chats[c])
  /\ \A l \in Loads : NoIndicator(loading[l].got)

(* To someone who waits, one thing is under way at a time ... *)
OneAtATime ==
  /\ \A s, t \in Sends : SentOff(s) /\ SentOff(t) => s = t
  /\ \A l, k \in Loads : AskedFor(l) /\ AskedFor(k) => l = k
  /\ \A s \in Sends, l \in Loads : ~(SentOff(s) /\ AskedFor(l))

(* ... a message goes to the conversation that is selected, and once it is *)
(* stored there its reply follows all that is on the screen ...            *)
SentThere(s) ==
  /\ sending[s].step = "posted" => sending[s].conv = activeConv
  /\ sending[s].step = "served" =>
       /\ activeConv \in {None, sending[s].conv}
       /\ sending[s].saved => \E old \in Seq(Entries) :
            chats[sending[s].conv] = old \o Exchange(s) /\ RepliesOf(currentMessages, old)

(* ... what is loaded is the conversation that is selected ... *)
LoadedThere(l) ==
  /\ AskedFor(l) => loading[l].conv = activeConv
  /\ loading[l].step = "answered" => loading[l].got \in {chats[activeConv], <<>>}

(* ... and, but for the time it is loaded, the screen shows it. *)
ScreenShows ==
  IF activeConv = None THEN Replies(currentMessages) = {}
  ELSE RepliesOf(currentMessages, chats[activeConv])

Unhurried ==
  /\ OneAtATime
  /\ \A s \in Sends : SentThere(s)
  /\ \A l \in Loads : LoadedThere(l)
  /\ (\A l \in Loads : ~AskedFor(l)) => ScreenShows

ChatInv == ChatTypeOK /\ Placed /\ Indicators /\ (~hurried => Unhurried)

(* How the record of one send or load changes. *)
LEMMA SendUpdate ==
  ASSUME ChatTypeOK, NEW s \in Sends, NEW r \in SendRecords, sending' = [sending EXCEPT ![s] = r]
  PROVE  /\ sending' \in [Sends -> SendRecords] /\ sending'[s] = r
         /\ \A t \in Sends \ {s} : sending'[t] = sending[t]
<1>1. sending \in [Sends -> SendRecords]
  BY DEF ChatTypeOK
<1> QED
  BY <1>1

LEMMA LoadUpdate ==
  ASSUME ChatTypeOK, NEW l \in Loads, NEW r \in LoadRecords, loading' = [loading EXCEPT ![l] = r]
  PROVE  /\ loading' \in [Loads -> LoadRecords] /\ loading'[l] = r
         /\ \A k \in Loads \ {l} : loading'[k] = loading[k]
<1>1. loading \in [Loads -> LoadRecords]
  BY DEF ChatTypeOK
<1> QED
  BY <1>1

LEMMA ChatInitInv == ChatInit => ChatInv
<1> SUFFICES ASSUME ChatInit PROVE ChatInv
  OBVIOUS
<1>1. chats = <<>> /\ currentMessages = <<>> /\ activeConv = None /\ serverConversations = {} /\ hurried = FALSE
  BY DEF ChatInit
<1>2. /\ sending = [s \in Sends |-> [step |-> "new", file |-> FALSE, conv |-> None, saved |-> FALSE]]
      /\ loading = [l \in Loads |-> [step |-> "new", conv |-> None, got |-> <<>>]]
  BY DEF ChatInit
<1>3. <<>> \in Seq(Seq(Entries)) /\ <<>> \in Seq(Entries) /\ DOMAIN <<>> = {}
  OBVIOUS
<1>4. ChatTypeOK
  BY <1>1, <1>2, <1>3 DEF ChatTypeOK, SendRecords, LoadRecords, SendSteps, LoadSteps
<1>5. /\ \A s \in Sends : sending[s].step = "new" /\ sending[s].conv = None
      /\ \A l \in Loads : loading[l].step = "new" /\ loading[l].got = <<>>
  BY <1>2
<1>6. (\A s \in Sends : ~SentOff(s)) /\ (\A l \in Loads : ~AskedFor(l))
  BY <1>5 DEF SentOff, AskedFor
<1>7. Placed
  BY <1>5, <1>6 DEF Placed
<1>8. Indicators
  BY <1>1, <1>3, <1>5 DEF Indicators, NoIndicator
<1>9. Unhurried
  <2>1. ScreenShows
    BY <1>1, <1>3 DEF ScreenShows, Replies
  <2> QED
    BY <1>5, <1>6, <2>1 DEF Unhurried, OneAtATime, SentThere, LoadedThere
<1> QED
  BY <1>4, <1>7, <1>8, <1>9 DEF ChatInv

(* Whoever begins something without hurrying begins it alone. *)
LEMMA BeginsAlone ==
  ASSUME ChatInv, Begins, ~hurried'
  PROVE  /\ ~hurried /\ Unhurried /\ ScreenShows
         /\ (\A s \in Sends : ~SentOff(s)) /\ (\A l \in Loads : ~AskedFor(l))
<1>1. ~hurried /\ ~UnderWay
  BY DEF Begins
<1>2. (\A s \in Sends : ~SentOff(s)) /\ (\A l \in Loads : ~AskedFor(l))
  BY <1>1 DEF UnderWay, SentOff, AskedFor
<1>3. Unhurried
  BY <1>1 DEF ChatInv
<1> QED
  BY <1>1, <1>2, <1>3 DEF Unhurried

LEMMA BeginsTyped ==
  ASSUME ChatInv, Begins
  PROVE  hurried' \in BOOLEAN
  BY DEF Begins, ChatInv, ChatTypeOK, UnderWay

LEMMA NewChatKeeps ==
  ASSUME ChatInv, NewChat
  PROVE  ChatInv'
<1>1. activeConv' = None /\ currentMessages' = <<>> /\ UNCHANGED <<serverConversations, chats, sending, loading>> /\ Begins
  BY DEF NewChat
<1>2. <<>> \in Seq(Entries) /\ DOMAIN <<>> = {}
  OBVIOUS
<1>3. ChatTypeOK'
  BY <1>1, <1>2, BeginsTyped DEF ChatInv, ChatTypeOK, SendRecords, LoadRecords
<1>4. Placed'
  BY <1>1 DEF ChatInv, Placed, AskedFor
<1>5. Indicators'
  BY <1>1, <1>2 DEF ChatInv, Indicators, NoIndicator
<1>6. ASSUME ~hurried' PROVE Unhurried'
  <2>1. (\A s \in Sends : ~SentOff(s)') /\ (\A l \in Loads : ~AskedFor(l)')
    BY <1>1, <1>6, BeginsAlone DEF SentOff, AskedFor
  <2>2. ScreenShows'
    BY <1>1, <1>2 DEF ScreenShows, Replies
  <2>3. /\ \A s \in Sends : sending'[s].step \notin {"posted", "served"}
        /\ \A l \in Loads : loading'[l].step # "answered"
    BY <2>1 DEF SentOff, AskedFor
  <2> QED
    BY <2>1, <2>2, <2>3 DEF Unhurried, OneAtATime, SentThere, LoadedThere
<1> QED
  BY <1>3, <1>4, <1>5, <1>6 DEF ChatInv

LEMMA SelectConversationKeeps ==
  ASSUME ChatInv, NEW l \in Loads, NEW c, SelectConversation(l, c)
  PROVE  ChatInv'
<1>1. /\ loading[l].step = "new" /\ c \in serverConversations /\ activeConv' = c /\ Begins
      /\ loading' = [loading EXCEPT ![l] = [step |-> "asked", conv |-> c, got |-> <<>>]]
      /\ UNCHANGED <<currentMessages, serverConversations, chats, sending>>
  BY DEF SelectConversation
<1>2. c \in DOMAIN chats /\ c # None
  <2>1. c \in DOMAIN chats /\ DOMAIN chats \subseteq Nat
    BY <1>1 DEF ChatInv, ChatTypeOK
  <2> QED
    BY <2>1, ChatsAssumption
<1>3. <<>> \in Seq(Entries) /\ DOMAIN <<>> = {}
  OBVIOUS
<1>4. ChatTypeOK'
  <2> DEFINE r == [step |-> "asked", conv |-> c, got |-> <<>>]
  <2>1. r \in LoadRecords
    BY <1>2, <1>3 DEF LoadRecords, LoadSteps
  <2>2. ChatTypeOK /\ loading' = [loading EXCEPT ![l] = r]
    BY <1>1 DEF ChatInv
  <2> HIDE DEF r
  <2>3. loading' \in [Loads -> LoadRecords]
    BY <2>1, <2>2, LoadUpdate
  <2> QED
    BY <1>1, <1>2, <2>3, BeginsTyped DEF ChatInv, ChatTypeOK, SendRecords, LoadRecords
<1>5. /\ loading'[l] = [step |-> "asked", conv |-> c, got |-> <<>>]
      /\ \A k \in Loads \ {l} : loading'[k] = loading[k]
  BY <1>1 DEF ChatInv, ChatTypeOK
<1>6. Placed'
  BY <1>1, <1>2, <1>5 DEF ChatInv, Placed, AskedFor
<1>7. Indicators'
  <2>1. \A k \in Loads : NoIndicator(loading'[k].got)
    BY <1>3, <1>5 DEF ChatInv, Indicators, NoIndicator
  <2> QED
    BY <1>1, <2>1 DEF ChatInv, Indicators, SentOff, NoIndicator
<1>8. ASSUME ~hurried' PROVE Unhurried'
  <2>1. (\A s \in Sends : ~SentOff(s)') /\ (\A k \in Loads \ {l} : ~AskedFor(k)') /\ AskedFor(l)'
    BY <1>1, <1>5, <1>8, BeginsAlone DEF SentOff, AskedFor
  <2>2. /\ \A s \in Sends : sending'[s].step \notin {"posted", "served"}
        /\ \A k \in Loads : loading'[k].step # "answered"
        /\ loading'[l].conv = activeConv'
    BY <1>1, <1>5, <2>1 DEF SentOff, AskedFor
  <2> QED
    BY <2>1, <2>2 DEF Unhurried, OneAtATime, SentThere, LoadedThere
<1> QED
  BY <1>4, <1>6, <1>7, <1>8 DEF ChatInv

LEMMA MessagesReadKeeps ==
  ASSUME ChatInv, NEW l \in Loads, MessagesRead(l)
  PROVE  ChatInv'
<1>1. /\ loading[l].step = "asked"
      /\ UNCHANGED <<activeConv, currentMessages, serverConversations, chats, sending, hurried>>
  BY DEF MessagesRead
<1>2. PICK got \in {chats[loading[l].conv], <<>>} :
        loading' = [loading EXCEPT ![l].step = "answered", ![l].got = got]
  BY DEF MessagesRead
<1>3. loading[l].conv \in DOMAIN chats /\ got \in Seq(Entries) /\ NoIndicator(got)
  <2>1. loading[l].conv # None
    BY <1>1 DEF ChatInv, Placed, AskedFor
  <2>2. loading[l].conv \in DOMAIN chats
    BY <2>1 DEF ChatInv, ChatTypeOK, LoadRecords
  <2>3. chats[loading[l].conv] \in Seq(Entries) /\ NoIndicator(chats[loading[l].conv])
    BY <2>2 DEF ChatInv, ChatTypeOK, Indicators
  <2>4. <<>> \in Seq(Entries) /\ NoIndicator(<<>>)
    BY DEF NoIndicator
  <2> QED
    BY <2>2, <2>3, <2>4
<1>4. /\ loading' \in [Loads -> LoadRecords]
      /\ loading'[l].step = "answered" /\ loading'[l].conv = loading[l].conv /\ loading'[l].got = got
      /\ \A k \in Loads \ {l} : loading'[k] = loading[k]
  <2> DEFINE r == [[loading[l] EXCEPT !.step = "answered"] EXCEPT !.got = got]
  <2>1. ChatTypeOK /\ loading[l] \in LoadRecords
    BY DEF ChatInv, ChatTypeOK
  <2>2. /\ r \in LoadRecords
        /\ r.step = "answered" /\ r.conv = loading[l].conv /\ r.got = got
    BY <1>3, <2>1 DEF LoadRecords, LoadSteps
  <2>3. loading' = [loading EXCEPT ![l] = r]
    BY <1>2
  <2> HIDE DEF r
  <2> QED
    BY <2>1, <2>2, <2>3, LoadUpdate
<1>5. ChatTypeOK'
  BY <1>1, <1>4 DEF ChatInv, ChatTypeOK, SendRecords, LoadRecords
<1>6. \A k \in Loads : AskedFor(k)' = AskedFor(k) /\ loading'[k].conv = loading[k].conv
  BY <1>1, <1>4 DEF AskedFor
<1>7. Placed'
  BY <1>1, <1>6 DEF ChatInv, Placed
<1>8. Indicators'
  BY <1>1, <1>3, <1>4 DEF ChatInv, Indicators, SentOff, NoIndicator
<1>9. ASSUME ~hurried' PROVE Unhurried'
  <2>1. Unhurried
    BY <1>1, <1>9 DEF ChatInv
  <2>2. OneAtATime'
    BY <1>1, <1>6, <2>1 DEF Unhurried, OneAtATime, SentOff
  <2>3. \A s \in Sends : SentThere(s)'
    BY <1>1, <2>1 DEF Unhurried, SentThere
  <2>4. LoadedThere(l)'
    BY <1>1, <1>2, <1>4, <2>1 DEF Unhurried, LoadedThere, AskedFor
  <2>5. \A k \in Loads \ {l} : LoadedThere(k)'
    BY <1>1, <1>4, <2>1 DEF Unhurried, LoadedThere, AskedFor
  <2>6. AskedFor(l)'
    BY <1>4 DEF AskedFor
  <2> QED
    BY <2>2, <2>3, <2>4, <2>5, <2>6 DEF Unhurried
<1> QED
  BY <1>5, <1>7, <1>8, <1>9 DEF ChatInv

LEMMA ShowMessagesKeeps ==
  ASSUME ChatInv, NEW l \in Loads, ShowMessages(l)
  PROVE  ChatInv'
<1>1. /\ loading[l].step = "answered" /\ currentMessages' = loading[l].got
      /\ loading' = [loading EXCEPT ![l].step = "done", ![l].got = <<>>]
      /\ UNCHANGED <<activeConv, serverConversations, chats, sending, hurried>>
  BY DEF ShowMessages
<1>2. <<>> \in Seq(Entries) /\ NoIndicator(<<>>)
  BY DEF NoIndicator
<1>3. /\ loading' \in [Loads -> LoadRecords]
      /\ loading'[l].step = "done" /\ loading'[l].got = <<>>
      /\ \A k \in Loads \ {l} : loading'[k] = loading[k]
  <2> DEFINE r == [[loading[l] EXCEPT !.step = "done"] EXCEPT !.got = <<>>]
  <2>1. ChatTypeOK /\ loading[l] \in LoadRecords
    BY DEF ChatInv, ChatTypeOK
  <2>2. r \in LoadRecords /\ r.step = "done" /\ r.got = <<>>
    BY <1>2, <2>1 DEF LoadRecords, LoadSteps
  <2>3. loading' = [loading EXCEPT ![l] = r]
    BY <1>1
  <2> HIDE DEF r
  <2> QED
    BY <2>1, <2>2, <2>3, LoadUpdate
<1>4. ChatTypeOK'
  <2>1. loading[l].got \in Seq(Entries)
    BY DEF ChatInv, ChatTypeOK, LoadRecords
  <2> QED
    BY <1>1, <1>3, <2>1 DEF ChatInv, ChatTypeOK, SendRecords, LoadRecords
<1>5. Placed'
  BY <1>1, <1>3 DEF ChatInv, Placed, AskedFor
<1>6. Indicators'
  <2>1. NoIndicator(loading[l].got) /\ \A k \in Loads : NoIndicator(loading'[k].got)
    BY <1>2, <1>3 DEF ChatInv, Indicators
  <2>2. \A d \in DOMAIN chats : NoIndicator(chats[d])
    BY DEF ChatInv, Indicators
  <2> QED
    BY <1>1, <2>1, <2>2 DEF Indicators, NoIndicator
<1>7. ASSUME ~hurried' PROVE Unhurried'
  <2>1. Unhurried
    BY <1>1, <1>7 DEF ChatInv
  <2>2. AskedFor(l) /\ loading[l].conv # None
    BY <1>1 DEF ChatInv, Placed, AskedFor
  <2>3. (\A s \in Sends : ~SentOff(s)') /\ (\A k \in Loads : ~AskedFor(k)')
    BY <1>1, <1>3, <2>1, <2>2 DEF Unhurried, OneAtATime, SentOff, AskedFor
  <2>4. activeConv # None /\ loading[l].got \in {chats[activeConv], <<>>}
    BY <1>1, <2>1, <2>2 DEF Unhurried, LoadedThere
  <2>5. chats[activeConv] \in Seq(Entries)
    BY <2>4 DEF ChatInv, ChatTypeOK
  <2>6. RepliesOf(chats[activeConv], chats[activeConv]) /\ RepliesOf(<<>>, chats[activeConv])
    <3>1. Replies(<<>>) = {}
      BY DEF Replies
    <3> QED
      BY <2>5, <3>1, RepliesOfItself, NoReplies
  <2>7. ScreenShows'
    BY <1>1, <2>4, <2>6 DEF ScreenShows
  <2>8. /\ \A s \in Sends : sending'[s].step \notin {"posted", "served"}
        /\ \A k \in Loads : loading'[k].step # "answered"
    BY <2>3 DEF SentOff, AskedFor
  <2> QED
    BY <2>3, <2>7, <2>8 DEF Unhurried, OneAtATime, SentThere, LoadedThere
<1> QED
  BY <1>4, <1>5, <1>6, <1>7 DEF ChatInv

(* The messages a send writes, and a list with one more of them. *)
LEMMA EntriesOf ==
  ASSUME NEW s \in Sends
  PROVE  /\ \A role \in {"user", "typing", "assistant", "unsaved", "error"} :
              /\ Line(s, role) \in Entries
              /\ Line(s, role).role = role /\ Line(s, role).of = s
         /\ \A kept \in Kept(s) : kept \in Seq(Entries) /\ NoIndicator(kept)
         /\ <<Line(s, "user"), Line(s, "typing")>> \in Seq(Entries)
         /\ Replies(<<Line(s, "user"), Line(s, "typing")>>) = {}
         /\ \A role \in {"unsaved", "error"} :
              <<Line(s, role)>> \in Seq(Entries) /\ Replies(<<Line(s, role)>>) = {}
<1>1. \A role \in {"user", "typing", "assistant", "unsaved", "error"} :
        Line(s, role) \in Entries /\ Line(s, role).role = role /\ Line(s, role).of = s
  BY DEF Line, Entries
<1>2. \A a, b \in Entries : /\ <<a, b>> \in Seq(Entries) /\ DOMAIN <<a, b>> = {1, 2} /\ Len(<<a, b>>) = 2
                            /\ <<a, b>>[1] = a /\ <<a, b>>[2] = b
                            /\ <<a>> \in Seq(Entries) /\ DOMAIN <<a>> = {1} /\ <<a>>[1] = a
  OBVIOUS
<1>3. \A kept \in Kept(s) : kept \in Seq(Entries) /\ NoIndicator(kept)
  <2> DEFINE a == Line(s, "user")
             b == Line(s, "assistant")
  <2>1. a \in Entries /\ b \in Entries /\ a.role # "typing" /\ b.role # "typing"
    BY <1>1
  <2>2. Kept(s) = {<<>>, <<a>>, <<a, b>>}
    BY DEF Kept, Exchange
  <2> HIDE DEF a, b
  <2>3. /\ <<>> \in Seq(Entries) /\ NoIndicator(<<>>)
        /\ <<a>> \in Seq(Entries) /\ NoIndicator(<<a>>)
        /\ <<a, b>> \in Seq(Entries) /\ NoIndicator(<<a, b>>)
    BY <1>2, <2>1 DEF NoIndicator
  <2> QED
    BY <2>2, <2>3
<1>4. /\ <<Line(s, "user"), Line(s, "typing")>> \in Seq(Entries)
      /\ Replies(<<Line(s, "user"), Line(s, "typing")>>) = {}
  <2> DEFINE a == Line(s, "user")
             b == Line(s, "typing")
  <2>1. a \in Entries /\ b \in Entries /\ a.role # "assistant" /\ b.role # "assistant"
    BY <1>1
  <2> HIDE DEF a, b
  <2>2. <<a, b>> \in Seq(Entries) /\ Replies(<<a, b>>) = {}
    BY <1>2, <2>1 DEF Replies
  <2> QED
    BY <2>2 DEF a, b
<1>5. ASSUME NEW role \in {"unsaved", "error"}
      PROVE  <<Line(s, role)>> \in Seq(Entries) /\ Replies(<<Line(s, role)>>) = {}
  <2> DEFINE a == Line(s, role)
  <2>1. a \in Entries /\ a.role # "assistant"
    BY <1>1
  <2> HIDE DEF a
  <2>2. <<a>> \in Seq(Entries) /\ Replies(<<a>>) = {}
    BY <1>2, <2>1 DEF Replies
  <2> QED
    BY <2>2 DEF a
<1> QED
  BY <1>1, <1>3, <1>4, <1>5

LEMMA BeginSendKeeps ==
  ASSUME ChatInv, NEW s \in Sends, NEW file \in BOOLEAN, BeginSend(s, file)
  PROVE  ChatInv'
<1> DEFINE new == <<Line(s, "user"), Line(s, "typing")>>
           record == [step |-> IF file THEN "uploads" ELSE "posted", file |-> file,
                      conv |-> IF file THEN None ELSE activeConv, saved |-> FALSE]
<1>1. /\ sending[s].step = "new" /\ currentMessages' = currentMessages \o new /\ Begins
      /\ sending' = [sending EXCEPT ![s] = record]
      /\ UNCHANGED <<activeConv, serverConversations, chats, loading>>
  BY DEF BeginSend
<1>2. new \in Seq(Entries) /\ Replies(new) = {} /\ currentMessages \in Seq(Entries)
  BY EntriesOf DEF ChatInv, ChatTypeOK
<1>3. /\ DOMAIN currentMessages = 1..Len(currentMessages) /\ Len(currentMessages) \in Nat
      /\ DOMAIN currentMessages' = 1..(Len(currentMessages) + 2)
      /\ \A i \in DOMAIN currentMessages : currentMessages'[i] = currentMessages[i]
      /\ currentMessages'[Len(currentMessages) + 1] = Line(s, "user")
      /\ currentMessages'[Len(currentMessages) + 2] = Line(s, "typing")
      /\ currentMessages' \in Seq(Entries)
  BY <1>1, <1>2
<1>4. /\ record.step \in {"uploads", "posted"} /\ record.conv \in {None, activeConv}
      /\ (record.step = "posted" => record.conv = activeConv)
      /\ record \in SendRecords
  BY DEF ChatInv, ChatTypeOK, SendRecords, SendSteps
<1> HIDE DEF new, record
<1>5. /\ sending' \in [Sends -> SendRecords] /\ sending'[s] = record
      /\ \A t \in Sends \ {s} : sending'[t] = sending[t]
  BY <1>1, <1>4, SendUpdate DEF ChatInv
<1>6. ChatTypeOK'
  BY <1>1, <1>3, <1>5, BeginsTyped DEF ChatInv, ChatTypeOK, SendRecords, LoadRecords
<1>7. Placed'
  BY <1>1, <1>4, <1>5 DEF ChatInv, Placed, AskedFor
<1>8. SentOff(s)' /\ \A t \in Sends \ {s} : SentOff(t)' = SentOff(t)
  BY <1>4, <1>5 DEF SentOff
<1>9. Indicators'
  <2>1. ASSUME NEW i \in DOMAIN currentMessages', currentMessages'[i].role = "typing"
        PROVE  sending'[currentMessages'[i].of].step \notin {"new", "done"}
    <3>1. CASE i \in DOMAIN currentMessages
      <4>1. SentOff(currentMessages[i].of) /\ currentMessages[i].of \in Sends
        <5>1. currentMessages[i] \in Entries
          BY <1>2, <3>1
        <5> QED
          BY <1>3, <2>1, <3>1, <5>1 DEF ChatInv, Indicators, Entries
      <4> QED
        BY <1>3, <1>8, <3>1, <4>1 DEF SentOff
    <3>2. CASE i \notin DOMAIN currentMessages
      <4>1. i \in {Len(currentMessages) + 1, Len(currentMessages) + 2}
        BY <1>3, <3>2
      <4>2. Line(s, "user").of = s /\ Line(s, "typing").of = s
        BY DEF Line
      <4>3. currentMessages'[i].of = s
        BY <1>3, <4>1, <4>2
      <4> QED
        BY <1>8, <4>3 DEF SentOff
    <3> QED
      BY <3>1, <3>2
  <2> QED
    BY <1>1, <2>1 DEF ChatInv, Indicators, NoIndicator, SentOff
<1>10. ASSUME ~hurried' PROVE Unhurried'
  <2>1. (\A t \in Sends \ {s} : ~SentOff(t)') /\ (\A l \in Loads : ~AskedFor(l)')
    BY <1>1, <1>8, <1>10, BeginsAlone DEF AskedFor
  <2>2. ScreenShows
    BY <1>1, <1>10, BeginsAlone
  <2>3. ScreenShows'
    BY <1>1, <1>2, <2>2, OthersShown DEF ScreenShows
  <2>4. /\ \A t \in Sends \ {s} : sending'[t].step \notin {"posted", "served"}
        /\ \A l \in Loads : loading'[l].step # "answered"
    BY <2>1 DEF SentOff, AskedFor
  <2>5. SentThere(s)'
    BY <1>1, <1>4, <1>5 DEF SentThere
  <2> QED
    BY <2>1, <2>3, <2>4, <2>5 DEF Unhurried, OneAtATime, SentThere, LoadedThere
<1> QED
  BY <1>6, <1>7, <1>9, <1>10 DEF ChatInv

LEMMA UploadedKeeps ==
  ASSUME ChatInv, NEW s \in Sends, Uploaded(s)
  PROVE  ChatInv'
<1>1. /\ sending[s].step = "uploads"
      /\ sending' = [sending EXCEPT ![s].step = "posted", ![s].conv = activeConv]
      /\ UNCHANGED <<activeConv, currentMessages, serverConversations, chats, loading, hurried>>
  BY DEF Uploaded
<1>2. /\ sending' \in [Sends -> SendRecords]
      /\ sending'[s].step = "posted" /\ sending'[s].conv = activeConv
      /\ \A t \in Sends \ {s} : sending'[t] = sending[t]
  <2> DEFINE r == [[sending[s] EXCEPT !.step = "posted"] EXCEPT !.conv = activeConv]
  <2>1. ChatTypeOK /\ sending[s] \in SendRecords /\ activeConv \in DOMAIN chats \cup {None}
    BY DEF ChatInv, ChatTypeOK
  <2>2. r \in SendRecords /\ r.step = "posted" /\ r.conv = activeConv
    BY <2>1 DEF SendRecords, SendSteps
  <2>3. sending' = [sending EXCEPT ![s] = r]
    BY <1>1
  <2> HIDE DEF r
  <2> QED
    BY <2>1, <2>2, <2>3, SendUpdate
<1>3. ChatTypeOK'
  BY <1>1, <1>2 DEF ChatInv, ChatTypeOK, SendRecords, LoadRecords
<1>4. \A t \in Sends : SentOff(t)' = SentOff(t)
  BY <1>1, <1>2 DEF SentOff
<1>5. Placed'
  BY <1>1, <1>2 DEF ChatInv, Placed, AskedFor
<1>6. Indicators'
  <2>1. \A i \in DOMAIN currentMessages : currentMessages[i].of \in Sends
    <3>1. \A i \in DOMAIN currentMessages : currentMessages[i] \in Entries
      BY DEF ChatInv, ChatTypeOK
    <3> QED
      BY <3>1 DEF Entries
  <2> QED
    BY <1>1, <1>4, <2>1 DEF ChatInv, Indicators, NoIndicator
<1>7. ASSUME ~hurried' PROVE Unhurried'
  <2>1. Unhurried
    BY <1>1, <1>7 DEF ChatInv
  <2>2. OneAtATime'
    BY <1>1, <1>4, <2>1 DEF Unhurried, OneAtATime, AskedFor
  <2>3. \A t \in Sends : SentThere(t)'
    BY <1>1, <1>2, <2>1 DEF Unhurried, SentThere
  <2>4. \A l \in Loads : LoadedThere(l)' /\ AskedFor(l)' = AskedFor(l)
    BY <1>1, <2>1 DEF Unhurried, LoadedThere, AskedFor
  <2>5. ScreenShows' = ScreenShows
    BY <1>1 DEF ScreenShows
  <2> QED
    BY <2>1, <2>2, <2>3, <2>4, <2>5 DEF Unhurried
<1> QED
  BY <1>3, <1>5, <1>6, <1>7 DEF ChatInv

(* A function after one of its values was replaced. *)
LEMMA Updated ==
  ASSUME NEW S, NEW R, NEW Q, NEW f \in [S -> R], R \subseteq Q, NEW s \in S, NEW v \in Q,
         NEW g, g = [f EXCEPT ![s] = v]
  PROVE  g \in [S -> Q] /\ g[s] = v /\ \A t \in S \ {s} : g[t] = f[t]
OBVIOUS

LEMMA SeqDomain ==
  ASSUME NEW T, NEW q \in Seq(T)
  PROVE  DOMAIN q \subseteq Nat
OBVIOUS

(* Neither of two lists has an indicator, nor has the one they make. *)
LEMMA NoIndicatorAdded ==
  ASSUME NEW T, NEW old \in Seq(T), NEW more \in Seq(T), NoIndicator(old), NoIndicator(more)
  PROVE  NoIndicator(old \o more)
<1> DEFINE n == Len(old)
           k == Len(more)
           all == old \o more
<1>1. /\ n \in Nat /\ k \in Nat /\ DOMAIN all = 1..(n + k) /\ DOMAIN old = 1..n /\ DOMAIN more = 1..k
      /\ \A i \in 1..n : all[i] = old[i]
      /\ \A i \in 1..k : all[n + i] = more[i]
  BY ConcatProperties
<1> HIDE DEF n, k, all
<1>2. \A i \in 1..(n + k) : i \in 1..n \/ (i - n \in 1..k /\ i = n + (i - n))
  BY <1>1
<1>3. \A i \in 1..n : all[i].role # "typing"
  BY <1>1 DEF NoIndicator
<1>4. \A j \in 1..k : all[n + j].role # "typing"
  BY <1>1 DEF NoIndicator
<1>5. \A i \in DOMAIN all : all[i].role # "typing"
  BY <1>1, <1>2, <1>3, <1>4
<1> QED
  BY <1>5 DEF NoIndicator, all

(* The gateway answers a send. *)
ServedAs(s, c, saved) ==
  sending' = [sending EXCEPT ![s].step = "served", ![s].conv = c, ![s].saved = saved]

LEMMA Serves ==
  ASSUME ChatInv, NEW s \in Sends, NEW c \in DOMAIN chats' \cup {None}, NEW saved \in BOOLEAN,
         DOMAIN chats \subseteq DOMAIN chats', ServedAs(s, c, saved)
  PROVE  /\ sending'[s].step = "served" /\ sending'[s].conv = c /\ sending'[s].saved = saved
         /\ sending' \in [Sends -> SendRecords']
         /\ \A t \in Sends \ {s} : sending'[t] = sending[t]
<1> DEFINE d(r) == [[[r EXCEPT !.step = "served"] EXCEPT !.conv = c] EXCEPT !.saved = saved]
<1>1. sending \in [Sends -> SendRecords]
  BY DEF ChatInv, ChatTypeOK
<1>2. /\ \A r \in SendRecords : /\ d(r) \in SendRecords'
                               /\ d(r).step = "served" /\ d(r).conv = c /\ d(r).saved = saved
      /\ SendRecords \subseteq SendRecords'
  BY DEF SendRecords, SendSteps
<1>3. sending' = [sending EXCEPT ![s] = d(sending[s])] /\ sending[s] \in SendRecords
  BY <1>1 DEF ServedAs
<1> HIDE DEF d
<1> DEFINE R == SendRecords
           Q == SendRecords'
           v == d(sending[s])
<1>4. /\ sending \in [Sends -> R] /\ R \subseteq Q /\ v \in Q
      /\ v.step = "served" /\ v.conv = c /\ v.saved = saved
      /\ sending' = [sending EXCEPT ![s] = v]
  BY <1>1, <1>2, <1>3
<1> HIDE DEF R, Q, v
<1>5. sending' \in [Sends -> Q]
  BY <1>4, Updated
<1>6. /\ sending'[s] = v
      /\ \A t \in Sends \ {s} : sending'[t] = sending[t]
  BY <1>4, Updated
<1> QED
  BY <1>4, <1>5, <1>6 DEF Q

(* What the gateway keeps of a message and its reply: one conversation     *)
(* grows by it, made for it if none is named; or none could be made.       *)
LEMMA GatewayStoresKept ==
  ASSUME ChatInv, NEW s \in Sends, GatewayStores(s)
  PROVE  /\ sending'[s].step = "served" /\ sending' \in [Sends -> SendRecords']
         /\ \A t \in Sends \ {s} : sending'[t] = sending[t]
         /\ \/ /\ sending[s].conv = None /\ UNCHANGED chats
               /\ sending'[s].conv = None /\ sending'[s].saved = FALSE
            \/ \E c \in DOMAIN chats', old \in Seq(Entries), kept \in Kept(s) :
                 /\ sending'[s].conv = c /\ sending'[s].saved = (kept = Exchange(s))
                 /\ chats' \in Seq(Seq(Entries)) /\ DOMAIN chats' = DOMAIN chats \cup {c}
                 /\ chats'[c] = old \o kept /\ NoIndicator(old)
                 /\ \A d \in DOMAIN chats \ {c} : chats'[d] = chats[d]
                 /\ IF sending[s].conv = None THEN c \notin DOMAIN chats /\ old = <<>>
                    ELSE c = sending[s].conv /\ c \in DOMAIN chats /\ old = chats[c]
<1>1. chats \in Seq(Seq(Entries)) /\ sending[s] \in SendRecords
  BY DEF ChatInv, ChatTypeOK
<1> DEFINE served(c, kept) == [sending EXCEPT ![s].step = "served", ![s].conv = c,
                                              ![s].saved = (kept = Exchange(s))]
<1>2. PICK kept \in Kept(s) :
        \/ /\ sending[s].conv # None
           /\ chats' = [chats EXCEPT ![sending[s].conv] = @ \o kept]
           /\ sending' = served(sending[s].conv, kept)
        \/ /\ sending[s].conv = None
           /\ chats' = Append(chats, kept)
           /\ sending' = served(Len(chats) + 1, kept)
        \/ /\ sending[s].conv = None /\ kept = <<>>
           /\ UNCHANGED chats
           /\ sending' = served(None, kept)
  BY DEF GatewayStores
<1>3. kept \in Seq(Entries) /\ (kept = Exchange(s)) \in BOOLEAN
  BY EntriesOf
<1>4. CASE /\ sending[s].conv = None
           /\ chats' = Append(chats, kept)
           /\ sending' = served(Len(chats) + 1, kept)
  <2> DEFINE c == Len(chats) + 1
  <2>1. /\ chats' \in Seq(Seq(Entries)) /\ DOMAIN chats' = 1..c /\ DOMAIN chats = 1..Len(chats) /\ Len(chats) \in Nat
        /\ chats'[c] = kept /\ \A d \in DOMAIN chats : chats'[d] = chats[d]
    BY <1>1, <1>3, <1>4, AppendProperties
  <2>2. DOMAIN chats' = DOMAIN chats \cup {c} /\ c \in DOMAIN chats' /\ c \notin DOMAIN chats
    BY <2>1
  <2>3. <<>> \o kept = kept /\ <<>> \in Seq(Entries) /\ NoIndicator(<<>>)
    BY <1>3 DEF NoIndicator
  <2>4. sending' = [sending EXCEPT ![s].step = "served", ![s].conv = c,
                                   ![s].saved = (kept = Exchange(s))]
    BY <1>4
  <2> HIDE DEF c
  <2>5. /\ sending'[s].step = "served" /\ sending'[s].conv = c
        /\ sending'[s].saved = (kept = Exchange(s))
        /\ sending' \in [Sends -> SendRecords']
        /\ \A t \in Sends \ {s} : sending'[t] = sending[t]
    <3> DEFINE saved == kept = Exchange(s)
    <3>1. /\ saved \in BOOLEAN /\ c \in DOMAIN chats' \cup {None} /\ DOMAIN chats \subseteq DOMAIN chats'
          /\ sending' = [sending EXCEPT ![s].step = "served", ![s].conv = c, ![s].saved = saved]
      BY <1>3, <2>2, <2>4
    <3> HIDE DEF saved
    <3>2. /\ sending'[s].step = "served" /\ sending'[s].conv = c /\ sending'[s].saved = saved
          /\ sending' \in [Sends -> SendRecords']
          /\ \A t \in Sends \ {s} : sending'[t] = sending[t]
      BY <3>1, Serves DEF ServedAs
    <3> QED
      BY <3>2 DEF saved
  <2>6. chats'[c] = <<>> \o kept
    BY <2>1, <2>3 DEF c
  <2> QED
    BY <1>4, <2>1, <2>2, <2>3, <2>5, <2>6
<1>5. CASE /\ sending[s].conv # None
           /\ chats' = [chats EXCEPT ![sending[s].conv] = @ \o kept]
           /\ sending' = served(sending[s].conv, kept)
  <2> DEFINE c == sending[s].conv
             old == chats[c]
  <2>1. c \in DOMAIN chats
    BY <1>1, <1>5 DEF SendRecords
  <2>2. old \in Seq(Entries) /\ NoIndicator(old)
    BY <2>1 DEF ChatInv, ChatTypeOK, Indicators
  <2>3. old \o kept \in Seq(Entries)
    BY <1>3, <2>2
  <2>4. /\ sending[s].conv = c /\ old = chats[c] /\ chats' = [chats EXCEPT ![c] = old \o kept]
        /\ sending' = [sending EXCEPT ![s].step = "served", ![s].conv = c,
                                      ![s].saved = (kept = Exchange(s))]
    BY <1>5
  <2> HIDE DEF c, old
  <2>5. /\ chats' \in Seq(Seq(Entries)) /\ DOMAIN chats' = DOMAIN chats /\ chats'[c] = old \o kept
        /\ \A d \in DOMAIN chats \ {c} : chats'[d] = chats[d]
    BY <1>1, <2>1, <2>3, <2>4
  <2>6. /\ sending'[s].step = "served" /\ sending'[s].conv = c
        /\ sending'[s].saved = (kept = Exchange(s))
        /\ sending' \in [Sends -> SendRecords']
        /\ \A t \in Sends \ {s} : sending'[t] = sending[t]
    <3> DEFINE saved == kept = Exchange(s)
    <3>1. /\ saved \in BOOLEAN /\ c \in DOMAIN chats' \cup {None} /\ DOMAIN chats \subseteq DOMAIN chats'
          /\ sending' = [sending EXCEPT ![s].step = "served", ![s].conv = c, ![s].saved = saved]
      BY <1>3, <2>1, <2>4, <2>5
    <3> HIDE DEF saved
    <3>2. /\ sending'[s].step = "served" /\ sending'[s].conv = c /\ sending'[s].saved = saved
          /\ sending' \in [Sends -> SendRecords']
          /\ \A t \in Sends \ {s} : sending'[t] = sending[t]
      BY <3>1, Serves DEF ServedAs
    <3> QED
      BY <3>2 DEF saved
  <2>7. DOMAIN chats' = DOMAIN chats \cup {c}
    BY <2>1, <2>5
  <2> QED
    BY <1>5, <2>1, <2>2, <2>4, <2>5, <2>6, <2>7
<1>6. CASE /\ sending[s].conv = None /\ kept = <<>>
           /\ UNCHANGED chats
           /\ sending' = served(None, kept)
  <2>1. (kept = Exchange(s)) = FALSE
    BY <1>6 DEF Exchange
  <2>2. sending' = [sending EXCEPT ![s].step = "served", ![s].conv = None, ![s].saved = FALSE]
    BY <1>6, <2>1
  <2>3. /\ sending'[s].step = "served" /\ sending'[s].conv = None /\ sending'[s].saved = FALSE
        /\ sending' \in [Sends -> SendRecords']
        /\ \A t \in Sends \ {s} : sending'[t] = sending[t]
    <3> DEFINE c == None
               saved == FALSE
    <3>1. /\ saved \in BOOLEAN /\ c \in DOMAIN chats' \cup {None} /\ DOMAIN chats \subseteq DOMAIN chats'
          /\ sending' = [sending EXCEPT ![s].step = "served", ![s].conv = c, ![s].saved = saved]
      <4>1. chats' = chats
        BY <1>6
      <4> QED
        BY <2>2, <4>1
    <3> HIDE DEF c, saved
    <3>2. /\ sending'[s].step = "served" /\ sending'[s].conv = c /\ sending'[s].saved = saved
          /\ sending' \in [Sends -> SendRecords']
          /\ \A t \in Sends \ {s} : sending'[t] = sending[t]
      BY <3>1, Serves DEF ServedAs
    <3> QED
      BY <3>2 DEF c, saved
  <2> QED
    BY <1>6, <2>3
<1> QED
  BY <1>2, <1>4, <1>5, <1>6

(* No conversation could be made: only the send knows. *)
LEMMA GatewayMakesNone ==
  ASSUME ChatInv, NEW s \in Sends, sending[s].step = "posted",
         UNCHANGED <<activeConv, currentMessages, serverConversations, loading, hurried, chats>>,
         sending'[s].step = "served", sending' \in [Sends -> SendRecords'],
         \A t \in Sends \ {s} : sending'[t] = sending[t],
         sending[s].conv = None, sending'[s].conv = None, sending'[s].saved = FALSE
  PROVE  ChatInv'
<1>1. ChatTypeOK'
  BY DEF ChatInv, ChatTypeOK, SendRecords, LoadRecords
<1>2. Placed'
  BY DEF ChatInv, Placed, AskedFor
<1>3. \A t \in Sends : SentOff(t)' = SentOff(t)
  BY DEF SentOff
<1>4. Indicators'
  <2>1. \A i \in DOMAIN currentMessages : currentMessages[i].of \in Sends
    <3>1. \A i \in DOMAIN currentMessages : currentMessages[i] \in Entries
      BY DEF ChatInv, ChatTypeOK
    <3> QED
      BY <3>1 DEF Entries
  <2> QED
    BY <1>3, <2>1 DEF ChatInv, Indicators, NoIndicator
<1>5. ASSUME ~hurried' PROVE Unhurried'
  <2>1. Unhurried
    BY <1>5 DEF ChatInv
  <2>2. OneAtATime'
    BY <1>3, <2>1 DEF Unhurried, OneAtATime, AskedFor
  <2>3. sending[s].conv = activeConv
    BY <2>1 DEF Unhurried, SentThere
  <2>4. SentThere(s)'
    BY <2>3 DEF SentThere
  <2>5. \A t \in Sends \ {s} : SentThere(t)'
    BY <2>1 DEF Unhurried, SentThere
  <2>6. \A l \in Loads : LoadedThere(l)' /\ AskedFor(l)' = AskedFor(l)
    BY <2>1 DEF Unhurried, LoadedThere, AskedFor
  <2>7. ScreenShows' = ScreenShows
    BY DEF ScreenShows
  <2> QED
    BY <2>1, <2>2, <2>4, <2>5, <2>6, <2>7 DEF Unhurried
<1> QED
  BY <1>1, <1>2, <1>4, <1>5 DEF ChatInv

(* A conversation grows by what is kept. *)
LEMMA GatewayKeeps ==
  ASSUME ChatInv, NEW s \in Sends, sending[s].step = "posted",
         UNCHANGED <<activeConv, currentMessages, serverConversations, loading, hurried>>,
         sending'[s].step = "served", sending' \in [Sends -> SendRecords'],
         \A t \in Sends \ {s} : sending'[t] = sending[t],
         NEW c \in DOMAIN chats', NEW old \in Seq(Entries), NEW kept \in Kept(s),
         sending'[s].conv = c, sending'[s].saved = (kept = Exchange(s)),
         chats' \in Seq(Seq(Entries)), DOMAIN chats' = DOMAIN chats \cup {c},
         chats'[c] = old \o kept, NoIndicator(old),
         \A d \in DOMAIN chats \ {c} : chats'[d] = chats[d],
         IF sending[s].conv = None THEN c \notin DOMAIN chats /\ old = <<>>
         ELSE c = sending[s].conv /\ c \in DOMAIN chats /\ old = chats[c]
  PROVE  ChatInv'
<1>1. c # None
  <2>1. DOMAIN chats' \subseteq Nat
    BY SeqDomain
  <2> QED
    BY <2>1, ChatsAssumption
<1>2. kept \in Seq(Entries) /\ NoIndicator(kept)
  BY EntriesOf
<1>3. ChatTypeOK'
  <2>1. /\ currentMessages' \in Seq(Entries) /\ activeConv' \in DOMAIN chats' \cup {None}
        /\ serverConversations' \subseteq DOMAIN chats' /\ hurried' \in BOOLEAN
    BY DEF ChatInv, ChatTypeOK
  <2>2. loading' \in [Loads -> LoadRecords']
    <3>1. LoadRecords \subseteq LoadRecords'
      BY DEF LoadRecords
    <3>2. loading \in [Loads -> LoadRecords]
      BY DEF ChatInv, ChatTypeOK
    <3>3. loading' = loading
      OBVIOUS
    <3> HIDE DEF LoadRecords
    <3> QED
      BY <3>1, <3>2, <3>3
  <2> QED
    BY <2>1, <2>2 DEF ChatTypeOK
<1>4. Placed'
  BY <1>1 DEF ChatInv, Placed, AskedFor
<1>5. \A t \in Sends : SentOff(t)' = SentOff(t)
  BY DEF SentOff
<1>6. Indicators'
  <2>1. \A i \in DOMAIN currentMessages : currentMessages[i].of \in Sends
    <3>1. \A i \in DOMAIN currentMessages : currentMessages[i] \in Entries
      BY DEF ChatInv, ChatTypeOK
    <3> QED
      BY <3>1 DEF Entries
  <2>2. NoIndicator(chats'[c])
    BY <1>2, NoIndicatorAdded
  <2>3. \A d \in DOMAIN chats' : NoIndicator(chats'[d])
    BY <2>2 DEF ChatInv, Indicators
  <2> HIDE DEF NoIndicator
  <2> QED
    BY <1>5, <2>1, <2>3 DEF ChatInv, Indicators, NoIndicator
<1>7. ASSUME ~hurried' PROVE Unhurried'
  <2>1. Unhurried
    BY <1>7 DEF ChatInv
  <2>2. OneAtATime'
    BY <1>5, <2>1 DEF Unhurried, OneAtATime, AskedFor
  <2>3. (\A t \in Sends \ {s} : ~SentOff(t)') /\ (\A l \in Loads : ~AskedFor(l)')
    <3>1. SentOff(s)
      BY DEF SentOff
    <3> QED
      BY <1>5, <2>1, <3>1 DEF Unhurried, OneAtATime, AskedFor
  <2>4. sending[s].conv = activeConv /\ ScreenShows
    BY <2>1, <2>3 DEF Unhurried, SentThere, AskedFor
  <2>5. RepliesOf(currentMessages, old) /\ activeConv \in {None, c}
    <3>1. CASE activeConv = None
      BY <2>4, <3>1, NoReplies DEF ScreenShows
    <3>2. CASE activeConv # None
      BY <2>4, <3>2 DEF ScreenShows
    <3> QED
      BY <3>1, <3>2
  <2>6. SentThere(s)'
    <3>1. sending'[s].saved => chats'[c] = old \o Exchange(s)
      OBVIOUS
    <3> QED
      BY <2>5, <3>1 DEF SentThere
  <2>7. ScreenShows'
    <3>1. CASE activeConv = None
      BY <2>4, <3>1 DEF ScreenShows
    <3>2. CASE activeConv # None
      <4>1. RepliesOf(currentMessages, old \o kept)
        BY <1>2, <2>5, RepliesStay
      <4> QED
        BY <2>5, <3>2, <4>1 DEF ScreenShows
    <3> QED
      BY <3>1, <3>2
  <2>8. /\ \A t \in Sends \ {s} : sending'[t].step \notin {"posted", "served"}
        /\ \A l \in Loads : loading'[l].step # "answered"
    BY <2>3 DEF SentOff, AskedFor
  <2> QED
    BY <2>2, <2>3, <2>6, <2>7, <2>8 DEF Unhurried, SentThere, LoadedThere
<1> QED
  BY <1>3, <1>4, <1>6, <1>7 DEF ChatInv

LEMMA GatewayStoresKeeps ==
  ASSUME ChatInv, NEW s \in Sends, GatewayStores(s)
  PROVE  ChatInv'
<1>1. /\ sending[s].step = "posted"
      /\ UNCHANGED <<activeConv, currentMessages, serverConversations, loading, hurried>>
  BY DEF GatewayStores
<1> QED
  BY <1>1, GatewayStoresKept, GatewayMakesNone, GatewayKeeps

(* What is left of the screen when a send's indicator is taken off. *)
LEMMA WithoutTypingIs ==
  ASSUME ChatInv, NEW s \in Sends
  PROVE  /\ WithoutTyping(s) \in Seq(Entries)
         /\ Replies(currentMessages) = {} => Replies(WithoutTyping(s)) = {}
         /\ \A stored : RepliesOf(currentMessages, stored) => RepliesOf(WithoutTyping(s), stored)
         /\ \A i \in DOMAIN WithoutTyping(s) :
              WithoutTyping(s)[i].role = "typing" =>
                SentOff(WithoutTyping(s)[i].of) /\ WithoutTyping(s)[i].of \in Sends \ {s}
<1> DEFINE line == Line(s, "typing")
           left == Without(currentMessages, line)
<1>1. WithoutTyping(s) = left
  BY DEF WithoutTyping
<1>2. currentMessages \in Seq(Entries)
  BY DEF ChatInv, ChatTypeOK
<1>3. /\ Replies(currentMessages) = {} => Replies(left) = {}
      /\ \A stored : RepliesOf(currentMessages, stored) => RepliesOf(left, stored)
  BY <1>2, RepliesWithout
<1>4. left \in Seq(Entries) /\ LeavesOf(left, currentMessages, Len(currentMessages), line)
  BY <1>2, WithoutLeaves
<1> HIDE DEF left
<1>5. ASSUME NEW i \in DOMAIN left, left[i].role = "typing"
      PROVE  SentOff(left[i].of) /\ left[i].of \in Sends \ {s}
  <2>1. PICK k \in DOMAIN currentMessages : left[i] = currentMessages[k] /\ left[i] # line
    <3>1. DOMAIN currentMessages = 1..Len(currentMessages)
      BY <1>2
    <3> QED
      BY <1>4, <3>1 DEF LeavesOf
  <2>2. left[i] \in Entries
    BY <1>4
  <2>3. left[i].of \in Sends /\ (left[i].of = s => left[i] = line)
    BY <1>5, <2>2 DEF Entries, Line
  <2> QED
    BY <1>5, <2>1, <2>3 DEF ChatInv, Indicators
<1> QED
  BY <1>1, <1>3, <1>4, <1>5

(* A send that ends puts one line in the place of its indicator. *)
LEMMA EndsTyped ==
  ASSUME ChatInv, NEW s \in Sends, NEW role \in {"assistant", "unsaved", "error"},
         sending[s].step \in {"posted", "served"},
         currentMessages' = Append(WithoutTyping(s), Line(s, role)),
         activeConv' \in DOMAIN chats \cup {None}, serverConversations' \subseteq DOMAIN chats,
         sending' = [sending EXCEPT ![s].step = "done"],
         UNCHANGED <<chats, loading, hurried>>
  PROVE  /\ ChatTypeOK' /\ Placed' /\ Indicators'
         /\ ~hurried' =>
              /\ Unhurried
              /\ (\A t \in Sends : ~SentOff(t)') /\ (\A l \in Loads : ~AskedFor(l)')
              /\ ScreenShows' => Unhurried'
<1> DEFINE left == WithoutTyping(s)
           line == Line(s, role)
<1>1. left \in Seq(Entries) /\ line \in Entries /\ line.role = role
  <2>1. role \in {"user", "typing", "assistant", "unsaved", "error"}
    OBVIOUS
  <2>2. line \in Entries /\ line.role = role
    BY <2>1 DEF Line, Entries
  <2>3. left \in Seq(Entries)
    BY WithoutTypingIs
  <2> QED
    BY <2>2, <2>3
<1>2. \A i \in DOMAIN left : left[i].role = "typing" => SentOff(left[i].of) /\ left[i].of \in Sends \ {s}
  BY WithoutTypingIs
<1>3. currentMessages' = Append(left, line)
  OBVIOUS
<1> HIDE DEF left, line
<1>4. /\ currentMessages' \in Seq(Entries)
      /\ \A i \in DOMAIN currentMessages' :
           (i \in DOMAIN left /\ currentMessages'[i] = left[i]) \/ currentMessages'[i] = line
  BY <1>1, <1>3, AppendProperties
<1>5. /\ sending' \in [Sends -> SendRecords]
      /\ sending'[s].step = "done" /\ \A t \in Sends \ {s} : sending'[t] = sending[t]
  <2> DEFINE r == [sending[s] EXCEPT !.step = "done"]
  <2>1. ChatTypeOK /\ sending[s] \in SendRecords
    BY DEF ChatInv, ChatTypeOK
  <2>2. r \in SendRecords /\ r.step = "done"
    BY <2>1 DEF SendRecords, SendSteps
  <2>3. sending' = [sending EXCEPT ![s] = r]
    OBVIOUS
  <2> HIDE DEF r
  <2> QED
    BY <2>1, <2>2, <2>3, SendUpdate
<1>6. ChatTypeOK'
  BY <1>4, <1>5 DEF ChatInv, ChatTypeOK, SendRecords, LoadRecords
<1>7. Placed'
  BY <1>5 DEF ChatInv, Placed, AskedFor
<1>8. Indicators'
  <2>1. ASSUME NEW i \in DOMAIN currentMessages', currentMessages'[i].role = "typing"
        PROVE  sending'[currentMessages'[i].of].step \notin {"new", "done"}
    <3>1. i \in DOMAIN left /\ currentMessages'[i] = left[i]
      BY <1>1, <1>4, <2>1
    <3>2. SentOff(left[i].of) /\ left[i].of \in Sends \ {s}
      BY <1>2, <2>1, <3>1
    <3> QED
      BY <1>5, <3>1, <3>2 DEF SentOff
  <2> QED
    BY <2>1 DEF ChatInv, Indicators, SentOff, NoIndicator
<1>9. ASSUME ~hurried'
      PROVE  /\ Unhurried
             /\ (\A t \in Sends : ~SentOff(t)') /\ (\A l \in Loads : ~AskedFor(l)')
             /\ ScreenShows' => Unhurried'
  <2>1. Unhurried
    BY <1>9 DEF ChatInv
  <2>2. SentOff(s)
    BY DEF SentOff
  <2>3. (\A t \in Sends : ~SentOff(t)') /\ (\A l \in Loads : ~AskedFor(l)')
    BY <1>5, <2>1, <2>2 DEF Unhurried, OneAtATime, SentOff, AskedFor
  <2>4. /\ \A t \in Sends : sending'[t].step \notin {"posted", "served"}
        /\ \A l \in Loads : loading'[l].step # "answered"
    BY <2>3 DEF SentOff, AskedFor
  <2> QED
    BY <2>1, <2>3, <2>4 DEF Unhurried, OneAtATime, SentThere, LoadedThere
<1> QED
  BY <1>6, <1>7, <1>8, <1>9

(* A line that is no stored reply leaves the screen as good as it was. *)
LEMMA OtherLine ==
  ASSUME ChatInv, NEW s \in Sends, NEW role \in {"unsaved", "error"}
  PROVE  /\ Replies(currentMessages) = {} => Replies(Append(WithoutTyping(s), Line(s, role))) = {}
         /\ \A stored : RepliesOf(currentMessages, stored) =>
                          RepliesOf(Append(WithoutTyping(s), Line(s, role)), stored)
<1> DEFINE left == WithoutTyping(s)
           line == Line(s, role)
<1>1. /\ left \in Seq(Entries)
      /\ Replies(currentMessages) = {} => Replies(left) = {}
      /\ \A stored : RepliesOf(currentMessages, stored) => RepliesOf(left, stored)
  BY WithoutTypingIs
<1>2. line \in Entries /\ <<line>> \in Seq(Entries) /\ Replies(<<line>>) = {}
  BY EntriesOf
<1> HIDE DEF left, line
<1>3. Append(left, line) = left \o <<line>>
  BY <1>1, <1>2
<1>4. /\ Replies(left \o <<line>>) = Replies(left)
      /\ \A stored : RepliesOf(left, stored) => RepliesOf(left \o <<line>>, stored)
  BY <1>1, <1>2, OthersShown
<1> QED
  BY <1>1, <1>3, <1>4 DEF left, line

LEMMA ReplyKeeps ==
  ASSUME ChatInv, NEW s \in Sends, Reply(s)
  PROVE  ChatInv'
<1> DEFINE c == sending[s].conv
           role == IF sending[s].saved THEN "assistant" ELSE "unsaved"
<1>1. /\ sending[s].step = "served" /\ currentMessages' = Append(WithoutTyping(s), Line(s, role))
      /\ sending' = [sending EXCEPT ![s].step = "done"] /\ UNCHANGED <<chats, loading, hurried>>
      /\ IF activeConv = None /\ c # None
         THEN activeConv' = c /\ serverConversations' \in {DOMAIN chats, {}}
         ELSE UNCHANGED <<activeConv, serverConversations>>
  BY DEF Reply, Answered
<1>2. c \in DOMAIN chats \cup {None} /\ (sending[s].saved => c # None)
  BY <1>1 DEF ChatInv, ChatTypeOK, Placed, SendRecords
<1>3. activeConv' \in DOMAIN chats \cup {None} /\ serverConversations' \subseteq DOMAIN chats
  <2>1. activeConv \in DOMAIN chats \cup {None} /\ serverConversations \subseteq DOMAIN chats
    BY DEF ChatInv, ChatTypeOK
  <2> QED
    BY <1>1, <1>2, <2>1
<1>4. /\ ChatTypeOK' /\ Placed' /\ Indicators'
      /\ ~hurried' => /\ Unhurried /\ (\A l \in Loads : ~AskedFor(l)')
                      /\ (ScreenShows' => Unhurried')
  <2>1. role \in {"assistant", "unsaved", "error"}
    OBVIOUS
  <2> HIDE DEF role
  <2> QED
    BY <1>1, <1>3, <2>1, EndsTyped
<1>5. ASSUME ~hurried', sending[s].saved PROVE ScreenShows'
  <2>1. SentThere(s)
    BY <1>4, <1>5 DEF Unhurried
  <2>2. PICK old \in Seq(Entries) : chats[c] = old \o Exchange(s) /\ RepliesOf(currentMessages, old)
    BY <1>1, <1>5, <2>1 DEF SentThere
  <2>3. activeConv' = c /\ c # None
    BY <1>1, <1>2, <1>5, <2>1 DEF SentThere
  <2>4. WithoutTyping(s) \in Seq(Entries) /\ RepliesOf(WithoutTyping(s), old)
    BY <2>2, WithoutTypingIs
  <2>5. RepliesOf(Append(WithoutTyping(s), Line(s, "assistant")), old \o Exchange(s))
    <3> DEFINE left == WithoutTyping(s)
    <3>1. left \in Seq(Entries) /\ RepliesOf(left, old)
      BY <2>4
    <3>2. /\ Line(s, "user") \in Entries /\ Line(s, "assistant") \in Entries
          /\ Line(s, "assistant").role = "assistant"
      BY EntriesOf
    <3> HIDE DEF left
    <3>3. RepliesOf(Append(left, Line(s, "assistant")), old \o <<Line(s, "user"), Line(s, "assistant")>>)
      BY <3>1, <3>2, ReplyShown
    <3> QED
      BY <3>3 DEF left, Exchange
  <2> QED
    BY <1>1, <1>5, <2>2, <2>3, <2>5 DEF ScreenShows
<1>6. ASSUME ~hurried', ~sending[s].saved PROVE ScreenShows'
  <2>1. ScreenShows
    BY <1>1, <1>4, <1>6 DEF Unhurried, AskedFor
  <2>2. currentMessages' = Append(WithoutTyping(s), Line(s, "unsaved"))
    BY <1>1, <1>6
  <2>3. /\ Replies(currentMessages) = {} => Replies(currentMessages') = {}
        /\ \A stored : RepliesOf(currentMessages, stored) => RepliesOf(currentMessages', stored)
    BY <2>2, OtherLine
  <2>4. CASE activeConv' = activeConv
    BY <1>1, <2>1, <2>3, <2>4 DEF ScreenShows
  <2>5. CASE activeConv = None /\ activeConv' # None
    <3>1. Replies(currentMessages') = {}
      BY <2>1, <2>3, <2>5 DEF ScreenShows
    <3> QED
      BY <2>5, <3>1, NoReplies DEF ScreenShows
  <2> QED
    BY <1>1, <2>4, <2>5
<1> QED
  BY <1>4, <1>5, <1>6 DEF ChatInv

LEMMA SendFailsKeeps ==
  ASSUME ChatInv, NEW s \in Sends, SendFails(s)
  PROVE  ChatInv'
<1>1. /\ sending[s].step \in {"posted", "served"}
      /\ currentMessages' = Append(WithoutTyping(s), Line(s, "error"))
      /\ sending' = [sending EXCEPT ![s].step = "done"]
      /\ UNCHANGED <<activeConv, serverConversations, chats, loading, hurried>>
  BY DEF SendFails
<1>2. activeConv' \in DOMAIN chats \cup {None} /\ serverConversations' \subseteq DOMAIN chats
  BY <1>1 DEF ChatInv, ChatTypeOK
<1>3. /\ ChatTypeOK' /\ Placed' /\ Indicators'
      /\ ~hurried' => /\ Unhurried /\ (\A l \in Loads : ~AskedFor(l)')
                      /\ (ScreenShows' => Unhurried')
  BY <1>1, <1>2, EndsTyped
<1>4. ASSUME ~hurried' PROVE ScreenShows'
  <2>1. ScreenShows
    BY <1>1, <1>3, <1>4 DEF Unhurried, AskedFor
  <2>2. /\ Replies(currentMessages) = {} => Replies(currentMessages') = {}
        /\ \A stored : RepliesOf(currentMessages, stored) => RepliesOf(currentMessages', stored)
    BY <1>1, OtherLine
  <2> QED
    BY <1>1, <2>1, <2>2 DEF ScreenShows
<1> QED
  BY <1>3, <1>4 DEF ChatInv

LEMMA ChatNextKeeps ==
  ASSUME ChatInv, [ChatNext]_chat_vars
  PROVE  ChatInv'
<1>1. CASE UNCHANGED chat_vars
  <2>1. UNCHANGED <<activeConv, currentMessages, serverConversations, chats, sending, loading, hurried>>
    BY <1>1 DEF chat_vars
  <2> QED
    BY <2>1 DEF ChatInv, ChatTypeOK, SendRecords, LoadRecords, Placed, Indicators, Unhurried, OneAtATime,
                SentThere, LoadedThere,
                ScreenShows, SentOff, AskedFor
<1>2. CASE ChatNext
  BY <1>2, NewChatKeeps, MessagesReadKeeps, ShowMessagesKeeps, SelectConversationKeeps, UploadedKeeps,
     GatewayStoresKeeps, ReplyKeeps, SendFailsKeeps, BeginSendKeeps DEF ChatNext
<1> QED
  BY <1>1, <1>2

(* Every reachable state of the page satisfies its inductive invariant. *)
THEOREM ChatInvariance == ChatSpec => []ChatInv
<1> QED
  BY ChatInitInv, ChatNextKeeps, PTL DEF ChatSpec

LEMMA InvariantSaysScreen == ChatInv => ScreenIsTheConversation
<1> SUFFICES ASSUME ChatInv PROVE ScreenIsTheConversation
  OBVIOUS
<1>1. activeConv \in DOMAIN chats \cup {None} /\ serverConversations \subseteq DOMAIN chats
  BY DEF ChatInv, ChatTypeOK
<1>2. ASSUME ~hurried, ~UnderWay PROVE ScreenShows
  BY <1>2 DEF ChatInv, Unhurried, UnderWay, AskedFor
<1>3. \A i \in DOMAIN currentMessages :
        currentMessages[i].role = "typing" => sending[currentMessages[i].of].step \notin {"new", "done"}
  BY DEF ChatInv, Indicators, SentOff
<1> QED
  BY <1>1, <1>2, <1>3 DEF ScreenIsTheConversation, ScreenShows

(* However many messages, loads and conversations: to someone who waits,   *)
(* the replies on the screen are those of the selected conversation, in    *)
(* its order, but for some that could not be stored; the list offers only conversations there are, and an         *)
(* indicator is shown only while its message is under way (chat.html).     *)
THEOREM Screen == ChatSpec => []ScreenIsTheConversation
<1> QED
  BY ChatInvariance, InvariantSaysScreen, PTL

(* The two sides side by side, as the run explores them, are each itself:  *)
(* what is proved of one holds of the pair.                                *)
THEOREM SideBySide == MCSpec => Spec /\ ChatSpec
<1>1. MCInit => Init /\ ChatInit
  BY DEF MCInit
<1>2. [MCNext]_<<focus, vars, chat_vars>> => [Next]_vars /\ [ChatNext]_chat_vars
  BY DEF MCNext
<1> QED
  BY <1>1, <1>2, PTL DEF MCSpec, Spec, ChatSpec
==============================================================================
