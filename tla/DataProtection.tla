---------------------------- MODULE DataProtection ----------------------------
(***************************************************************************)
(* The libraries of shared/security that look after data: the key ring of  *)
(* encryption.py in each process, the rules of dlp.py, the classifier of   *)
(* data_classification.py and the request filter of sanitizer.py.  What    *)
(* the rules look at is the set of kinds of things in it; a text to be     *)
(* masked is a set of things made of pieces, of which a pattern may take a *)
(* part.                                                                   *)
(***************************************************************************)
EXTENDS Absence, Naturals, Sequences, FiniteSets

CONSTANTS
  Holders,     \* processes with an encryption manager
  Fields,      \* record and field: the associated data
  MaxRotations, \* bound: keys made
  MaxStored,   \* bound: values encrypted
  RuleNames,   \* of DLP rules
  DefaultRules, \* DEFAULT_DLP_RULES: one of each action there
  MaxIncidents \* bound: incidents, before the last inspection

(* A rule's pattern matches the contents that have its name in them. *)
DLPActions == {"allow", "alert", "mask", "quarantine", "block"}
DLPRules == [name : RuleNames, action : DLPActions, enabled : BOOLEAN, contextual : BOOLEAN]

ASSUME DataProtectionAssumption ==
  /\ DefaultRules \in Seq(DLPRules)
  /\ {MaxRotations, MaxStored, MaxIncidents} \subseteq Nat
  /\ None \notin Holders \cup {"value"} /\ \A left \in SUBSET {{}, {"six digits"}} : None # left  \* what masking leaves of a text

VARIABLES
  (* encryption *)
  ring,      \* per process: keys by version, the current version, whether it has the master key
  cut_keys,  \* keys made so far
  encrypted, \* values stored: version, key, field, and the process that wrote it, None after its restart
  (* data loss prevention *)
  dlp_rules, dlp_incidents,
  (* the classifier's text, and the request the filter looks at *)
  item,
  filtered

ring_vars == <<ring, cut_keys, encrypted>>
dlp_vars == <<dlp_rules, dlp_incidents>>
data_vars == <<ring_vars, dlp_vars, item, filtered>>

-----------------------------------------------------------------------------
(* EncryptionManager: version 0 is derived from the master key alone, and  *)
(* so the same everywhere; every rotation salts, and keeps the salt        *)
(* nowhere.                                                                *)
FreshRing(keyed) == [keyed |-> keyed, current |-> 0, keys |-> IF keyed THEN [v \in {0} |-> 0] ELSE <<>>]

RingInit ==
  /\ ring \in [Holders -> {FreshRing(TRUE), FreshRing(FALSE)}]
  /\ cut_keys = 0 /\ encrypted = {}

(* mutant: the new key takes the place of the old one *)
RotatedAlone(h) == [v \in {ring[h].current + 1} |-> cut_keys + 1]

(* the ring with a new version *)
Rotated(h) ==
  [v \in DOMAIN ring[h].keys \cup {ring[h].current + 1} |->
     IF v \in DOMAIN ring[h].keys THEN ring[h].keys[v] ELSE cut_keys + 1]

RotateKey(h) ==
  /\ ring[h].keyed /\ cut_keys < MaxRotations
  /\ ring' = [ring EXCEPT ![h].current = @ + 1, ![h].keys = Rotated(h)]
  /\ cut_keys' = cut_keys + 1
  /\ UNCHANGED <<encrypted, dlp_vars, item, filtered>>

(* encrypt_field; without a key the value is stored as it is *)
EncryptField(h, field) ==
  /\ Cardinality(encrypted) < MaxStored
  /\ encrypted' = encrypted \cup
       {IF ring[h].keyed
        THEN [version |-> ring[h].current, key |-> ring[h].keys[ring[h].current], field |-> field, by |-> h]
        ELSE [version |-> None, key |-> None, field |-> field, by |-> h]}
  /\ UNCHANGED <<ring, cut_keys, dlp_vars, item, filtered>>

RestartHolder(h) ==
  /\ ring' = [ring EXCEPT ![h] = FreshRing(ring[h].keyed)]
  /\ encrypted' = {IF e.by = h THEN [e EXCEPT !.by = None] ELSE e : e \in encrypted}
  /\ UNCHANGED <<cut_keys, dlp_vars, item, filtered>>

(* decrypt_field: the value, None, or what is stored as it stands *)
DecryptField(h, field, e) ==
  CASE ~ring[h].keyed -> "as is"
    [] ring[h].keyed /\ e.version \notin DOMAIN ring[h].keys -> None
    [] OTHER -> IF ring[h].keys[e.version] = e.key /\ field = e.field THEN "value" ELSE None

-----------------------------------------------------------------------------
(* DLPEngine *)
Restrictive == [allow |-> 0, alert |-> 1, mask |-> 2, quarantine |-> 3, block |-> 4]

(* the rules of a set, in their order; SelectSeq, which the provers do not *)
(* know                                                                    *)
Among(rules, S) ==
  LET found[i \in 0..Len(rules)] ==
        IF i = 0 THEN <<>>
        ELSE IF rules[i] \in S THEN Append(found[i - 1], rules[i]) ELSE found[i - 1]
  IN  found[Len(rules)]

InSeq(rules) == {rules[i] : i \in DOMAIN rules}

DLPInit == dlp_rules = DefaultRules /\ dlp_incidents = <<>>

(* bound: one at a time beside the default ones *)
AddRule(rule) ==
  /\ InSeq(dlp_rules) \subseteq InSeq(DefaultRules)
  /\ \A i, j \in DOMAIN dlp_rules : dlp_rules[i] = dlp_rules[j] => i = j
  /\ dlp_rules' = Append(dlp_rules, rule)
  /\ UNCHANGED <<ring_vars, dlp_incidents, item, filtered>>

RemoveRule(name) ==
  /\ \E i \in DOMAIN dlp_rules : dlp_rules[i].name = name
  /\ dlp_rules' = Among(dlp_rules, {r \in DLPRules : r.name # name})
  /\ UNCHANGED <<ring_vars, dlp_incidents, item, filtered>>

(* mutant: a rule that is off counts, too *)
MatchedAnyhow(content, in_context) ==
  Among(dlp_rules, {r \in DLPRules : r.name \in content /\ (r.contextual => in_context)})

(* the rules that inspect finds violated, in their order *)
Matched(content, in_context) ==
  Among(dlp_rules, {r \in DLPRules : r.enabled /\ r.name \in content /\ (r.contextual => in_context)})

Inspect(content, in_context) ==
  /\ Len(dlp_incidents) < MaxIncidents
  /\ LET found == Matched(content, in_context)
     IN  dlp_incidents' = dlp_incidents \o [i \in DOMAIN found |-> [action |-> found[i].action, resolved |-> FALSE]]
  /\ UNCHANGED <<ring_vars, dlp_rules, item, filtered>>

ResolveIncident(i) ==
  /\ i \in DOMAIN dlp_incidents
  /\ dlp_incidents' = [dlp_incidents EXCEPT ![i].resolved = TRUE]
  /\ UNCHANGED <<ring_vars, dlp_rules, item, filtered>>

(* get_action_for_content asks for no context *)
GetAction(content) ==
  LET actions == {"allow"} \cup {r.action : r \in {q \in InSeq(dlp_rules) : q.enabled /\ q.name \in content}}
  IN  CHOOSE a \in actions : \A b \in actions : Restrictive[a] >= Restrictive[b]

(* mutant: blocked content is left as it is *)
MaskOnly(content) == content \ {r.name : r \in {q \in InSeq(dlp_rules) : q.action = "mask"}}

(* mask_content masks for rules that are off, too, and not for quarantine *)
MaskContent(content) ==
  content \ {r.name : r \in {q \in InSeq(dlp_rules) : q.action \in {"mask", "block"}}}

-----------------------------------------------------------------------------
(* DataClassifier: the classes, their patterns, and what these find *)
ValueOrder == [public |-> 0, internal |-> 1, confidential |-> 2, restricted |-> 3, pii |-> 4, phi |-> 5, pci |-> 6]
Classes == DOMAIN ValueOrder
PatternClass == [ssn |-> "phi", email |-> "pii", zip |-> "pii", card |-> "pci", cvv |-> "pci",
                 credential |-> "confidential"]

(* A card number written in groups of four, six and five digits holds what *)
(* CVV and ZIP code look for.                                              *)
CardNumber == {"sixteen digits"}
AmexNumber == {"four digits", "six digits", "five digits"}
Things == {{"ssn"}, {"email"}, {"credential"}, CardNumber, AmexNumber}

Piece == [ssn |-> "ssn", email |-> "email", zip |-> "five digits", cvv |-> "four digits",
          credential |-> "credential"]

(* what a pattern matches in a thing, or in what is left of it: a card     *)
(* number only as a whole                                                  *)
Matches(pattern, thing) ==
  IF pattern = "card" THEN (IF thing \in {CardNumber, AmexNumber} THEN thing ELSE {})
  ELSE thing \cap {Piece[pattern]}

FoundClasses(text) ==
  {PatternClass[p] : p \in {q \in DOMAIN PatternClass : \E thing \in text : Matches(q, thing) # {}}}

RetentionDays == [phi |-> 2555, pci |-> 365, pii |-> 730, confidential |-> 365, internal |-> 180,
                  public |-> None, restricted |-> 90]

Highest(classes) == CHOOSE c \in classes : \A d \in classes : ValueOrder[c] >= ValueOrder[d]

(* _classify_by_context answers internal at least, once there is a context *)
ContextClasses == {"phi", "pci", "confidential", "internal"}

(* an empty text is public wherever it comes from *)
Classify(text, context) ==
  IF text = None THEN "public"
  ELSE Highest({"public"} \cup FoundClasses(text) \cup ({context} \ {None}))

RequiresEncryption(class) == class \in {"phi", "pii", "pci", "restricted"}

(* mutant: only the patterns of the class itself *)
CoversOwn(class, pattern) == ValueOrder[PatternClass[pattern]] = ValueOrder[class]

(* _mask applies the patterns of the class and of lower ones ... *)
Covers(class, pattern) == ValueOrder[PatternClass[pattern]] <= ValueOrder[class]

Substitute(class, pattern, left) ==
  IF Covers(class, pattern) THEN left \ Matches(pattern, left) ELSE left

(* ... one after the other, each to what the ones before it have left *)
MaskThing(thing, class) ==
  LET Sub(pattern, left) == Substitute(class, pattern, left)
  IN  Sub("credential", Sub("cvv", Sub("card", Sub("zip", Sub("email", Sub("ssn", thing))))))

Mask(text, class) == {MaskThing(thing, class) : thing \in text}

(* classify_data; no masked value where no encryption is required *)
Classified(text, context) ==
  LET class == Classify(text, context)
  IN  [class |-> class, retention |-> RetentionDays[class],
       masked |-> IF RequiresEncryption(class) THEN Mask(text, class) ELSE None]

ClassifyItem ==
  /\ item.result = None
  /\ item' = [item EXCEPT !.result = Classified(item.text, item.context)]
  /\ UNCHANGED <<ring_vars, dlp_vars, filtered>>

-----------------------------------------------------------------------------
(* InputSanitizationMiddleware.dispatch.  A request has an attack in some  *)
(* of the places where one may be; query values are looked at character by *)
(* character, so nothing is found there but a comment sign of SQL.         *)
Places == {"query", "query comment", "header", "other header", "field", "nested field", "list", "not JSON"}
ReadsBody(request) == request.method = "POST"

CheckQuery ==
  /\ filtered.step = "query"
  /\ filtered' = [filtered EXCEPT !.step =
       CASE filtered.exempt -> "passed"
         [] ~filtered.exempt /\ "query comment" \in filtered.attacks -> "blocked"
         [] OTHER -> "headers"]
  /\ UNCHANGED <<ring_vars, dlp_vars, item>>

CheckHeaders ==
  /\ filtered.step = "headers"
  /\ filtered' = [filtered EXCEPT !.step =
       IF "header" \in filtered.attacks THEN "blocked" ELSE IF ReadsBody(filtered) THEN "body" ELSE "passed"]
  /\ UNCHANGED <<ring_vars, dlp_vars, item>>

(* mutant: a body that does not parse in full is let through *)
CheckBodyLenient ==
  /\ filtered.step = "body"
  /\ filtered' = [filtered EXCEPT !.step =
       IF "field" \in filtered.attacks /\ "list" \notin filtered.attacks THEN "blocked" ELSE "passed"]
  /\ UNCHANGED <<ring_vars, dlp_vars, item>>

(* the strings right in a JSON object; what is cleaned is thrown away *)
CheckBody ==
  /\ filtered.step = "body"
  /\ filtered' = [filtered EXCEPT !.step = IF "field" \in filtered.attacks THEN "blocked" ELSE "passed"]
  /\ UNCHANGED <<ring_vars, dlp_vars, item>>

(* request.json fails: logged, passed over *)
BodyFails ==
  /\ filtered.step = "body"
  /\ filtered' = [filtered EXCEPT !.step = "passed", !.attacks = @ \cup {"not JSON"}]
  /\ UNCHANGED <<ring_vars, dlp_vars, item>>

-----------------------------------------------------------------------------
ItemInit ==
  item \in [text : (SUBSET Things) \cup {None}, context : ContextClasses \cup {None}, result : {None}]

FilterInit ==
  filtered \in [attacks : SUBSET (Places \ {"not JSON"}), exempt : BOOLEAN, method : {"GET", "POST"}, step : {"query"}]

DataInit == RingInit /\ DLPInit /\ ItemInit /\ FilterInit

RingNext ==
  \E h \in Holders : RotateKey(h) \/ RestartHolder(h) \/ \E field \in Fields : EncryptField(h, field)

DLPNext ==
  \/ \E rule \in DLPRules : AddRule(rule)
  \/ \E name \in RuleNames : RemoveRule(name)
  \/ \E content \in SUBSET RuleNames, in_context \in BOOLEAN : Inspect(content, in_context)
  \/ \E i \in 1..MaxIncidents : ResolveIncident(i)

FilterNext == CheckQuery \/ CheckHeaders \/ CheckBody \/ BodyFails

DataNext == RingNext \/ DLPNext \/ ClassifyItem \/ FilterNext

DataSpec == DataInit /\ [][DataNext]_data_vars

-----------------------------------------------------------------------------
DataTypeOK ==
  /\ \A h \in Holders : ring[h].current \in 0..MaxRotations
  /\ \A e \in encrypted : e.field \in Fields /\ e.by \in Holders \cup {None}
  /\ dlp_rules \in Seq(DLPRules)
  /\ filtered.step \in {"query", "headers", "body", "passed", "blocked"}

(***************************************************************************)
(* A value opens only with the key and for the field it was encrypted for, *)
(* although processes number their own keys alike.  And it stays open to   *)
(* the process that wrote it, through its rotations, until that restarts;  *)
(* one of version 0, to every process with the master key for good.        *)
(***************************************************************************)
OpensToItsOwn ==
  \A h \in Holders, e \in encrypted, field \in Fields :
    LET opened == DecryptField(h, field, e) IN
    /\ opened = "value" => field = e.field /\ e.key \in {ring[h].keys[v] : v \in DOMAIN ring[h].keys}
    /\ ring[h].keyed /\ e.key # None /\ field = e.field /\ (e.by = h \/ e.version = 0) => opened = "value"

(***************************************************************************)
(* Three functions of the engine agree, whatever rules are added, removed  *)
(* or off: no incident asks for more than the action for its content, it   *)
(* is that action if the context is there, and masked content needs no     *)
(* more masking or blocking.                                               *)
(***************************************************************************)
StrongestIsTaken ==
  \A content \in SUBSET RuleNames, in_context \in BOOLEAN :
    LET found == {r.action : r \in InSeq(Matched(content, in_context))} IN
    /\ \A a \in found : Restrictive[a] <= Restrictive[GetAction(content)]
    /\ in_context => GetAction(content) \in found \cup {"allow"}
    /\ GetAction(MaskContent(content)) \in {"allow", "alert", "quarantine"}

(***************************************************************************)
(* Nothing that a pattern found is left in a masked value, but for one     *)
(* thing: the ZIP code's pattern, which comes first, runs into a card      *)
(* number with a group of five digits, and the card's own then no longer   *)
(* finds it.  Where there is no masked value, the text has nothing in it   *)
(* but, at most, a credential, which mask_sensitive_data therefore leaves  *)
(* as it is; and the retention is that of the highest class, though a      *)
(* lower one in it may ask for longer.                                     *)
(***************************************************************************)
MaskedIsClean ==
  item.result # None =>
    /\ item.result.masked # None =>
         UNION item.result.masked = IF AmexNumber \in item.text THEN {"six digits"} ELSE {}
    /\ item.result.masked = None => item.text \in {None, {}, {{"credential"}}}
    /\ item.result.class = "public" => item.text \in {None, {}}

(***************************************************************************)
(* The filter blocks what it finds in the places it looks at, and what it  *)
(* passes has an attack only where it does not look.                       *)
(***************************************************************************)
PassedUnseen ==
  filtered.step = "passed" =>
    \/ filtered.exempt \/ "not JSON" \in filtered.attacks
    \/ filtered.attacks \subseteq {"query", "other header", "nested field", "list"}
    \/ filtered.method = "GET" /\ filtered.attacks \cap {"query comment", "header"} = {}
===============================================================================
