------------------------ MODULE GuardrailsCheckProofs ------------------------
(***************************************************************************)
(* What holds of the HTTP half of the guardrails service for any jobs,     *)
(* texts, policies and cache: models stay with those that asked for them   *)
(* once the preload thread has ended (OwnModels), every answer rests on    *)
(* what was heard of its own text (Verdicts), and the strictest rule that  *)
(* matches decides (Strictest).                                            *)
(*                                                                         *)
(* The first needs only that the loop's record keeps its fields.  The      *)
(* other two need the inductive invariant IInv, and what the fold over the *)
(* rules computes, for policy files of any length (EvaluateDecides).       *)
(***************************************************************************)
EXTENDS GuardrailsCheck, SequenceTheorems, FiniteSetTheorems, WellFoundedInduction, TLAPS

(* The loop's record has its four fields, and between getters none is loading. *)
LoopOK ==
  /\ loop = [job |-> loop.job, at |-> loop.at, load |-> loop.load, heard |-> loop.heard]
  /\ loop.at \in {"runRoberta", "compare", "runBert"} => loop.load = "check"

LEMMA LoopInit == Init => LoopOK
<1>1. Init => loop = Idle
  BY DEF Init
<1> QED BY <1>1 DEF Idle, LoopOK

(* The steps that hand the classifier over, or end the handler. *)
LEMMA ObtainLoop ==
  ASSUME LoopOK, NEW got, Obtain(got)
  PROVE  LoopOK' /\ loop'.load = "check"
<1>1. loop' = Idle \/ \E at : loop' = [loop EXCEPT !.at = at, !.load = "check"]
  BY DEF Obtain, GoTo, Returns
<1>2. CASE loop' = Idle
  BY <1>2 DEF LoopOK, Idle
<1>3. ASSUME NEW at, loop' = [loop EXCEPT !.at = at, !.load = "check"]
      PROVE  LoopOK' /\ loop'.load = "check"
  BY <1>3 DEF LoopOK
<1> QED BY <1>1, <1>2, <1>3

(* Every conclusion of the ensemble ends the handler, every other step of it *)
(* goes on to a getter.                                                      *)
LEMMA EnsembleLoop ==
  ASSUME LoopOK, RunsRoberta \/ ComparesWithBert \/ RunsBert
  PROVE  LoopOK' /\ loop'.load = "check"
<1>1. ASSUME NEW toxic, NEW score, NEW heard, Conclude(toxic, score, heard)
      PROVE  LoopOK' /\ loop'.load = "check"
  <2>1. loop' = Idle
    BY <1>1 DEF Conclude, Returns
  <2> QED BY <2>1 DEF LoopOK, Idle
<1>2. ASSUME NEW at, NEW heard, Goes(at, heard)
      PROVE  LoopOK' /\ loop'.load = "check"
  BY <1>2 DEF Goes, LoopOK
<1>3. CASE RunsRoberta
  <2>1. PICK score \in RobertaSays :
          LET heard == [loop.heard EXCEPT !.roberta = score]
          IN  Goes("getBert", heard) \/ Conclude(TRUE, score, heard) \/ Goes("askBert", heard)
    BY <1>3 DEF RunsRoberta
  <2> QED BY <2>1, <1>1, <1>2
<1>4. CASE ComparesWithBert
  <2>1. PICK score \in BertSays :
          LET heard == [loop.heard EXCEPT !.bert = score]
          IN  \/ Goes("getBert", heard)
              \/ \E s : Conclude(TRUE, s, heard)
    BY <1>4 DEF ComparesWithBert
  <2> QED BY <2>1, <1>1, <1>2
<1>5. CASE RunsBert
  <2>1. \E toxic, score, heard : Conclude(toxic, score, heard)
    BY <1>5 DEF RunsBert
  <2> QED BY <2>1, <1>1
<1> QED BY <1>3, <1>4, <1>5

LEMMA StartsLoop ==
  ASSUME LoopOK, NEW j, Starts(j)
  PROVE  LoopOK' /\ loop.load = "check" /\ loop'.load = "check"
<1>1. loop = Idle
  BY DEF Starts, CheckIsCached, CheckScans, CheckVerified, TraceArrives, ReloadArrives,
         ShapArrives, Ready
<1>2. loop' = Idle \/ \E at : loop' = [Idle EXCEPT !.job = j, !.at = at]
  BY <1>1 DEF Starts, CheckIsCached, CheckScans, CheckVerified, TraceArrives, ReloadArrives,
         ShapArrives, Runs
<1> QED BY <1>1, <1>2 DEF Idle, LoopOK

LEMMA LoopNext == LoopOK /\ [Next]_vars => LoopOK'
<1> SUFFICES ASSUME LoopOK, [Next]_vars PROVE LoopOK'
  OBVIOUS
<1>1. CASE \E j \in Jobs : Starts(j)
  BY <1>1, StartsLoop
<1>2. CASE HasModel \/ LoadFails \/ GetsModel
  BY <1>2, ObtainLoop DEF HasModel, LoadFails, GetsModel
<1>3. CASE LooksUpModel \/ LoadsModel \/ NamesModel
  BY <1>3 DEF LooksUpModel, LoadsModel, NamesModel, Getting, LoopOK
<1>4. CASE RunsRoberta \/ ComparesWithBert \/ RunsBert
  BY <1>4, EnsembleLoop
<1>5. CASE PreloadSteps \/ Tick \/ UNCHANGED vars
  BY <1>5 DEF PreloadSteps, PreloadLooksUp, PreloadLoads, PreloadNames, Tick, vars, LoopOK
<1> QED BY <1>1, <1>2, <1>3, <1>4, <1>5 DEF Next, LoopSteps

-----------------------------------------------------------------------------
(* What a getter hands over is the model it was asked for, or nothing. *)
LEMMA ObtainOwn ==
  ASSUME LoopOK, ModelsAreTheirOwn, NEW got, Obtain(got), UNCHANGED manager,
         got \in {Wanted, None}, loop.load # "name"
  PROVE  ModelsAreTheirOwn'
<1>1. loop'.load = "check"
  BY ObtainLoop
<1>2. model_pipeline' = model_name_loaded'
  BY DEF ModelsAreTheirOwn, manager
<1>3. /\ roberta' \in {"RoBERTa", None} /\ bert' \in {"BERT", None}
      /\ shap' \in {"BERT", None}
  BY DEF Obtain, Wanted, ModelsAreTheirOwn, models
<1> QED BY <1>1, <1>2, <1>3 DEF ModelsAreTheirOwn

LEMMA OwnNext ==
  ASSUME LoopOK, preload = "done", ModelsAreTheirOwn, [Next]_vars
  PROVE  ModelsAreTheirOwn'
<1>1. CASE \E j \in Jobs : Starts(j)
  <2>1. PICK j \in Jobs : Starts(j)
    BY <1>1
  <2>2. loop.load = "check" /\ loop'.load = "check"
    BY <2>1, StartsLoop
  <2>3. /\ UNCHANGED <<manager, roberta, shap>>
        /\ bert' \in {bert, None}
    BY <2>1 DEF Starts, CheckIsCached, CheckScans, CheckVerified, TraceArrives,
                ReloadArrives, ShapArrives, models
  <2> QED BY <2>2, <2>3 DEF ModelsAreTheirOwn, manager
<1>2. CASE HasModel
  <2>1. Obtain(Held) /\ UNCHANGED manager /\ loop.load # "name"
    BY <1>2 DEF HasModel, Getting
  <2>2. Held \in {Wanted, None}
    BY DEF Held, Wanted, ModelsAreTheirOwn
  <2> QED BY <2>1, <2>2, ObtainOwn
<1>3. CASE LooksUpModel
  <2>1. /\ UNCHANGED <<manager, models>> /\ loop.load = "check"
        /\ loop' = [loop EXCEPT !.load = IF Loaded(Wanted) THEN "return" ELSE "load"]
    BY <1>3 DEF LooksUpModel, Getting
  <2>2. loop'.at = loop.at /\ loop'.load = IF Loaded(Wanted) THEN "return" ELSE "load"
    BY <2>1 DEF LoopOK
  <2> QED BY <2>1, <2>2 DEF ModelsAreTheirOwn, manager, models, Loaded, Wanted
<1>4. CASE LoadsModel
  <2>1. loop.load = "load" /\ model_pipeline' = Wanted
        /\ loop' = [loop EXCEPT !.load = "name"] /\ UNCHANGED models
    BY <1>4 DEF LoadsModel, Getting
  <2>2. loop'.at = loop.at /\ loop'.load = "name"
    BY <2>1 DEF LoopOK
  <2> QED BY <2>1, <2>2 DEF ModelsAreTheirOwn, models, Wanted
<1>5. CASE LoadFails
  BY <1>5, ObtainOwn DEF LoadFails, Getting
<1>6. CASE NamesModel
  <2>1. /\ loop.load = "name" /\ model_name_loaded' = Wanted
        /\ loop' = [loop EXCEPT !.load = "return"] /\ UNCHANGED <<model_pipeline, models>>
    BY <1>6 DEF NamesModel, Getting
  <2>2. loop'.at = loop.at /\ loop'.load = "return"
    BY <2>1 DEF LoopOK
  <2> QED BY <2>1, <2>2 DEF ModelsAreTheirOwn, models, Wanted
<1>7. CASE GetsModel
  <2>1. Obtain(model_pipeline) /\ UNCHANGED manager /\ loop.load = "return"
    BY <1>7 DEF GetsModel, Getting
  <2>2. model_pipeline = Wanted
    BY <2>1 DEF ModelsAreTheirOwn
  <2> QED BY <2>1, <2>2, ObtainOwn
<1>8. CASE RunsRoberta \/ ComparesWithBert \/ RunsBert
  <2>1. loop'.load = "check"
    BY <1>8, EnsembleLoop
  <2>2. UNCHANGED <<manager, models>> /\ loop.at \in {"runRoberta", "compare", "runBert"}
    BY <1>8 DEF RunsRoberta, ComparesWithBert, RunsBert
  <2>3. loop.load = "check"
    BY <2>2 DEF LoopOK
  <2> QED BY <2>1, <2>2, <2>3 DEF ModelsAreTheirOwn, manager, models
<1>9. CASE PreloadSteps
  BY <1>9 DEF PreloadSteps, PreloadLooksUp, PreloadLoads, PreloadNames
<1>10. CASE Tick \/ UNCHANGED vars
  BY <1>10 DEF Tick, vars, ModelsAreTheirOwn, manager, models, Wanted
<1> QED BY <1>1, <1>2, <1>3, <1>4, <1>5, <1>6, <1>7, <1>8, <1>9, <1>10 DEF Next, LoopSteps

(* get_model_pipeline and ModelLoader: once the preload thread has ended     *)
(* with every model in its place, none is ever handed to the wrong user.     *)
THEOREM OwnModels == Spec => ModelsStayTheirOwn
<1>1. Spec => []LoopOK
  BY LoopInit, LoopNext, PTL DEF Spec
<1>2. LoopOK /\ [Next]_vars =>
        [preload = "done" /\ ModelsAreTheirOwn => ModelsAreTheirOwn']_vars
  BY OwnNext
<1> QED BY <1>1, <1>2, PTL DEF Spec, ModelsStayTheirOwn

-----------------------------------------------------------------------------
(* Induction, from the library's theorem on well-founded relations. *)
LEMMA LeastNatural ==
  ASSUME NEW S \in SUBSET Nat, S # {}
  PROVE  \E m \in S : \A k \in S : m <= k
<1> DEFINE R == OpToRel(<, Nat)
<1>1. IsWellFoundedOn(R, Nat)
  BY NatLessThanWellFounded
<1>2. \A x, y \in Nat : <<y, x>> \in R <=> y < x
  BY DEF OpToRel
<1> HIDE DEF R
<1>3. PICK x \in S : \A y \in S : ~(<<y, x>> \in R)
  BY <1>1, WFMin
<1>4. x \in Nat /\ \A y \in S : y \in Nat
  OBVIOUS
<1>5. \A y \in S : ~(y < x)
  BY <1>2, <1>3, <1>4
<1>6. \A y \in S : x <= y
  BY <1>4, <1>5
<1> QED
  BY <1>6

LEMMA SetInduction ==
  ASSUME NEW T, 0 \in T, \A n \in Nat : n \in T => n + 1 \in T
  PROVE  Nat \subseteq T
<1> DEFINE B == {n \in Nat : n \notin T}
<1> SUFFICES ASSUME B # {} PROVE FALSE
  OBVIOUS
<1>1. PICK m \in B : \A k \in B : m <= k
  BY LeastNatural
<1>2. m # 0
  BY <1>1
<1>3. m - 1 \in Nat /\ m - 1 \notin B
  BY <1>1, <1>2
<1>4. (m - 1) + 1 \in T
  BY <1>3
<1> QED
  BY <1>4, <1>1

-----------------------------------------------------------------------------
(* The policies: after any number of rules, the strictest that matched has   *)
(* decided, and of those the first.                                          *)
Level(i) == Strictness[Policies[i].action]

DecidedBy(n, d, toxic, score, types, shown) ==
  LET Hit == {i \in 1..n : Matches(Policies[i], toxic, score, types)} IN
  /\ d = [action |-> d.action, hidden |-> d.hidden] /\ d.action \in DOMAIN Strictness
  /\ d.action \in {"allow", "flag"} => d.hidden = {}
  /\ \A i \in Hit : Level(i) <= Strictness[d.action]
  /\ d.action # "allow" =>
       \E i \in Hit :
         /\ Level(i) > 1 /\ \A k \in Hit : Level(k) = Level(i) => i <= k
         /\ d.action = Policies[i].action
         /\ d.action = "block" => d.hidden = shown
         /\ d.action = "mask" => d.hidden = IF Policies[i].patterns THEN {Policies[i].category} ELSE {}

LEMMA Actions ==
  /\ DOMAIN Strictness = {"allow", "flag", "mask", "block"}
  /\ Strictness["allow"] = 1 /\ Strictness["flag"] = 2
  /\ Strictness["mask"] = 3 /\ Strictness["block"] = 4
  BY DEF Strictness

LEMMA RulesKnown ==
  /\ Len(Policies) \in Nat /\ DOMAIN Policies = 1..Len(Policies)
  /\ \A i \in 1..Len(Policies) :
       /\ Policies[i] \in Range(Policies)
       /\ Policies[i].action \in {"allow", "flag", "mask", "block"}
       /\ Policies[i].patterns \in BOOLEAN /\ Level(i) \in 1..4
       /\ \A a \in DOMAIN Strictness : Level(i) = Strictness[a] => Policies[i].action = a
<1>1. Len(Policies) \in Nat /\ DOMAIN Policies = 1..Len(Policies)
  BY PoliciesAssumption, LenProperties
<1>2. \A i \in 1..Len(Policies) : Policies[i] \in Range(Policies)
  BY <1>1 DEF Range
<1>3. \A i \in 1..Len(Policies) :
        Policies[i].action \in {"allow", "flag", "mask", "block"} /\ Policies[i].patterns \in BOOLEAN
  BY <1>2, PoliciesAssumption, Actions
<1> QED
  BY <1>1, <1>2, <1>3, Actions DEF Level

LEMMA AppliedDecides ==
  ASSUME NEW n \in Nat, n + 1 <= Len(Policies), NEW toxic, NEW score, NEW types, NEW shown,
         NEW d, DecidedBy(n, d, toxic, score, types, shown)
  PROVE  DecidedBy(n + 1, Applied(d, Policies[n + 1], toxic, score, types, shown),
                   toxic, score, types, shown)
<1> DEFINE rule == Policies[n + 1]
<1> DEFINE e == Applied(d, rule, toxic, score, types, shown)
<1> DEFINE Hits(m) == {i \in 1..m : Matches(Policies[i], toxic, score, types)}
<1>1. /\ n + 1 \in 1..Len(Policies) /\ \A i \in 1..n : i \in 1..Len(Policies)
      /\ rule.action \in {"allow", "flag", "mask", "block"} /\ Level(n + 1) = Strictness[rule.action]
  BY RulesKnown DEF Level
<1>2. /\ d.action \in {"allow", "flag", "mask", "block"}
      /\ d.action \in {"allow", "flag"} => d.hidden = {}
      /\ \A i \in Hits(n) : Level(i) <= Strictness[d.action]
  BY Actions DEF DecidedBy
<1>3. CASE Matches(rule, toxic, score, types) /\ Strictness[rule.action] > Strictness[d.action]
  <2>1. e = [action |-> rule.action,
             hidden |-> IF rule.action = "block" THEN shown
                        ELSE IF rule.action = "mask" /\ rule.patterns
                             THEN d.hidden \cup {rule.category}
                        ELSE d.hidden]
    BY <1>3 DEF Applied
  <2>2. rule.action \in {"flag", "mask", "block"}
    BY <1>1, <1>2, <1>3, Actions
  <2>3. rule.action \in {"flag", "mask"} => d.hidden = {}
    BY <1>1, <1>2, <1>3, Actions
  <2>4. \A i \in Hits(n + 1) : i \in Hits(n) \/ i = n + 1
    OBVIOUS
  <2>5. n + 1 \in Hits(n + 1) /\ \A i \in Hits(n) : Level(i) < Level(n + 1) /\ i <= n
    <3>1. n + 1 \in Hits(n + 1)
      BY <1>3
    <3>2. \A i \in Hits(n) : Level(i) \in 1..4 /\ i <= n
      BY <1>1, RulesKnown
    <3> QED
      BY <1>1, <1>2, <1>3, <3>1, <3>2, Actions
  <2>6. \A i \in Hits(n + 1) : Level(i) <= Level(n + 1) /\ (Level(i) = Level(n + 1) => n + 1 <= i)
    BY <1>1, <2>4, <2>5, RulesKnown
  <2>7. Level(n + 1) > 1
    BY <1>1, <2>2, Actions
  <2>8. /\ e = [action |-> e.action, hidden |-> e.hidden] /\ e.action = rule.action
        /\ e.action = "flag" => e.hidden = {}
        /\ e.action = "block" => e.hidden = shown
        /\ e.action = "mask" => e.hidden = IF rule.patterns THEN {rule.category} ELSE {}
    <3>1. rule.patterns \in BOOLEAN
      BY <1>1, RulesKnown
    <3>2. e.action = rule.action /\ e = [action |-> e.action, hidden |-> e.hidden]
      BY <2>1
    <3>3. CASE rule.action = "flag"
      BY <2>1, <2>3, <3>3
    <3>4. CASE rule.action = "mask"
      <4>1. d.hidden = {}
        BY <2>3, <3>4
      <4>2. e.hidden = IF rule.patterns THEN {} \cup {rule.category} ELSE {}
        BY <2>1, <3>1, <3>4, <4>1
      <4> QED
        BY <3>2, <3>4, <4>2
    <3>5. CASE rule.action = "block"
      BY <2>1, <3>5
    <3> HIDE DEF e
    <3> QED
      BY <2>2, <3>2, <3>3, <3>4, <3>5
  <2> HIDE DEF e
  <2>9. \E i \in Hits(n + 1) :
          /\ Level(i) > 1 /\ \A k \in Hits(n + 1) : Level(k) = Level(i) => i <= k
          /\ e.action = Policies[i].action
          /\ e.action = "block" => e.hidden = shown
          /\ e.action = "mask" => e.hidden = IF Policies[i].patterns THEN {Policies[i].category} ELSE {}
    BY <2>5, <2>6, <2>7, <2>8
  <2>10. /\ e.action \in DOMAIN Strictness /\ e.action \notin {"allow"}
         /\ e.action \in {"allow", "flag"} => e.hidden = {}
         /\ \A i \in Hits(n + 1) : Level(i) <= Strictness[e.action]
    BY <1>1, <2>2, <2>6, <2>8, Actions
  <2>11. DecidedBy(n + 1, e, toxic, score, types, shown)
    BY <2>8, <2>9, <2>10 DEF DecidedBy
  <2> QED
    BY <2>11 DEF e
<1>4. CASE ~(Matches(rule, toxic, score, types) /\ Strictness[rule.action] > Strictness[d.action])
  <2>1. e = d
    BY <1>4 DEF Applied
  <2>2. n + 1 \in Hits(n + 1) => Level(n + 1) <= Strictness[d.action]
    BY <1>1, <1>2, <1>4, Actions
  <2>3. \A i \in Hits(n + 1) : i \in Hits(n) \/ i = n + 1
    OBVIOUS
  <2>4. \A i \in Hits(n) : i \in Hits(n + 1) /\ i <= n
    OBVIOUS
  <2>5. \A i \in Hits(n + 1) : Level(i) <= Strictness[d.action]
    BY <1>2, <2>2, <2>3
  <2>6. ASSUME d.action # "allow"
        PROVE  \E i \in Hits(n + 1) :
                 /\ Level(i) > 1 /\ \A k \in Hits(n + 1) : Level(k) = Level(i) => i <= k
                 /\ d.action = Policies[i].action
                 /\ d.action = "block" => d.hidden = shown
                 /\ d.action = "mask" => d.hidden = IF Policies[i].patterns THEN {Policies[i].category} ELSE {}
    <3>1. PICK i \in Hits(n) :
                 /\ Level(i) > 1 /\ \A k \in Hits(n) : Level(k) = Level(i) => i <= k
                 /\ d.action = Policies[i].action
                 /\ d.action = "block" => d.hidden = shown
                 /\ d.action = "mask" => d.hidden = IF Policies[i].patterns THEN {Policies[i].category} ELSE {}
      BY <2>6 DEF DecidedBy
    <3>2. \A k \in Hits(n + 1) : Level(k) = Level(i) => i <= k
      BY <2>3, <2>4, <3>1
    <3> QED
      BY <2>4, <3>1, <3>2
  <2>7. d = [action |-> d.action, hidden |-> d.hidden] /\ d.action \in DOMAIN Strictness
    BY DEF DecidedBy
  <2> QED
    BY <1>2, <2>1, <2>5, <2>6, <2>7 DEF DecidedBy
<1> QED
  BY <1>3, <1>4

LEMMA EvaluateDecides ==
  ASSUME NEW toxic, NEW score, NEW types, NEW shown
  PROVE  DecidedBy(Len(Policies), Evaluate(toxic, score, types, shown), toxic, score, types, shown)
<1> DEFINE start == [action |-> "allow", hidden |-> {}]
<1> DEFINE apply(d, i) == Applied(d, Policies[i], toxic, score, types, shown)
<1> DEFINE IsRun(g, n) == g = [i \in 0..n |-> IF i = 0 THEN start ELSE apply(g[i - 1], i)]
<1> DEFINE T == {n \in Nat : \E g : IsRun(g, n)}
<1>1. 0 \in T
  <2> DEFINE g == [i \in 0..0 |-> start]
  <2>1. IsRun(g, 0)
    OBVIOUS
  <2> QED
    BY <2>1
<1>2. ASSUME NEW n \in Nat, n \in T PROVE n + 1 \in T
  <2>1. PICK g : IsRun(g, n)
    BY <1>2
  <2> DEFINE h == [i \in 0..(n + 1) |-> IF i = n + 1 THEN apply(g[n], n + 1) ELSE g[i]]
  <2> HIDE DEF start, apply
  <2>2. \A i \in 0..(n + 1) : h[i] = IF i = 0 THEN start ELSE apply(h[i - 1], i)
    BY <2>1
  <2>3. IsRun(h, n + 1)
    BY <2>2
  <2> HIDE DEF h
  <2>4. \E k : IsRun(k, n + 1)
    BY <2>3, Zenon
  <2>5. n + 1 \in Nat
    OBVIOUS
  <2> HIDE DEF IsRun
  <2> QED
    BY <2>4, <2>5
<1>3. Nat \subseteq T
  <2> HIDE DEF T
  <2> QED
    BY <1>1, <1>2, SetInduction
<1>4. PICK g : IsRun(g, Len(Policies))
  BY <1>3, RulesKnown
<1> DEFINE after == Evaluated(toxic, score, types, shown)
<1>5. after = [i \in 0..Len(Policies) |-> IF i = 0 THEN start ELSE apply(after[i - 1], i)]
  BY <1>4, Zenon DEF Evaluated
<1> DEFINE U == {n \in Nat : n <= Len(Policies) => DecidedBy(n, after[n], toxic, score, types, shown)}
<1>6. 0 \in U
  <2> HIDE DEF after
  <2>1. after[0] = start
    BY <1>5, RulesKnown
  <2>2. DecidedBy(0, start, toxic, score, types, shown)
    BY Actions DEF DecidedBy
  <2> QED
    BY <2>1, <2>2
<1>7. ASSUME NEW n \in Nat, n \in U PROVE n + 1 \in U
  <2> HIDE DEF after
  <2>1. CASE n + 1 <= Len(Policies)
    <3>1. DecidedBy(n, after[n], toxic, score, types, shown)
      BY <1>7, <2>1, RulesKnown
    <3>2. after[n + 1] = apply(after[(n + 1) - 1], n + 1)
      <4>1. n + 1 \in 0..Len(Policies) /\ n + 1 # 0
        BY <2>1, RulesKnown
      <4> HIDE DEF apply, start
      <4> QED
        BY <1>5, <4>1
    <3>3. (n + 1) - 1 = n
      OBVIOUS
    <3>4. DecidedBy(n + 1, after[n + 1], toxic, score, types, shown)
      BY <2>1, <3>1, <3>2, <3>3, AppliedDecides
    <3> QED
      BY <3>4
  <2>2. CASE ~(n + 1 <= Len(Policies))
    BY <2>2
  <2> QED
    BY <2>1, <2>2
<1>8. Nat \subseteq U
  <2> HIDE DEF U
  <2> QED
    BY <1>6, <1>7, SetInduction
<1> HIDE DEF after
<1>9. DecidedBy(Len(Policies), after[Len(Policies)], toxic, score, types, shown)
  BY <1>8, RulesKnown
<1> QED
  BY <1>9 DEF after, Evaluate

-----------------------------------------------------------------------------
(* Verdicts and decisions.  The invariant follows a job around the loop: its *)
(* text and what was found in it (WorkOK), what the models have said of it   *)
(* on the way to the next one (HeardOK); and every result that is kept or    *)
(* given is Sound.                                                           *)
Said(score, least) == score # None /\ score >= least

Justified(text, r) ==
  /\ r.toxic => Said(r.heard.roberta, 50) \/ Said(r.heard.bert, 50) \/ text.keyword > 0
  /\ ~r.toxic => ~Said(r.heard.roberta, 70) /\ ~Said(r.heard.bert, 50) /\ text.keyword = 0
  /\ r.pii \subseteq text.pii
  /\ r.pii = {} => text.pii = {}

Sound(text, r) ==
  /\ r \in Results
  /\ Justified(text, r)
  /\ DecidedBy(Len(Policies), [action |-> r.action, hidden |-> r.hidden], r.toxic, r.score,
               r.pii, text.pii)

Ensemble == {"getRoberta", "runRoberta", "askBert", "compare", "getBert", "runBert"}
Reloading == {"reloadBert", "reloadRoberta", "getShap", "scoreShap"}

ModelsOK ==
  /\ {model_pipeline, model_name_loaded, roberta, bert, shap} \subseteq Pipelines
  /\ preload \in {"check", "load", "name", "done"}

WorkOK ==
  /\ loop.job \in Jobs \cup {None} /\ loop.at \in Ensemble \cup Reloading \cup {"idle"}
  /\ loop.job = None <=> loop.at = "idle"
  /\ loop.at \in Ensemble => local[loop.job].text \in Texts
  /\ loop.at \in Reloading => loop.job \in Reloads \cup Shaps
  /\ step \in [Jobs -> {"new", "verify", "running", "done"}]
  /\ DOMAIN local = Jobs
  /\ \A j \in Jobs :
       /\ local[j] = [text |-> local[j].text, pii |-> local[j].pii]
       /\ step[j] = "running" <=> loop.job = j
       /\ local[j].text \in Texts =>
            /\ step[j] \in {"verify", "running"}
            /\ local[j].pii \subseteq local[j].text.pii
            /\ local[j].pii = {} => local[j].text.pii = {}
       /\ j \in Checks /\ step[j] \in {"verify", "running"} => local[j].text \in Texts

HeardOK ==
  /\ loop.heard \in [roberta : Scores \cup {None}, bert : Scores \cup {None}]
  /\ loop.at \in {"getRoberta", "runRoberta"} => loop.heard = Nothing
  /\ loop.at \in {"askBert", "compare"} =>
       /\ loop.heard.bert = None
       /\ loop.heard.roberta # None /\ loop.heard.roberta >= 50 /\ loop.heard.roberta < 70
  /\ loop.at \in {"getBert", "runBert"} =>
       ~Said(loop.heard.roberta, 70) /\ ~Said(loop.heard.bert, 50)

Kept == {t \in Texts : cache[t] # None}

CacheOK ==
  /\ now \in 0..MaxTime
  /\ DOMAIN cache = Texts
  /\ IsFiniteSet(Kept) /\ Cardinality(Kept) <= MaxSize
  /\ \A t \in Kept : Sound(t, cache[t].result) /\ cache[t].at \in 0..now

AnswerOK ==
  answer # None =>
    /\ answer \in Answers
    /\ Sound(answer.text, answer.result)
    /\ answer.at - answer.made <= Ttl

IInv == LoopOK /\ ModelsOK /\ WorkOK /\ HeardOK /\ CacheOK /\ AnswerOK

LEMMA InitIInv == Init => IInv
<1> SUFFICES ASSUME Init PROVE IInv
  OBVIOUS
<1>1. LoopOK
  BY LoopInit
<1>2. ModelsOK
  BY DEF Init, ModelsOK, Pipelines
<1>3. loop = Idle /\ Idle.job = None /\ Idle.at = "idle" /\ Idle.heard = Nothing
  BY DEF Init, Idle
<1>4. WorkOK
  <2>1. \A j \in Jobs : local[j] = NoLocals /\ step[j] = "new" /\ j # None
    BY JobsAssumption DEF Init
  <2>2. NoLocals.text \notin Texts /\ NoLocals = [text |-> NoLocals.text, pii |-> NoLocals.pii]
    BY TextsAssumption DEF NoLocals
  <2>3. step \in [Jobs -> {"new", "verify", "running", "done"}] /\ DOMAIN local = Jobs
    BY DEF Init
  <2> QED
    BY <1>3, <2>1, <2>2, <2>3 DEF WorkOK, Ensemble, Reloading
<1>5. HeardOK
  BY <1>3 DEF HeardOK, Nothing
<1>6. CacheOK
  <2>1. Kept = {}
    BY DEF Init, Kept
  <2> QED
    BY <2>1, FS_EmptySet, CacheAssumption DEF Init, CacheOK
<1>7. AnswerOK
  BY DEF Init, AnswerOK
<1> QED
  BY <1>1, <1>2, <1>4, <1>5, <1>6, <1>7 DEF IInv

-----------------------------------------------------------------------------
(* The running handler's job. *)
LEMMA RunningJob ==
  ASSUME WorkOK, loop.at \in Ensemble
  PROVE  /\ loop.job \in Jobs /\ loop.job # None /\ step[loop.job] = "running"
         /\ Current \in Texts
         /\ local[loop.job].pii \subseteq Current.pii
         /\ local[loop.job].pii = {} => Current.pii = {}
<1>1. loop.job \in Jobs /\ loop.job # None
  BY DEF WorkOK, Ensemble
<1> QED
  BY <1>1 DEF WorkOK, Current

LEMMA ReturnsKeepsWork ==
  ASSUME WorkOK, loop.job # None, Returns
  PROVE  WorkOK' /\ HeardOK'
<1>1. loop' = Idle /\ Idle.job = None /\ Idle.at = "idle" /\ Idle.heard = Nothing
  BY DEF Returns, Idle
<1>2. loop.job \in Jobs
  BY DEF WorkOK
<1>3. /\ step' = [step EXCEPT ![loop.job] = "done"]
      /\ local' = [local EXCEPT ![loop.job] = NoLocals]
  BY DEF Returns
<1>4. /\ step' \in [Jobs -> {"new", "verify", "running", "done"}] /\ DOMAIN local' = Jobs
      /\ step'[loop.job] = "done" /\ local'[loop.job] = NoLocals
      /\ \A j \in Jobs \ {loop.job} : step'[j] = step[j] /\ local'[j] = local[j]
  BY <1>2, <1>3 DEF WorkOK
<1>5. NoLocals.text \notin Texts /\ NoLocals = [text |-> NoLocals.text, pii |-> NoLocals.pii]
  BY TextsAssumption DEF NoLocals
<1>6. \A j \in Jobs : j # None
  BY JobsAssumption
<1>7. WorkOK'
  BY <1>1, <1>2, <1>4, <1>5, <1>6 DEF WorkOK, Ensemble, Reloading
<1>8. HeardOK'
  BY <1>1 DEF HeardOK, Nothing
<1> QED
  BY <1>7, <1>8

LEMMA GoesOnKeepsWork ==
  ASSUME WorkOK, UNCHANGED <<step, local>>,
         loop'.job = loop.job,
         \/ loop.at \in Ensemble /\ loop'.at \in Ensemble
         \/ loop.at \in Reloading /\ loop'.at \in Reloading
  PROVE  WorkOK'
<1>1. loop.at # "idle" /\ loop'.at # "idle" /\ loop.job # None
  BY DEF WorkOK, Ensemble, Reloading
<1>2. loop'.at \in Ensemble => loop.at \in Ensemble
  BY DEF Ensemble, Reloading
<1>3. loop'.at \in Reloading => loop.at \in Reloading
  BY DEF Ensemble, Reloading
<1> QED
  BY <1>1, <1>2, <1>3 DEF WorkOK

(* What handing a model over does to the loop. *)
LEMMA ObtainMoves ==
  ASSUME LoopOK, NEW got, Obtain(got)
  PROVE  \/ /\ UNCHANGED <<step, local>> /\ loop'.job = loop.job /\ loop'.heard = loop.heard
            /\ \/ loop.at = "getRoberta" /\ loop'.at = "runRoberta"
               \/ loop.at = "askBert" /\ loop'.at = "compare"
               \/ loop.at = "getBert" /\ loop'.at = "runBert"
               \/ loop.at = "reloadBert" /\ loop'.at = "reloadRoberta"
               \/ loop.at = "getShap" /\ loop'.at = "scoreShap"
         \/ loop.at \in {"reloadRoberta", "getShap", "scoreShap"} /\ Returns
<1>1. ASSUME NEW at, GoTo(at)
      PROVE  UNCHANGED <<step, local>> /\ loop'.job = loop.job /\ loop'.heard = loop.heard /\ loop'.at = at
  BY <1>1 DEF GoTo, LoopOK
<1> QED
  BY <1>1 DEF Obtain

LEMMA ObtainKeepsWork ==
  ASSUME LoopOK, WorkOK, HeardOK, NEW got, Obtain(got)
  PROVE  WorkOK' /\ HeardOK'
<1>1. CASE loop.at \in {"reloadRoberta", "getShap", "scoreShap"} /\ Returns
  <2>1. loop.job # None
    BY <1>1 DEF WorkOK
  <2> QED
    BY <1>1, <2>1, ReturnsKeepsWork
<1>2. CASE /\ UNCHANGED <<step, local>> /\ loop'.job = loop.job /\ loop'.heard = loop.heard
           /\ \/ loop.at = "getRoberta" /\ loop'.at = "runRoberta"
              \/ loop.at = "askBert" /\ loop'.at = "compare"
              \/ loop.at = "getBert" /\ loop'.at = "runBert"
              \/ loop.at = "reloadBert" /\ loop'.at = "reloadRoberta"
              \/ loop.at = "getShap" /\ loop'.at = "scoreShap"
  <2>1. WorkOK'
    <3>1. \/ loop.at \in Ensemble /\ loop'.at \in Ensemble
          \/ loop.at \in Reloading /\ loop'.at \in Reloading
      BY <1>2 DEF Ensemble, Reloading
    <3> QED
      BY <1>2, <3>1, GoesOnKeepsWork
  <2>2. HeardOK'
    BY <1>2 DEF HeardOK, Said
  <2> QED
    BY <2>1, <2>2
<1> QED
  BY <1>1, <1>2, ObtainMoves

-----------------------------------------------------------------------------
(* ResponseCache.set: a full cache loses an entry before it gains one. *)
LEMMA StoredKeepsCache ==
  ASSUME CacheOK, now' = now, Current \in Texts,
         NEW result, Sound(Current, result), Stored(result)
  PROVE  CacheOK'
<1> DEFINE Entry == [result |-> result, at |-> now]
<1>1. /\ now \in 0..MaxTime /\ IsFiniteSet(Kept) /\ Cardinality(Kept) <= MaxSize
      /\ Cardinality(Kept) \in Nat /\ MaxSize \in Nat \ {0}
      /\ Entry.result = result /\ Entry.at \in 0..now
  BY FS_CardinalityType, CacheAssumption DEF CacheOK
<1> HIDE DEF Entry
<1>2. CASE Cardinality(Kept) >= MaxSize
  <2>1. PICK old \in Kept : cache' = [cache EXCEPT ![old] = None, ![Current] = Entry]
    BY <1>2 DEF Stored, Kept, Entry
  <2>2. /\ DOMAIN cache' = Texts
        /\ \A t \in Texts : cache'[t] = IF t = Current THEN Entry ELSE IF t = old THEN None ELSE cache[t]
    BY <2>1 DEF CacheOK
  <2>3. Kept' \subseteq (Kept \ {old}) \cup {Current}
    BY <2>2 DEF Kept
  <2>4. IsFiniteSet(Kept \ {old}) /\ Cardinality(Kept \ {old}) = Cardinality(Kept) - 1
    BY <1>1, <2>1, FS_RemoveElement
  <2>5. /\ IsFiniteSet((Kept \ {old}) \cup {Current})
        /\ Cardinality((Kept \ {old}) \cup {Current}) <= Cardinality(Kept)
    <3> DEFINE rest == Kept \ {old}
    <3>1. IsFiniteSet(rest) /\ Cardinality(rest) = Cardinality(Kept) - 1
      BY <2>4
    <3> HIDE DEF rest
    <3>2. /\ IsFiniteSet(rest \cup {Current})
          /\ Cardinality(rest \cup {Current}) = IF Current \in rest THEN Cardinality(rest) ELSE Cardinality(rest) + 1
      BY <3>1, FS_AddElement
    <3>3. Cardinality(rest \cup {Current}) <= Cardinality(Kept)
      BY <1>1, <3>1, <3>2
    <3> QED
      BY <3>2, <3>3 DEF rest
  <2>6. IsFiniteSet(Kept') /\ Cardinality(Kept') <= Cardinality((Kept \ {old}) \cup {Current})
    BY <2>3, <2>5, FS_Subset
  <2>7. Cardinality(Kept') <= MaxSize
    BY <1>1, <2>5, <2>6, FS_CardinalityType
  <2>8. \A t \in Kept' : Sound(t, cache'[t].result) /\ cache'[t].at \in 0..now
    BY <1>1, <2>2 DEF CacheOK, Kept
  <2> QED
    BY <1>1, <2>2, <2>6, <2>7, <2>8 DEF CacheOK
<1>3. CASE ~(Cardinality(Kept) >= MaxSize)
  <2>1. cache' = [cache EXCEPT ![Current] = Entry]
    BY <1>3 DEF Stored, Kept, Entry
  <2>2. /\ DOMAIN cache' = Texts
        /\ \A t \in Texts : cache'[t] = IF t = Current THEN Entry ELSE cache[t]
    BY <2>1 DEF CacheOK
  <2>3. Kept' \subseteq Kept \cup {Current}
    BY <2>2 DEF Kept
  <2>4. /\ IsFiniteSet(Kept \cup {Current})
        /\ Cardinality(Kept \cup {Current}) <= Cardinality(Kept) + 1
    <3>1. /\ IsFiniteSet(Kept \cup {Current})
          /\ Cardinality(Kept \cup {Current}) =
               IF Current \in Kept THEN Cardinality(Kept) ELSE Cardinality(Kept) + 1
      BY <1>1, FS_AddElement, Zenon
    <3> QED
      BY <1>1, <3>1, FS_CardinalityType
  <2>5. IsFiniteSet(Kept') /\ Cardinality(Kept') <= Cardinality(Kept \cup {Current})
    BY <2>3, <2>4, FS_Subset
  <2>6. Cardinality(Kept') <= MaxSize
    BY <1>1, <1>3, <2>4, <2>5, FS_CardinalityType
  <2>7. \A t \in Kept' : Sound(t, cache'[t].result) /\ cache'[t].at \in 0..now
    BY <1>1, <2>2 DEF CacheOK, Kept
  <2> QED
    BY <1>1, <2>2, <2>5, <2>6, <2>7 DEF CacheOK
<1> QED
  BY <1>2, <1>3

(* The verdict of a handler is a sound result. *)
LEMMA ConcludedIsSound ==
  ASSUME WorkOK, loop.at \in Ensemble,
         NEW toxic \in BOOLEAN, NEW score \in Scores,
         NEW heard \in [roberta : Scores \cup {None}, bert : Scores \cup {None}],
         toxic => Said(heard.roberta, 50) \/ Said(heard.bert, 50) \/ Current.keyword > 0,
         ~toxic => ~Said(heard.roberta, 70) /\ ~Said(heard.bert, 50) /\ Current.keyword = 0,
         NEW d, d = Evaluate(toxic, score, local[loop.job].pii, Scan(Current))
  PROVE  Sound(Current, [toxic |-> toxic, score |-> score, pii |-> local[loop.job].pii,
                         action |-> d.action, hidden |-> d.hidden, heard |-> heard])
<1> DEFINE found == local[loop.job].pii
<1> DEFINE r == [toxic |-> toxic, score |-> score, pii |-> found,
                 action |-> d.action, hidden |-> d.hidden, heard |-> heard]
<1>1. Current \in Texts /\ found \subseteq Current.pii /\ (found = {} => Current.pii = {})
  BY RunningJob
<1>2. DecidedBy(Len(Policies), d, toxic, score, found, Current.pii)
  BY EvaluateDecides DEF Scan
<1>3. /\ r.toxic = toxic /\ r.score = score /\ r.pii = found /\ r.action = d.action
      /\ r.hidden = d.hidden /\ r.heard = heard
  OBVIOUS
<1>4. d = [action |-> d.action, hidden |-> d.hidden] /\ d.action \in DOMAIN Strictness
  BY <1>2 DEF DecidedBy
<1>5. d.hidden \subseteq (UNION {t.pii : t \in Texts}) \cup {rule.category : rule \in Range(Policies)}
  <2>1. CASE d.action = "allow"
    BY <1>2, <2>1 DEF DecidedBy
  <2>2. CASE d.action # "allow"
    <3>1. PICK i \in 1..Len(Policies) :
            /\ d.action = Policies[i].action
            /\ d.action = "block" => d.hidden = Current.pii
            /\ d.action = "mask" => d.hidden = IF Policies[i].patterns THEN {Policies[i].category} ELSE {}
      BY <1>2, <2>2 DEF DecidedBy
    <3>2. d.action = "flag" => d.hidden = {}
      BY <1>2 DEF DecidedBy
    <3>3. d.action \in {"flag", "mask", "block"}
      BY <1>4, <2>2, Actions
    <3>4. Current.pii \subseteq UNION {t.pii : t \in Texts}
      BY <1>1
    <3>5. Policies[i].category \in {rule.category : rule \in Range(Policies)}
      BY <3>1, RulesKnown
    <3>6. {Policies[i].category} \subseteq {rule.category : rule \in Range(Policies)}
      BY <3>5
    <3> DEFINE categories == {rule.category : rule \in Range(Policies)}
    <3> DEFINE types == UNION {t.pii : t \in Texts}
    <3> HIDE DEF categories, types
    <3>7. d.hidden = {} \/ d.hidden = Current.pii \/ d.hidden = {Policies[i].category}
      BY <3>1, <3>2, <3>3
    <3>8. Current.pii \subseteq types /\ {Policies[i].category} \subseteq categories
      BY <3>4, <3>6 DEF types, categories
    <3>9. d.hidden \subseteq types \cup categories
      BY <3>7, <3>8
    <3> QED
      BY <3>9 DEF types, categories
  <2> QED
    BY <2>1, <2>2
<1>6. found \subseteq UNION {t.pii : t \in Texts}
  BY <1>1
<1>7. r \in Results
  BY <1>4, <1>5, <1>6 DEF Results
<1> HIDE DEF r
<1>8. Justified(Current, r)
  BY <1>1, <1>3 DEF Justified
<1>9. DecidedBy(Len(Policies), [action |-> r.action, hidden |-> r.hidden], r.toxic, r.score,
                r.pii, Current.pii)
  BY <1>2, <1>3, <1>4
<1> QED
  BY <1>7, <1>8, <1>9 DEF Sound, r

(* Conclude gives and keeps nothing else. *)
LEMMA ConcludeKeeps ==
  ASSUME WorkOK, CacheOK, loop.at \in Ensemble, now' = now,
         NEW toxic \in BOOLEAN, NEW score \in Scores,
         NEW heard \in [roberta : Scores \cup {None}, bert : Scores \cup {None}],
         toxic => Said(heard.roberta, 50) \/ Said(heard.bert, 50) \/ Current.keyword > 0,
         ~toxic => ~Said(heard.roberta, 70) /\ ~Said(heard.bert, 50) /\ Current.keyword = 0,
         Conclude(toxic, score, heard)
  PROVE  LoopOK' /\ WorkOK' /\ HeardOK' /\ CacheOK' /\ AnswerOK'
<1> DEFINE d == Evaluate(toxic, score, local[loop.job].pii, Scan(Current))
<1> DEFINE result == [toxic |-> toxic, score |-> score, pii |-> local[loop.job].pii,
                      action |-> d.action, hidden |-> d.hidden, heard |-> heard]
<1>1. Sound(Current, result)
  BY ConcludedIsSound
<1>2. /\ answer' = [text |-> Current, result |-> result, made |-> now, at |-> now]
      /\ IF loop.job \in Checks THEN Stored(result) ELSE UNCHANGED cache
      /\ Returns
  BY DEF Conclude
<1> HIDE DEF d, result
<1>3. WorkOK' /\ HeardOK'
  BY <1>2, RunningJob, ReturnsKeepsWork
<1>4. LoopOK'
  BY <1>2 DEF Returns, LoopOK, Idle
<1>5. CacheOK'
  <2>1. CASE loop.job \in Checks
    BY <1>1, <1>2, <2>1, RunningJob, StoredKeepsCache
  <2>2. CASE loop.job \notin Checks
    BY <1>2, <2>2 DEF CacheOK, Kept
  <2> QED
    BY <2>1, <2>2
<1>6. AnswerOK'
  <2>1. /\ answer'.text = Current /\ answer'.result = result /\ answer'.made = now /\ answer'.at = now
        /\ Current \in Texts /\ result \in Results /\ now \in 0..MaxTime
    BY <1>1, <1>2, RunningJob DEF Sound, CacheOK
  <2>2. answer' \in Answers
    BY <1>2, <2>1 DEF Answers
  <2>3. now - now <= Ttl
    BY <2>1, CacheAssumption
  <2> QED
    BY <1>1, <2>1, <2>2, <2>3 DEF AnswerOK
<1> QED
  BY <1>3, <1>4, <1>5, <1>6

LEMMA GoesKeeps ==
  ASSUME LoopOK, WorkOK, HeardOK, CacheOK, AnswerOK, now' = now,
         loop.at \in Ensemble, NEW at \in Ensemble, NEW heard, Goes(at, heard)
  PROVE  /\ LoopOK' /\ WorkOK' /\ CacheOK' /\ AnswerOK'
         /\ loop'.at = at /\ loop'.heard = heard
<1>1. /\ loop' = [loop EXCEPT !.at = at, !.load = "check", !.heard = heard]
      /\ UNCHANGED <<cache, step, local, answer>>
  BY DEF Goes
<1>2. loop'.at = at /\ loop'.heard = heard /\ loop'.job = loop.job /\ loop'.load = "check" /\ LoopOK'
  BY <1>1 DEF LoopOK
<1>3. WorkOK'
  BY <1>1, <1>2, GoesOnKeepsWork
<1>4. CacheOK' /\ AnswerOK'
  BY <1>1 DEF CacheOK, AnswerOK, Kept
<1> QED
  BY <1>2, <1>3, <1>4

-----------------------------------------------------------------------------
(* A job that gets the loop, with its text or without one. *)
LEMMA RunsKeepsWork ==
  ASSUME WorkOK, loop = Idle, NEW j \in Jobs, step[j] \in {"new", "verify"},
         NEW at \in {"getRoberta", "reloadBert", "getShap", "scoreShap"}, Runs(j, at),
         DOMAIN local' = Jobs, \A k \in Jobs \ {j} : local'[k] = local[k],
         \/ /\ at = "getRoberta"
            /\ local'[j] = [text |-> local'[j].text, pii |-> local'[j].pii]
            /\ local'[j].text \in Texts
            /\ local'[j].pii \subseteq local'[j].text.pii
            /\ local'[j].pii = {} => local'[j].text.pii = {}
         \/ at # "getRoberta" /\ j \in Reloads \cup Shaps /\ local'[j] = local[j] /\ step[j] = "new"
  PROVE  LoopOK' /\ WorkOK' /\ HeardOK'
<1>1. loop' = [job |-> j, at |-> at, load |-> "check", heard |-> Nothing]
  BY DEF Runs, Idle
<1>2. loop'.job = j /\ loop'.at = at /\ loop'.load = "check" /\ loop'.heard = Nothing
  BY <1>1
<1>3. LoopOK'
  BY <1>1 DEF LoopOK
<1>4. HeardOK'
  BY <1>2 DEF HeardOK, Nothing
<1>5. /\ step' \in [Jobs -> {"new", "verify", "running", "done"}]
      /\ step'[j] = "running" /\ \A k \in Jobs \ {j} : step'[k] = step[k]
  BY DEF Runs, WorkOK
<1>6. loop.job = None /\ \A k \in Jobs : k # None
  BY JobsAssumption DEF Idle
<1>7. /\ at = "getRoberta" <=> at \in Ensemble
      /\ at # "getRoberta" <=> at \in Reloading
      /\ at \in Ensemble \cup Reloading /\ at # "idle"
  BY DEF Ensemble, Reloading
<1>8. step[j] = "new" => local[j].text \notin Texts /\ local[j] = [text |-> local[j].text, pii |-> local[j].pii]
  BY DEF WorkOK
<1>9. j \in Reloads \cup Shaps => j \notin Checks
  BY JobsAssumption
<1>10. \A k \in Jobs :
       /\ local'[k] = [text |-> local'[k].text, pii |-> local'[k].pii]
       /\ step'[k] = "running" <=> loop'.job = k
       /\ local'[k].text \in Texts =>
            /\ step'[k] \in {"verify", "running"}
            /\ local'[k].pii \subseteq local'[k].text.pii
            /\ local'[k].pii = {} => local'[k].text.pii = {}
       /\ k \in Checks /\ step'[k] \in {"verify", "running"} => local'[k].text \in Texts
  <2>1. ASSUME NEW k \in Jobs \ {j}
        PROVE  /\ local'[k] = local[k] /\ step'[k] = step[k] /\ step[k] # "running" /\ loop'.job # k
    BY <1>2, <1>5, <1>6 DEF WorkOK
  <2>2. ASSUME NEW k \in Jobs \ {j}
        PROVE  /\ local[k] = [text |-> local[k].text, pii |-> local[k].pii]
               /\ local[k].text \in Texts =>
                    /\ step[k] \in {"verify", "running"}
                    /\ local[k].pii \subseteq local[k].text.pii
                    /\ local[k].pii = {} => local[k].text.pii = {}
               /\ k \in Checks /\ step[k] \in {"verify", "running"} => local[k].text \in Texts
    BY DEF WorkOK
  <2>3. /\ local'[j] = [text |-> local'[j].text, pii |-> local'[j].pii]
        /\ local'[j].text \in Texts =>
            /\ local'[j].pii \subseteq local'[j].text.pii
            /\ local'[j].pii = {} => local'[j].text.pii = {}
        /\ j \in Checks => local'[j].text \in Texts
    BY <1>8, <1>9
  <2> SUFFICES ASSUME NEW k \in Jobs
      PROVE  /\ local'[k] = [text |-> local'[k].text, pii |-> local'[k].pii]
             /\ step'[k] = "running" <=> loop'.job = k
             /\ local'[k].text \in Texts =>
                  /\ step'[k] \in {"verify", "running"}
                  /\ local'[k].pii \subseteq local'[k].text.pii
                  /\ local'[k].pii = {} => local'[k].text.pii = {}
             /\ k \in Checks /\ step'[k] \in {"verify", "running"} => local'[k].text \in Texts
    OBVIOUS
  <2>4. CASE k = j
    BY <1>2, <1>5, <2>3, <2>4
  <2>5. CASE k # j
    <3>1. /\ local'[k] = local[k] /\ step'[k] = step[k] /\ step[k] # "running" /\ loop'.job # k
      BY <2>1, <2>5
    <3> QED
      BY <2>2, <2>5, <3>1
  <2> QED
    BY <2>4, <2>5
<1>11. WorkOK'
  BY <1>2, <1>5, <1>6, <1>7, <1>10 DEF WorkOK
<1> QED
  BY <1>3, <1>4, <1>11

LEMMA ScanKeeps ==
  ASSUME CacheOK, NEW t \in Texts, now' = now, cache' = [cache EXCEPT ![t] = None]
  PROVE  CacheOK'
<1>1. DOMAIN cache' = Texts /\ \A u \in Texts : cache'[u] = IF u = t THEN None ELSE cache[u]
  BY DEF CacheOK
<1>2. Kept' \subseteq Kept /\ \A u \in Kept' : cache'[u] = cache[u]
  BY <1>1 DEF Kept
<1>3. IsFiniteSet(Kept) /\ Cardinality(Kept) <= MaxSize /\ MaxSize \in Nat /\ Cardinality(Kept) \in Nat
  BY CacheAssumption, FS_CardinalityType DEF CacheOK
<1>4. IsFiniteSet(Kept') /\ Cardinality(Kept') <= Cardinality(Kept)
  BY <1>2, <1>3, FS_Subset
<1>5. Cardinality(Kept') <= MaxSize
  BY <1>3, <1>4, FS_CardinalityType
<1> QED
  BY <1>1, <1>2, <1>4, <1>5 DEF CacheOK

LEMMA StartsKeeps ==
  ASSUME IInv, NEW j \in Jobs, Starts(j)
  PROVE  IInv'
<1> USE DEF manager, models
<1>1. LoopOK /\ ModelsOK /\ WorkOK /\ HeardOK /\ CacheOK /\ AnswerOK
  BY DEF IInv
<1>2. ASSUME NEW t \in Texts, CheckIsCached(j, t) PROVE IInv'
  <2>1. /\ loop = Idle /\ step[j] = "new" /\ now - cache[t].at <= Ttl /\ t \in Kept
        /\ answer' = [text |-> t, result |-> cache[t].result, made |-> cache[t].at, at |-> now]
        /\ step' = [step EXCEPT ![j] = "done"]
        /\ UNCHANGED <<manager, preload, models, cache, now, local, loop>>
    BY <1>2 DEF CheckIsCached, Ready, Fresh, Kept
  <2>2. LoopOK' /\ ModelsOK' /\ HeardOK' /\ CacheOK'
    BY <1>1, <2>1 DEF LoopOK, ModelsOK, HeardOK, CacheOK, Kept
  <2>3. WorkOK'
    <3>1. /\ step' \in [Jobs -> {"new", "verify", "running", "done"}]
          /\ step'[j] = "done" /\ \A k \in Jobs \ {j} : step'[k] = step[k]
      BY <1>1, <2>1 DEF WorkOK
    <3>2. local[j].text \notin Texts /\ loop.job # j
      BY <1>1, <2>1 DEF WorkOK
    <3> QED
      BY <1>1, <2>1, <3>1, <3>2 DEF WorkOK
  <2>4. AnswerOK'
    <3>1. Sound(t, cache[t].result) /\ cache[t].at \in 0..now /\ now \in 0..MaxTime
      BY <1>1, <2>1 DEF CacheOK
    <3>2. cache[t].at \in 0..MaxTime
      BY <3>1, CacheAssumption
    <3>3. answer'.text = t /\ answer'.result = cache[t].result /\ answer'.made = cache[t].at /\ answer'.at = now
      BY <2>1
    <3>4. answer' \in Answers
      BY <2>1, <3>1, <3>2 DEF Answers, Sound
    <3> QED
      BY <2>1, <3>1, <3>3, <3>4 DEF AnswerOK
  <2> QED
    BY <2>2, <2>3, <2>4 DEF IInv
<1>3. ASSUME NEW t \in Texts, CheckScans(j, t) PROVE IInv'
  <2>1. /\ loop = Idle /\ step[j] = "new"
        /\ cache' = [cache EXCEPT ![t] = None]
        /\ local' = [local EXCEPT ![j] = [text |-> t, pii |-> Scan(t)]]
        /\ answer' = None
        /\ UNCHANGED <<manager, preload, models, now>>
    BY <1>3 DEF CheckScans, Ready, Runs
  <2>2. ModelsOK' /\ CacheOK' /\ AnswerOK'
    BY <1>1, <2>1, ScanKeeps DEF ModelsOK, AnswerOK
  <2>3. /\ DOMAIN local' = Jobs /\ local'[j] = [text |-> t, pii |-> t.pii]
        /\ \A k \in Jobs \ {j} : local'[k] = local[k]
    BY <1>1, <2>1 DEF WorkOK, Scan
  <2>4. CASE Runs(j, "getRoberta")
    BY <1>1, <2>1, <2>2, <2>3, <2>4, RunsKeepsWork DEF IInv
  <2>5. CASE step' = [step EXCEPT ![j] = "verify"] /\ UNCHANGED loop
    <3>1. /\ step' \in [Jobs -> {"new", "verify", "running", "done"}]
          /\ step'[j] = "verify" /\ \A k \in Jobs \ {j} : step'[k] = step[k]
      BY <1>1, <2>5 DEF WorkOK
    <3>2. loop.job = None /\ loop.job # j /\ loop.at = "idle"
      BY <2>1, JobsAssumption DEF Idle
    <3>3. /\ local'[j].text = t /\ local'[j].pii = t.pii
          /\ local'[j] = [text |-> local'[j].text, pii |-> local'[j].pii]
      BY <2>3
    <3>4. WorkOK'
      BY <1>1, <2>3, <2>5, <3>1, <3>2, <3>3 DEF WorkOK, Ensemble, Reloading
    <3>5. LoopOK' /\ HeardOK'
      BY <1>1, <2>5 DEF LoopOK, HeardOK
    <3> QED
      BY <2>2, <3>4, <3>5 DEF IInv
  <2> QED
    BY <1>3, <2>4, <2>5 DEF CheckScans
<1>4. ASSUME j \in Checks, CheckVerified(j) PROVE IInv'
  <2>1. /\ loop = Idle /\ step[j] = "verify" /\ Runs(j, "getRoberta") /\ answer' = None
        /\ UNCHANGED <<manager, preload, models, cache, now>>
    BY <1>4 DEF CheckVerified, Runs
  <2>2. PICK confirmed \in (SUBSET local[j].pii) \ {{}} : local' = [local EXCEPT ![j].pii = confirmed]
    BY <1>4 DEF CheckVerified
  <2>3. ModelsOK' /\ CacheOK' /\ AnswerOK'
    BY <1>1, <2>1 DEF ModelsOK, CacheOK, AnswerOK, Kept
  <2>4. /\ local[j] = [text |-> local[j].text, pii |-> local[j].pii]
        /\ local[j].text \in Texts /\ local[j].pii \subseteq local[j].text.pii
    BY <1>1, <1>4, <2>1 DEF WorkOK
  <2>5. /\ DOMAIN local' = Jobs /\ \A k \in Jobs \ {j} : local'[k] = local[k]
        /\ local'[j] = [local[j] EXCEPT !.pii = confirmed]
    BY <1>1, <2>2 DEF WorkOK
  <2>6. /\ local'[j].text = local[j].text /\ local'[j].pii = confirmed
        /\ local'[j] = [text |-> local'[j].text, pii |-> local'[j].pii]
    <3> DEFINE rec == local[j]
    <3>1. rec = [text |-> rec.text, pii |-> rec.pii] /\ local'[j] = [rec EXCEPT !.pii = confirmed]
      BY <2>4, <2>5
    <3> HIDE DEF rec
    <3>2. local'[j] = [text |-> rec.text, pii |-> confirmed]
      BY <3>1
    <3> QED
      BY <3>2 DEF rec
  <2>7. LoopOK' /\ WorkOK' /\ HeardOK'
    <3>1. /\ local'[j].text \in Texts /\ local'[j].pii \subseteq local'[j].text.pii
          /\ local'[j].pii # {}
      BY <2>2, <2>4, <2>6
    <3>2. WorkOK /\ loop = Idle /\ step[j] \in {"new", "verify"} /\ Runs(j, "getRoberta")
      BY <1>1, <2>1
    <3> QED
      BY <2>5, <2>6, <3>1, <3>2, RunsKeepsWork
  <2> QED
    BY <2>3, <2>7 DEF IInv
<1>5. ASSUME NEW t \in Texts, TraceArrives(j, t) PROVE IInv'
  <2>1. /\ loop = Idle /\ step[j] = "new" /\ Runs(j, "getRoberta") /\ answer' = None
        /\ local' = [local EXCEPT ![j] = [text |-> t, pii |-> Scan(t)]]
        /\ UNCHANGED <<manager, preload, models, cache, now>>
    BY <1>5 DEF TraceArrives, Ready, Runs
  <2>2. ModelsOK' /\ CacheOK' /\ AnswerOK'
    BY <1>1, <2>1 DEF ModelsOK, CacheOK, AnswerOK, Kept
  <2>3. /\ DOMAIN local' = Jobs /\ local'[j] = [text |-> t, pii |-> t.pii]
        /\ \A k \in Jobs \ {j} : local'[k] = local[k]
    BY <1>1, <2>1 DEF WorkOK, Scan
  <2> QED
    BY <1>1, <2>1, <2>2, <2>3, RunsKeepsWork DEF IInv
<1>6. ASSUME j \in Reloads \cup Shaps, ReloadArrives(j) \/ ShapArrives(j) PROVE IInv'
  <2>1. /\ loop = Idle /\ step[j] = "new" /\ answer' = None
        /\ \E at \in {"reloadBert", "getShap", "scoreShap"} : Runs(j, at)
        /\ bert' \in {bert, None}
        /\ UNCHANGED <<manager, preload, roberta, shap, cache, now, local>>
    BY <1>6 DEF ReloadArrives, ShapArrives, Ready, Runs
  <2>2. ModelsOK' /\ CacheOK' /\ AnswerOK'
    BY <1>1, <2>1 DEF ModelsOK, Pipelines, CacheOK, AnswerOK, Kept
  <2>3. LoopOK' /\ WorkOK' /\ HeardOK'
    BY <1>1, <1>6, <2>1, RunsKeepsWork DEF WorkOK
  <2> QED
    BY <2>2, <2>3 DEF IInv
<1> QED
  BY <1>2, <1>3, <1>4, <1>5, <1>6 DEF Starts

-----------------------------------------------------------------------------
LEMMA ObtainKeeps ==
  ASSUME IInv, NEW got \in Pipelines, Obtain(got), UNCHANGED <<manager, preload, cache, now, answer>>
  PROVE  IInv'
<1>1. LoopOK' /\ WorkOK' /\ HeardOK'
  BY ObtainLoop, ObtainKeepsWork DEF IInv
<1>2. ModelsOK'
  BY DEF IInv, Obtain, ModelsOK, Pipelines, manager, models
<1>3. CacheOK' /\ AnswerOK'
  BY DEF IInv, CacheOK, AnswerOK, Kept
<1> QED
  BY <1>1, <1>2, <1>3 DEF IInv

LEMMA LoadingKeeps ==
  ASSUME IInv, NEW load, loop' = [loop EXCEPT !.load = load], Getting(loop.load),
         model_pipeline' \in Pipelines, model_name_loaded' \in Pipelines,
         UNCHANGED <<preload, models, cache, now, jobs>>
  PROVE  IInv'
<1>1. /\ loop' = [job |-> loop.job, at |-> loop.at, load |-> load, heard |-> loop.heard]
      /\ loop.at \notin {"runRoberta", "compare", "runBert"}
  BY DEF IInv, LoopOK, Getting
<1>2. loop'.job = loop.job /\ loop'.at = loop.at /\ loop'.heard = loop.heard /\ LoopOK'
  BY <1>1 DEF LoopOK
<1>3. WorkOK' /\ HeardOK'
  BY <1>2 DEF IInv, WorkOK, HeardOK, jobs
<1>4. ModelsOK'
  BY DEF IInv, ModelsOK, models
<1>5. CacheOK' /\ AnswerOK'
  BY DEF IInv, CacheOK, AnswerOK, Kept, jobs
<1> QED
  BY <1>2, <1>3, <1>4, <1>5 DEF IInv

(* What a classifier says is a score, or nothing. *)
LEMMA PredictionsAre ==
  ASSUME ModelsOK, Current \in Texts
  PROVE  RobertaSays \subseteq Scores \cup {None} /\ BertSays \subseteq Scores \cup {None}
<1>1. Current["RoBERTa"] \in Scores /\ Current["BERT"] \in Scores
  BY TextsAssumption
<1> QED
  BY <1>1 DEF ModelsOK, Pipelines, RobertaSays, BertSays, Predictions

LEMMA EnsembleKeeps ==
  ASSUME IInv, RunsRoberta \/ ComparesWithBert \/ RunsBert
  PROVE  IInv'
<1>1. /\ LoopOK /\ ModelsOK /\ WorkOK /\ HeardOK /\ CacheOK /\ AnswerOK
      /\ loop.at \in {"runRoberta", "compare", "runBert"} /\ loop.at \in Ensemble
      /\ UNCHANGED <<manager, preload, models, now>>
  BY DEF IInv, RunsRoberta, ComparesWithBert, RunsBert, Ensemble
<1>2. Current \in Texts
  BY <1>1, RunningJob
<1>3. RobertaSays \subseteq Scores \cup {None} /\ BertSays \subseteq Scores \cup {None}
  BY <1>1, <1>2, PredictionsAre
<1>4. Current.keyword \in Scores
  BY <1>2, TextsAssumption
<1>5. ModelsOK'
  BY <1>1 DEF ModelsOK, manager, models
<1>6. loop.heard = [roberta |-> loop.heard.roberta, bert |-> loop.heard.bert]
      /\ loop.heard.roberta \in Scores \cup {None} /\ loop.heard.bert \in Scores \cup {None}
  BY <1>1 DEF HeardOK
<1>7. ASSUME NEW at \in {"getBert", "askBert"}, NEW heard, Goes(at, heard),
             heard \in [roberta : Scores \cup {None}, bert : Scores \cup {None}],
             at = "askBert" =>
               heard.bert = None /\ heard.roberta # None /\ heard.roberta >= 50 /\ heard.roberta < 70,
             at = "getBert" => ~Said(heard.roberta, 70) /\ ~Said(heard.bert, 50)
      PROVE  IInv'
  <2>1. at \in Ensemble
    BY DEF Ensemble
  <2>2. LoopOK' /\ WorkOK' /\ CacheOK' /\ AnswerOK' /\ loop'.at = at /\ loop'.heard = heard
    BY <1>1, <1>7, <2>1, GoesKeeps
  <2>3. HeardOK'
    BY <1>7, <2>2 DEF HeardOK
  <2> QED
    BY <1>5, <2>2, <2>3 DEF IInv
<1>8. ASSUME NEW toxic \in BOOLEAN, NEW score \in Scores,
             NEW heard \in [roberta : Scores \cup {None}, bert : Scores \cup {None}],
             Conclude(toxic, score, heard),
             toxic => Said(heard.roberta, 50) \/ Said(heard.bert, 50) \/ Current.keyword > 0,
             ~toxic => ~Said(heard.roberta, 70) /\ ~Said(heard.bert, 50) /\ Current.keyword = 0
      PROVE  IInv'
  <2>1. LoopOK' /\ WorkOK' /\ HeardOK' /\ CacheOK' /\ AnswerOK'
    BY <1>1, <1>8, ConcludeKeeps
  <2> QED
    BY <1>5, <2>1 DEF IInv
<1>9. CASE RunsRoberta
  <2>1. loop.at = "runRoberta" /\ loop.heard = Nothing
    BY <1>1, <1>9 DEF RunsRoberta, HeardOK
  <2>2. PICK score \in Scores \cup {None} :
          LET heard == [loop.heard EXCEPT !.roberta = score]
          IN  IF score = None \/ score < 50 THEN Goes("getBert", heard)
              ELSE IF score >= 70 THEN Conclude(TRUE, score, heard)
              ELSE Goes("askBert", heard)
    BY <1>3, <1>9 DEF RunsRoberta
  <2> DEFINE heard == [roberta |-> score, bert |-> None]
  <2>3. heard = [loop.heard EXCEPT !.roberta = score]
    BY <2>1 DEF Nothing
  <2>4. /\ heard \in [roberta : Scores \cup {None}, bert : Scores \cup {None}]
        /\ heard.roberta = score /\ heard.bert = None
    OBVIOUS
  <2>5. IF score = None \/ score < 50 THEN Goes("getBert", heard)
        ELSE IF score >= 70 THEN Conclude(TRUE, score, heard)
        ELSE Goes("askBert", heard)
    BY <2>2, <2>3
  <2> HIDE DEF heard
  <2>6. CASE score = None \/ score < 50
    <3>1. Goes("getBert", heard)
      BY <2>5, <2>6
    <3>2. ~Said(score, 70)
      <4>1. score = None \/ (score \in Scores /\ score < 50)
        BY <2>2, <2>6
      <4>2. score \in Scores /\ score < 50 => ~(score >= 70)
        BY DEF Scores
      <4> QED
        BY <4>1, <4>2 DEF Said
    <3>3. ~Said(None, 50)
      BY DEF Said
    <3> QED
      BY <1>7, <2>4, <3>1, <3>2, <3>3
  <2>7. CASE ~(score = None \/ score < 50) /\ score >= 70
    <3>1. Conclude(TRUE, score, heard)
      BY <2>5, <2>7
    <3>2. score # None /\ score \in Scores
      BY <2>2, <2>7
    <3>3. score >= 50
      BY <2>7, <3>2 DEF Scores
    <3> QED
      BY <1>8, <2>4, <3>1, <3>2, <3>3 DEF Said
  <2>8. CASE ~(score = None \/ score < 50) /\ ~(score >= 70)
    <3>1. Goes("askBert", heard) /\ heard.roberta # None /\ heard.roberta >= 50 /\ heard.roberta < 70
      BY <2>4, <2>5, <2>8 DEF Scores
    <3> QED
      BY <1>7, <2>4, <3>1
  <2> QED
    BY <2>6, <2>7, <2>8
<1>10. CASE ComparesWithBert
  <2> DEFINE unsure == loop.heard.roberta
  <2>1. unsure \in Scores /\ unsure # None /\ unsure >= 50 /\ unsure < 70
    BY <1>1, <1>10 DEF ComparesWithBert, HeardOK
  <2>2. PICK score \in BertSays :
          LET heard == [loop.heard EXCEPT !.bert = score]
          IN  IF bert = None THEN Goes("getBert", heard)
              ELSE IF score = None THEN Conclude(TRUE, unsure, heard)
              ELSE IF score >= 50
                   THEN Conclude(TRUE, IF score > unsure THEN score ELSE unsure, heard)
              ELSE Goes("getBert", heard)
    BY <1>10 DEF ComparesWithBert
  <2> DEFINE heard == [roberta |-> unsure, bert |-> score]
  <2>3. heard = [loop.heard EXCEPT !.bert = score]
    BY <1>6
  <2>4. /\ score \in Scores \cup {None} /\ (bert = None => score = None)
        /\ heard \in [roberta : Scores \cup {None}, bert : Scores \cup {None}]
        /\ heard.roberta = unsure /\ heard.bert = score
    <3>1. score \in Scores \cup {None}
      BY <1>3
    <3>2. bert = None => score = None
      BY <2>2 DEF BertSays, Predictions
    <3> QED
      BY <2>1, <3>1, <3>2
  <2>5. IF bert = None THEN Goes("getBert", heard)
        ELSE IF score = None THEN Conclude(TRUE, unsure, heard)
        ELSE IF score >= 50
             THEN Conclude(TRUE, IF score > unsure THEN score ELSE unsure, heard)
        ELSE Goes("getBert", heard)
    BY <2>2, <2>3
  <2> HIDE DEF heard
  <2>6. Said(heard.roberta, 50) /\ ~Said(heard.roberta, 70)
    BY <2>1, <2>4 DEF Said, Scores
  <2>7. CASE bert = None
    <3>1. Goes("getBert", heard) /\ ~Said(heard.bert, 50)
      BY <2>4, <2>5, <2>7 DEF Said
    <3> QED
      BY <1>7, <2>4, <2>6, <3>1
  <2>8. CASE bert # None /\ score = None
    <3>1. Conclude(TRUE, unsure, heard)
      BY <2>5, <2>8
    <3> QED
      BY <1>8, <2>1, <2>4, <2>6, <3>1
  <2>9. CASE bert # None /\ score # None /\ score >= 50
    <3>1. Conclude(TRUE, IF score > unsure THEN score ELSE unsure, heard)
      BY <2>5, <2>9
    <3>2. (IF score > unsure THEN score ELSE unsure) \in Scores
      BY <2>1, <2>4, <2>9
    <3> QED
      BY <1>8, <2>4, <2>6, <3>1, <3>2
  <2>10. CASE bert # None /\ score # None /\ ~(score >= 50)
    <3>1. Goes("getBert", heard) /\ ~Said(heard.bert, 50)
      BY <2>4, <2>5, <2>10 DEF Said
    <3> QED
      BY <1>7, <2>4, <2>6, <3>1
  <2> QED
    BY <2>7, <2>8, <2>9, <2>10
<1>11. CASE RunsBert
  <2>1. loop.at = "runBert" /\ ~Said(loop.heard.roberta, 70) /\ ~Said(loop.heard.bert, 50)
    BY <1>1, <1>11 DEF RunsBert, HeardOK
  <2>2. PICK score \in Scores \cup {None} :
          LET heard == IF score = None THEN loop.heard ELSE [loop.heard EXCEPT !.bert = score]
          IN  IF score # None /\ score >= 50 THEN Conclude(TRUE, score, heard)
              ELSE Conclude(Keywords(Current) > 0, Keywords(Current), heard)
    BY <1>3, <1>11 DEF RunsBert
  <2>3. CASE score = None
    <3>1. Conclude(Current.keyword > 0, Current.keyword, loop.heard)
      BY <2>2, <2>3 DEF Keywords
    <3>2. (Current.keyword > 0) \in BOOLEAN /\ (~(Current.keyword > 0) => Current.keyword = 0)
      BY <1>4 DEF Scores
    <3>3. loop.heard \in [roberta : Scores \cup {None}, bert : Scores \cup {None}]
      BY <1>1 DEF HeardOK
    <3> QED
      BY <1>4, <1>8, <2>1, <3>1, <3>2, <3>3
  <2>4. CASE score # None
    <3> DEFINE heard == [roberta |-> loop.heard.roberta, bert |-> score]
    <3>1. /\ heard = [loop.heard EXCEPT !.bert = score]
          /\ heard \in [roberta : Scores \cup {None}, bert : Scores \cup {None}]
          /\ heard.roberta = loop.heard.roberta /\ heard.bert = score
      BY <1>6
    <3>2. IF score >= 50 THEN Conclude(TRUE, score, heard)
          ELSE Conclude(Current.keyword > 0, Current.keyword, heard)
      BY <2>2, <2>4, <3>1 DEF Keywords
    <3> HIDE DEF heard
    <3>3. CASE score >= 50
      <4>1. Conclude(TRUE, score, heard) /\ Said(heard.bert, 50) /\ score \in Scores
        BY <2>4, <3>1, <3>2, <3>3 DEF Said
      <4> QED
        BY <1>8, <3>1, <4>1
    <3>4. CASE ~(score >= 50)
      <4>1. Conclude(Current.keyword > 0, Current.keyword, heard)
        BY <3>2, <3>4
      <4>2. ~Said(heard.bert, 50) /\ ~Said(heard.roberta, 70)
        BY <2>1, <2>4, <3>1, <3>4 DEF Said
      <4>3. (Current.keyword > 0) \in BOOLEAN /\ (~(Current.keyword > 0) => Current.keyword = 0)
        BY <1>4 DEF Scores
      <4> QED
        BY <1>4, <1>8, <3>1, <4>1, <4>2, <4>3
    <3> QED
      BY <3>3, <3>4
  <2> QED
    BY <2>3, <2>4
<1> QED
  BY <1>9, <1>10, <1>11

(* The getter: whatever it hands over is a pipeline or nothing. *)
LEMMA GetterKeeps ==
  ASSUME IInv,
         HasModel \/ LooksUpModel \/ LoadsModel \/ LoadFails \/ NamesModel \/ GetsModel
  PROVE  IInv'
<1>1. /\ None \in Pipelines /\ model_pipeline \in Pipelines /\ model_name_loaded \in Pipelines
      /\ roberta \in Pipelines /\ bert \in Pipelines
  BY DEF IInv, ModelsOK, Pipelines
<1>2. Held \in Pipelines /\ Wanted \in Pipelines
  BY <1>1 DEF Held, Wanted, Pipelines
<1>3. CASE HasModel
  BY <1>2, <1>3, ObtainKeeps DEF HasModel
<1>4. CASE LooksUpModel
  <2>1. Getting(loop.load) /\ UNCHANGED <<model_pipeline, model_name_loaded>>
    BY <1>4 DEF LooksUpModel, Getting, manager
  <2>2. \E load : loop' = [loop EXCEPT !.load = load]
    BY <1>4 DEF LooksUpModel
  <2> QED
    BY <1>1, <1>4, <2>1, <2>2, LoadingKeeps DEF LooksUpModel
<1>5. CASE LoadsModel
  <2>1. Getting(loop.load) /\ loop' = [loop EXCEPT !.load = "name"]
    BY <1>5 DEF LoadsModel, Getting
  <2> QED
    BY <1>1, <1>2, <1>5, <2>1, LoadingKeeps DEF LoadsModel
<1>6. CASE LoadFails
  BY <1>1, <1>6, ObtainKeeps DEF LoadFails
<1>7. CASE NamesModel
  <2>1. Getting(loop.load) /\ loop' = [loop EXCEPT !.load = "return"]
    BY <1>7 DEF NamesModel, Getting
  <2> QED
    BY <1>1, <1>2, <1>7, <2>1, LoadingKeeps DEF NamesModel
<1>8. CASE GetsModel
  BY <1>1, <1>8, ObtainKeeps DEF GetsModel
<1> QED
  BY <1>3, <1>4, <1>5, <1>6, <1>7, <1>8

(* The preload thread touches the manager's variables only, the clock only *)
(* itself.                                                                 *)
LEMMA PreloadKeeps ==
  ASSUME IInv, PreloadSteps
  PROVE  IInv'
<1>1. UNCHANGED <<models, cache, now, jobs, loop>>
  BY DEF PreloadSteps, PreloadLooksUp, PreloadLoads, PreloadNames
<1>2. ModelsOK'
  BY <1>1 DEF IInv, ModelsOK, Pipelines, PreloadSteps, PreloadLooksUp, PreloadLoads, PreloadNames,
              manager, models
<1>3. LoopOK' /\ WorkOK' /\ HeardOK' /\ CacheOK' /\ AnswerOK'
  BY <1>1 DEF IInv, LoopOK, WorkOK, HeardOK, CacheOK, Kept, AnswerOK, jobs
<1> QED
  BY <1>2, <1>3 DEF IInv

LEMMA TickKeeps ==
  ASSUME IInv, Tick \/ UNCHANGED vars
  PROVE  IInv'
<1>1. UNCHANGED <<manager, preload, models, cache, jobs, loop>>
  BY DEF Tick, vars
<1>2. now \in 0..MaxTime /\ (now' = now \/ (now < MaxTime /\ now' = now + 1))
  BY DEF IInv, CacheOK, Tick, vars
<1>3. now' \in 0..MaxTime /\ 0..now \subseteq 0..now'
  BY <1>2, CacheAssumption
<1>4. CacheOK'
  BY <1>1, <1>3 DEF IInv, CacheOK, Kept
<1>5. LoopOK' /\ ModelsOK' /\ WorkOK' /\ HeardOK' /\ AnswerOK'
  BY <1>1 DEF IInv, LoopOK, ModelsOK, WorkOK, HeardOK, AnswerOK, manager, models, jobs
<1> QED
  BY <1>4, <1>5 DEF IInv

LEMMA NextKeeps == IInv /\ [Next]_vars => IInv'
<1> SUFFICES ASSUME IInv, [Next]_vars PROVE IInv'
  OBVIOUS
<1>1. ASSUME NEW j \in Jobs, Starts(j) PROVE IInv'
  BY <1>1, StartsKeeps
<1>2. CASE HasModel \/ LooksUpModel \/ LoadsModel \/ LoadFails \/ NamesModel \/ GetsModel
  BY <1>2, GetterKeeps
<1>3. CASE RunsRoberta \/ ComparesWithBert \/ RunsBert
  BY <1>3, EnsembleKeeps
<1>4. CASE PreloadSteps
  BY <1>4, PreloadKeeps
<1>5. CASE Tick \/ UNCHANGED vars
  BY <1>5, TickKeeps
<1> QED
  BY <1>1, <1>2, <1>3, <1>4, <1>5 DEF Next, LoopSteps

LEMMA Invariance == Spec => []IInv
<1> QED
  BY InitIInv, NextKeeps, PTL DEF Spec

-----------------------------------------------------------------------------
LEMMA IInvTypes == IInv => TypeOK
<1> SUFFICES ASSUME IInv PROVE TypeOK
  OBVIOUS
<1>1. ModelsOK /\ WorkOK /\ CacheOK /\ AnswerOK
  BY DEF IInv
<1>2. Cardinality({t \in Texts : cache[t] # None}) <= MaxSize
  BY <1>1 DEF CacheOK, Kept
<1>3. \A t \in Texts : cache[t] # None => cache[t].result \in Results /\ cache[t].at \in 0..now
  BY <1>1 DEF CacheOK, Kept, Sound
<1>4. \A j \in Jobs :
        /\ step[j] \in {"new", "verify", "running", "done"}
        /\ step[j] = "running" <=> loop.job = j
        /\ local[j].text \in Texts => step[j] \in {"verify", "running"}
        /\ j \in Checks /\ step[j] \in {"verify", "running"} => local[j].text \in Texts
  BY <1>1 DEF WorkOK
<1> QED
  BY <1>1, <1>2, <1>3, <1>4 DEF TypeOK, ModelsOK, AnswerOK

(* enforce_check, GuardrailsWorker.evaluate and the response cache: the      *)
(* state is well formed and every answer, cached or fresh, rests on what was *)
(* heard of its own text, however the handlers, the reloads and the preload  *)
(* thread interleave and whatever fails to load or to answer.                *)
THEOREM Verdicts == Spec => []VerdictsHold
<1>1. ASSUME AnswerOK PROVE VerdictsAreJustified
  BY <1>1 DEF AnswerOK, Sound, Justified, Said, VerdictsAreJustified
<1>2. IInv => VerdictsHold
  BY <1>1, IInvTypes DEF IInv, VerdictsHold
<1> QED
  BY <1>2, Invariance, PTL

(* PolicyEngine.evaluate: the decision in every answer is that of the        *)
(* strictest rule that matches, the first one of that strictness, for a      *)
(* policy file of any length.                                                *)
THEOREM Strictest == Spec => []StrictestRuleDecides
<1>1. ASSUME AnswerOK, answer # None PROVE StrictestRuleDecides
  <2> DEFINE r == answer.result
             text == answer.text
             n == Len(Policies)
             Hit == {i \in 1..n : Matches(Policies[i], r.toxic, r.score, r.pii)}
  <2>1. DecidedBy(n, [action |-> r.action, hidden |-> r.hidden], r.toxic, r.score, r.pii, text.pii)
    BY <1>1 DEF AnswerOK, Sound
  <2>2. /\ r.action \in DOMAIN Strictness
        /\ r.action \in {"allow", "flag"} => r.hidden = {}
        /\ \A i \in Hit : Level(i) <= Strictness[r.action]
        /\ r.action # "allow" =>
             \E i \in Hit :
               /\ Level(i) > 1 /\ \A k \in Hit : Level(k) = Level(i) => i <= k
               /\ r.action = Policies[i].action
               /\ r.action = "block" => r.hidden = text.pii
               /\ r.action = "mask" =>
                    r.hidden = IF Policies[i].patterns THEN {Policies[i].category} ELSE {}
    BY <2>1 DEF DecidedBy
  <2>3. DOMAIN Policies = 1..n /\ \A i \in 1..n : Level(i) \in 1..4
    BY RulesKnown
  <2>4. CASE r.action = "allow"
    <3>1. \A i \in Hit : Strictness[Policies[i].action] = 1
      BY <2>2, <2>3, <2>4, Actions DEF Level
    <3> QED
      BY <2>2, <2>3, <2>4, <3>1 DEF StrictestRuleDecides
  <2>5. CASE r.action # "allow"
    <3>1. PICK i \in Hit :
            /\ Level(i) > 1 /\ \A k \in Hit : Level(k) = Level(i) => i <= k
            /\ r.action = Policies[i].action
            /\ r.action = "block" => r.hidden = text.pii
            /\ r.action = "mask" =>
                 r.hidden = IF Policies[i].patterns THEN {Policies[i].category} ELSE {}
      BY <2>2, <2>5
    <3>2. \A k \in Hit : Level(k) <= Level(i)
      BY <2>2, <3>1 DEF Level
    <3> QED
      BY <2>3, <3>1, <3>2 DEF StrictestRuleDecides, Level
  <2> QED
    BY <2>4, <2>5
<1>2. IInv => StrictestRuleDecides
  BY <1>1 DEF IInv, StrictestRuleDecides
<1> QED
  BY <1>2, Invariance, PTL
=============================================================================
