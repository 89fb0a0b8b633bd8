----------------------------- MODULE Detection -----------------------------
(***************************************************************************)
(* How a message gets its classification: the rules that are run on it     *)
(* (app/services/threat_engine.py) and their scores and thresholds (see    *)
(* Scoring), while users edit the custom rules (app/routes/rules.py,       *)
(* api.py) and an admin edits the thresholds (app/routes/settings.py).     *)
(*                                                                         *)
(* What a rule or a condition looks for in the text of a message is not    *)
(* modelled: each message says which built-in rules match or raise, and    *)
(* which texts custom conditions find in it.                               *)
(***************************************************************************)
EXTENDS Scoring

CONSTANTS
  Builtins,       \* ALL_BUILTIN_RULES: a sequence of results, see Scoring
  RuleIds,        \* bound: the custom rules that can be created
  Categories,     \* the categories users give to custom rules: free text
  Scores,         \* the scores they give
  Conditions,     \* the condition lists they give, see Condition
  Texts,          \* what conditions look for
  Messages,       \* the messages of the instance
  MaxEdits        \* bound: how often rules and thresholds are edited

Condition == [joiner : {"AND", "OR", "NOT"}, text : Texts]
        \cup [joiner : {"AND", "OR", "NOT"}, operator : {"greater_than", "less_than", "equals"}, score : Int]

ASSUME DetectionAssumption ==
  /\ Builtins \in Seq(Result)
  /\ \A i \in DOMAIN Builtins : Builtins[i].dangerous => Builtins[i].category = "attachment"
  /\ Categories \subseteq STRING
  /\ Scores \subseteq Int
  /\ Conditions \subseteq Seq(Condition)
  /\ Messages \subseteq [outcome : [DOMAIN Builtins -> {"match", "miss", "raise"}], says : SUBSET Texts]
  /\ MaxEdits \in Nat

VARIABLES
  rules,       \* the detection_rules rows with their conditions
  thresholds,  \* the threshold.* settings
  form,        \* the thresholds an admin asked for, and those not saved yet
  edits,       \* how many edits there were
  pc,          \* where the analysis of a message is
  message,     \* the message
  position,    \* the built-in rule, result or threshold that is next
  queue,       \* the custom rules the query returned and that are still to be run
  results,     \* the RuleResults that matched
  running,     \* running_score: what the built-in rules add up to
  scores,      \* ScoreBreakdown, by column
  read,        \* the thresholds classify has read
  inForce,     \* history: the settings in force since classify began to read
  class        \* the classification, "none" before there is one

editVars == <<rules, thresholds, form, edits>>
vars == <<rules, thresholds, form, edits, pc, message, position, queue, results, running,
          scores, read, inForce, class>>
analysisVars == <<pc, message, position, queue, results, running, scores, read, inForce, class>>

-----------------------------------------------------------------------------
\* threat_engine: _evaluate_condition and _evaluate_custom_rule.

Holds(c) ==
  IF "text" \in DOMAIN c THEN c.text \in message.says
  ELSE \/ c.operator = "greater_than" /\ running > c.score
       \/ c.operator = "less_than" /\ running < c.score
       \/ c.operator = "equals" /\ running = c.score

Literal(c) == Holds(c) = (c.joiner # "NOT")

Joined(sofar, c) == IF c.joiner = "OR" THEN sofar \/ Literal(c) ELSE sofar /\ Literal(c)

MatchesFromTrue(cs) == cs # <<>> /\ FoldLeft(Joined, TRUE, cs) \* Mutant: the first condition is joined to TRUE

\* The joiner of the first condition joins it to nothing.
Matches(cs) == cs # <<>> /\ FoldLeft(Joined, Literal(Head(cs)), Tail(cs))

-----------------------------------------------------------------------------
\* A row before it is inserted and after it is deleted; ids are not reused.
NoRow == [category |-> "body", score |-> 0, conditions |-> <<>>]

NothingRead == [clean_max |-> 0, suspicious_max |-> 0, spam_max |-> 0]

Init ==
  /\ rules = [r \in RuleIds |-> [state |-> "absent", row |-> NoRow]]
  /\ thresholds \in Settings /\ form = [new |-> thresholds, left |-> {}] /\ edits = 0
  /\ pc = "idle" /\ message \in Messages /\ position = 1 /\ queue = {}
  /\ results = <<>> /\ running = 0
  /\ scores = [c \in Columns |-> 0] /\ read = NothingRead /\ inForce = {}
  /\ class = "none"

\* What users do.  Each edit is a commit of its own.

CountEdit == edits < MaxEdits /\ edits' = edits + 1
EditRule == CountEdit /\ UNCHANGED <<thresholds, form, analysisVars>>

Exists(r) == rules[r].state \in {"enabled", "disabled"}

Clamp(score) == IF score < 1 THEN 1 ELSE IF score > 150 THEN 150 ELSE score

CreateRule(r) ==
  /\ rules[r].state = "absent"
  /\ \E category \in Categories, score \in Scores, cs \in Conditions :
       rules' = [rules EXCEPT ![r] = [state |-> "enabled",
                   row |-> [category |-> category, score |-> Clamp(score), conditions |-> cs]]]
  /\ EditRule

\* The API's PUT does not clamp the score, and cannot change the conditions.
UpdateRule(r) ==
  /\ Exists(r)
  /\ \E category \in Categories, score \in Scores :
       rules' = [rules EXCEPT ![r].row.category = category, ![r].row.score = score]
  /\ EditRule

\* The page's toggle, and "enabled" of the API's PUT.
ToggleRule(r) ==
  /\ Exists(r)
  /\ rules' = [rules EXCEPT ![r].state = IF @ = "enabled" THEN "disabled" ELSE "enabled"]
  /\ EditRule

DeleteRule(r) ==
  /\ Exists(r)
  /\ rules' = [rules EXCEPT ![r] = [state |-> "deleted", row |-> NoRow]]
  /\ EditRule

\* What the thresholds will be when form f is saved.
Target(f) == [b \in DOMAIN thresholds |-> IF \E i \in f.left : Bands[i] = b THEN f.new[b] ELSE thresholds[b]]

\* update_thresholds is given some of the thresholds.
SubmitThresholds ==
  /\ form.left = {}
  /\ CountEdit
  /\ form' \in [new : Settings, left : SUBSET DOMAIN Bands \ {{}}]
  /\ inForce' = IF pc = "classify" THEN inForce \cup {Target(form')} ELSE inForce
  /\ UNCHANGED <<rules, thresholds, pc, message, position, queue, results, running, scores, read, class>>

\* settings_service.set: one commit for each of them, in order.
SaveThreshold(i) ==
  /\ i \in form.left /\ \A j \in form.left : i <= j
  /\ thresholds' = [thresholds EXCEPT ![Bands[i]] = form.new[Bands[i]]]
  /\ form' = [form EXCEPT !.left = @ \ {i}]
  /\ UNCHANGED <<rules, edits, analysisVars>>

-----------------------------------------------------------------------------
\* The analysis of a message, in the scanning thread.

Analyze ==
  /\ pc = "idle"
  /\ pc' = "builtin" /\ message' \in Messages /\ position' = 1
  /\ results' = <<>> /\ running' = 0 /\ scores' = [c \in Columns |-> 0]
  /\ read' = NothingRead /\ inForce' = {} /\ class' = "none"
  /\ UNCHANGED <<editVars, queue>>

AtBuiltin(outcome) ==
  /\ pc = "builtin" /\ position \in DOMAIN Builtins
  /\ message.outcome[position] = outcome

RunBuiltin ==
  /\ AtBuiltin("match") \/ AtBuiltin("miss")
  /\ results' = IF AtBuiltin("match") THEN Append(results, Builtins[position]) ELSE results
  /\ position' = position + 1
  /\ UNCHANGED <<editVars, pc, message, queue, running, scores, read, inForce, class>>

BuiltinRaisesLast == \* Mutant: the exception ends the loop
  /\ AtBuiltin("raise")
  /\ position' = Len(Builtins) + 1
  /\ UNCHANGED <<editVars, pc, message, queue, results, running, scores, read, inForce, class>>

\* A rule that raises is logged and skipped.
BuiltinRaises ==
  /\ AtBuiltin("raise")
  /\ position' = position + 1
  /\ UNCHANGED <<editVars, pc, message, queue, results, running, scores, read, inForce, class>>

\* The custom rules are read by one query, without their conditions.
QueryRules ==
  /\ pc = "builtin" /\ position > Len(Builtins)
  /\ pc' = "custom"
  /\ running' = SumOf(results)
  /\ queue' = {[id |-> r, category |-> rules[r].row.category, score |-> rules[r].row.score] :
                 r \in {q \in RuleIds : rules[q].state = "enabled"}}
  /\ UNCHANGED <<editVars, message, position, results, scores, read, inForce, class>>

\* In any order; the conditions are read when the rule is evaluated, and are
\* none if it was deleted meanwhile.
RunCustom(q) ==
  /\ pc = "custom" /\ q \in queue
  /\ queue' = queue \ {q}
  /\ results' = IF Matches(rules[q.id].row.conditions)
                THEN Append(results, [category |-> q.category, score |-> q.score, dangerous |-> FALSE])
                ELSE results
  /\ UNCHANGED <<editVars, pc, message, position, running, scores, read, inForce, class>>

StartScoring ==
  /\ pc = "custom" /\ queue = {}
  /\ pc' = "score" /\ position' = 1
  /\ UNCHANGED <<editVars, message, queue, results, running, scores, read, inForce, class>>

\* calculate_score: one result is added to its column.
Add(column) ==
  /\ pc = "score"
  /\ scores' = [scores EXCEPT ![column] = @ + results[position].score]
  /\ position' = position + 1
  /\ UNCHANGED <<editVars, pc, message, queue, results, running, read, inForce, class>>

AddResult == position \in DOMAIN results /\ Add(Column(results[position].category))

StartClassifyingMidway == \* Mutant: the loop's position is not reset
  /\ pc = "score" /\ position > Len(results)
  /\ pc' = "classify"
  /\ inForce' = {thresholds, Target(form)}
  /\ UNCHANGED <<editVars, message, position, queue, results, running, scores, read, class>>

StartClassifying ==
  /\ pc = "score" /\ position > Len(results)
  /\ pc' = "classify" /\ position' = 1
  /\ inForce' = {thresholds, Target(form)}
  /\ UNCHANGED <<editVars, message, queue, results, running, scores, read, class>>

ReadThresholdShifted == \* Mutant: the key of the one before is asked for the last one
  /\ pc = "classify" /\ position \in DOMAIN Bands
  /\ read' = [read EXCEPT ![Bands[position]] = thresholds[Bands[IF position = 3 THEN 2 ELSE position]]]
  /\ position' = position + 1
  /\ UNCHANGED <<editVars, pc, message, queue, results, running, scores, inForce, class>>

\* get_thresholds: one query for each of them.
ReadThreshold ==
  /\ pc = "classify" /\ position \in DOMAIN Bands
  /\ read' = [read EXCEPT ![Bands[position]] = thresholds[Bands[position]]]
  /\ position' = position + 1
  /\ UNCHANGED <<editVars, pc, message, queue, results, running, scores, inForce, class>>

Verdict(t) == Classify(t, scores, SumOf(results), Dangerous(results))

Decide ==
  /\ pc = "classify" /\ position > Len(Bands)
  /\ pc' = "idle"
  /\ class' = Verdict(read)
  /\ UNCHANGED <<editVars, message, position, queue, results, running, scores, read, inForce>>

Next ==
  \/ \E r \in RuleIds : CreateRule(r) \/ UpdateRule(r) \/ ToggleRule(r) \/ DeleteRule(r)
  \/ SubmitThresholds \/ (\E i \in form.left : SaveThreshold(i))
  \/ Analyze \/ RunBuiltin \/ BuiltinRaises \/ QueryRules \/ (\E q \in queue : RunCustom(q))
  \/ StartScoring \/ AddResult \/ StartClassifying \/ ReadThreshold \/ Decide

Spec == Init /\ [][Next]_vars

-----------------------------------------------------------------------------
Row == [category : Categories \cup {NoRow.category}, score : Int, conditions : Conditions \cup {NoRow.conditions}]

TypeOK ==
  /\ rules \in [RuleIds -> [state : {"absent", "enabled", "disabled", "deleted"}, row : Row]]
  /\ thresholds \in Threshold
  /\ form \in [new : Settings, left : SUBSET DOMAIN Bands]
  /\ edits \in 0..MaxEdits
  /\ pc \in {"idle", "builtin", "custom", "score", "classify"}
  /\ message \in Messages
  /\ position \in Nat \ {0} /\ (pc = "classify" => position <= Len(Bands) + 1)
  /\ \A q \in queue : q.id \in RuleIds /\ q.category \in Categories /\ q.score \in Int
  /\ results \in Seq(Result)
  /\ running \in Int
  /\ scores \in [Columns -> Int]
  /\ read \in Threshold
  /\ inForce \subseteq Threshold
  /\ class \in Labels \cup {"none"}

\* One bad rule does not take the others with it: every built-in rule that
\* matches the message is among its indicators (run_builtin_rules).
BadRuleIsContained ==
  class # "none" =>
    \A i \in DOMAIN Builtins : message.outcome[i] = "match" => \E j \in DOMAIN results : results[j] = Builtins[i]

\* Phishing, scam and malicious attachment are only said of a message with
\* actual rule evidence in that category (classify).  False of the code: of a
\* message from which a custom rule takes points off.
Evidence(category) == \E i \in DOMAIN results : results[i].category = category

LabelHasEvidence ==
  /\ class \in {"phishing", "scam"} => Evidence(class)
  /\ class = "malicious_attachment" => Evidence("attachment")

\* What is true whatever custom rules do: such a label is never given on spam,
\* URL, header or authentication signals alone, and it has evidence in its own
\* category unless a result in one of the three categories takes points off.
PointsOff == \E i \in DOMAIN results : results[i].category \in Special /\ results[i].score < 0

LabelRestsOnEvidence ==
  /\ class \in {"phishing", "scam", "malicious_attachment"} => \E c \in Special : Evidence(c)
  /\ PointsOff \/ LabelHasEvidence

\* The joiners of a rule mean what left to right says: the rule matches if some
\* condition starts a match and no later AND or NOT breaks it
\* (_evaluate_custom_rule).
JoinersLeftToRight ==
  \A cs \in Conditions :
    Matches(cs) <=>
      \E i \in DOMAIN cs :
        /\ i = 1 \/ cs[i].joiner = "OR"
        /\ Literal(cs[i])
        /\ \A j \in (i + 1)..Len(cs) : cs[j].joiner = "OR" \/ Literal(cs[j])

\* Thresholds saved while a message is classified mix with the earlier ones,
\* yet where all the settings in force meanwhile agree on the message, it gets
\* the classification they agree on (get_thresholds, update_thresholds).
AgreedClassKept ==
  class # "none" => \A t \in inForce : (\A x \in inForce : Verdict(x) = Verdict(t)) => class = Verdict(t)

\* A result that adds points never lowers the risk level of a message, whatever
\* the thresholds, unless a result in one of the three categories takes points
\* off: scoring and the choice of the label work together.
DangerSoFar == \E i \in 1..(position - 1) : results[i].dangerous
RiskSoFar(t) == RiskLevel(Classify(t, scores, Total(scores), DangerSoFar))

MoreEvidenceNeverLowersRisk ==
  [][AddResult /\ results[position].score >= 0 /\ ~ PointsOff
       => \A t \in Settings : RiskSoFar(t)' >= RiskSoFar(t)]_vars
=============================================================================
