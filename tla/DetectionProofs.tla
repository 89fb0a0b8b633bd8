-------------------------- MODULE DetectionProofs --------------------------
(***************************************************************************)
(* Theorems about Detection, for any built-in and custom rules, messages   *)
(* and thresholds, however they are edited meanwhile.                      *)
(***************************************************************************)
EXTENDS Detection, BuiltinRulesProofs

\* What a category can be called, "body" being that of a row that is gone.
Names == {Builtins[i].category : i \in DOMAIN Builtins} \cup Categories \cup {"body"}

Found == [category : Names, score : Int, dangerous : BOOLEAN]
ScoringRow == [category : Names, score : Int, conditions : Seq(Condition)]
Rule == [state : {"absent", "enabled", "disabled", "deleted"}, row : ScoringRow]

\* The rules' rows, the queue and the results, as far as scoring needs them.
ResultsInv ==
  /\ \A q \in queue : q.category \in Names /\ q.score \in Int
  /\ results \in Seq(Found)
  /\ \A i \in DOMAIN results : results[i].dangerous => results[i].category = "attachment"
  /\ rules \in [RuleIds -> Rule]
  /\ position \in Nat \ {0}

\* A column holds points only if some result gave it points, and less than
\* none only if some result took points off.
ScoresInv ==
  /\ scores \in [Columns -> Int]
  /\ \A c \in Columns : scores[c] # 0 => \E i \in DOMAIN results : Column(results[i].category) = c
  /\ ~ PointsOff => \A c \in Special : scores[c] \in Score
  /\ pc \in {"builtin", "custom"} => \A c \in Columns : scores[c] = 0
  /\ pc # "idle" => class = "none"

EvidenceInv == ResultsInv /\ ScoresInv /\ LabelRestsOnEvidence

\* What is not a step of scoring or deciding keeps the evidence.
LEMMA EvidenceKept ==
  ASSUME EvidenceInv, ResultsInv', UNCHANGED <<scores, class>>,
         pc' \in {"builtin", "custom"} => pc \in {"builtin", "custom"},
         pc' # "idle" => pc # "idle",
         \A i \in DOMAIN results : i \in DOMAIN results' /\ results'[i] = results[i]
  PROVE  EvidenceInv'
<1>1. PointsOff => PointsOff'
  BY DEF PointsOff
<1>2. ScoresInv'
  BY <1>1 DEF EvidenceInv, ScoresInv
<1>3. LabelRestsOnEvidence'
  BY <1>1 DEF EvidenceInv, LabelRestsOnEvidence, LabelHasEvidence, Evidence
<1> QED
  BY <1>2, <1>3 DEF EvidenceInv

LEMMA NoRowIsARow == NoRow \in ScoringRow
<1>1. ASSUME NEW name \in Names, NEW score \in Int, NEW none \in Seq(Condition)
      PROVE  [category |-> name, score |-> score, conditions |-> none] \in ScoringRow
  BY DEF ScoringRow
<1>2. <<>> \in Seq(Condition)
  OBVIOUS
<1>3. "body" \in Names
  BY DEF Names
<1>4. 0 \in Int
  OBVIOUS
<1>5. [category |-> "body", score |-> 0, conditions |-> <<>>] \in ScoringRow
  BY <1>1, <1>2, <1>3, <1>4, Zenon
<1> QED
  BY <1>5, Zenon DEF NoRow

\* Appending an element keeps the others in their places.
LEMMA Appended ==
  ASSUME NEW S, NEW s \in Seq(S), NEW e \in S
  PROVE  /\ Append(s, e) \in Seq(S)
         /\ \A i \in DOMAIN s : i \in DOMAIN Append(s, e) /\ Append(s, e)[i] = s[i]
         /\ \A i \in DOMAIN Append(s, e) : i \in DOMAIN s \/ Append(s, e)[i] = e
  OBVIOUS

\* The invariant, one step per action.
LEMMA EvidenceAlways == Spec => []EvidenceInv
<1>1. Init => EvidenceInv
  <2> SUFFICES ASSUME Init PROVE EvidenceInv
    OBVIOUS
  <2>1. rules \in [RuleIds -> Rule]
    BY NoRowIsARow DEF Init, Rule
  <2>2. results = <<>> /\ results \in Seq(Found)
    BY DEF Init
  <2>3. ResultsInv
    BY <2>1, <2>2 DEF Init, ResultsInv
  <2>4. ScoresInv /\ LabelRestsOnEvidence
    BY DEF Init, ScoresInv, LabelRestsOnEvidence, LabelHasEvidence, Special, Columns, Score
  <2> QED
    BY <2>3, <2>4 DEF EvidenceInv
<1>2. EvidenceInv /\ [Next]_vars => EvidenceInv'
  <2> SUFFICES ASSUME EvidenceInv, [Next]_vars PROVE EvidenceInv'
    OBVIOUS
  <2> USE DetectionAssumption
  <2> USE DEF analysisVars, editVars
  <2>1. ASSUME NEW r \in RuleIds, CreateRule(r) \/ UpdateRule(r) \/ ToggleRule(r) \/ DeleteRule(r)
        PROVE  EvidenceInv'
    <3>1. UNCHANGED analysisVars
      BY <2>1 DEF CreateRule, UpdateRule, ToggleRule, DeleteRule, EditRule
    <3>2. rules' \in [RuleIds -> Rule]
      <4>0. rules \in [RuleIds -> Rule]
        BY DEF EvidenceInv, ResultsInv
      <4>1. CASE CreateRule(r)
        <5>1. PICK category \in Categories, score \in Scores, cs \in Conditions :
                rules' = [rules EXCEPT ![r] = [state |-> "enabled",
                            row |-> [category |-> category, score |-> Clamp(score), conditions |-> cs]]]
          BY <4>1 DEF CreateRule
        <5>2. category \in Names /\ Clamp(score) \in Int /\ cs \in Seq(Condition)
          <6>1. category \in Names
            BY DEF Names
          <6>2. Scores \subseteq Int /\ Conditions \subseteq Seq(Condition)
            BY DetectionAssumption DEF DetectionAssumption
          <6>3. Clamp(score) \in Int
            BY <6>2 DEF Clamp
          <6> QED
            BY <6>1, <6>2, <6>3
        <5>3. [category |-> category, score |-> Clamp(score), conditions |-> cs] \in ScoringRow
          BY <5>2 DEF ScoringRow
        <5> QED
          BY <4>0, <5>1, <5>3 DEF Rule
      <4>2. CASE UpdateRule(r)
        <5>1. PICK category \in Categories, score \in Scores :
                rules' = [rules EXCEPT ![r].row.category = category, ![r].row.score = score]
          BY <4>2 DEF UpdateRule
        <5>2. category \in Names /\ score \in Int
          BY DetectionAssumption DEF DetectionAssumption, Names
        <5> DEFINE row == [rules[r].row EXCEPT !.category = category, !.score = score]
        <5>3. rules[r] \in Rule /\ rules[r].row \in ScoringRow
          BY <4>0 DEF Rule
        <5>4. row \in ScoringRow
          BY <5>2, <5>3 DEF ScoringRow
        <5>5. rules' = [rules EXCEPT ![r] = [rules[r] EXCEPT !.row = row]]
          BY <4>0, <5>1, <5>3 DEF Rule
        <5>6. [rules[r] EXCEPT !.row = row] \in Rule
          BY <5>3, <5>4 DEF Rule
        <5> QED
          BY <4>0, <5>5, <5>6
      <4>3. CASE ToggleRule(r)
        BY <4>0, <4>3 DEF ToggleRule, Rule
      <4>4. CASE DeleteRule(r)
        <5>1. [state |-> "deleted", row |-> NoRow] \in Rule
          BY NoRowIsARow DEF Rule
        <5> QED
          BY <4>0, <4>4, <5>1 DEF DeleteRule
      <4> QED
        BY <2>1, <4>1, <4>2, <4>3, <4>4
    <3>3. ResultsInv'
      BY <3>1, <3>2 DEF EvidenceInv, ResultsInv
    <3> QED
      BY <3>1, <3>3, EvidenceKept
  <2>2. CASE SubmitThresholds \/ \E i \in form.left : SaveThreshold(i)
    <3>1. ResultsInv'
      BY <2>2 DEF SubmitThresholds, SaveThreshold, EvidenceInv, ResultsInv
    <3> QED
      BY <2>2, <3>1, EvidenceKept DEF SubmitThresholds, SaveThreshold
  <2>3. CASE Analyze
    BY <2>3 DEF Analyze, EvidenceInv, ResultsInv, ScoresInv, LabelRestsOnEvidence, LabelHasEvidence, Special, Columns, Score
  <2>4. CASE RunBuiltin
    <3>1. ResultsInv' /\ \A i \in DOMAIN results : i \in DOMAIN results' /\ results'[i] = results[i]
      <4>1. UNCHANGED <<rules, queue>> /\ position' = position + 1
        BY <2>4 DEF RunBuiltin
      <4>2. /\ results \in Seq(Found) /\ position \in Nat \ {0}
            /\ \A i \in DOMAIN results : results[i].dangerous => results[i].category = "attachment"
        BY DEF EvidenceInv, ResultsInv
      <4>3. CASE results' = results
        BY <4>1, <4>2, <4>3 DEF EvidenceInv, ResultsInv
      <4>4. CASE position \in DOMAIN Builtins /\ results' = Append(results, Builtins[position])
        <5>1. Builtins[position] \in Found
              /\ (Builtins[position].dangerous => Builtins[position].category = "attachment")
          <6> DEFINE b == Builtins[position]
          <6>1. b \in Result
            BY <4>4
          <6>2. b = [category |-> b.category, score |-> b.score, dangerous |-> b.dangerous]
                /\ b.score \in Int /\ b.dangerous \in BOOLEAN
            BY <6>1 DEF Result
          <6>3. b.category \in Names /\ (b.dangerous => b.category = "attachment")
            BY <4>4 DEF Names
          <6> HIDE DEF b
          <6>4. b \in Found
            BY <6>2, <6>3 DEF Found
          <6> QED
            BY <6>3, <6>4 DEF b
        <5> QED
          BY <4>1, <4>2, <4>4, <5>1, Appended DEF EvidenceInv, ResultsInv
      <4> QED
        BY <2>4, <4>3, <4>4 DEF RunBuiltin, AtBuiltin
    <3> QED
      BY <2>4, <3>1, EvidenceKept DEF RunBuiltin
  <2>5. CASE BuiltinRaises
    <3>1. ResultsInv'
      BY <2>5 DEF BuiltinRaises, EvidenceInv, ResultsInv
    <3> QED
      BY <2>5, <3>1, EvidenceKept DEF BuiltinRaises
  <2>6. CASE QueryRules
    <3>1. ResultsInv'
      BY <2>6 DEF QueryRules, EvidenceInv, ResultsInv, Rule, ScoringRow
    <3> QED
      BY <2>6, <3>1, EvidenceKept DEF QueryRules
  <2>7. ASSUME NEW q \in queue, RunCustom(q) PROVE EvidenceInv'
    <3>1. ResultsInv' /\ \A i \in DOMAIN results : i \in DOMAIN results' /\ results'[i] = results[i]
      <4> DEFINE added == [category |-> q.category, score |-> q.score, dangerous |-> FALSE]
      <4>1. added \in Found /\ ~ added.dangerous
        BY DEF EvidenceInv, ResultsInv, Found
      <4>2. results' = results \/ results' = Append(results, added)
        BY <2>7 DEF RunCustom
      <4> HIDE DEF added
      <4>3. /\ results \in Seq(Found)
            /\ \A i \in DOMAIN results : results[i].dangerous => results[i].category = "attachment"
        BY DEF EvidenceInv, ResultsInv
      <4>4. /\ results' \in Seq(Found)
            /\ \A i \in DOMAIN results' : (i \in DOMAIN results /\ results'[i] = results[i]) \/ results'[i] = added
            /\ \A i \in DOMAIN results : i \in DOMAIN results' /\ results'[i] = results[i]
        <5>1. CASE results' = results
          BY <4>3, <5>1
        <5>2. CASE results' = Append(results, added)
          <6>1. added \in Found /\ results \in Seq(Found)
            BY <4>1, <4>3
          <6>2. /\ Append(results, added) \in Seq(Found)
                /\ \A i \in DOMAIN results :
                     i \in DOMAIN Append(results, added) /\ Append(results, added)[i] = results[i]
                /\ \A i \in DOMAIN Append(results, added) : i \in DOMAIN results \/ Append(results, added)[i] = added
            BY <6>1, Appended, Zenon
          <6> QED
            BY <5>2, <6>2, Zenon
        <5> QED
          BY <4>2, <5>1, <5>2
      <4>5. \A i \in DOMAIN results' : results'[i].dangerous => results'[i].category = "attachment"
        BY <4>1, <4>3, <4>4
      <4>6. \A x \in queue' : x \in queue
        BY <2>7 DEF RunCustom
      <4>7. UNCHANGED <<rules, position>>
        BY <2>7 DEF RunCustom
      <4> QED
        BY <4>4, <4>5, <4>6, <4>7 DEF EvidenceInv, ResultsInv
    <3> QED
      BY <2>7, <3>1, EvidenceKept DEF RunCustom
  <2>8. CASE StartScoring
    <3>1. ResultsInv'
      BY <2>8 DEF StartScoring, EvidenceInv, ResultsInv
    <3> QED
      BY <2>8, <3>1, EvidenceKept DEF StartScoring
  <2>9. CASE AddResult
    <3> DEFINE c == Column(results[position].category)
    <3>1. position \in DOMAIN results /\ c \in Columns /\ results[position].score \in Int
      <4>1. results \in Seq(Found) /\ position \in DOMAIN results
        BY <2>9 DEF AddResult, EvidenceInv, ResultsInv
      <4>2. results[position] \in Found
        BY <4>1
      <4> QED
        BY <4>1, <4>2 DEF Column, Columns, Found
    <3>2. /\ scores' = [scores EXCEPT ![c] = @ + results[position].score]
          /\ position' = position + 1
          /\ UNCHANGED <<rules, pc, queue, results, class>> /\ pc = "score"
      BY <2>9 DEF AddResult, Add
    <3> HIDE DEF c
    <3>3. ResultsInv'
      BY <3>2 DEF EvidenceInv, ResultsInv
    <3>4. /\ scores' \in [Columns -> Int]
          /\ scores'[c] = scores[c] + results[position].score
          /\ \A d \in Columns \ {c} : scores'[d] = scores[d]
      BY <3>1, <3>2 DEF EvidenceInv, ScoresInv
    <3>5. \A d \in Columns : scores'[d] # 0 => \E i \in DOMAIN results : Column(results[i].category) = d
      <4>1. \E i \in DOMAIN results : Column(results[i].category) = c
        BY <3>1 DEF c
      <4> QED
        BY <3>4, <4>1 DEF EvidenceInv, ScoresInv
    <3>6. ~ PointsOff => \A d \in Special : scores'[d] \in Score
      <4>1. c \in Special => results[position].category = c
        BY DEF c, Column, Special, Columns
      <4>2. ~ PointsOff /\ c \in Special => results[position].score >= 0
        BY <3>1, <4>1 DEF PointsOff
      <4>3. Special \subseteq Columns
        BY DEF Special, Columns
      <4> QED
        BY <3>1, <3>4, <4>2, <4>3 DEF EvidenceInv, ScoresInv, Score
    <3>7. PointsOff' = PointsOff
      BY <3>2 DEF PointsOff
    <3>8. LabelRestsOnEvidence'
      BY <3>2, <3>7 DEF EvidenceInv, LabelRestsOnEvidence, LabelHasEvidence, Evidence
    <3> QED
      BY <3>2, <3>3, <3>4, <3>5, <3>6, <3>7, <3>8 DEF EvidenceInv, ScoresInv
  <2>10. CASE StartClassifying \/ ReadThreshold
    <3>1. ResultsInv'
      BY <2>10 DEF StartClassifying, ReadThreshold, EvidenceInv, ResultsInv
    <3> QED
      BY <2>10, <3>1, EvidenceKept DEF StartClassifying, ReadThreshold
  <2>11. CASE Decide
    <3>0. UNCHANGED <<results, scores>> /\ PointsOff' = PointsOff
      BY <2>11 DEF Decide, PointsOff
    <3>1. ResultsInv' /\ ScoresInv'
      BY <2>11, <3>0 DEF Decide, EvidenceInv, ResultsInv, ScoresInv
    <3>2. class' \in {"clean", "suspicious", "spam"} \/ class' = Label(scores, Dangerous(results))
      BY <2>11 DEF Decide, Verdict, Classify
    <3>3. Dangerous(results) => Evidence("attachment")
      BY DEF EvidenceInv, ResultsInv, Dangerous, Evidence
    <3>4. \A c \in Special : scores[c] # 0 => Evidence(c)
      BY DEF EvidenceInv, ScoresInv, Evidence, Column, Special, Columns
    <3>5. class' \in {"phishing", "scam", "malicious_attachment"} => \E c \in Special : Evidence(c)
      <4>1. ~ Dangerous(results) /\ NoEvidence(scores) => Label(scores, Dangerous(results)) = "spam"
        BY DEF Label
      <4>2. "attachment" \in Special
        BY DEF Special
      <4> QED
        BY <3>2, <3>3, <3>4, <4>1, <4>2 DEF NoEvidence
    <3>6. ASSUME ~ PointsOff
          PROVE  /\ class' \in {"phishing", "scam"} => Evidence(class')
                 /\ class' = "malicious_attachment" => Evidence("attachment")
      <4>1. \A c \in Special : scores[c] \in Score
        BY <3>6 DEF EvidenceInv, ScoresInv
      <4>2. Dangerous(results) \in BOOLEAN
        BY DEF Dangerous
      <4>3. class' \in {"phishing", "scam"} => scores[class'] > 0
        BY <3>2, <4>1, <4>2, LabelByEvidence
      <4>4. class' = "malicious_attachment" => Dangerous(results) \/ scores["attachment"] > 0
        BY <3>2, <4>1, <4>2, LabelByEvidence
      <4>5. \A c \in Special : scores[c] > 0 => scores[c] # 0
        BY <4>1 DEF Score
      <4> QED
        BY <3>3, <3>4, <4>3, <4>4, <4>5 DEF Special
    <3>7. LabelRestsOnEvidence'
      BY <3>0, <3>5, <3>6 DEF LabelRestsOnEvidence, LabelHasEvidence, Evidence
    <3> QED
      BY <3>1, <3>7 DEF EvidenceInv
  <2>12. CASE UNCHANGED vars
    BY <2>12, EvidenceKept DEF vars, EvidenceInv, ResultsInv
  <2> QED
    BY <2>1, <2>2, <2>3, <2>4, <2>5, <2>6, <2>7, <2>8, <2>9, <2>10, <2>11, <2>12 DEF Next
<1> QED
  BY <1>1, <1>2, PTL DEF Spec

\* A label of the high-risk band is only given to a message with evidence of
\* that band, and in its own category unless such a result takes points off
\* (classify).
THEOREM LabelsRestOnEvidence == Spec => []LabelRestsOnEvidence
<1>1. EvidenceInv => LabelRestsOnEvidence
  BY DEF EvidenceInv
<1> QED
  BY <1>1, EvidenceAlways, PTL

-----------------------------------------------------------------------------
\* A result that adds points never lowers the risk level of a message, whatever
\* the thresholds, unless some result in the categories of the high-risk band
\* takes points off (calculate_score, classify).
THEOREM EvidenceOnlyRaisesRisk == Spec => MoreEvidenceNeverLowersRisk
<1>1. ASSUME EvidenceInv, AddResult, results[position].score >= 0, ~ PointsOff, NEW t \in Settings
      PROVE  RiskSoFar(t)' >= RiskSoFar(t)
  <2> DEFINE c == Column(results[position].category)
  <2>1. t \in Threshold
    BY ScoringAssumption DEF ScoringAssumption
  <2>2. /\ scores \in [Columns -> Int] /\ \A d \in Special : scores[d] \in Score
        /\ DangerSoFar \in BOOLEAN /\ DangerSoFar' \in BOOLEAN
        /\ position \in Nat \ {0}
    BY <1>1 DEF EvidenceInv, ScoresInv, ResultsInv, DangerSoFar
  <2>3. c \in Columns /\ results[position].score \in Int
    <3>1. results \in Seq(Found) /\ position \in DOMAIN results
      BY <1>1 DEF AddResult, EvidenceInv, ResultsInv
    <3>2. results[position] \in Found
      BY <3>1
    <3> QED
      BY <3>1, <3>2 DEF Column, Columns, Found
  <2>4. scores' = [scores EXCEPT ![c] = @ + results[position].score]
        /\ position' = position + 1 /\ UNCHANGED results
    BY <1>1 DEF AddResult, Add
  <2> HIDE DEF c
  <2>5. scores' \in [Columns -> Int] /\ \A d \in Columns : scores'[d] >= scores[d]
    BY <1>1, <2>2, <2>3, <2>4
  <2>6. \A d \in Special : scores'[d] \in Score
    BY <2>2, <2>5 DEF Special, Columns, Score
  <2>7. Total(scores') >= Total(scores) /\ Total(scores) \in Int /\ Total(scores') \in Int
    BY <2>2, <2>5 DEF Total, Columns
  <2>8. DangerSoFar => DangerSoFar'
    BY <2>2, <2>4 DEF DangerSoFar
  <2>9. NoEvidence(scores') => NoEvidence(scores)
    BY <2>2, <2>5 DEF NoEvidence, Special, Columns, Score
  <2>10. Label(scores', DangerSoFar') = "spam" => Label(scores, DangerSoFar) = "spam"
    BY <2>2, <2>6, <2>8, <2>9, LabelIsSpam
  <2> QED
    BY <2>1, <2>7, <2>10, RiskGrows DEF RiskSoFar
<1>2. EvidenceInv =>
        (AddResult /\ results[position].score >= 0 /\ ~ PointsOff
           => \A t \in Settings : RiskSoFar(t)' >= RiskSoFar(t))
  BY <1>1
<1> QED
  BY <1>2, EvidenceAlways, PTL DEF MoreEvidenceNeverLowersRisk

-----------------------------------------------------------------------------
BandNames == {Bands[i] : i \in DOMAIN Bands}

SettingsTyped ==
  /\ DOMAIN thresholds = BandNames /\ DOMAIN read = BandNames
  /\ form \in [new : Settings, left : SUBSET DOMAIN Bands]
  /\ position \in Nat \ {0}

LEMMA NamesOfBands ==
  /\ DOMAIN NothingRead = BandNames
  /\ \A t \in Threshold : DOMAIN t = BandNames
<1>1. DOMAIN Bands = {1, 2, 3} /\ Bands[1] = "clean_max" /\ Bands[2] = "suspicious_max" /\ Bands[3] = "spam_max"
  BY DEF Bands
<1>2. BandNames = {"clean_max", "suspicious_max", "spam_max"}
  BY <1>1 DEF BandNames
<1> QED
  BY <1>2 DEF Threshold, NothingRead

\* Some setting in force has value v for threshold i.
InForce(i, v) == \E x \in inForce : x[Bands[i]] = v

\* What was read, what is saved and what is yet to be saved was in force at
\* some moment, each value for itself.
ReadsInv ==
  pc = "classify" =>
    /\ \A i \in DOMAIN Bands : i < position => InForce(i, read[Bands[i]])
    /\ \A i \in DOMAIN Bands : InForce(i, thresholds[Bands[i]])
    /\ \A i \in form.left : InForce(i, form.new[Bands[i]])

AgreedInv == SettingsTyped /\ ReadsInv /\ AgreedClassKept /\ (pc # "idle" => class = "none")

\* A label of the high-risk band is no other band's.
LEMMA LabelIsHigh == \A s, d : Label(s, d) \notin {"clean", "suspicious"}
  BY DEF Label, ByScore

\* A mixture of settings that agree on a message classifies it as they do.
LEMMA MixtureAgrees ==
  ASSUME NEW verdict, NEW t, \A x \in inForce : Verdict(x) = verdict,
         NEW a \in inForce, a.clean_max = t.clean_max,
         NEW b \in inForce, b.suspicious_max = t.suspicious_max,
         NEW c \in inForce, c.spam_max = t.spam_max
  PROVE  Verdict(t) = verdict
<1> DEFINE total == SumOf(results)
           label == Label(scores, Dangerous(results))
           clean(x) == total <= x.clean_max
           suspicious(x) == total <= x.suspicious_max
           spam(x) == total <= x.spam_max
<1>1. \A x : Verdict(x) = IF clean(x) THEN "clean" ELSE IF suspicious(x) THEN "suspicious"
                          ELSE IF spam(x) THEN "spam" ELSE label
  BY DEF Verdict, Classify
<1>2. (clean(a) <=> clean(t)) /\ (suspicious(b) <=> suspicious(t)) /\ (spam(c) <=> spam(t))
  OBVIOUS
<1>3. label \notin {"clean", "suspicious"}
  BY LabelIsHigh
<1>4. Verdict(a) = verdict /\ Verdict(b) = verdict /\ Verdict(c) = verdict
  OBVIOUS
<1> HIDE DEF clean, suspicious, spam, label
<1> QED
  BY <1>1, <1>2, <1>3, <1>4

\* Where the settings in force agree on a message, a mixture of them that is
\* read while they are saved does so too (get_thresholds, update_thresholds).
THEOREM MixturesAgree == Spec => []AgreedClassKept
<1>1. Init => AgreedInv
  BY DetectionAssumption, ScoringAssumption, NamesOfBands DEF Init, AgreedInv, SettingsTyped, ReadsInv, AgreedClassKept
<1>2. AgreedInv /\ [Next]_vars => AgreedInv'
  <2> SUFFICES ASSUME AgreedInv, [Next]_vars PROVE AgreedInv'
    OBVIOUS
  <2> USE DEF AgreedInv
  <2>1. CASE SubmitThresholds
    <3> DEFINE kept == UNCHANGED <<thresholds, pc, position, queue, results, scores, read, class>>
    <3>1. kept /\ form.left = {} /\ form' \in [new : Settings, left : SUBSET DOMAIN Bands]
          /\ inForce' = IF pc = "classify" THEN inForce \cup {Target(form')} ELSE inForce
      BY <2>1 DEF SubmitThresholds
    <3>2. SettingsTyped'
      BY <3>1 DEF SettingsTyped
    <3>3. ASSUME pc = "classify", NEW i \in form'.left
          PROVE  Target(form')[Bands[i]] = form'.new[Bands[i]]
      BY <3>1, <3>3 DEF Target, SettingsTyped, BandNames
    <3>4. ReadsInv'
      BY <3>1, <3>3 DEF ReadsInv, InForce
    <3>5. AgreedClassKept'
      BY <3>1 DEF AgreedClassKept, Verdict
    <3> QED
      BY <3>1, <3>2, <3>4, <3>5
  <2>2. ASSUME NEW i \in form.left, SaveThreshold(i) PROVE AgreedInv'
    <3>1. /\ thresholds' = [thresholds EXCEPT ![Bands[i]] = form.new[Bands[i]]]
          /\ form' = [form EXCEPT !.left = @ \ {i}]
          /\ UNCHANGED analysisVars
      BY <2>2 DEF SaveThreshold
    <3>2. SettingsTyped'
      BY <3>1 DEF SettingsTyped, analysisVars
    <3>3. \A j \in DOMAIN Bands :
            \/ thresholds'[Bands[j]] = thresholds[Bands[j]]
            \/ Bands[j] = Bands[i] /\ thresholds'[Bands[j]] = form.new[Bands[i]]
      <4>1. \A j \in DOMAIN Bands : Bands[j] \in DOMAIN thresholds
        BY DEF SettingsTyped, BandNames
      <4> QED
        BY <3>1, <4>1
    <3>4. form'.new = form.new /\ form'.left \subseteq form.left /\ form.left \subseteq DOMAIN Bands
      BY <3>1 DEF SettingsTyped
    <3>5. ReadsInv'
      BY <3>1, <3>3, <3>4 DEF ReadsInv, InForce, analysisVars
    <3>6. AgreedClassKept'
      BY <3>1 DEF AgreedClassKept, Verdict, analysisVars
    <3> QED
      BY <3>1, <3>2, <3>5, <3>6 DEF analysisVars
  <2>3. CASE StartClassifying
    <3>1. inForce' = {thresholds, Target(form)} /\ position' = 1 /\ pc' = "classify"
          /\ UNCHANGED <<editVars, read, class>> /\ class = "none"
      BY <2>3 DEF StartClassifying
    <3>2. \A i \in form.left : Target(form)[Bands[i]] = form.new[Bands[i]]
      BY DEF Target, SettingsTyped, BandNames
    <3>3. SettingsTyped' /\ AgreedClassKept'
      BY <3>1 DEF SettingsTyped, AgreedClassKept, editVars
    <3>4. ReadsInv'
      BY <3>1, <3>2 DEF ReadsInv, InForce, editVars, Bands
    <3> QED
      BY <3>1, <3>3, <3>4
  <2>4. CASE ReadThreshold
    <3>1. /\ pc = "classify" /\ position \in DOMAIN Bands
          /\ read' = [read EXCEPT ![Bands[position]] = thresholds[Bands[position]]]
          /\ position' = position + 1
          /\ UNCHANGED <<editVars, pc, results, scores, inForce, class>>
      BY <2>4 DEF ReadThreshold
    <3>2. SettingsTyped' /\ AgreedClassKept'
      BY <3>1 DEF SettingsTyped, AgreedClassKept, editVars
    <3>3. \A i \in DOMAIN Bands :
            \/ read'[Bands[i]] = read[Bands[i]] /\ i # position
            \/ read'[Bands[i]] = thresholds[Bands[i]]
      BY <3>1 DEF SettingsTyped, BandNames
    <3>4. \A i \in DOMAIN Bands : i < position + 1 /\ i # position => i < position
      BY <3>1 DEF Bands
    <3>5. ReadsInv'
      BY <3>1, <3>3, <3>4 DEF ReadsInv, InForce, editVars
    <3> QED
      BY <3>1, <3>2, <3>5
  <2>5. CASE Decide
    <3>1. /\ pc = "classify" /\ position > Len(Bands) /\ pc' = "idle" /\ class' = Verdict(read)
          /\ UNCHANGED <<editVars, position, results, scores, read, inForce>>
      BY <2>5 DEF Decide
    <3>2. SettingsTyped' /\ ReadsInv'
      BY <3>1 DEF SettingsTyped, ReadsInv, editVars
    <3>3. PICK a \in inForce, b \in inForce, c \in inForce :
            a.clean_max = read.clean_max /\ b.suspicious_max = read.suspicious_max /\ c.spam_max = read.spam_max
      <4>1. position > 1 /\ position > 2 /\ position > 3 /\ DOMAIN Bands = {1, 2, 3}
        BY <3>1 DEF Bands, SettingsTyped
      <4>2. InForce(1, read[Bands[1]]) /\ InForce(2, read[Bands[2]]) /\ InForce(3, read[Bands[3]])
        BY <3>1, <4>1 DEF ReadsInv
      <4> QED
        BY <4>2 DEF InForce, Bands
    <3>4. ASSUME NEW t \in inForce, \A x \in inForce : Verdict(x) = Verdict(t)
          PROVE  Verdict(read) = Verdict(t)
      BY <3>3, <3>4, MixtureAgrees
    <3>5. AgreedClassKept'
      BY <3>1, <3>4 DEF AgreedClassKept, Verdict
    <3> QED
      BY <3>1, <3>2, <3>5
  <2>6. CASE \/ \E r \in RuleIds : CreateRule(r) \/ UpdateRule(r) \/ ToggleRule(r) \/ DeleteRule(r)
             \/ UNCHANGED vars
    <3>1. UNCHANGED <<thresholds, form, analysisVars>>
      BY <2>6 DEF CreateRule, UpdateRule, ToggleRule, DeleteRule, EditRule, vars, analysisVars
    <3> QED
      BY <3>1 DEF SettingsTyped, ReadsInv, InForce, AgreedClassKept, Verdict, analysisVars
  <2>7. CASE \/ Analyze \/ RunBuiltin \/ BuiltinRaises \/ QueryRules \/ (\E q \in queue : RunCustom(q))
             \/ StartScoring \/ AddResult
    <3>1. UNCHANGED editVars /\ class' = "none" /\ pc' # "classify"
      BY <2>7 DEF Analyze, RunBuiltin, AtBuiltin, BuiltinRaises, QueryRules, RunCustom, StartScoring, AddResult, Add
    <3>2. position' \in Nat \ {0} /\ DOMAIN read' = BandNames
      <4>1. position' \in {1, position, position + 1} /\ read' \in {read, NothingRead}
        BY <2>7 DEF Analyze, RunBuiltin, BuiltinRaises, QueryRules, RunCustom, StartScoring, AddResult, Add
      <4> QED
        BY <4>1, NamesOfBands DEF SettingsTyped
    <3> QED
      BY <3>1, <3>2 DEF SettingsTyped, ReadsInv, AgreedClassKept, editVars
  <2> QED
    BY <2>1, <2>2, <2>3, <2>4, <2>5, <2>6, <2>7 DEF Next
<1>3. AgreedInv => AgreedClassKept
  BY DEF AgreedInv
<1> QED
  BY <1>1, <1>2, <1>3, PTL DEF Spec
-----------------------------------------------------------------------------
\* A built-in rule that has been run, and matches, is among the results; the
\* ones before the position have been run, and then all have.
Contained(i) == message.outcome[i] = "match" => \E j \in DOMAIN results : results[j] = Builtins[i]

ContainInv ==
  /\ \E S : results \in Seq(S)
  /\ position \in Nat \ {0}
  /\ pc # "idle" => class = "none"
  /\ pc = "builtin" => \A i \in DOMAIN Builtins : i < position => Contained(i)
  /\ pc \in {"custom", "score", "classify"} \/ class # "none" => \A i \in DOMAIN Builtins : Contained(i)

\* A result more keeps those there are.
LEMMA OneMoreResult ==
  ASSUME NEW e, \E S : results \in Seq(S), results' = Append(results, e)
  PROVE  /\ \E S : results' \in Seq(S)
         /\ \E j \in DOMAIN results' : results'[j] = e
         /\ \A j \in DOMAIN results : j \in DOMAIN results' /\ results'[j] = results[j]
<1>1. PICK S : results \in Seq(S)
  OBVIOUS
<1>2. results \in Seq(S \cup {e}) /\ Len(results) \in Nat
  BY <1>1
<1>3. results' \in Seq(S \cup {e})
  BY <1>2
<1>4. Len(results) + 1 \in DOMAIN results' /\ results'[Len(results) + 1] = e
  BY <1>2
<1>5. \A j \in DOMAIN results : j \in DOMAIN results' /\ results'[j] = results[j]
  BY <1>2
<1> QED
  BY <1>3, <1>4, <1>5

LEMMA StillContained ==
  ASSUME NEW i, Contained(i), UNCHANGED message,
         \A j \in DOMAIN results : j \in DOMAIN results' /\ results'[j] = results[j]
  PROVE  Contained(i)'
  BY DEF Contained

\* A rule that raises takes no other with it: what matches is among the
\* indicators (run_builtin_rules).
THEOREM BadRulesAreContained == Spec => []BadRuleIsContained
<1>1. Init => ContainInv
  <2> SUFFICES ASSUME Init PROVE ContainInv
    OBVIOUS
  <2>1. <<>> \in Seq({})
    OBVIOUS
  <2> QED
    BY <2>1 DEF Init, ContainInv
<1>2. ContainInv /\ [Next]_vars => ContainInv'
  <2> SUFFICES ASSUME ContainInv, [Next]_vars PROVE ContainInv'
    OBVIOUS
  <2> USE DEF editVars, analysisVars
  <2>1. CASE Analyze
    <3>1. results' = <<>> /\ <<>> \in Seq({})
      BY <2>1 DEF Analyze
    <3>2. position' = 1 /\ pc' = "builtin" /\ class' = "none"
      BY <2>1 DEF Analyze
    <3>3. \A i \in DOMAIN Builtins : ~ (i < 1)
      BY DetectionAssumption
    <3> QED
      BY <3>1, <3>2, <3>3 DEF ContainInv
  <2>2. CASE RunBuiltin \/ BuiltinRaises
    <3>1. /\ pc = "builtin" /\ pc' = pc /\ position \in DOMAIN Builtins /\ position' = position + 1
          /\ UNCHANGED <<message, class>> /\ class = "none"
          /\ results' = results \/ results' = Append(results, Builtins[position])
          /\ message.outcome[position] = "match" => results' = Append(results, Builtins[position])
      BY <2>2 DEF RunBuiltin, BuiltinRaises, AtBuiltin, ContainInv
    <3>2. /\ \E S : results' \in Seq(S)
          /\ \A j \in DOMAIN results : j \in DOMAIN results' /\ results'[j] = results[j]
      BY <3>1, OneMoreResult DEF ContainInv
    <3>3. message.outcome[position] = "match" => \E j \in DOMAIN results' : results'[j] = Builtins[position]
      <4>1. CASE message.outcome[position] = "match"
        <5>1. results' = Append(results, Builtins[position])
          BY <3>1, <4>1
        <5> QED
          BY <5>1, OneMoreResult DEF ContainInv
      <4> QED
        BY <4>1
    <3>4. ASSUME NEW i \in DOMAIN Builtins, i < position' PROVE Contained(i)'
      <4>1. CASE i < position
        <5>1. Contained(i)
          BY <3>1, <4>1 DEF ContainInv
        <5> QED
          BY <3>1, <3>2, <5>1, StillContained
      <4>2. CASE i = position
        BY <3>1, <3>3, <4>2 DEF Contained
      <4> QED
        BY <3>1, <3>4, <4>1, <4>2, DetectionAssumption DEF ContainInv
    <3> QED
      BY <3>1, <3>2, <3>4 DEF ContainInv
  <2>3. CASE QueryRules
    <3>1. \A i \in DOMAIN Builtins : i < position
      BY <2>3, DetectionAssumption DEF QueryRules, ContainInv
    <3>2. /\ pc = "builtin" /\ pc' = "custom" /\ UNCHANGED <<message, position, results, class>>
      BY <2>3 DEF QueryRules
    <3> QED
      BY <3>1, <3>2 DEF ContainInv, Contained
  <2>4. ASSUME NEW q \in queue, RunCustom(q) PROVE ContainInv'
    <3>1. /\ pc = "custom" /\ pc' = pc /\ UNCHANGED <<message, position, class>>
          /\ \/ results' = results
             \/ results' = Append(results, [category |-> q.category, score |-> q.score, dangerous |-> FALSE])
      BY <2>4 DEF RunCustom
    <3>2. /\ \E S : results' \in Seq(S)
          /\ \A j \in DOMAIN results : j \in DOMAIN results' /\ results'[j] = results[j]
      BY <3>1, OneMoreResult DEF ContainInv
    <3>3. \A i \in DOMAIN Builtins : Contained(i)'
      BY <3>1, <3>2, StillContained DEF ContainInv
    <3> QED
      BY <3>1, <3>2, <3>3 DEF ContainInv
  <2>5. ASSUME UNCHANGED <<message, results>>, position' \in Nat \ {0},
               \/ UNCHANGED <<pc, class>> /\ pc # "builtin"
               \/ UNCHANGED <<pc, class, position>>
               \/ pc \in {"custom", "score", "classify"} /\ pc' \in {"custom", "score", "classify"} /\ UNCHANGED class
               \/ pc = "classify" /\ pc' = "idle"
        PROVE  ContainInv'
    BY <2>5 DEF ContainInv, Contained
  <2>6. CASE StartScoring \/ AddResult \/ StartClassifying \/ ReadThreshold \/ Decide
    <3>1. position \in Nat \ {0}
      BY DEF ContainInv
    <3> QED
      BY <2>5, <2>6, <3>1 DEF StartScoring, AddResult, Add, StartClassifying, ReadThreshold, Decide
  <2>7. CASE \/ \E r \in RuleIds : CreateRule(r) \/ UpdateRule(r) \/ ToggleRule(r) \/ DeleteRule(r)
             \/ SubmitThresholds \/ (\E i \in form.left : SaveThreshold(i)) \/ UNCHANGED vars
    <3>1. UNCHANGED <<message, results, pc, class, position>>
      BY <2>7 DEF CreateRule, UpdateRule, ToggleRule, DeleteRule, EditRule, SubmitThresholds, SaveThreshold, vars
    <3>2. position \in Nat \ {0}
      BY DEF ContainInv
    <3> QED
      BY <2>5, <3>1, <3>2
  <2> QED
    BY <2>1, <2>2, <2>3, <2>4, <2>6, <2>7 DEF Next
<1>3. ContainInv => BadRuleIsContained
  BY DEF ContainInv, BadRuleIsContained, Contained
<1> QED
  BY <1>1, <1>2, <1>3, PTL DEF Spec

-----------------------------------------------------------------------------
\* Left to right: of m conditions, those in L hold (or are to be denied, and do
\* not), those in O are joined by OR.
StartsMatch(O, L, m) ==
  \E i \in 1 .. m : (i = 1 \/ i \in O) /\ i \in L /\ \A j \in (i + 1) .. m : j \in O \/ j \in L

LEMMA OneMoreCondition ==
  ASSUME NEW O, NEW L, NEW m \in Nat \ {0}
  PROVE  StartsMatch(O, L, m + 1) <=>
           IF m + 1 \in O THEN StartsMatch(O, L, m) \/ m + 1 \in L ELSE StartsMatch(O, L, m) /\ m + 1 \in L
<1>1. ASSUME NEW i \in 1 .. m
      PROVE  (\A j \in (i + 1) .. (m + 1) : j \in O \/ j \in L) <=>
               (\A j \in (i + 1) .. m : j \in O \/ j \in L) /\ (m + 1 \in O \/ m + 1 \in L)
  <2>1. (i + 1) .. (m + 1) = ((i + 1) .. m) \cup {m + 1}
    OBVIOUS
  <2> QED
    BY <2>1
<1>2. 1 .. (m + 1) = (1 .. m) \cup {m + 1} /\ m + 1 # 1 /\ ((m + 1) + 1) .. (m + 1) = {}
  OBVIOUS
<1>3. StartsMatch(O, L, m + 1) <=>
        \/ m + 1 \in O /\ m + 1 \in L
        \/ StartsMatch(O, L, m) /\ (m + 1 \in O \/ m + 1 \in L)
  <2>1. CASE StartsMatch(O, L, m + 1)
    <3>1. PICK i \in 1 .. (m + 1) :
            (i = 1 \/ i \in O) /\ i \in L /\ \A j \in (i + 1) .. (m + 1) : j \in O \/ j \in L
      BY <2>1 DEF StartsMatch
    <3>2. CASE i = m + 1
      BY <1>2, <2>1, <3>1, <3>2
    <3>3. CASE i \in 1 .. m
      BY <1>1, <3>1, <3>3 DEF StartsMatch
    <3> QED
      BY <1>2, <2>1, <3>2, <3>3
  <2>2. ASSUME m + 1 \in O, m + 1 \in L PROVE StartsMatch(O, L, m + 1)
    BY <1>2, <2>2 DEF StartsMatch
  <2>3. ASSUME StartsMatch(O, L, m), m + 1 \in O \/ m + 1 \in L PROVE StartsMatch(O, L, m + 1)
    <3>1. PICK i \in 1 .. m : (i = 1 \/ i \in O) /\ i \in L /\ \A j \in (i + 1) .. m : j \in O \/ j \in L
      BY <2>3 DEF StartsMatch
    <3>2. \A j \in (i + 1) .. (m + 1) : j \in O \/ j \in L
      BY <1>1, <2>3, <3>1
    <3> QED
      BY <3>1, <3>2 DEF StartsMatch
  <2> QED
    BY <2>1, <2>2, <2>3
<1> QED
  BY <1>3

\* So far, P, goes from condition to condition.
LEMMA LeftToRight ==
  ASSUME NEW O, NEW L, NEW P, NEW n \in Nat, 0 \in P <=> 1 \in L,
         \A k \in 1 .. n : k \in P <=> IF k + 1 \in O THEN k - 1 \in P \/ k + 1 \in L ELSE k - 1 \in P /\ k + 1 \in L
  PROVE  n \in P <=> StartsMatch(O, L, n + 1)
<1> DEFINE N == {k \in Nat : k <= n => (k \in P <=> StartsMatch(O, L, k + 1))}
<1>1. 0 \in N
  BY DEF StartsMatch
<1>2. ASSUME NEW k \in Nat, k \in N PROVE k + 1 \in N
  <2> SUFFICES ASSUME k + 1 <= n PROVE k + 1 \in P <=> StartsMatch(O, L, (k + 1) + 1)
    OBVIOUS
  <2>1. k + 1 \in 1 .. n /\ (k + 1) - 1 = k /\ k + 1 \in Nat \ {0}
    OBVIOUS
  <2>2. k \in P <=> StartsMatch(O, L, k + 1)
    BY <1>2, <2>1
  <2> QED
    BY <2>1, <2>2, OneMoreCondition
<1> HIDE DEF N
<1>3. n \in N
  BY <1>1, <1>2, NumbersByInduction
<1> QED
  BY <1>3 DEF N

\* What _evaluate_custom_rule has come to after each condition.
LEMMA MatchesByPlaces ==
  ASSUME NEW cs, NEW S, cs \in Seq(S), cs # <<>>
  PROVE  \E p : /\ p[0] = Literal(Head(cs)) /\ p[Len(Tail(cs))] = Matches(cs)
                /\ \A k \in 1 .. Len(Tail(cs)) : p[k - 1] \in BOOLEAN /\ p[k] = Joined(p[k - 1], Tail(cs)[k])
<1> DEFINE rest == Tail(cs)
           n == Len(rest)
           D == 1 .. n
           first == Literal(Head(cs))
           step == [x \in D \X BOOLEAN |-> Joined(x[2], rest[x[1]])]
<1>0. n \in Nat /\ DOMAIN rest = D
  OBVIOUS
<1>1. first \in BOOLEAN
  BY Zenon DEF Literal
<1>2. step \in [D \X BOOLEAN -> BOOLEAN]
  BY Zenon DEF Joined
<1>3. \A k \in D, v \in BOOLEAN : step[<<k, v>>] = Joined(v, rest[k])
  OBVIOUS
<1> HIDE DEF step, first, n
<1>4. \A s \in SUBSET D : s # {} => Max(s) \in D
  BY <1>0, Greatest
<1>5. PICK g \in [SUBSET D -> BOOLEAN] : Folds(g, n, first, step)
  <2> HIDE DEF rest
  <2> QED
    BY <1>0, <1>1, <1>2, FoldExists, Zenon
<1> DEFINE Is(f) == f = [s \in SUBSET DOMAIN rest |-> IF s = {} THEN first ELSE Joined(f[s \ {Max(s)}], rest[Max(s)])]
           it == CHOOSE f : Is(f)
<1>6. FoldLeft(Joined, first, rest) = it[DOMAIN rest]
  BY Zenon DEF FoldLeft, MapThenFoldSet
<1>7. Is(g)
  <2>1. \A s \in SUBSET D : g[s] = IF s = {} THEN first ELSE Joined(g[s \ {Max(s)}], rest[Max(s)])
    <3>1. \A s \in SUBSET D : s \ {Max(s)} \in SUBSET D /\ g[s \ {Max(s)}] \in BOOLEAN
      BY <1>5
    <3>2. \A s \in SUBSET D : s # {} => g[s] = step[<<Max(s), g[s \ {Max(s)}]>>]
      BY <1>5, Zenon DEF Folds
    <3>3. g[{}] = first
      BY <1>5, Zenon DEF Folds
    <3> HIDE DEF D
    <3> QED
      BY <1>3, <1>4, <3>1, <3>2, <3>3
  <2> HIDE DEF D
  <2> QED
    BY <1>0, <1>5, <2>1, Zenon
<1>8. Is(it)
  <2> HIDE DEF Is
  <2> QED
    BY <1>7, Zenon
<1> HIDE DEF it
<1>9. Unfolds(it, n, BOOLEAN, first, step)
  BY <1>0, <1>3, <1>4, <1>8 DEF Unfolds
<1> HIDE DEF Is
<1>10. GoesByPlaces(it, n, BOOLEAN, first, step)
  BY <1>0, <1>1, <1>2, <1>9, FoldByPlaces, Zenon
<1>11. PICK p : Places(p, n, BOOLEAN, first, step) /\ p[n] = it[D]
  BY <1>10 DEF GoesByPlaces
<1>12. \A k \in D : p[k - 1] \in BOOLEAN
  BY <1>0, <1>11 DEF Places
<1>13. \A k \in D : p[k] = step[<<k, p[k - 1]>>]
  BY <1>11 DEF Places
<1>14. \A k \in D : p[k] = Joined(p[k - 1], rest[k])
  BY <1>3, <1>12, <1>13
<1>15. p[0] = first /\ p[n] \in BOOLEAN /\ p[n] = FoldLeft(Joined, first, rest)
  BY <1>0, <1>6, <1>11 DEF Places
<1>16. p[n] = Matches(cs)
  BY <1>15, Zenon DEF Matches, first
<1> QED
  BY <1>12, <1>14, <1>15, <1>16 DEF first, n

\* The joiners of a rule mean what left to right says (_evaluate_custom_rule).
THEOREM JoinersFromTheLeft == Spec => []JoinersLeftToRight
<1>1. JoinersLeftToRight
  <2> SUFFICES ASSUME NEW cs \in Conditions
               PROVE  Matches(cs) <=>
                        \E i \in DOMAIN cs :
                          /\ i = 1 \/ cs[i].joiner = "OR"
                          /\ Literal(cs[i])
                          /\ \A j \in (i + 1)..Len(cs) : cs[j].joiner = "OR" \/ Literal(cs[j])
    BY DEF JoinersLeftToRight
  <2>0. cs \in Seq(Condition)
    BY DetectionAssumption DEF DetectionAssumption
  <2>1. CASE cs = <<>>
    BY <2>1 DEF Matches
  <2>2. CASE cs # <<>>
    <3> DEFINE n == Len(Tail(cs))
               O == {i \in DOMAIN cs : cs[i].joiner = "OR"}
               L == {i \in DOMAIN cs : Literal(cs[i])}
    <3>1. n \in Nat /\ Len(cs) = n + 1 /\ DOMAIN cs = 1 .. (n + 1) /\ Head(cs) = cs[1]
          /\ \A k \in 1 .. n : Tail(cs)[k] = cs[k + 1]
      BY <2>0, <2>2
    <3>2. PICK p : /\ p[0] = Literal(Head(cs)) /\ p[n] = Matches(cs)
                   /\ \A k \in 1 .. n : p[k - 1] \in BOOLEAN /\ p[k] = Joined(p[k - 1], Tail(cs)[k])
      BY <2>0, <2>2, MatchesByPlaces, Zenon
    <3> DEFINE P == {k \in 0 .. n : p[k]}
    <3> HIDE DEF n
    <3>3. 0 \in P <=> 1 \in L
      <4>1. 1 \in DOMAIN cs /\ 0 \in 0 .. n
        BY <3>1
      <4> QED
        BY <3>1, <3>2, <4>1, Zenon
    <3>4. ASSUME NEW k \in 1 .. n
          PROVE  k \in P <=> IF k + 1 \in O THEN k - 1 \in P \/ k + 1 \in L ELSE k - 1 \in P /\ k + 1 \in L
      <4>1. k + 1 \in DOMAIN cs /\ k - 1 \in 0 .. n /\ k \in 0 .. n
        BY <3>1
      <4>2. p[k] = Joined(p[k - 1], cs[k + 1])
        BY <3>1, <3>2
      <4>3. k \in P <=> p[k]
        BY <4>1, Zenon
      <4>4. k - 1 \in P <=> p[k - 1]
        BY <4>1, Zenon
      <4>5. (k + 1 \in O <=> cs[k + 1].joiner = "OR") /\ (k + 1 \in L <=> Literal(cs[k + 1]))
        BY <4>1, Zenon
      <4> HIDE DEF P, O, L
      <4> QED
        BY <4>2, <4>3, <4>4, <4>5, Zenon DEF Joined
    <3>5. n \in P <=> StartsMatch(O, L, n + 1)
      <4> HIDE DEF P, O, L
      <4> QED
        BY <3>1, <3>3, <3>4, LeftToRight
    <3>6. n \in P <=> Matches(cs)
      <4>1. n \in 0 .. n
        BY <3>1
      <4> QED
        BY <3>2, <4>1, Zenon
    <3>7. \A i \in DOMAIN cs : (i \in O <=> cs[i].joiner = "OR") /\ (i \in L <=> Literal(cs[i]))
      OBVIOUS
    <3>8. \A i \in DOMAIN cs : (i + 1) .. Len(cs) \subseteq DOMAIN cs
      BY <3>1
    <3> HIDE DEF P, O, L
    <3>9. StartsMatch(O, L, n + 1) <=>
            \E i \in DOMAIN cs :
              /\ i = 1 \/ cs[i].joiner = "OR"
              /\ Literal(cs[i])
              /\ \A j \in (i + 1)..Len(cs) : cs[j].joiner = "OR" \/ Literal(cs[j])
      BY <3>1, <3>7, <3>8, Zenon DEF StartsMatch
    <3> QED
      BY <3>5, <3>6, <3>9
  <2> QED
    BY <2>1, <2>2
<1> QED
  BY <1>1, PTL

-----------------------------------------------------------------------------
\* The parts of the type invariant: the rows, the settings, the analysis.
Rows == [RuleIds -> [state : {"absent", "enabled", "disabled", "deleted"}, row : Row]]

RulesTyped == rules \in Rows /\ \A q \in queue : q.id \in RuleIds /\ q.category \in Categories /\ q.score \in Int

ThresholdsTyped ==
  /\ thresholds \in Threshold /\ read \in Threshold /\ inForce \subseteq Threshold
  /\ form \in [new : Settings, left : SUBSET DOMAIN Bands]

AnalysisTyped ==
  /\ edits \in 0..MaxEdits
  /\ pc \in {"idle", "builtin", "custom", "score", "classify"}
  /\ message \in Messages
  /\ position \in Nat \ {0} /\ (pc = "classify" => position <= Len(Bands) + 1)
  /\ results \in Seq(Result) /\ running \in Int /\ scores \in [Columns -> Int]
  /\ class \in Labels \cup {"none"}

LEMMA TypeByParts == TypeOK <=> RulesTyped /\ ThresholdsTyped /\ AnalysisTyped
  BY DEF TypeOK, RulesTyped, ThresholdsTyped, AnalysisTyped, Rows

LEMMA TypedNoRow == NoRow \in Row
<1> DEFINE c == NoRow.category
           cs == NoRow.conditions
<1>1. NoRow = [category |-> c, score |-> 0, conditions |-> cs]
  BY DEF NoRow
<1>2. Row = [category : Categories \cup {c}, score : Int, conditions : Conditions \cup {cs}]
  BY DEF Row
<1> HIDE DEF c, cs
<1> QED
  BY <1>1, <1>2

LEMMA SumIsANumber == ASSUME NEW rs \in Seq(Result) PROVE SumOf(rs) \in Int
<1>1. \A r \in Result : r.score \in Int
  BY DEF Result
<1>2. PICK p : Sums(p, rs) /\ SumOf(rs) = p[Len(rs)]
  BY <1>1, SumByPlaces
<1>3. Len(rs) \in 0 .. Len(rs)
  OBVIOUS
<1> QED
  BY <1>2, <1>3 DEF Sums

LEMMA SettingsAreThresholds ==
  /\ Settings \subseteq Threshold /\ NothingRead \in Threshold
  /\ \A t, u \in Threshold, i \in DOMAIN Bands : [t EXCEPT ![Bands[i]] = u[Bands[i]]] \in Threshold
  /\ \A t, u, v : t \in Threshold /\ u \in Threshold /\ DOMAIN v = DOMAIN t
                    /\ (\A b \in DOMAIN t : v[b] \in {t[b], u[b]})
                    /\ v = [b \in DOMAIN v |-> v[b]] => v \in Threshold
<1>1. DOMAIN Bands = {1, 2, 3} /\ Bands[1] = "clean_max" /\ Bands[2] = "suspicious_max" /\ Bands[3] = "spam_max"
  BY DEF Bands
<1>2. Settings \subseteq Threshold /\ NothingRead \in Threshold
  BY ScoringAssumption DEF ScoringAssumption, NothingRead, Threshold
<1>3. ASSUME NEW t \in Threshold, NEW u \in Threshold, NEW i \in DOMAIN Bands
      PROVE  [t EXCEPT ![Bands[i]] = u[Bands[i]]] \in Threshold
  BY <1>1 DEF Threshold
<1>4. ASSUME NEW t \in Threshold, NEW u \in Threshold, NEW v, DOMAIN v = DOMAIN t,
             \A b \in DOMAIN t : v[b] \in {t[b], u[b]}, v = [b \in DOMAIN v |-> v[b]]
      PROVE  v \in Threshold
  <2>1. DOMAIN t = {"clean_max", "suspicious_max", "spam_max"}
    BY DEF Threshold
  <2>2. v = [b \in {"clean_max", "suspicious_max", "spam_max"} |-> v[b]]
    BY <1>4, <2>1, Zenon
  <2>3. v["clean_max"] \in Int /\ v["suspicious_max"] \in Int /\ v["spam_max"] \in Int
    BY <1>4, <2>1 DEF Threshold
  <2> QED
    BY <2>2, <2>3 DEF Threshold
<1> QED
  BY <1>2, <1>3, <1>4

LEMMA TargetIsAThreshold ==
  ASSUME NEW f \in [new : Settings, left : SUBSET DOMAIN Bands], thresholds \in Threshold
  PROVE  Target(f) \in Threshold
<1> DEFINE v == Target(f)
<1>1. f.new \in Threshold
  BY SettingsAreThresholds
<1>2. DOMAIN v = DOMAIN thresholds /\ (\A b \in DOMAIN thresholds : v[b] \in {thresholds[b], f.new[b]})
      /\ v = [b \in DOMAIN v |-> v[b]]
  BY DEF Target
<1> HIDE DEF v
<1>3. v \in Threshold
  BY <1>1, <1>2, SettingsAreThresholds
<1> QED
  BY <1>3 DEF v

\* A row that can be queried has a category some user gave it.
GivenCategory == \A r \in RuleIds : Exists(r) => rules[r].row.category \in Categories

TypeInv == RulesTyped /\ GivenCategory /\ ThresholdsTyped /\ AnalysisTyped

\* Every variable has its type: in particular, at most three thresholds are read.
THEOREM TypeCorrect == Spec => []TypeOK
<1> USE DetectionAssumption DEF DetectionAssumption
<1>1. Init => TypeInv
  <2> SUFFICES ASSUME Init PROVE TypeInv
    OBVIOUS
  <2>1. RulesTyped
    BY TypedNoRow DEF Init, RulesTyped, Rows
  <2>2. GivenCategory
    BY DEF Init, GivenCategory, Exists
  <2>3. ThresholdsTyped
    BY SettingsAreThresholds DEF Init, ThresholdsTyped
  <2>4. AnalysisTyped
    BY DEF Init, AnalysisTyped, Labels, Columns
  <2> QED
    BY <2>1, <2>2, <2>3, <2>4 DEF TypeInv
<1>2. TypeInv /\ [Next]_vars => TypeInv'
  <2> SUFFICES ASSUME TypeInv, [Next]_vars PROVE TypeInv'
    OBVIOUS
  <2> USE DEF TypeInv, analysisVars, editVars
  <2>1. ASSUME NEW r \in RuleIds, CreateRule(r) \/ UpdateRule(r) \/ ToggleRule(r) \/ DeleteRule(r)
        PROVE  TypeInv'
    <3>1. UNCHANGED <<thresholds, form, analysisVars>> /\ edits' = edits + 1 /\ edits < MaxEdits
      BY <2>1 DEF CreateRule, UpdateRule, ToggleRule, DeleteRule, EditRule, CountEdit
    <3>2. rules \in Rows /\ rules[r].row \in Row
      BY DEF RulesTyped, Rows
    <3>3. rules' \in Rows /\ GivenCategory'
      <4>1. CASE CreateRule(r)
        <5>1. PICK category \in Categories, score \in Scores, cs \in Conditions :
                rules' = [rules EXCEPT ![r] = [state |-> "enabled",
                            row |-> [category |-> category, score |-> Clamp(score), conditions |-> cs]]]
          BY <4>1 DEF CreateRule
        <5>2. Clamp(score) \in Int
          BY DEF Clamp
        <5> DEFINE row == [category |-> category, score |-> Clamp(score), conditions |-> cs]
        <5>3. row \in Row /\ row.category \in Categories
          BY <5>2 DEF Row
        <5> HIDE DEF row
        <5> QED
          BY <3>2, <5>1, <5>3 DEF Rows, GivenCategory, Exists, row
      <4>2. CASE UpdateRule(r)
        <5>1. PICK category \in Categories, score \in Scores :
                rules' = [rules EXCEPT ![r].row.category = category, ![r].row.score = score]
          BY <4>2 DEF UpdateRule
        <5> DEFINE row == [rules[r].row EXCEPT !.category = category, !.score = score]
        <5>2. row \in Row /\ row.category \in Categories
          BY <3>2 DEF Row
        <5>3. rules' = [rules EXCEPT ![r] = [rules[r] EXCEPT !.row = row]]
          BY <3>2, <5>1 DEF Rows
        <5> HIDE DEF row
        <5> QED
          BY <3>2, <5>2, <5>3 DEF Rows, GivenCategory, Exists
      <4>3. CASE ToggleRule(r)
        BY <3>2, <4>3 DEF ToggleRule, Rows, GivenCategory, Exists
      <4>4. CASE DeleteRule(r)
        BY <3>2, <4>4, TypedNoRow DEF DeleteRule, Rows, GivenCategory, Exists
      <4> QED
        BY <2>1, <4>1, <4>2, <4>3, <4>4
    <3> QED
      BY <3>1, <3>3 DEF RulesTyped, ThresholdsTyped, AnalysisTyped
  <2>2. CASE SubmitThresholds
    <3>1. /\ edits' = edits + 1 /\ edits < MaxEdits /\ form' \in [new : Settings, left : SUBSET DOMAIN Bands]
          /\ inForce' = IF pc = "classify" THEN inForce \cup {Target(form')} ELSE inForce
          /\ UNCHANGED <<rules, thresholds, pc, message, position, queue, results, running, scores, read, class>>
      BY <2>2 DEF SubmitThresholds, CountEdit
    <3>2. Target(form') \in Threshold
      <4>1. thresholds \in Threshold
        BY DEF ThresholdsTyped
      <4> QED
        BY <3>1, <4>1, TargetIsAThreshold
    <3> QED
      BY <3>1, <3>2 DEF RulesTyped, GivenCategory, Exists, ThresholdsTyped, AnalysisTyped
  <2>3. ASSUME NEW i \in form.left, SaveThreshold(i) PROVE TypeInv'
    <3>1. /\ thresholds' = [thresholds EXCEPT ![Bands[i]] = form.new[Bands[i]]]
          /\ form' = [form EXCEPT !.left = @ \ {i}]
          /\ UNCHANGED <<rules, edits, analysisVars>>
      BY <2>3 DEF SaveThreshold
    <3>2. form.new \in Threshold /\ i \in DOMAIN Bands /\ thresholds \in Threshold
      BY SettingsAreThresholds DEF ThresholdsTyped
    <3>3. thresholds' \in Threshold
      BY <3>1, <3>2, SettingsAreThresholds
    <3> QED
      BY <3>1, <3>3 DEF RulesTyped, GivenCategory, Exists, ThresholdsTyped, AnalysisTyped
  <2>4. CASE Analyze
    BY <2>4, SettingsAreThresholds
    DEF Analyze, RulesTyped, GivenCategory, Exists, ThresholdsTyped, AnalysisTyped, Labels, Columns
  <2>5. ASSUME NEW r \in Result,
               results' = results \/ results' = Append(results, r),
               UNCHANGED <<rules, thresholds, form, edits, pc, message, running, scores, read, inForce, class>>,
               position' \in {position, position + 1}, queue' \subseteq queue, pc # "classify"
        PROVE  TypeInv'
    <3>1. results' \in Seq(Result)
      <4>1. results \in Seq(Result)
        BY DEF AnalysisTyped
      <4>2. Append(results, r) \in Seq(Result)
        BY <4>1
      <4> QED
        BY <2>5, <4>1, <4>2
    <3> QED
      BY <2>5, <3>1 DEF RulesTyped, GivenCategory, Exists, ThresholdsTyped, AnalysisTyped
  <2>6. CASE RunBuiltin
    <3>1. position \in DOMAIN Builtins /\ Builtins[position] \in Result
      BY <2>6 DEF RunBuiltin, AtBuiltin
    <3> QED
      BY <2>5, <2>6, <3>1 DEF RunBuiltin, AtBuiltin
  <2>7. CASE BuiltinRaises
    BY <2>7 DEF BuiltinRaises, AtBuiltin, RulesTyped, GivenCategory, Exists, ThresholdsTyped, AnalysisTyped
  <2>8. CASE QueryRules
    <3>1. SumOf(results) \in Int
      BY SumIsANumber DEF AnalysisTyped
    <3>2. /\ pc' = "custom" /\ running' = SumOf(results)
          /\ queue' = {[id |-> r, category |-> rules[r].row.category, score |-> rules[r].row.score] :
                         r \in {q \in RuleIds : rules[q].state = "enabled"}}
          /\ UNCHANGED <<editVars, message, position, results, scores, read, inForce, class>>
      BY <2>8 DEF QueryRules
    <3>3. \A q \in queue' : q.id \in RuleIds /\ q.category \in Categories /\ q.score \in Int
      <4>1. \A r \in RuleIds : rules[r].row.score \in Int
        BY DEF RulesTyped, Rows, Row
      <4>2. \A r \in RuleIds : rules[r].state = "enabled" => rules[r].row.category \in Categories
        BY DEF GivenCategory, Exists
      <4> QED
        BY <3>2, <4>1, <4>2
    <3> QED
      BY <3>1, <3>2, <3>3 DEF RulesTyped, GivenCategory, Exists, ThresholdsTyped, AnalysisTyped
  <2>9. ASSUME NEW q \in queue, RunCustom(q) PROVE TypeInv'
    <3>1. [category |-> q.category, score |-> q.score, dangerous |-> FALSE] \in Result
      BY DEF RulesTyped, Result
    <3> QED
      BY <2>5, <2>9, <3>1 DEF RunCustom
  <2>10. CASE StartScoring \/ StartClassifying
    <3>1. /\ position' = 1 /\ pc' \in {"score", "classify"}
          /\ UNCHANGED <<editVars, message, queue, results, running, scores, read, class>>
          /\ inForce' \in {inForce, {thresholds, Target(form)}}
      BY <2>10 DEF StartScoring, StartClassifying
    <3>2. inForce' \subseteq Threshold
      BY <3>1, TargetIsAThreshold DEF ThresholdsTyped
    <3>3. 1 <= Len(Bands) + 1
      BY DEF Bands
    <3> QED
      BY <3>1, <3>2, <3>3 DEF RulesTyped, GivenCategory, Exists, ThresholdsTyped, AnalysisTyped
  <2>11. CASE AddResult
    <3>1. results[position].score \in Int /\ Column(results[position].category) \in Columns
      <4>1. results[position] \in Result
        BY <2>11 DEF AddResult, AnalysisTyped
      <4> QED
        BY <4>1 DEF Result, Column, Columns
    <3> DEFINE c == Column(results[position].category)
    <3>2. /\ scores' = [scores EXCEPT ![c] = @ + results[position].score] /\ position' = position + 1
          /\ UNCHANGED <<editVars, pc, message, queue, results, running, read, inForce, class>> /\ pc = "score"
      BY <2>11 DEF AddResult, Add
    <3> HIDE DEF c
    <3>3. scores' \in [Columns -> Int]
      BY <3>1, <3>2 DEF AnalysisTyped, c
    <3> QED
      BY <3>2, <3>3 DEF RulesTyped, GivenCategory, Exists, ThresholdsTyped, AnalysisTyped
  <2>12. CASE ReadThreshold
    <3>1. /\ pc = "classify" /\ position \in DOMAIN Bands
          /\ read' = [read EXCEPT ![Bands[position]] = thresholds[Bands[position]]]
          /\ position' = position + 1
          /\ UNCHANGED <<editVars, pc, message, queue, results, running, scores, inForce, class>>
      BY <2>12 DEF ReadThreshold
    <3>2. read' \in Threshold
      BY <3>1, SettingsAreThresholds DEF ThresholdsTyped
    <3>3. position + 1 <= Len(Bands) + 1
      BY <3>1 DEF Bands
    <3> QED
      BY <3>1, <3>2, <3>3 DEF RulesTyped, GivenCategory, Exists, ThresholdsTyped, AnalysisTyped
  <2>13. CASE Decide
    <3>1. class' \in Labels
      BY <2>13 DEF Decide, Verdict, Classify, Label, ByScore, Labels
    <3> QED
      BY <2>13, <3>1 DEF Decide, RulesTyped, GivenCategory, Exists, ThresholdsTyped, AnalysisTyped
  <2>14. CASE UNCHANGED vars
    BY <2>14 DEF vars, RulesTyped, GivenCategory, Exists, ThresholdsTyped, AnalysisTyped
  <2> QED
    BY <2>1, <2>2, <2>3, <2>4, <2>6, <2>7, <2>8, <2>9, <2>10, <2>11, <2>12, <2>13, <2>14 DEF Next
<1>3. TypeInv => TypeOK
  BY TypeByParts DEF TypeInv
<1> QED
  BY <1>1, <1>2, <1>3, PTL DEF Spec

-----------------------------------------------------------------------------
\* The columns that are shown add up to the total that is classified.
ColumnsAddUp == pc = "classify" \/ class # "none" => Total(scores) = SumOf(results)

\* While they are added, the columns hold the results before the position.
AddingInv ==
  /\ pc \in {"builtin", "custom"} => Total(scores) = 0
  /\ pc = "score" => position <= Len(results) + 1 /\ \A p : Sums(p, results) => Total(scores) = p[position - 1]
  /\ pc # "idle" => class = "none"

ColumnsInv == AddingInv /\ ColumnsAddUp

LEMMA OneColumnMore ==
  ASSUME NEW s \in [Columns -> Int], NEW c \in Columns, NEW n \in Int
  PROVE  Total([s EXCEPT ![c] = @ + n]) = Total(s) + n
<1> DEFINE t == [s EXCEPT ![c] = @ + n]
<1>1. \A d \in Columns : s[d] \in Int /\ t[d] = IF d = c THEN s[d] + n ELSE s[d]
  OBVIOUS
<1> HIDE DEF t
<1>2. Total(t) = Total(s) + n
  BY <1>1 DEF Total, Columns
<1> QED
  BY <1>2 DEF t

\* The columns of the breakdown add up to the total, whatever the categories
\* (calculate_score, classify).
THEOREM ColumnsMakeTheTotal == Spec => []ColumnsAddUp
<1>1. Init => ColumnsInv
  BY DEF Init, ColumnsInv, AddingInv, ColumnsAddUp
<1>2. TypeOK /\ ColumnsInv /\ [Next]_vars => ColumnsInv'
  <2> SUFFICES ASSUME TypeOK, ColumnsInv, [Next]_vars PROVE ColumnsInv'
    OBVIOUS
  <2> USE DEF ColumnsInv, analysisVars, editVars
  <2>0. results \in Seq(Result) /\ scores \in [Columns -> Int] /\ position \in Nat \ {0}
    BY DEF TypeOK
  <2>1. CASE Analyze
    <3>1. pc' = "builtin" /\ scores' = [c \in Columns |-> 0] /\ class' = "none"
      BY <2>1 DEF Analyze
    <3>2. Total(scores') = 0
      BY <3>1 DEF Total, Columns
    <3> QED
      BY <3>1, <3>2 DEF AddingInv, ColumnsAddUp, Total
  <2>2. CASE RunBuiltin \/ BuiltinRaises \/ QueryRules \/ \E q \in queue : RunCustom(q)
    <3>1. pc \in {"builtin", "custom"} /\ pc' \in {"builtin", "custom"} /\ UNCHANGED <<scores, class>>
      BY <2>2 DEF RunBuiltin, BuiltinRaises, AtBuiltin, QueryRules, RunCustom
    <3> QED
      BY <3>1 DEF AddingInv, ColumnsAddUp, Total
  <2>3. CASE StartScoring
    <3>1. /\ pc = "custom" /\ pc' = "score" /\ position' = 1 /\ UNCHANGED <<results, scores, class>>
          /\ class = "none" /\ Total(scores) = 0
      BY <2>3 DEF StartScoring, AddingInv
    <3>2. 1 <= Len(results) + 1 /\ 1 - 1 = 0
      BY <2>0
    <3>3. \A p : Sums(p, results) => p[1 - 1] = 0
      BY <3>2 DEF Sums
    <3> QED
      BY <3>1, <3>2, <3>3 DEF AddingInv, ColumnsAddUp, Total
  <2>4. CASE AddResult
    <3> DEFINE c == Column(results[position].category)
               n == results[position].score
    <3>1. /\ position \in DOMAIN results /\ scores' = [scores EXCEPT ![c] = @ + n] /\ position' = position + 1
          /\ UNCHANGED <<pc, results, class>> /\ pc = "score" /\ class = "none"
      BY <2>4 DEF AddResult, Add, AddingInv
    <3>2. c \in Columns /\ n \in Int
      <4>1. results[position] \in Result
        BY <2>0, <3>1
      <4> QED
        BY <4>1 DEF Result, Column, Columns
    <3> HIDE DEF c
    <3>3. Total(scores') = Total(scores) + n
      BY <2>0, <3>1, <3>2, OneColumnMore
    <3>4. position + 1 <= Len(results) + 1 /\ (position + 1) - 1 = position /\ position \in 1 .. Len(results)
      BY <2>0, <3>1
    <3>5. \A p : Sums(p, results) => Total(scores') = p[(position + 1) - 1]
      BY <3>1, <3>3, <3>4 DEF Sums, AddingInv
    <3> QED
      BY <3>1, <3>4, <3>5 DEF AddingInv, ColumnsAddUp, Total
  <2>5. CASE StartClassifying
    <3>1. pc = "score" /\ position > Len(results) /\ pc' = "classify" /\ UNCHANGED <<results, scores, class>>
          /\ class = "none"
      BY <2>5 DEF StartClassifying, AddingInv
    <3>2. position - 1 = Len(results)
      BY <2>0, <3>1 DEF AddingInv
    <3>3. \A r \in Result : r.score \in Int
      BY DEF Result
    <3>4. PICK p : Sums(p, results) /\ SumOf(results) = p[Len(results)]
      BY <2>0, <3>3, SumByPlaces
    <3>5. Total(scores) = SumOf(results)
      BY <3>1, <3>2, <3>4 DEF AddingInv
    <3> QED
      BY <3>1, <3>5 DEF AddingInv, ColumnsAddUp, Total
  <2>6. CASE ReadThreshold \/ Decide
    <3>1. pc = "classify" /\ pc' \in {"classify", "idle"} /\ UNCHANGED <<results, scores>>
          /\ (pc' = "classify" => class' = class)
      BY <2>6 DEF ReadThreshold, Decide
    <3> QED
      BY <3>1 DEF AddingInv, ColumnsAddUp, Total
  <2>7. CASE \/ \E r \in RuleIds : CreateRule(r) \/ UpdateRule(r) \/ ToggleRule(r) \/ DeleteRule(r)
             \/ SubmitThresholds \/ (\E i \in form.left : SaveThreshold(i)) \/ UNCHANGED vars
    <3>1. UNCHANGED <<pc, position, results, scores, class>>
      BY <2>7 DEF CreateRule, UpdateRule, ToggleRule, DeleteRule, EditRule, SubmitThresholds, SaveThreshold, vars
    <3> QED
      BY <3>1 DEF AddingInv, ColumnsAddUp, Total
  <2> QED
    BY <2>1, <2>2, <2>3, <2>4, <2>5, <2>6, <2>7 DEF Next
<1>3. ColumnsInv => ColumnsAddUp
  BY DEF ColumnsInv
<1> QED
  BY <1>1, <1>2, <1>3, TypeCorrect, PTL DEF Spec
=============================================================================
