------------------------------ MODULE Scoring ------------------------------
(***************************************************************************)
(* What the results of the rules come to: the columns of the score         *)
(* (app/services/scoring_service.py), the thresholds and the label         *)
(* (app/services/classification_service.py).                               *)
(***************************************************************************)
EXTENDS Integers, Sequences, SequencesExt

CONSTANT Settings  \* the thresholds that are configured, see Threshold

Columns == {"sender", "subject", "body", "url", "attachment", "header",
            "authentication", "spam", "scam", "phishing"}

\* A RuleResult, and the ThreatIndicator row made of it.
Result == [category : STRING, score : Int, dangerous : BOOLEAN]

\* The thresholds, of which neither the order nor the sign is checked;
\* high_risk_min, the fourth, is left out: nothing depends on it.
Bands == <<"clean_max", "suspicious_max", "spam_max">>
Threshold == [clean_max : Int, suspicious_max : Int, spam_max : Int]

ASSUME ScoringAssumption == Settings \subseteq Threshold

Labels == {"clean", "suspicious", "spam", "scam", "phishing", "malicious_attachment"}

-----------------------------------------------------------------------------
\* scoring_service

Column(category) == IF category \in Columns THEN category ELSE "body"

Total(s) == s["sender"] + s["subject"] + s["body"] + s["url"] + s["attachment"]
          + s["header"] + s["authentication"] + s["spam"] + s["scam"] + s["phishing"]

\* sum(r.score for r in rule_results)
SumOf(rs) == FoldLeft(LAMBDA sum, r : sum + r.score, 0, rs)

\* classification_service

Dangerous(rs) == \E i \in DOMAIN rs : rs[i].dangerous

Special == {"phishing", "scam", "attachment"}
Dominates(s, c) == \A d \in Special : s[c] >= s[d]
NoEvidence(s) == \A c \in Special : s[c] = 0

\* Ties go to phishing, then to scam.
ByScore(s) ==
  IF Dominates(s, "phishing") THEN "phishing"
  ELSE IF s["scam"] >= s["attachment"] THEN "scam" ELSE "malicious_attachment"

LabelAnyway(s, dangerous) == \* Mutant: high risk without evidence is not capped at spam
  IF dangerous /\ Dominates(s, "attachment") THEN "malicious_attachment" ELSE ByScore(s)

LabelAttachmentFirst(s, dangerous) == \* Mutant: a dangerous attachment that does not dominate is dropped
  CASE dangerous -> IF Dominates(s, "attachment") THEN "malicious_attachment" ELSE "spam"
    [] ~ dangerous /\ NoEvidence(s) -> "spam"
    [] OTHER -> ByScore(s)

\* The sub-category of a high-risk message.
Label(s, dangerous) ==
  IF dangerous /\ Dominates(s, "attachment") THEN "malicious_attachment"
  ELSE IF NoEvidence(s) THEN "spam"
  ELSE ByScore(s)

Classify(t, s, total, dangerous) ==
  IF total <= t.clean_max THEN "clean"
  ELSE IF total <= t.suspicious_max THEN "suspicious"
  ELSE IF total <= t.spam_max THEN "spam"
  ELSE Label(s, dangerous)

\* risk_level, "none" to "high".
RiskLevel(label) ==
  CASE label = "clean" -> 0 [] label = "suspicious" -> 1 [] label = "spam" -> 2 [] OTHER -> 3
=============================================================================
