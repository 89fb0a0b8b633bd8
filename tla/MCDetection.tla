---------------------------- MODULE MCDetection ----------------------------
(***************************************************************************)
(* Instances of Detection for TLC.                                         *)
(***************************************************************************)
EXTENDS Detection

Row5(category, score, dangerous) == [category |-> category, score |-> score, dangerous |-> dangerous]

\* spam.subject_keywords, scam.lottery_prize, phishing.credential_request,
\* attachment.executable and attachment.archive, in the order they are run.
SomeBuiltins ==
  <<Row5("spam", 12, FALSE), Row5("scam", 25, FALSE), Row5("phishing", 20, FALSE),
    Row5("attachment", 30, TRUE), Row5("attachment", 8, FALSE)>>

Message(outcomes, says) == [outcome |-> outcomes, says |-> says]

SomeMessages ==
  {Message(<<"match", "miss", "miss", "miss", "raise">>, {"wire"}),
   Message(<<"match", "match", "match", "match", "match">>, {}),
   Message(<<"raise", "match", "miss", "match", "miss">>, {"gift"})}

\* spam.subject_keywords, url.display_mismatch, url.lookalike_domain and
\* header.display_name_spoofing: a loud message, and no evidence of more.
LoudBuiltins ==
  <<Row5("spam", 12, FALSE), Row5("url", 20, FALSE), Row5("url", 22, FALSE), Row5("header", 15, FALSE)>>

LoudMessages == {Message(<<"match", "match", "match", "match">>, {"wire"})}

Has(joiner, text) == [joiner |-> joiner, text |-> text]
Scored(joiner, operator, score) == [joiner |-> joiner, operator |-> operator, score |-> score]

SomeConditions ==
  {<<>>, <<Has("OR", "wire")>>,
   <<Has("NOT", "gift"), Scored("OR", "greater_than", 40)>>,
   <<Has("AND", "gift"), Has("OR", "wire"), Scored("NOT", "less_than", 12)>>}

\* Creating a rule clamps them to 1..150, changing it does not.
SomeScores == {-30, 0, 200}

\* The defaults, a stricter setting, and one whose thresholds are not in order.
SomeSettings ==
  {[clean_max |-> 19, suspicious_max |-> 39, spam_max |-> 59],
   [clean_max |-> 9, suspicious_max |-> 19, spam_max |-> 39],
   [clean_max |-> 19, suspicious_max |-> 9, spam_max |-> 29]}
=============================================================================
