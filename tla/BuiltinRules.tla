---------------------------- MODULE BuiltinRules ----------------------------
(***************************************************************************)
(* The built-in rules (app/detection), what each finds in a message and    *)
(* the score it gives.  A message is what the rules can tell of it: its    *)
(* sender's domain and the pieces of evidence in it, a phrase of a list, a *)
(* link, an attachment, a header that does not fit.  Its sender writes it  *)
(* piece by piece, and picks a domain that reads like another; whatever it *)
(* has come to, the results of the rules are scored and classified.        *)
(***************************************************************************)
EXTENDS Scoring, Domains

CONSTANTS
  Senders,      \* domains of senders
  Links,        \* see Link
  Attachments,  \* see Attachment
  MaxPhrases,   \* bound: phrases of one list in a message
  MaxChanges    \* bound: pieces of evidence and letters changed, together

\* ParsedURL: extract_domain of the target, and of the text if that shows an
\* address; whether it has a login keyword and its domain is not whitelisted.
Host == [ip : BOOLEAN, shortener : BOOLEAN, punycode : BOOLEAN, domain : Seq(Seq(Seq(Letters)))]
Link == [host : Host, shown : Seq(Seq(Seq(Letters))), login : BOOLEAN]

\* ParsedAttachment, by its last extension and the one before it.
Attachment == [extension : STRING, double : BOOLEAN]

ASSUME RulesAssumption ==
  /\ Senders \subseteq SplitDomain
  /\ Links \subseteq Link /\ Attachments \subseteq Attachment
  /\ MaxPhrases \in 0 .. 10 /\ MaxChanges \in Nat \* no list has more than ten phrases

-----------------------------------------------------------------------------
\* The phrase lists: the score of the rule, from how many different phrases on
\* it matches, and what each further one adds.
PhraseList(category, score, least, more) ==
  [category |-> category, score |-> score, least |-> least, more |-> more]

SpamLists ==
  [subject_keywords |-> PhraseList("spam", 12, 1, 0), promotional_language |-> PhraseList("spam", 10, 2, 2)]

ScamLists ==
  [lottery_prize |-> PhraseList("scam", 25, 1, 0), investment_crypto |-> PhraseList("scam", 22, 2, 0),
   inheritance |-> PhraseList("scam", 25, 2, 0), fake_job |-> PhraseList("scam", 15, 1, 0),
   fake_refund |-> PhraseList("scam", 18, 1, 0), urgent_money_transfer |-> PhraseList("scam", 20, 1, 0),
   fake_invoice |-> PhraseList("scam", 15, 1, 0), emotional_manipulation |-> PhraseList("scam", 10, 1, 0)]

PhishingLists ==
  [credential_request |-> PhraseList("phishing", 20, 1, 0), suspension_threat |-> PhraseList("phishing", 15, 1, 0)]

Lists ==
  [l \in (DOMAIN SpamLists) \cup (DOMAIN ScamLists) \cup (DOMAIN PhishingLists) |->
     IF l \in DOMAIN SpamLists THEN SpamLists[l] ELSE IF l \in DOMAIN ScamLists THEN ScamLists[l] ELSE PhishingLists[l]]

\* Pieces of evidence.  The subject and the display name may be taken for a
\* brand's, the subject and the text of a message with links as well.
Signs == {"blacklisted", "capitals", "punctuation", "corporate_freemail", "reply_elsewhere",
          "return_elsewhere", "no_message_id", "display_address"}
Mechanisms == {"spf", "dkim", "dmarc"}

Pieces ==
  ({"phrase"} \X ((DOMAIN Lists) \X (1 .. MaxPhrases)))
  \cup ({"link"} \X Links) \cup ({"attachment"} \X Attachments)
  \cup ({"sign"} \X Signs) \cup ({"fails"} \X Mechanisms)
  \cup ({"subject", "display", "body"} \X {Brands[i].name : i \in DOMAIN Brands})

Of(m, kind) == {p[2] : p \in {q \in m.pieces : q[1] = kind}}

-----------------------------------------------------------------------------
\* The results of the rules, group by group (ALL_BUILTIN_RULES).

Hit(rule, category, score, matched) ==
  IF matched THEN {[rule |-> rule, category |-> category, score |-> score]} ELSE {}

PhrasesIn(m, list) == Cardinality({p \in Of(m, "phrase") : p[1] = list})

PhraseResultsExact(m) == \* Mutant: further phrases end the match
  UNION {LET l == Lists[list]
         IN  Hit(list, l.category, l.score, PhrasesIn(m, list) = l.least) : list \in DOMAIN Lists}

PhraseResults(m) ==
  UNION {LET l == Lists[list]
         IN  Hit(list, l.category, l.score + l.more * (PhrasesIn(m, list) - l.least), PhrasesIn(m, list) >= l.least) :
           list \in DOMAIN Lists}

SpamResults(m) ==
  Hit("excessive_capitalization", "spam", 8, "capitals" \in Of(m, "sign"))
  \cup Hit("excessive_punctuation", "spam", 6, "punctuation" \in Of(m, "sign"))

SenderResults(m) ==
  Hit("blacklisted", "sender", 40, "blacklisted" \in Of(m, "sign"))
  \cup Hit("freemail_brand_claim", "sender", 10, "corporate_freemail" \in Of(m, "sign"))

ImpersonationTwice(m) == \* Mutant: a look-alike is added to the score twice
  LET brand == FirstNamed(Of(m, "subject") \cup Of(m, "display"))
  IN  IF brand = 0 THEN {}
      ELSE Hit("brand_impersonation", "phishing", 12 + (IF is_lookalike_domain(m.sender, brand) THEN 30 ELSE 0),
               ~domain_matches_brand(m.sender, brand))

\* BrandImpersonationRule: of the brands that are named, the first only.
Impersonation(m) ==
  LET brand == FirstNamed(Of(m, "subject") \cup Of(m, "display"))
  IN  IF brand = 0 THEN {}
      ELSE Hit("brand_impersonation", "phishing", 12 + (IF is_lookalike_domain(m.sender, brand) THEN 15 ELSE 0),
               ~domain_matches_brand(m.sender, brand))

PhishingResults(m) ==
  Impersonation(m) \cup Hit("sender_replyto_mismatch", "phishing", 15, "reply_elsewhere" \in Of(m, "sign"))

UrlResults(m) ==
  LET links == Of(m, "link")
      brand == FirstNamed(Of(m, "subject") \cup Of(m, "body"))
      Some(Test(_)) == \E l \in links : Test(l)
  IN  Hit("ip_address_url", "url", 18, Some(LAMBDA l : l.host.ip))
      \cup Hit("shortener", "url", 10, Some(LAMBDA l : l.host.shortener))
      \cup Hit("punycode_domain", "url", 15, Some(LAMBDA l : l.host.punycode))
      \cup Hit("excessive_subdomains", "url", 8, Some(LAMBDA l : subdomain_count(l.host.domain) >= 3))
      \cup Hit("display_mismatch", "url", 20, Some(LAMBDA l : l.shown # <<>> /\ l.host.domain # <<>> /\ l.shown # l.host.domain))
      \cup Hit("lookalike_domain", "url", 22, brand # 0 /\ Some(LAMBDA l : is_lookalike_domain(l.host.domain, brand)))
      \cup Hit("suspicious_login_keywords", "url", 10, Some(LAMBDA l : l.login))

Executables == {".exe", ".scr", ".bat", ".cmd", ".ps1", ".jar", ".msi", ".hta", ".wsf", ".vbs", ".js"}
MacroExtensions == {".docm", ".xlsm", ".pptm", ".dotm", ".xltm"}
Archives == {".zip", ".rar", ".iso"}
DangerousExtensions == Executables \cup Archives \cup {".xlsm", ".docm", ".pif"}

AttachmentResults(m) ==
  LET Some(extensions) == \E a \in Of(m, "attachment") : a.extension \in extensions
  IN  Hit("dangerous_extension", "attachment", 25, Some(DangerousExtensions))
      \cup Hit("executable", "attachment", 30, Some(Executables))
      \cup Hit("macro_enabled", "attachment", 20, Some(MacroExtensions))
      \cup Hit("double_extension", "attachment", 22, \E a \in Of(m, "attachment") : a.double)
      \cup Hit("archive", "attachment", 8, Some(Archives))

HeaderResults(m) ==
  Hit("return_path_mismatch", "header", 12, "return_elsewhere" \in Of(m, "sign"))
  \cup Hit("missing_message_id", "header", 5, "no_message_id" \in Of(m, "sign"))
  \cup Hit("display_name_spoofing", "header", 15, "display_address" \in Of(m, "sign"))

AuthenticationResults(m) ==
  LET failed == Of(m, "fails")
  IN  Hit("spf_fail", "authentication", 15, "spf" \in failed)
      \cup Hit("dkim_fail", "authentication", 12, "dkim" \in failed)
      \cup Hit("dmarc_fail", "authentication", 15, "dmarc" \in failed)
      \cup Hit("all_failed", "authentication", 15, failed = Mechanisms)

Results(m) ==
  SenderResults(m) \cup SpamResults(m) \cup PhraseResults(m) \cup PhishingResults(m)
  \cup UrlResults(m) \cup AttachmentResults(m) \cup HeaderResults(m) \cup AuthenticationResults(m)

PointsOf(rs) == MapThenSumSet(LAMBDA r : r.score, rs)

\* What scoring and classification make of the results.
ClassOf(t, rs) ==
  LET breakdown == [c \in Columns |-> PointsOf({r \in rs : r.category = c})]
      dangerous == \E r \in rs : r.rule \in {"dangerous_extension", "executable", "macro_enabled"}
  IN  Classify(t, breakdown, PointsOf(rs), dangerous)

Defaults == [clean_max |-> 19, suspicious_max |-> 39, spam_max |-> 59]

-----------------------------------------------------------------------------
\* What senders do.

VARIABLES
  mail,     \* the message: its sender's domain, its pieces of evidence
  found,    \* what the rules find in it
  changes   \* how many there were

mailVars == <<mail, found, changes>>

MailInit ==
  /\ mail \in [sender : Senders, pieces : {{}}]
  /\ found = Results(mail)
  /\ changes = 0

Change ==
  /\ changes < MaxChanges
  /\ changes' = changes + 1
  /\ found' = Results(mail')

AddEvidence(p) ==
  /\ p \notin mail.pieces
  /\ mail' = [mail EXCEPT !.pieces = @ \cup {p}]
  /\ Change

\* The first word of the domain is spelt a little differently.
Misspell ==
  /\ mail.pieces = {}
  /\ \E word \in Edited(mail.sender[1][1]) : mail' = [mail EXCEPT !.sender[1][1] = word]
  /\ Change

MailNext == Misspell \/ \E p \in Pieces : AddEvidence(p)

MailSpec == MailInit /\ [][MailNext]_mailVars

-----------------------------------------------------------------------------
\* A verdict of phishing or scam is corroborated: it takes three rules that
\* match, or a blacklisted sender ("Weak evidence -> SUSPICIOUS, not a hard
\* claim", phishing_rules.py:1).
VerdictsAreCorroborated ==
  ClassOf(Defaults, found) \in {"phishing", "scam"} =>
    <<"sign", "blacklisted">> \in mail.pieces \/ Cardinality(found) >= 3

\* One more piece of evidence never lowers the risk level of a message, for any
\* thresholds, unless it is the name of one more brand: only the first that is
\* named is compared with the sender and with the links (phishing_rules.py:62-78,
\* url_rules.py:103-115, domain_utils.py:90-96).
Named(m) == Of(m, "subject") \cup Of(m, "display") \cup Of(m, "body")
EvidenceAddsUp ==
  [][mail'.sender = mail.sender /\ Cardinality(Named(mail')) <= 1 =>
       \A t \in Settings : RiskLevel(ClassOf(t, found')) >= RiskLevel(ClassOf(t, found))]_mailVars

\* The rows of levenshtein give the edit distance from the sender's word to the
\* root of any brand: 0 only for the root itself, changed by at most one by any
\* edit, and lessened by some (domain_utils.py:71-87).  Pieces of evidence leave
\* the word alone.
RowsAreDistances == mail.pieces = {} =>
  LET word == mail.sender[1][1]
  IN  \A root \in UNION {Roots(i) : i \in DOMAIN Brands} :
        LET distance == levenshtein(word, root)
            after == {levenshtein(w, root) : w \in Edited(word)}
        IN  /\ distance = 0 <=> word = root
            /\ after \subseteq distance - 1 .. distance + 1
            /\ distance > 0 => distance - 1 \in after
=============================================================================
