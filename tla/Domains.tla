------------------------------ MODULE Domains ------------------------------
(***************************************************************************)
(* The domain helpers of app/utils/domain_utils.py, on domains that are    *)
(* split: a domain is a sequence of labels, a label the sequence of its    *)
(* parts between hyphens, a part a word, a word a sequence of letters.     *)
(***************************************************************************)
EXTENDS Naturals, Sequences, FiniteSetsExt, SequencesExt

CONSTANTS
  Letters,    \* those of the instance's words
  Leetspeak,  \* _LEETSPEAK_MAP on them
  Brands      \* KNOWN_BRANDS in its order: a name and the legitimate domains each

\* A domain that is split has a label, and a label a part, however empty.
SplitDomain == {d \in Seq(Seq(Seq(Letters))) : d # <<>> /\ \A i \in DOMAIN d : d[i] # <<>>}

ASSUME DomainsAssumption ==
  /\ Leetspeak \in [Letters -> Letters]
  /\ \A i \in DOMAIN Brands : Brands[i].legit \subseteq SplitDomain

-----------------------------------------------------------------------------
NextRowUnshifted(previous, ca, b) == \* Mutant: a substitution starts from the cell above
  FoldLeftDomain(
    LAMBDA row, j : Append(row, Min({previous[j + 1] + 1, Last(row) + 1,
                                     previous[j + 1] + (IF ca = b[j] THEN 0 ELSE 1)})),
    <<Head(previous) + 1>>, b)

\* The row of the table for one more letter of a, cell by cell.
NextRow(previous, ca, b) ==
  FoldLeftDomain(
    LAMBDA row, j : Append(row, Min({previous[j + 1] + 1, Last(row) + 1,
                                     previous[j] + (IF ca = b[j] THEN 0 ELSE 1)})),
    <<Head(previous) + 1>>, b)

levenshtein(a, b) ==
  Last(FoldLeft(LAMBDA row, ca : NextRow(row, ca, b), [j \in 1 .. Len(b) + 1 |-> j - 1], a))

domain_matches_brand(domain, i) ==
  \E d \in Brands[i].legit : IsSuffix(d, domain)

Normalized(word) == [k \in DOMAIN word |-> Leetspeak[word[k]]]

\* The words before the last label; those of the only one, if there is one.
Segments(domain) ==
  LET named == IF Len(domain) > 1 THEN Front(domain) ELSE domain
  IN  {Normalized(w) : w \in UNION {ToSet(label) : label \in ToSet(named)}}

\* The first word of a legitimate domain is its root.
Roots(i) == {d[1][1] : d \in Brands[i].legit}

Resembles(word, root) ==
  \/ root \in SubSeqs(word)
  \/ word # <<>> /\ levenshtein(word, root) \in 1 .. 2

is_lookalike_domain(domain, i) ==
  /\ ~domain_matches_brand(domain, i)
  /\ \E root \in Roots(i), word \in Segments(domain) : Resembles(word, root)

\* find_impersonated_brand: the first of the table that is named; 0 if none is.
FirstNamed(names) ==
  LET named == {i \in DOMAIN Brands : Brands[i].name \in names}
  IN  IF named = {} THEN 0 ELSE Min(named)

subdomain_count(domain) == IF Len(domain) > 2 THEN Len(domain) - 2 ELSE 0

-----------------------------------------------------------------------------
\* The words one letter is deleted from, replaced in or inserted into.
Edited(w) ==
  {RemoveAt(w, k) : k \in DOMAIN w}
  \cup {ReplaceAt(w, k, x) : k \in DOMAIN w, x \in Letters}
  \cup {InsertAt(w, k, x) : k \in 1 .. Len(w) + 1, x \in Letters}
=============================================================================
