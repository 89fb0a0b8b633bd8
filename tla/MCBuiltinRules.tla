--------------------------- MODULE MCBuiltinRules ---------------------------
(***************************************************************************)
(* Instances of BuiltinRules for TLC.                                      *)
(***************************************************************************)
EXTENDS BuiltinRules

\* The defaults, a stricter setting, and one whose thresholds are not in order.
SomeSettings ==
  {[clean_max |-> 19, suspicious_max |-> 39, spam_max |-> 59],
   [clean_max |-> 9, suspicious_max |-> 19, spam_max |-> 39],
   [clean_max |-> 19, suspicious_max |-> 9, spam_max |-> 29]}

\* Words over three letters, one of them a digit that stands for another:
\* two brands whose roots are far from each other, the first with two domains.
Undone == [x \in {"a", "l", "1"} |-> IF x = "1" THEN "l" ELSE x]
Word(a, b, c, d) == <<a, b, c, d>>
First == Word("a", "l", "l", "a")
Second == <<"a", "a", "a", "a", "a", "a", "a", "a">>
Other == <<"l", "l", "l", "l", "l", "l", "l", "l">>
Com == <<<<"l">>>>
TwoBrands ==
  <<[name |-> "first", legit |-> {<<<<First>>, Com>>, <<<<Other>>, Com>>}],
    [name |-> "second", legit |-> {<<<<Second>>, Com>>}],
    [name |-> "bank", legit |-> {}]>>

\* A brand's own domain, a look-alike of the first brand, with a digit and a
\* second part, and a domain that has nothing to do with either.
Own == <<<<First>>, Com>>
LookAlike == <<<<Word("a", "1", "1", "a"), Second>>, Com>>
Unrelated == <<<<<<"1">>>>, Com>>
SomeSenders == {Own, LookAlike, Unrelated}

Plain(domain) == [ip |-> FALSE, shortener |-> FALSE, punycode |-> FALSE, domain |-> domain]
SomeLinks ==
  {[host |-> Plain(LookAlike), shown |-> Own, login |-> TRUE],
   [host |-> [Plain(<<Com, Com, Com, Com, Com>>) EXCEPT !.punycode = TRUE], shown |-> Own, login |-> TRUE],
   [host |-> [Plain(Unrelated) EXCEPT !.ip = TRUE], shown |-> <<>>, login |-> FALSE],
   [host |-> [Plain(Unrelated) EXCEPT !.shortener = TRUE], shown |-> Unrelated, login |-> FALSE]}

SomeAttachments ==
  {[extension |-> ".exe", double |-> TRUE], [extension |-> ".docm", double |-> FALSE],
   [extension |-> ".pptm", double |-> FALSE], [extension |-> ".zip", double |-> FALSE]}
=============================================================================
