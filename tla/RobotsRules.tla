----------------------------- MODULE RobotsRules -----------------------------
(***************************************************************************)
(* How a robots.txt file decides on a path: parse_robots_txt, RobotsRules  *)
(* and _glob_matches of src/app/services/robots.py, as pure operators.     *)
(*                                                                         *)
(* A path, and the value of a line, is the sequence of the characters of   *)
(* its normalized text (_normalize_octets), in which an escaped octet is   *)
(* "%" and two hexadecimal digits.  "*" and a final "$" have a meaning in  *)
(* a value.  A file is the sequence of its records; the value of a         *)
(* user-agent line is the set that holds its token, or the empty set when  *)
(* it names none.                                                          *)
(***************************************************************************)
EXTENDS Integers, FiniteSets, SequencesExt

CONSTANTS
  Product,   \* the product token of the configured user agent
  MaxRules   \* max_rules

\* Consecutive wildcards are one.
Collapsed(pattern) ==
  FoldLeft(LAMBDA kept, symbol : IF symbol = "*" /\ kept # << >> /\ Last(kept) = "*"
                                 THEN kept ELSE Append(kept, symbol),
           << >>, pattern)

\* _HEX
Hex == {"0", "1", "2", "3", "4", "5", "6", "7", "8", "9",
        "A", "B", "C", "D", "E", "F", "a", "b", "c", "d", "e", "f"}

\* An escaped octet starts at place i of the text.
Escape(text, i) ==
  /\ i \in DOMAIN text /\ i + 2 \in DOMAIN text
  /\ text[i] = "%" /\ text[i + 1] \in Hex /\ text[i + 2] \in Hex

\* Wildcards count for nothing, an escaped octet for one.
Specificity(pattern) ==
  Cardinality({i \in DOMAIN pattern :
                 pattern[i] # "*" /\ ~Escape(pattern, i - 1) /\ ~Escape(pattern, i - 2)})

\* What a line's value says, before any test of it.
Rule(line) ==
  LET anchored == line.value # << >> /\ Last(line.value) = "$"
      pattern == Collapsed(IF anchored THEN Front(line.value) ELSE line.value)
  IN [allow |-> line.field = "allow", pattern |-> pattern, anchored |-> anchored,
      specificity |-> Specificity(pattern)]

\* _parse_rule returns a rule at all.
IsRule(line) ==
  /\ line.value # << >>
  /\ Head(line.value) = "/"
  /\ Rule(line).specificity > 0
-----------------------------------------------------------------------------
(* _glob_matches *)

\* Mutant: a wildcard at the end must have something to match.
NothingLeft(pattern, p) == p > Len(pattern)

\* What is left of the pattern matches nothing.
OnlyWildcardsLeft(pattern, p) == \A i \in p .. Len(pattern) : pattern[i] = "*"

\* p and v are the places reached in pattern and value; star is the last
\* wildcard passed, or 0, and retry the place from which what follows it was
\* last tried.
ScanPlace(pattern, value) ==
  {at \in [p : 1 .. Len(pattern) + 1, v : 1 .. Len(value) + 1,
           star : 0 .. Len(pattern), retry : 0 .. Len(value) + 1] :
     at.star < at.p /\ at.retry <= at.v}

GlobMatches(pattern, value) ==
  LET Equal(at) == at.p <= Len(pattern) /\ pattern[at.p] = value[at.v]
      Wildcard(at) == at.p <= Len(pattern) /\ pattern[at.p] = "*"
      scan[at \in ScanPlace(pattern, value)] ==
        CASE at.v > Len(value) -> OnlyWildcardsLeft(pattern, at.p)
          [] at.v <= Len(value) /\ Equal(at) ->
               scan[[at EXCEPT !.p = @ + 1, !.v = @ + 1]]
          [] at.v <= Len(value) /\ ~Equal(at) /\ Wildcard(at) ->
               scan[[at EXCEPT !.p = @ + 1, !.star = at.p, !.retry = at.v]]
          [] OTHER ->
               at.star > 0 /\ scan[[at EXCEPT !.p = at.star + 1, !.v = at.retry + 1, !.retry = @ + 1]]
  IN scan[[p |-> 1, v |-> 1, star |-> 0, retry |-> 0]]

Matches(rule, path) ==
  GlobMatches(IF rule.anchored THEN rule.pattern ELSE Append(rule.pattern, "*"), path)
-----------------------------------------------------------------------------
(* RobotsRules.evaluate *)

Better(rule, best) ==
  \/ rule.specificity > best.specificity
  \/ rule.specificity = best.specificity /\ rule.allow /\ ~best.allow

NoRule == [allow |-> TRUE, specificity |-> 0]

Allows(rules, path) ==
  FoldLeft(LAMBDA best, rule : IF Matches(rule, path) /\ Better(rule, best) THEN rule ELSE best,
           NoRule, rules).allow
-----------------------------------------------------------------------------
(* parse_robots_txt *)

GroupOf(open) == IF open.agents = {} THEN << >>
                 ELSE << [agents |-> open.agents, rules |-> open.rules] >>

\* A user-agent line ends the group in progress only if that has a rule.
AgentLine(open, line) ==
  IF open.rules # << >>
  THEN [groups |-> open.groups \o GroupOf(open), agents |-> line.value, rules |-> << >>]
  ELSE [open EXCEPT !.agents = @ \cup line.value]

\* Another field, a value that makes no rule, and a rule that belongs to no
\* agent are skipped.
RuleLine(open, line) ==
  IF line.field \in {"allow", "disallow"} /\ open.agents # {} /\ IsRule(line)
  THEN [open EXCEPT !.rules = Append(@, Rule(line))]
  ELSE open

Groups(file) ==
  LET end == FoldLeft(LAMBDA open, line : IF line.field = "user-agent" THEN AgentLine(open, line)
                                                                      ELSE RuleLine(open, line),
                      [groups |-> << >>, agents |-> {}, rules |-> << >>], file)
  IN end.groups \o GroupOf(end)

\* The exact groups, or else the fallback groups.
SelectedAgent(groups) == IF \E i \in DOMAIN groups : Product \in groups[i].agents THEN Product ELSE "*"

RulesFor(groups, agent) ==
  FoldLeft(LAMBDA rules, group : IF agent \in group.agents THEN rules \o group.rules ELSE rules,
           << >>, groups)

ParsedRules(file) == RulesFor(Groups(file), SelectedAgent(Groups(file)))

\* RobotsParseLimitError: the file has more rules than the parser will hold.
TooComplex(file) ==
  FoldLeft(LAMBDA n, group : n + Len(group.rules), 0, Groups(file)) > MaxRules
=============================================================================
