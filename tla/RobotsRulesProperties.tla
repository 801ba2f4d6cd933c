------------------------ MODULE RobotsRulesProperties ------------------------
(***************************************************************************)
(* What a robots.txt file means, said without an algorithm, and the        *)
(* equivalence of the operators of RobotsRules with it over bounded files, *)
(* patterns and paths.                                                     *)
(***************************************************************************)
EXTENDS RobotsRules

CONSTANTS
  Octet,                 \* the symbols of paths, and with "*" those of values
  Symbols,               \* symbols of the patterns and values to be matched
  MaxPattern, MaxValue,  \* bounds of their lengths
  Lines, MaxLines,       \* the records of a file, and the bound of their number
  TestPaths              \* the paths a file is asked about

\* A "*" in a path is not told from one in a pattern: the code takes it for the
\* pattern's, and then does not match /a*c* with /a*bc. Any field and any value
\* may stand in a line.
ASSUME RulesAssumption ==
  /\ MaxPattern \in Nat /\ MaxValue \in Nat /\ MaxLines \in Nat
  /\ "*" \notin Octet \cup Symbols
  /\ TestPaths \subseteq Seq(Octet)
  /\ \A line \in Lines :
       line.field = "user-agent" \/ line.value \in Seq(Octet \cup {"*"})

\* A wildcard stands for any symbols, another symbol for itself: from how much
\* of value the pattern so far may have covered, to how much with one symbol more.
Covers(pattern, value) ==
  Len(value) \in
    FoldLeft(LAMBDA covered, symbol :
               IF symbol = "*" THEN {v \in 0 .. Len(value) : \E u \in covered : u <= v}
                               ELSE {v \in 1 .. Len(value) : v - 1 \in covered /\ value[v] = symbol},
             {0}, pattern)

\* The greedy matcher, which backs up to the last wildcard only, finds a match
\* exactly if there is one.
MatcherExact ==
  \A pattern \in SeqOf(Symbols \cup {"*"}, MaxPattern), value \in SeqOf(Symbols, MaxValue) :
    GlobMatches(pattern, value) <=> Covers(pattern, value)
-----------------------------------------------------------------------------
IsAgentLine(file, i) == file[i].field = "user-agent"

\* A rule is an allow or a disallow of a path: an empty one is none.
MakesRule(line) ==
  /\ line.field \in {"allow", "disallow"}
  /\ line.value # << >> /\ Head(line.value) = "/"

\* The agents of the rule in line i: those named above it, up to the next rule
\* above that. A line that is no rule does not part them.
NamedFor(file, i) ==
  UNION {file[j].value : j \in {j \in 1 .. i - 1 :
    /\ IsAgentLine(file, j)
    /\ \A k \in j .. i - 1, a \in j .. i - 1 :
         k < a /\ MakesRule(file[k]) => ~IsAgentLine(file, a)}}

HasGroup(file) == \E i \in DOMAIN file : IsAgentLine(file, i) /\ Product \in file[i].value

\* A rule applies to a path if its value covers a beginning of the path, or all
\* of it if the value ends in "$".
CoversPath(value, path) ==
  /\ value # << >>
  /\ IF Last(value) = "$" THEN Covers(Front(value), path) ELSE Covers(Append(value, "*"), path)

\* The wildcards and the "$" at the end aside, what a value says: an escaped
\* octet is said by its "%".
Length(value) ==
  Cardinality({i \in DOMAIN value : /\ value[i] # "*" /\ ~(i = Len(value) /\ value[i] = "$")
                                   /\ ~\E d \in {1, 2} : Escape(value, i - d)})

Applying(file, agent, path) ==
  {i \in DOMAIN file : /\ MakesRule(file[i])
                       /\ agent \in NamedFor(file, i)
                       /\ CoversPath(file[i].value, path)}

\* Every rule that disallows the path is outweighed.
AllowsAsWritten(file, path) ==
  LET rules == Applying(file, IF HasGroup(file) THEN Product ELSE "*", path)
  IN \A i \in rules : file[i].field = "disallow" =>
       \E j \in rules : file[j].field = "allow" /\ Length(file[j].value) >= Length(file[i].value)

\* The module docstring of robots.py, "its longest matching rule wins (Allow wins
\* an equal-specificity tie)", and that of parse_robots_txt, "Exact product-token
\* groups are merged.  The * groups are used only when there is no exact
\* group": one pass over the lines and one over the rules decide so, whatever
\* the order of the lines.  A line that makes no rule ends no group (see
\* NamedFor): an empty Disallow leaves its agent to the rules further down.
ParserExact ==
  \A file \in SeqOf(Lines, MaxLines), path \in TestPaths :
    Allows(ParsedRules(file), path) <=> AllowsAsWritten(file, path)
=============================================================================
