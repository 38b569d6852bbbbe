----------------------------- MODULE RobotsRules -----------------------------
(* How a robots.txt is read and asked (ccrawl/robots.go): the lines become       *)
(* groups, the groups that name this crawler, or else the wildcard groups,      *)
(* become one list of rules, and a path is matched against it.  A line is a     *)
(* record of what it says; escaping, white space, comments and lines nobody     *)
(* understands are left out, and so is the limit on the size of a file.  A      *)
(* token, a pattern and a path are sequences of characters.                     *)
EXTENDS Integers, SequencesExt

CONSTANTS
  RobotsToken,   \* the product token of this crawler
  RobotsLines,   \* the lines a file is made of: [key, value]
  MaxLines,      \* bound on the lines of a file
  RobotsPaths,   \* the paths that are asked for
  RobotsPatterns \* the patterns that are matched on their own

ASSUME RulesAssumption ==
  /\ \A l \in RobotsLines : l.key \in {"user-agent", "allow", "disallow", "crawl-delay", "sitemap"}
  /\ MaxLines \in Nat /\ RobotsToken # <<>>

VARIABLES
  file,    \* the lines read so far
  parser,  \* [groups, opening]
  entry,   \* what the file comes to: [rules, delay], or the empty record before the end
  asked    \* the last pattern and path matched: [pattern, path]

rulesVars == <<file, parser, entry, asked>>

NoEntry == [rules |-> <<>>, delay |-> -1]
RulesInit ==
  /\ file = <<>> /\ parser = [groups |-> <<>>, opening |-> FALSE]
  /\ entry = NoEntry /\ asked = [pattern |-> <<>>, path |-> <<>>]

(* --------------------------------- parsing -------------------------------- *)
robotsGroup == [agents |-> {}, rules |-> <<>>, delay |-> 0]

(* Consecutive agent lines open one group; a nameless one opens a group that    *)
(* names nobody.                                                               *)
Named(p, token) ==
  LET opened == IF p.opening THEN p.groups ELSE Append(p.groups, robotsGroup)
  IN [opening |-> TRUE,
      groups |-> IF token = <<>> THEN opened
                 ELSE [opened EXCEPT ![Len(opened)].agents = @ \union {token}]]

\* Mutant: an empty Disallow does not end the list of agents.
RuledUnlessEmpty(p, rule) ==
  IF rule.value = <<>> THEN p
  ELSE [opening |-> FALSE,
        groups |-> IF p.groups = <<>> THEN p.groups
                   ELSE [p.groups EXCEPT ![Len(p.groups)].rules =
                           Append(@, [Allow |-> rule.key = "allow", Pattern |-> rule.value])]]

(* A rule above every agent line, and an empty one, is no rule; either ends the *)
(* list of agents.                                                             *)
Ruled(p, rule) ==
  [opening |-> FALSE,
   groups |-> IF p.groups = <<>> \/ rule.value = <<>> THEN p.groups
              ELSE [p.groups EXCEPT ![Len(p.groups)].rules =
                      Append(@, [Allow |-> rule.key = "allow", Pattern |-> rule.value])]]

Delayed(p, seconds) ==
  [opening |-> FALSE,
   groups |-> IF p.groups = <<>> \/ seconds <= 0 THEN p.groups
              ELSE [p.groups EXCEPT ![Len(p.groups)].delay = seconds]]

parseLine ==
  /\ entry = NoEntry /\ Len(file) < MaxLines /\ asked.pattern = <<>>
  /\ \E line \in RobotsLines :
       /\ file' = Append(file, line)
       /\ parser' = CASE line.key = "user-agent" -> Named(parser, line.value)
                      [] line.key \in {"allow", "disallow"} -> Ruled(parser, line)
                      [] line.key = "crawl-delay" -> Delayed(parser, line.value)
                      [] OTHER -> parser
  /\ UNCHANGED <<entry, asked>>

(* ------------------------------- matchGroups ------------------------------ *)
Wildcard == <<"*">>
NamesUs(a) == a # Wildcard /\ IsPrefix(a, RobotsToken)

(* The length of the most specific token that names this crawler, or -1.       *)
Best(groups) ==
  Max({-1} \union {Len(a) : a \in UNION {{b \in g.agents : NamesUs(b)} : g \in ToSet(groups)}})

\* Mutant: the wildcard group is followed beside a specific one.
groupAppliesToo(g, best) ==
  \/ Wildcard \in g.agents
  \/ \E a \in g.agents : NamesUs(a) /\ Len(a) = best

groupApplies(g, best) ==
  IF best < 0 THEN Wildcard \in g.agents
  ELSE \E a \in g.agents : NamesUs(a) /\ Len(a) = best

matchGroups ==
  /\ entry = NoEntry /\ asked.pattern = <<>>
  /\ LET best == Best(parser.groups)
         followed == SelectSeq(parser.groups, LAMBDA g : groupApplies(g, best))
     IN entry' = [rules |-> FlattenSeq([i \in DOMAIN followed |-> followed[i].rules]),
                  delay |-> Max({0} \union {g.delay : g \in ToSet(followed)})]
  /\ UNCHANGED <<file, parser, asked>>

(* -------------------------------- matching -------------------------------- *)
(* The pieces of a pattern between its stars.                                  *)
PatternParts(pattern) ==
  LET stars == <<0>> \o SetToSortSeq({i \in DOMAIN pattern : pattern[i] = "*"}, <)
                     \o <<Len(pattern) + 1>>
  IN [i \in 1..(Len(stars) - 1) |-> SubSeq(pattern, stars[i] + 1, stars[i + 1] - 1)]

(* Where a piece ends at its leftmost place from pos on, or -1.                 *)
SeekPart(path, pos, part) ==
  LET places == {at \in pos..(Len(path) - Len(part)) : SubSeq(path, at + 1, at + Len(part)) = part}
  IN IF pos < 0 \/ places = {} THEN -1 ELSE Min(places) + Len(part)

\* Mutant: the last piece may overlap what the pieces before it matched.
EndsOverlapping(path, pos, part) == IsSuffix(part, path)

EndsAfter(path, pos, part) == Len(path) - Len(part) >= pos /\ IsSuffix(part, path)

robotsMatch(pattern, path) ==
  LET anchored == pattern # <<>> /\ Last(pattern) = "$"
      parts == PatternParts(IF anchored THEN Front(pattern) ELSE pattern)
      n == Len(parts)
      sought == SubSeq(parts, 2, IF anchored THEN n - 1 ELSE n)
      pos == FoldLeft(LAMBDA at, part : SeekPart(path, at, part), Len(parts[1]), sought)
  IN /\ IsPrefix(parts[1], path) /\ pos >= 0
     /\ anchored => IF n = 1 THEN pos = Len(path) ELSE EndsAfter(path, pos, parts[n])

\* Mutant: of two rules of one length the later one decides.
WeighLast(best, rule) == IF Len(rule.Pattern) >= best.n THEN [n |-> Len(rule.Pattern), allow |-> rule.Allow]
                         ELSE best

Weigh(best, rule) ==
  IF Len(rule.Pattern) > best.n \/ (Len(rule.Pattern) = best.n /\ rule.Allow)
  THEN [n |-> Len(rule.Pattern), allow |-> rule.Allow] ELSE best

IsAllowed(rules, path) ==
  FoldLeft(Weigh, [n |-> -1, allow |-> TRUE],
           SelectSeq(rules, LAMBDA r : robotsMatch(r.Pattern, path))).allow

(* A pattern and a path are matched on their own, for comparison.              *)
AskPattern ==
  /\ file = <<>> /\ asked.pattern = <<>>
  /\ asked' \in [pattern : RobotsPatterns, path : RobotsPaths]
  /\ UNCHANGED <<file, parser, entry>>

RulesNext == parseLine \/ matchGroups \/ AskPattern
RulesSpec == RulesInit /\ [][RulesNext]_rulesVars

(* -------------------------------- properties ------------------------------ *)
RulesTypeOK ==
  /\ Len(file) <= MaxLines /\ ToSet(file) \subseteq RobotsLines
  /\ Len(parser.groups) <= Len(file) /\ Len(entry.rules) <= Len(file)

(* The leftmost search decides as a search that tries every place a star can    *)
(* end would (RFC 9309, 2.2.2 and 2.2.3).                                      *)
Glob(pattern, path) ==
  LET anchored == pattern # <<>> /\ Last(pattern) = "$"
      literal == IF anchored THEN Front(pattern) ELSE pattern
      m == Len(literal)
      n == Len(path)
      from[i \in 1..(m + 1), j \in 1..(n + 1)] ==
        IF i > m THEN anchored => j > n
        ELSE IF literal[i] = "*" THEN \E k \in j..(n + 1) : from[i + 1, k]
        ELSE IF j > n THEN FALSE
        ELSE path[j] = literal[i] /\ from[i + 1, j + 1]
  IN from[1, 1]

LeftmostIsEnough == robotsMatch(asked.pattern, asked.path) = Glob(asked.pattern, asked.path)

(* The agents a line of a file stands under: those of the run of agent lines    *)
(* above it that no group line interrupts.                                     *)
AgentsAbove(i) ==
  LET group(j) == file[j].key \in {"allow", "disallow", "crawl-delay"}
      opener(j) == /\ j < i /\ file[j].key = "user-agent"
                   /\ ~ \E a, b \in (j + 1)..(i - 1) :
                          a < b /\ group(a) /\ file[b].key = "user-agent"
  IN {file[j].value : j \in {k \in DOMAIN file : opener(k)}} \ {<<>>}

(* The rules followed are exactly the non-empty ones under the most specific    *)
(* name of this crawler anywhere in the file, and only where nothing names it   *)
(* those under the wildcard; their order and the lines between do not matter.  *)
Followed ==
  LET ruled == {i \in DOMAIN file : file[i].key \in {"allow", "disallow"} /\ file[i].value # <<>>}
      names == {file[i].value : i \in {j \in DOMAIN file : file[j].key = "user-agent"}} \ {<<>>}
      ours == {a \in names : NamesUs(a)}
      chosen == IF ours = {} THEN {Wildcard}
                ELSE {a \in ours : \A b \in ours : Len(b) <= Len(a)}
  IN {[Allow |-> file[i].key = "allow", Pattern |-> file[i].value] :
        i \in {j \in ruled : AgentsAbove(j) \intersect chosen # {}}}

OurGroupOnly == entry # NoEntry => ToSet(entry.rules) = Followed

(* A path is refused only when a rule that matches refuses it and no rule that  *)
(* matches and is as long or longer allows it, in whatever order they stand.   *)
LongestDecides ==
  entry # NoEntry => \A path \in RobotsPaths :
    LET hits(allow) == {Len(r.Pattern) : r \in {s \in ToSet(entry.rules) :
                          s.Allow = allow /\ Glob(s.Pattern, path)}}
    IN IsAllowed(entry.rules, path) <=> \A n \in hits(FALSE) : \E k \in hits(TRUE) : k >= n

(* A verdict is the one the file asks for, from its lines to the path.          *)
RulesAreFollowed == RulesTypeOK /\ LeftmostIsEnough /\ OurGroupOnly /\ LongestDecides
=============================================================================
