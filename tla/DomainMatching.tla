--------------------------- MODULE DomainMatching ---------------------------
(***************************************************************************)
(* What the string matching of RuleManager means.  The code cuts, lowers   *)
(* and compares strings; a domain name is a sequence of labels, and a rule *)
(* is meant of labels.  Here a name and a rule start as labels, are        *)
(* spelled the ways that a packet or a command line may spell them, and    *)
(* the answers of the code are compared with what the labels say.          *)
(***************************************************************************)
EXTENDS RuleManager

CONSTANTS Label,        \* the labels of names and rules: texts without a dot
          MaxLabels,    \* bound: labels of a name
          Applications  \* domain_rules before it is spelled: [labels, app]

VARIABLES labels,       \* the name asked about
          rule,         \* the labels of the one blocked domain
          name_spelling, rule_spelling,
          answer        \* None before the question

vars == <<labels, rule, name_spelling, rule_spelling, answer>>

\* The labels, each behind a dot, and with dots between them.
Dotted(ls) == FlattenSeq([k \in DOMAIN ls |-> <<Dot>> \o ls[k]])
Text(ls)   == Tail(Dotted(ls))

Capital(c) == IF \E u \in DOMAIN lower_of : lower_of[u] = c
              THEN CHOOSE u \in DOMAIN lower_of : lower_of[u] = c ELSE c

Spelling == {"plain", "capitals", "rooted", "padded"}

Spelled(text, how) ==
  CASE how = "plain"    -> text
    [] how = "capitals" -> [k \in DOMAIN text |-> Capital(text[k])]
    [] how = "rooted"   -> Append(text, Dot)
    [] how = "padded"   -> <<Space>> \o text \o <<Dot, Space>>

Name == BoundedSeq(Label, MaxLabels) \ {<<>>}

ASSUME MatchingAssumption ==
  /\ MaxLabels \in Nat
  /\ Label \subseteq Seq(Char \ ({Dot, Space} \cup DOMAIN lower_of)) \ {<<>>}
  /\ Applications \in Seq([labels : Seq(Label) \ {<<>>}, app : AppType])
  /\ domain_rules = [k \in DOMAIN Applications |-> [domain |-> Text(Applications[k].labels),
                                                    app    |-> Applications[k].app]]
  /\ \A ls \in Name, how \in Spelling : {Spelled(Text(ls), how)} # None

Init ==
  /\ labels \in Name /\ rule \in Name
  /\ name_spelling \in Spelling /\ rule_spelling \in Spelling
  /\ answer = None

\* What a tracker asks of its rule manager about one name.
Ask ==
  /\ answer = None
  /\ LET name == Spelled(Text(labels), name_spelling)
         rm   == New({}, {}, {Spelled(Text(rule), rule_spelling)})
     IN  answer' = [app     |-> classify_domain(name),
                    blocked |-> is_domain_blocked(rm, name)]
  /\ UNCHANGED <<labels, rule, name_spelling, rule_spelling>>

Asked == answer # None /\ UNCHANGED vars

Next == Ask \/ Asked

Spec == Init /\ [][Next]_vars
-----------------------------------------------------------------------------
(* What the answers mean.                                                  *)

\* A rule of several labels blocks the domain and what is under it, and nothing
\* that merely ends with the same letters ("notevil-site.net"); a rule of one
\* label blocks the names that have this label, and none that merely contain
\* its letters ("notfacebook.com"); capitals, a final dot and blanks around the
\* name or the rule make no difference.
BlockedByLabels ==
  answer # None =>
    (answer.blocked <=> IF Len(rule) = 1 THEN Contains(labels, rule[1])
                                         ELSE IsSuffix(rule, labels))

\* The application is that of the first domain of the table that the name is
\* or is under, label by label, and UNKNOWN when there is none.
ClassifiedByLabels ==
  answer # None =>
    LET hits == {k \in DOMAIN Applications : IsSuffix(Applications[k].labels, labels)}
    IN  answer.app = IF hits = {} THEN UNKNOWN ELSE Applications[Min(hits)].app

\* README.md:1194, of the rule `facebook`: matches `www.facebook.com`, does NOT
\* match `notfacebook.com`, `facebook.evil.com`.
LabelRuleSparesOtherSites ==
  answer # None /\ Len(rule) = 1 /\ Len(labels) = 3
    /\ labels[1] = rule[1] /\ labels[2] # rule[1] /\ labels[3] # rule[1]
  => ~answer.blocked
=============================================================================
