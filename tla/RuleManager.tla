---------------------------- MODULE RuleManager ----------------------------
(***************************************************************************)
(* src/src/rule_manager.py: classification of a domain name and the three  *)
(* blocking rules.  A name is a sequence of characters, because how a rule *)
(* matches a name is decided character by character (endswith); <<>> is    *)
(* the missing name: None and "" are both falsy and the code tests nothing *)
(* else.  The rule manager object is the record rm of its three sets.      *)
(***************************************************************************)
EXTENDS Naturals, SequencesExt

CONSTANTS Char,            \* the characters names are written in
          Dot, Space,      \* two of them
          lower_of,        \* upper-case character |-> its lower-case form
          AppType,         \* types.AppType
          UNKNOWN,         \* AppType.UNKNOWN
          domain_rules,    \* the dict domain |-> application, in its order
          default_ips, default_apps, default_domains,
          None             \* an argument that is not given

ASSUME RuleAssumption ==
  /\ {Dot, Space} \subseteq Char /\ Dot # Space
  /\ DOMAIN lower_of \subseteq Char \ {Dot, Space}
  /\ \A c \in DOMAIN lower_of : lower_of[c] \in Char \ DOMAIN lower_of
  /\ IsFiniteSet(AppType) /\ UNKNOWN \in AppType
  /\ domain_rules \in Seq([domain : Seq(Char), app : AppType])

\* RuleManager(blocked_ips, blocked_apps, blocked_domains): a list given
\* replaces the default, an empty one too.
Given(argument, default) == IF argument = None THEN default ELSE argument

New(ips, apps, domains) == [blocked_ips     |-> Given(ips, default_ips),
                            blocked_apps    |-> Given(apps, default_apps),
                            blocked_domains |-> Given(domains, default_domains)]

lower(name) ==
  [k \in DOMAIN name |-> IF name[k] \in DOMAIN lower_of THEN lower_of[name[k]]
                                                        ELSE name[k]]

\* The positions of name that hold something else than c.
Keeps(name, c) == {k \in DOMAIN name : name[k] # c}

strip(name) == IF Keeps(name, Space) = {} THEN <<>>
               ELSE SubSeq(name, Min(Keeps(name, Space)), Max(Keeps(name, Space)))

rstrip(name) == SubSeq(name, 1, Max(Keeps(name, Dot) \cup {0}))

\* domain.lower().strip().rstrip(".")
normalise(name) == rstrip(strip(lower(name)))

endswith(name, suffix) == IsSuffix(suffix, name)

\* Mutant: domain.endswith(rule).
EndsLike(domain, rule) == endswith(domain, rule)

\* domain == rule or domain.endswith("." + rule)
IsOrIsUnder(domain, rule) == domain = rule \/ endswith(domain, <<Dot>> \o rule)

\* Mutant: label in domain, as a part of the string.
IsPartOf(label, domain) ==
  \E i \in 1 .. Len(domain) - Len(label) + 1 :
    SubSeq(domain, i, i + Len(label) - 1) = label

\* label in domain.split("."), for a label without a dot.
IsLabelOf(label, domain) ==
  \E i \in 1 .. Len(domain) + 1 :
    LET j == i + Len(label) - 1
    IN  /\ j <= Len(domain)
        /\ SubSeq(domain, i, j) = label
        /\ i = 1 \/ domain[i - 1] = Dot
        /\ j = Len(domain) \/ domain[j + 1] = Dot

classify_domain(domain) ==
  LET hits == {k \in DOMAIN domain_rules :
                 IsOrIsUnder(normalise(domain), normalise(domain_rules[k].domain))}
  IN  IF domain = <<>> \/ hits = {} THEN UNKNOWN ELSE domain_rules[Min(hits)].app

is_ip_blocked(rm, source_ip) == source_ip \in rm.blocked_ips

is_app_blocked(rm, app_type) == app_type \in rm.blocked_apps

MatchesRule(domain, rule) == IF Contains(rule, Dot) THEN IsOrIsUnder(domain, rule)
                                                    ELSE IsLabelOf(rule, domain)

is_domain_blocked(rm, domain) ==
  /\ domain # <<>>
  /\ \E rule \in rm.blocked_domains : MatchesRule(normalise(domain), normalise(rule))
=============================================================================
