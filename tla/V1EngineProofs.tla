--------------------------- MODULE V1EngineProofs ---------------------------
(***************************************************************************)
(* Theorems about V1Engine, for every capture, by both entries: the pass   *)
(* of the analyzer over packets that DPIEngine has decided on changes no   *)
(* flow; main drops whole flows; and its events say of each packet what    *)
(* became of it.  The engine's decisions are those of its packets; main    *)
(* blocks what a processor of V2 has blocked in the end; and the counters  *)
(* of the analyzer agree with the packets, whatever raises.                *)
(***************************************************************************)
EXTENDS V1Engine, SequenceLemmas

-----------------------------------------------------------------------------
(* Flows.                                                                  *)

\* Every name is classified as an application of AppType.
LEMMA EveryNameIsClassified ==
  ASSUME NEW domain
  PROVE  classify_domain(domain) \in AppType
<1>. DEFINE Matches(k) == IsOrIsUnder(normalise(domain), normalise(domain_rules[k].domain))
            hits == {k \in DOMAIN domain_rules : Matches(k)}
<1>1. classify_domain(domain) = IF domain = <<>> \/ hits = {} THEN UNKNOWN
                                ELSE domain_rules[Min(hits)].app
  BY DEF classify_domain
<1>. HIDE DEF Matches
<1>2. domain_rules \in Seq([domain : Seq(Char), app : AppType]) /\ UNKNOWN \in AppType
  BY RuleAssumption
<1>3. hits \subseteq Nat /\ hits \subseteq DOMAIN domain_rules
  BY <1>2
<1>. HIDE DEF hits
<1>4. hits # {} => Min(hits) \in DOMAIN domain_rules
  BY <1>3, Least
<1>5. \A k \in DOMAIN domain_rules : domain_rules[k].app \in AppType
  <2>. DEFINE Rule == [domain : Seq(Char), app : AppType]
  <2>1. domain_rules \in Seq(Rule)
    BY <1>2
  <2>2. \A k \in DOMAIN domain_rules : domain_rules[k] \in Rule
    <3>. HIDE DEF Rule
    <3>. QED BY <2>1
  <2>. QED BY <2>2
<1>. QED BY <1>1, <1>2, <1>4, <1>5

\* What the three kinds of rules say of a flow.
Asked(ft, flow) == \/ is_ip_blocked(rules, ft.src_ip)
                   \/ is_app_blocked(rules, flow.app_type)
                   \/ is_domain_blocked(rules, flow.sni)

\* Tracking a flow once more with the same name would only count.
Settled(ft, flow) ==
  /\ flow.sni # <<>> => flow.app_type = classify_domain(flow.sni)
  /\ Asked(ft, flow) => flow.blocked

\* Two states of a flow that differ in the count only.
SameFlow(f, g) == f.blocked = g.blocked /\ f.sni = g.sni /\ f.app_type = g.app_type

\* What get_or_create_flow does to its flow.
LEMMA TrackedFlow ==
  ASSUME NEW ft, NEW flow \in Flow, NEW sni \in Seq(Char),
         NEW after, after = apply_blocking_rules(rules, ft, WithName(flow, sni))
  PROVE  /\ after \in Flow /\ Settled(ft, after)
         /\ sni # <<>> \/ flow.sni # <<>> => after.sni # <<>>
         /\ flow.blocked => after.blocked
         /\ Settled(ft, flow) /\ (sni # <<>> => flow.sni # <<>>) => SameFlow(after, flow)
<1>. DEFINE name == IF sni # <<>> /\ flow.sni = <<>> THEN sni ELSE flow.sni
            app == IF name = <<>> THEN flow.app_type ELSE classify_domain(name)
            verdict == \/ flow.blocked
                       \/ is_ip_blocked(rules, ft.src_ip)
                       \/ is_app_blocked(rules, app)
                       \/ is_domain_blocked(rules, name)
<1>1. name \in Seq(Char) /\ app \in AppType
  BY EveryNameIsClassified DEF Flow
<1>2. verdict \in BOOLEAN
  BY DEF Flow
<1>. HIDE DEF app, name
<1>3. WithName(flow, sni) = [flow EXCEPT !.sni = name, !.app_type = app]
  BY DEF WithName, Flow, name, app
<1>4. WithName(flow, sni).sni = name /\ WithName(flow, sni).app_type = app
      /\ WithName(flow, sni).blocked = flow.blocked
  <2>. HIDE DEF Flow
  <2>1. DOMAIN flow = {"app_type", "sni", "blocked", "packet_count"}
    BY DEF Flow
  <2>. QED BY <1>3, <2>1
<1>5. PICK named : named = WithName(flow, sni)
  OBVIOUS
<1>6. /\ named \in Flow /\ named.sni = name /\ named.app_type = app
      /\ named.blocked = flow.blocked
  BY <1>1, <1>3, <1>4, <1>5 DEF Flow
<1>7. /\ after \in Flow
      /\ after.sni = name /\ after.app_type = app /\ after.blocked = verdict
  <2>1. after = [named EXCEPT !.blocked = verdict]
    BY <1>5, <1>6 DEF apply_blocking_rules
  <2>. HIDE DEF verdict
  <2>. QED BY <1>2, <1>6, <2>1 DEF Flow
<1>. HIDE DEF verdict
<1>8. Settled(ft, after)
  BY <1>7 DEF Settled, Asked, verdict, app
<1>9. sni # <<>> \/ flow.sni # <<>> => after.sni # <<>>
  BY <1>7 DEF name
<1>10. ASSUME Settled(ft, flow), sni # <<>> => flow.sni # <<>> PROVE SameFlow(after, flow)
  <2>1. name = flow.sni /\ app = flow.app_type
    BY <1>10 DEF name, app, Settled
  <2>2. verdict <=> flow.blocked
    BY <1>10, <2>1 DEF verdict, Settled, Asked
  <2>3. verdict = flow.blocked
    BY <1>2, <2>2 DEF Flow
  <2>. QED BY <1>7, <2>1, <2>3 DEF SameFlow
<1>11. flow.blocked => after.blocked
  BY <1>7 DEF verdict
<1>. QED BY <1>7, <1>8, <1>9, <1>10, <1>11

FlowsOK(table) ==
  \A ft \in DOMAIN table : ft # NoFlow /\ table[ft] \in Flow /\ Settled(ft, table[ft])

\* What get_or_create_flow does to its table.
Tracks(table, ft, sni, after) ==
  /\ DOMAIN after = DOMAIN table \cup {ft}
  /\ FlowsOK(after)
  /\ \A f \in DOMAIN table \ {ft} : after[f] = table[f]
  /\ sni # <<>> => after[ft].sni # <<>>
  /\ ft \in DOMAIN table =>
       /\ table[ft].sni # <<>> => after[ft].sni # <<>>
       /\ table[ft].blocked => after[ft].blocked
       /\ (sni # <<>> => table[ft].sni # <<>>) => SameFlow(after[ft], table[ft])

LEMMA TrackedTable ==
  ASSUME NEW table, FlowsOK(table), NEW ft, ft # NoFlow, NEW sni \in Seq(Char)
  PROVE  Tracks(table, ft, sni, get_or_create_flow(rules, table, ft, sni))
<1>. DEFINE after == get_or_create_flow(rules, table, ft, sni)
<1>. DEFINE found == Lookup(table, ft, sni)
            counted == [found EXCEPT !.packet_count = @ + 1]
            flow == apply_blocking_rules(rules, ft, WithName(counted, sni))
<1>1. found \in Flow /\ (ft \in DOMAIN table => found = table[ft])
  BY RuleAssumption DEF FlowsOK, Lookup, NewFlow, Flow
<1>. HIDE DEF found
<1>2. counted \in Flow /\ SameFlow(counted, found)
  BY <1>1 DEF Flow, SameFlow
<1>3. Settled(ft, found) => Settled(ft, counted)
  BY <1>2 DEF Settled, Asked, SameFlow
<1>4. after = Store(table, ft, flow)
  BY DEF get_or_create_flow, found
<1>. HIDE DEF counted
<1>5. /\ flow \in Flow /\ Settled(ft, flow)
      /\ sni # <<>> \/ counted.sni # <<>> => flow.sni # <<>>
      /\ counted.blocked => flow.blocked
      /\ Settled(ft, counted) /\ (sni # <<>> => counted.sni # <<>>) => SameFlow(flow, counted)
  BY <1>2, TrackedFlow
<1>. HIDE DEF flow
<1>6. /\ DOMAIN after = DOMAIN table \cup {ft} /\ after[ft] = flow
      /\ \A f \in DOMAIN table \ {ft} : after[f] = table[f]
  <2>. HIDE DEF after
  <2>. QED BY <1>4 DEF Store
<1>. HIDE DEF after
<1>7. FlowsOK(after)
  BY <1>5, <1>6 DEF FlowsOK
<1>8. ft \in DOMAIN table =>
        /\ table[ft].sni # <<>> => after[ft].sni # <<>>
        /\ table[ft].blocked => after[ft].blocked
        /\ (sni # <<>> => table[ft].sni # <<>>) => SameFlow(after[ft], table[ft])
  BY <1>1, <1>2, <1>3, <1>5, <1>6 DEF SameFlow, FlowsOK
<1>9. Tracks(table, ft, sni, after)
  <2>. HIDE DEF after
  <2>. QED BY <1>5, <1>6, <1>7, <1>8 DEF Tracks
<1>. QED BY <1>9 DEF after

-----------------------------------------------------------------------------
(* The invariant.                                                          *)

Places == /\ entry \in {"main", "DPIEngine"} /\ packets \in Captures
          /\ at \in (IF entry = "main"
                     THEN {"analyze", "write", "emit", "done", "raised"}
                     ELSE {"decide", "analyze", "emit", "done"})
          /\ next \in 1 .. Len(packets) + 1

\* The packets that the tracker has seen in this pass.  Before the analysis of
\* DPIEngine it has seen all of them, each with its name.
Known == entry = "DPIEngine" =>
  \A i \in DOMAIN packets :
    (at = "decide" => i < next) /\ FiveTupleOf(i) # NoFlow =>
      /\ FiveTupleOf(i) \in DOMAIN flows
      /\ packets[i].sni # <<>> => flows[FiveTupleOf(i)].sni # <<>>

Counts ==
  /\ decisions \in Seq({"FORWARD", "DROP"}) /\ forwarded_packets \in Seq(DOMAIN packets)
  /\ sni_domains \in Seq(Seq(Char)) /\ suspicious_domains \in Seq(Seq(Char))
  /\ \A p \in DOMAIN protocol_count : /\ protocol_count[p] \in 0 .. Len(packets)
                                      /\ at = "decide" => protocol_count[p] = 0
                                      /\ at = "analyze" => protocol_count[p] < next

Unblocked == {i \in DOMAIN packets : ~is_packet_blocked(flows, packets[i])}

\* What main has written, and what the emitter has made, are of the flows as they are.
Written ==
  /\ output # None => entry = "main" /\ output = Unblocked /\ at \in {"emit", "done"}
  /\ entry = "main" /\ at \in {"emit", "done"} => output = Unblocked
  /\ events # None =>
       /\ at = "done"
       /\ entry = "main" =>
            events = [j \in DOMAIN packets |-> Event(packets[j], given_decisions[j])]

Inv == Places /\ FlowsOK(flows) /\ Known /\ Counts /\ Written

LEMMA CaptureFacts ==
  ASSUME packets \in Captures
  PROVE  /\ Len(packets) \in Nat /\ DOMAIN packets = 1 .. Len(packets)
         /\ \A i \in DOMAIN packets : packets[i].sni \in Seq(Char)
  BY V1CaptureAssumption

LEMMA AppendIn ==
  ASSUME NEW S, NEW s \in Seq(S), NEW x \in S
  PROVE  Append(s, x) \in Seq(S)
  OBVIOUS

LEMMA InvInit == Init => Inv
<1>. SUFFICES ASSUME Init PROVE Inv
  OBVIOUS
<1>1. Places
  BY CaptureFacts DEF Init, Places
<1>2. DOMAIN flows = {} /\ FlowsOK(flows)
  BY DEF Init, FlowsOK
<1>3. Known
  BY <1>1, CaptureFacts DEF Init, Places, Known
<1>4. Counts
  BY CaptureFacts DEF Init, Counts
<1>5. Written
  BY DEF Init, Written
<1>. QED BY <1>1, <1>2, <1>3, <1>4, <1>5 DEF Inv

\* The analysis, by the engine, of a packet that it has decided on.
LEMMA AnalysisSettled ==
  ASSUME Inv, AnalyzePacket, entry = "DPIEngine"
  PROVE  /\ DOMAIN flows' = DOMAIN flows
         /\ \A ft \in DOMAIN flows : SameFlow(flows'[ft], flows[ft])
<1>. DEFINE ft == FiveTupleOf(next)
<1>1. /\ at = "analyze" /\ next \in DOMAIN packets /\ packets[next].sni \in Seq(Char)
  BY CaptureFacts DEF Inv, Places, AnalyzePacket, Reading
<1>2. \/ flows' = flows
      \/ ft # NoFlow /\ flows' = get_or_create_flow(rules, flows, ft, packets[next].sni)
  BY DEF AnalyzePacket, FiveTupleOf
<1>3. ft # NoFlow => ft \in DOMAIN flows /\ (packets[next].sni # <<>> => flows[ft].sni # <<>>)
  BY <1>1 DEF Inv, Known
<1>. HIDE DEF ft
<1>4. CASE flows' = flows
  BY <1>4 DEF SameFlow
<1>5. CASE ft # NoFlow /\ flows' = get_or_create_flow(rules, flows, ft, packets[next].sni)
  <2>1. FlowsOK(flows)
    BY DEF Inv
  <2>2. /\ DOMAIN flows' = DOMAIN flows \cup {ft}
        /\ \A f \in DOMAIN flows \ {ft} : flows'[f] = flows[f]
        /\ SameFlow(flows'[ft], flows[ft])
    <3>1. Tracks(flows, ft, packets[next].sni, flows')
      BY <1>1, <1>5, <2>1, TrackedTable
    <3>. QED BY <1>3, <1>5, <3>1 DEF Tracks
  <2>. QED BY <1>3, <1>5, <2>2 DEF SameFlow
<1>. QED BY <1>2, <1>4, <1>5

\* A step that tracks a packet: by DPIEngine's loop or by the analyzer's.
LEMMA TrackPreserves ==
  ASSUME Inv, NEW ft, ft = FiveTupleOf(next), ft # NoFlow, next \in DOMAIN packets,
         flows' = get_or_create_flow(rules, flows, ft, packets[next].sni),
         next' = next + 1, UNCHANGED <<entry, packets, at>>
  PROVE  FlowsOK(flows)' /\ Known' /\ ft \in DOMAIN flows' /\ flows'[ft] \in Flow
<1>1. FlowsOK(flows) /\ packets[next].sni \in Seq(Char)
  BY CaptureFacts DEF Inv, Places
<1>2. /\ DOMAIN flows' = DOMAIN flows \cup {ft}
      /\ FlowsOK(flows')
      /\ \A f \in DOMAIN flows \ {ft} : flows'[f] = flows[f]
      /\ packets[next].sni # <<>> => flows'[ft].sni # <<>>
      /\ ft \in DOMAIN flows => (flows[ft].sni # <<>> => flows'[ft].sni # <<>>)
  <2>1. Tracks(flows, ft, packets[next].sni, flows')
    BY <1>1, TrackedTable
  <2>. QED BY <2>1 DEF Tracks
<1>3. FlowsOK(flows)'
  BY <1>2 DEF FlowsOK, Settled, Asked, rules
<1>4. Known'
  <2>. SUFFICES ASSUME entry = "DPIEngine", NEW i \in DOMAIN packets, at = "decide" => i < next + 1,
                       FiveTupleOf(i) # NoFlow
                PROVE  /\ FiveTupleOf(i) \in DOMAIN flows'
                       /\ packets[i].sni # <<>> => flows'[FiveTupleOf(i)].sni # <<>>
    BY DEF Known, FiveTupleOf
  <2>1. CASE i = next
    BY <1>2, <2>1
  <2>2. CASE i # next
    <3>1. i \in Nat /\ next \in Nat
      BY CaptureFacts DEF Inv, Places
    <3>2. at = "decide" => i < next
      BY <2>2, <3>1
    <3>3. /\ FiveTupleOf(i) \in DOMAIN flows
          /\ packets[i].sni # <<>> => flows[FiveTupleOf(i)].sni # <<>>
      BY <3>2 DEF Inv, Known
    <3>. QED BY <1>2, <3>3
  <2>. QED BY <2>1, <2>2
<1>. QED BY <1>2, <1>3, <1>4 DEF FlowsOK

\* Neither loop has written anything.
LEMMA LoopKeepsWritten ==
  ASSUME Inv, at \in {"decide", "analyze"}, UNCHANGED <<entry, packets, output, events>>,
         at' \in {"decide", "analyze"} \/ (at' = "write" /\ entry = "main")
                                       \/ (at' = "emit" /\ entry = "DPIEngine")
  PROVE  Written'
<1>1. output = None /\ events = None
  BY DEF Inv, Written
<1>. QED BY <1>1 DEF Written

LEMMA DecidePreserves == Inv /\ Decide => Inv'
<1>. SUFFICES ASSUME Inv, Decide PROVE Inv'
  OBVIOUS
<1>. DEFINE ft == FiveTupleOf(next)
<1>1. /\ at = "decide" /\ next \in DOMAIN packets /\ ft # NoFlow
      /\ flows' = get_or_create_flow(rules, flows, ft, packets[next].sni)
      /\ next' = next + 1
      /\ decisions' = Append(decisions, decide(flows', packets[next]))
      /\ \/ forwarded_packets' = forwarded_packets
         \/ forwarded_packets' = Append(forwarded_packets, next)
      /\ UNCHANGED <<entry, packets, at, analyzer, output, events>>
  BY CaptureFacts DEF Inv, Places, Decide, Reading, FiveTupleOf
<1>. HIDE DEF ft
<1>2. FlowsOK(flows)' /\ Known'
  BY <1>1, TrackPreserves DEF ft
<1>3. Places'
  BY <1>1, CaptureFacts DEF Inv, Places
<1>4. Counts'
  <2>1. decide(flows', packets[next]) \in {"FORWARD", "DROP"}
    BY DEF decide
  <2>2. decisions' \in Seq({"FORWARD", "DROP"})
    BY <1>1, <2>1, AppendIn DEF Inv, Counts
  <2>3. forwarded_packets' \in Seq(DOMAIN packets)
    BY <1>1, AppendIn DEF Inv, Counts
  <2>. QED BY <1>1, <2>2, <2>3 DEF Inv, Counts, analyzer
<1>5. Written'
  BY <1>1, LoopKeepsWritten
<1>. QED BY <1>2, <1>3, <1>4, <1>5 DEF Inv

LEMMA AnalyzePreserves == Inv /\ AnalyzePacket => Inv'
<1>. SUFFICES ASSUME Inv, AnalyzePacket PROVE Inv'
  OBVIOUS
<1>. DEFINE ft == FiveTupleOf(next)
<1>1. /\ at = "analyze" /\ next \in DOMAIN packets /\ packets[next].sni \in Seq(Char)
      /\ \/ flows' = flows
         \/ ft # NoFlow /\ flows' = get_or_create_flow(rules, flows, ft, packets[next].sni)
      /\ next' = next + 1
      /\ UNCHANGED <<entry, packets, at, engine, output, events>>
  BY CaptureFacts DEF Inv, Places, AnalyzePacket, Reading, FiveTupleOf
<1>. HIDE DEF ft
<1>2. FlowsOK(flows)' /\ Known'
  <2>1. CASE flows' = flows
    <3>1. FlowsOK(flows)'
      BY <1>1, <2>1 DEF Inv, FlowsOK, Settled, Asked, rules
    <3>2. Known'
      BY <1>1, <2>1 DEF Inv, Known, FiveTupleOf
    <3>. QED BY <3>1, <3>2
  <2>2. CASE ft # NoFlow /\ flows' = get_or_create_flow(rules, flows, ft, packets[next].sni)
    BY <1>1, <2>2, TrackPreserves DEF ft
  <2>. QED BY <1>1, <2>1, <2>2
<1>3. Places'
  BY <1>1, CaptureFacts DEF Inv, Places
<1>4. Counts'
  <2>1. /\ decisions' \in Seq({"FORWARD", "DROP"})
        /\ forwarded_packets' \in Seq(DOMAIN packets)'
    BY <1>1 DEF Inv, Counts, engine
  <2>2. sni_domains' \in Seq(Seq(Char)) /\ suspicious_domains' \in Seq(Seq(Char))
    <3>1. /\ \/ sni_domains' = sni_domains
             \/ sni_domains' = Append(sni_domains, packets[next].sni)
          /\ \/ suspicious_domains' = suspicious_domains
             \/ suspicious_domains' = Append(suspicious_domains, packets[next].sni)
      BY DEF AnalyzePacket
    <3>2. sni_domains \in Seq(Seq(Char)) /\ suspicious_domains \in Seq(Seq(Char))
      BY DEF Inv, Counts
    <3>. QED BY <1>1, <3>1, <3>2, AppendIn
  <2>3. ASSUME NEW p \in DOMAIN protocol_count'
        PROVE  protocol_count'[p] \in 0 .. Len(packets) /\ protocol_count'[p] < next + 1
    <3>1. /\ p \in DOMAIN protocol_count
          /\ protocol_count'[p] \in {protocol_count[p], protocol_count[p] + 1}
      BY <2>3 DEF AnalyzePacket, Inv, Counts
    <3>2. /\ protocol_count[p] \in Nat /\ protocol_count[p] < next
          /\ next \in Nat /\ next <= Len(packets) /\ Len(packets) \in Nat
      BY <1>1, <3>1, CaptureFacts DEF Inv, Counts, Places
    <3>. QED BY <3>1, <3>2
  <2>. QED BY <1>1, <2>1, <2>2, <2>3 DEF Counts
<1>5. Written'
  BY <1>1, LoopKeepsWritten
<1>. QED BY <1>2, <1>3, <1>4, <1>5 DEF Inv

-----------------------------------------------------------------------------
(* The engine's decisions.                                                 *)

\* The packets up to here have been decided on.
Reached == IF at = "decide" THEN next - 1 ELSE Len(packets)

\* The flow is as the last packet of it was decided.
AsLastOf(ft, i) == /\ FiveTupleOf(i) = ft
                   /\ \A j \in TrackedTo(Reached) : FiveTupleOf(j) = ft => j <= i
                   /\ flows[ft].blocked <=> DecisionOn(i) = "DROP"

Decided == entry = "DPIEngine" =>
  /\ Len(decisions) = Rank(Reached)
  /\ \A i, j \in TrackedTo(Reached) :
       i < j /\ FiveTupleOf(i) = FiveTupleOf(j) /\ DecisionOn(i) = "DROP"
       => DecisionOn(j) = "DROP"
  /\ \A ft \in DOMAIN flows : \E i \in TrackedTo(Reached) : AsLastOf(ft, i)

Forwarded == entry = "DPIEngine" =>
  /\ \A j, k \in DOMAIN forwarded_packets :
       j < k => forwarded_packets[j] < forwarded_packets[k]
  /\ Range(forwarded_packets) = {i \in TrackedTo(Reached) : DecisionOn(i) = "FORWARD"}

\* The k-th decision is that of the k-th packet that has a five-tuple.
LEMMA Ranks ==
  ASSUME packets \in Captures, NEW n \in 1 .. Len(packets)
  PROVE  /\ Rank(n) \in Nat /\ Rank(n - 1) \in Nat
         /\ TrackedTo(0) = {} /\ Rank(0) = 0
         /\ FiveTupleOf(n) # NoFlow => /\ TrackedTo(n) = TrackedTo(n - 1) \cup {n}
                                       /\ Rank(n) = Rank(n - 1) + 1
         /\ FiveTupleOf(n) = NoFlow => /\ TrackedTo(n) = TrackedTo(n - 1)
                                       /\ Rank(n) = Rank(n - 1)
         /\ \A i \in TrackedTo(n) : Rank(i) \in 1 .. Rank(n) /\ i \in 1 .. n
<1>1. Len(packets) \in Nat /\ DOMAIN packets = 1 .. Len(packets)
  BY CaptureFacts
<1>2. \A k \in 0 .. Len(packets) : /\ TrackedTo(k) \subseteq 1 .. k
                                   /\ IsFiniteSet(TrackedTo(k)) /\ Rank(k) \in Nat
  <2>. SUFFICES ASSUME NEW k \in 0 .. Len(packets)
                PROVE  /\ TrackedTo(k) \subseteq 1 .. k
                       /\ IsFiniteSet(TrackedTo(k)) /\ Rank(k) \in Nat
    OBVIOUS
  <2>1. TrackedTo(k) \subseteq 1 .. k
    BY <1>1 DEF TrackedTo
  <2>2. IsFiniteSet(1 .. k)
    BY <1>1, FS_Interval
  <2>3. IsFiniteSet(TrackedTo(k))
    BY <2>1, <2>2, FS_Subset
  <2>. QED BY <2>1, <2>3, FS_CardinalityType DEF Rank
<1>3. TrackedTo(0) = {} /\ Rank(0) = 0
  BY <1>1, <1>2, FS_EmptySet DEF Rank
<1>4. ASSUME FiveTupleOf(n) # NoFlow
      PROVE  TrackedTo(n) = TrackedTo(n - 1) \cup {n} /\ Rank(n) = Rank(n - 1) + 1
  <2>1. TrackedTo(n) = TrackedTo(n - 1) \cup {n}
    BY <1>1, <1>4 DEF TrackedTo
  <2>2. n \notin TrackedTo(n - 1) /\ IsFiniteSet(TrackedTo(n - 1))
    BY <1>1, <1>2
  <2>. QED BY <2>1, <2>2, FS_AddElement DEF Rank
<1>5. ASSUME FiveTupleOf(n) = NoFlow
      PROVE  TrackedTo(n) = TrackedTo(n - 1) /\ Rank(n) = Rank(n - 1)
  <2>1. TrackedTo(n) = TrackedTo(n - 1)
    BY <1>1, <1>5 DEF TrackedTo
  <2>. QED BY <2>1 DEF Rank
<1>6. ASSUME NEW i \in TrackedTo(n) PROVE Rank(i) \in 1 .. Rank(n) /\ i \in 1 .. n
  <2>1. i \in 1 .. n /\ i \in 0 .. Len(packets) /\ n \in 0 .. Len(packets)
    BY <1>1, <1>6 DEF TrackedTo
  <2>2. i \in TrackedTo(i) /\ TrackedTo(i) \subseteq TrackedTo(n)
    BY <1>1, <1>6, <2>1 DEF TrackedTo
  <2>3. Rank(i) <= Rank(n) /\ Rank(i) # 0 /\ Rank(i) \in Nat /\ Rank(n) \in Nat
    BY <1>2, <2>1, <2>2, FS_Subset, FS_EmptySet DEF Rank
  <2>. QED BY <2>1, <2>3
<1>7. n \in 0 .. Len(packets) /\ n - 1 \in 0 .. Len(packets)
  BY <1>1
<1>. QED BY <1>2, <1>3, <1>4, <1>5, <1>6, <1>7

-----------------------------------------------------------------------------
(* The processor of V2 that main is compared with is the DPIProcessor of   *)
(* this module: the same text, in an instance of its own.                  *)

LEMMA SameNames ==
  ASSUME NEW name
  PROVE  Processor!normalise(name) = normalise(name)
<1>1. \A n : Processor!lower(n) = lower(n)
  BY DEF Processor!lower, lower
<1>2. \A S : Processor!Min(S) = Min(S) /\ Processor!Max(S) = Max(S)
  BY DEF Processor!Min, Min, Processor!Max, Max
<1>3. \A n, c : Processor!Keeps(n, c) = Keeps(n, c)
  BY DEF Processor!Keeps, Keeps
<1>4. \A n : Processor!strip(n) = strip(n)
  BY <1>2, <1>3 DEF Processor!strip, strip
<1>5. \A n : Processor!rstrip(n) = rstrip(n)
  BY <1>2, <1>3 DEF Processor!rstrip, rstrip
<1>. QED BY <1>1, <1>4, <1>5 DEF Processor!normalise, normalise

LEMMA SameMatching ==
  ASSUME NEW a, NEW b
  PROVE  /\ Processor!IsOrIsUnder(a, b) <=> IsOrIsUnder(a, b)
         /\ Processor!MatchesRule(a, b) <=> MatchesRule(a, b)
<1>1. \A s, t : Processor!endswith(s, t) <=> endswith(s, t)
  BY DEF Processor!endswith, endswith, Processor!IsSuffix, IsSuffix, Processor!IsPrefix,
         IsPrefix, Processor!Reverse, Reverse
<1>2. \A s, t : Processor!IsOrIsUnder(s, t) <=> IsOrIsUnder(s, t)
  BY <1>1 DEF Processor!IsOrIsUnder, IsOrIsUnder
<1>3. \A s, t : Processor!IsLabelOf(s, t) <=> IsLabelOf(s, t)
  BY DEF Processor!IsLabelOf, IsLabelOf
<1>4. \A s, c : Processor!Contains(s, c) <=> Contains(s, c)
  BY DEF Processor!Contains, Contains
<1>. QED BY <1>2, <1>3, <1>4 DEF Processor!MatchesRule, MatchesRule

LEMMA SameRules ==
  ASSUME NEW rm, NEW five_tuple, NEW flow, NEW domain
  PROVE  /\ Processor!classify_domain(domain) = classify_domain(domain)
         /\ Processor!apply_blocking_rules(rm, five_tuple, flow)
              = apply_blocking_rules(rm, five_tuple, flow)
<1>1. Processor!classify_domain(domain) = classify_domain(domain)
  <2>1. \A S : Processor!Min(S) = Min(S)
    BY DEF Processor!Min, Min
  <2>. QED BY <2>1, SameNames, SameMatching DEF Processor!classify_domain, classify_domain
<1>2. Processor!is_domain_blocked(rm, flow.sni) <=> is_domain_blocked(rm, flow.sni)
  BY SameNames, SameMatching DEF Processor!is_domain_blocked, is_domain_blocked
<1>3. /\ Processor!is_ip_blocked(rm, five_tuple.src_ip) <=> is_ip_blocked(rm, five_tuple.src_ip)
      /\ Processor!is_app_blocked(rm, flow.app_type) <=> is_app_blocked(rm, flow.app_type)
  BY DEF Processor!is_ip_blocked, is_ip_blocked, Processor!is_app_blocked, is_app_blocked
<1>. QED BY <1>1, <1>2, <1>3 DEF Processor!apply_blocking_rules, apply_blocking_rules

LEMMA SameProcessor ==
  ASSUME NEW rm, NEW table, NEW packet
  PROVE  /\ Processor!process(rm, table, packet) = process(rm, table, packet)
         /\ Processor!decide(table, packet) = decide(table, packet)
<1>1. /\ Processor!create_five_tuple(packet) = create_five_tuple(packet)
      /\ Processor!domain_of(packet) = domain_of(packet)
  BY DEF Processor!create_five_tuple, create_five_tuple, Processor!NoFlow, NoFlow,
         Processor!domain_of, domain_of
<1>2. \A flow, sni : Processor!WithName(flow, sni) = WithName(flow, sni)
  BY SameRules DEF Processor!WithName, WithName
<1>3. \A five_tuple, sni : Processor!Lookup(table, five_tuple, sni) = Lookup(table, five_tuple, sni)
  BY DEF Processor!Lookup, Lookup, Processor!NewFlow, NewFlow
<1>4. \A five_tuple, flow : Processor!Store(table, five_tuple, flow) = Store(table, five_tuple, flow)
  BY DEF Processor!Store, Store
<1>5. \A five_tuple, sni : Processor!get_or_create_flow(rm, table, five_tuple, sni)
                          = get_or_create_flow(rm, table, five_tuple, sni)
  BY <1>2, <1>3, <1>4, SameRules DEF Processor!get_or_create_flow, get_or_create_flow
<1>6. \A five_tuple, flow, domain : Processor!Rename(rm, five_tuple, flow, domain)
                                 = Rename(rm, five_tuple, flow, domain)
  BY SameRules DEF Processor!Rename, Rename
<1>7. Processor!process(rm, table, packet) = process(rm, table, packet)
  BY <1>1, <1>5, <1>6 DEF Processor!process, process
<1>. QED BY <1>1, <1>7 DEF Processor!decide, decide

\* What one packet does to the table of that processor.
Advanced(table, packet) ==
  IF Processor!keyed(packet) THEN process(main_rules, table, packet) ELSE table

\* f is that table after each of the first n packets.
IsTables(f, n) ==
  f = [i \in 0 .. n |-> IF i = 0 THEN <<>> ELSE Advanced(f[i - 1], packets[i])]

LEMMA TablesExist == \A n \in Nat : \E f : IsTables(f, n)
<1>. DEFINE S == {n \in Nat : ~\E f : IsTables(f, n)}
<1>. SUFFICES ASSUME S # {} PROVE FALSE
  OBVIOUS
<1>1. PICK m \in Nat : m = Min(S)
  BY Least
<1>2. m \in S /\ \A n \in Nat : n < m => n \notin S
  <2>. HIDE DEF S
  <2>1. S \subseteq Nat
    BY DEF S
  <2>2. m \in S
    BY <1>1, <2>1, Least
  <2>3. \A n \in S : m <= n
    BY <1>1, <2>1, Least
  <2>. QED BY <2>2, <2>3
<1>3. m # 0
  <2>. DEFINE f == [i \in 0 .. 0 |-> <<>>]
  <2>1. f = [i \in 0 .. 0 |-> IF i = 0 THEN <<>> ELSE Advanced(f[i - 1], packets[i])]
    OBVIOUS
  <2>2. IsTables(f, 0)
    BY <2>1 DEF IsTables
  <2>. QED BY <1>2, <2>2
<1>4. PICK g : IsTables(g, m - 1)
  BY <1>2, <1>3
<1>. DEFINE f == [i \in 0 .. m |-> IF i = 0 THEN <<>> ELSE Advanced(g[i - 1], packets[i])]
<1>5. \A i \in 0 .. m - 1 : f[i] = g[i]
  <2>1. \A i \in 0 .. m - 1 : g[i] = IF i = 0 THEN <<>> ELSE Advanced(g[i - 1], packets[i])
    BY <1>4 DEF IsTables
  <2>. QED BY <2>1
<1>6. \A i \in 0 .. m : i # 0 => f[i - 1] = g[i - 1]
  <2>1. \A i \in 0 .. m : i # 0 => i - 1 \in 0 .. m - 1
    OBVIOUS
  <2>. HIDE DEF f
  <2>. QED BY <1>5, <2>1
<1>7. f = [i \in 0 .. m |-> IF i = 0 THEN <<>> ELSE Advanced(f[i - 1], packets[i])]
  <2>. HIDE DEF f
  <2>1. f = [i \in 0 .. m |-> IF i = 0 THEN <<>> ELSE Advanced(g[i - 1], packets[i])]
    BY DEF f
  <2>. QED BY <1>6, <2>1
<1>. QED BY <1>2, <1>7 DEF IsTables

LEMMA TableAfterUnfolds ==
  ASSUME Len(packets) \in Nat
  PROVE  /\ Processor!TableAfter[0] = <<>>
         /\ \A i \in 1 .. Len(packets) :
              Processor!TableAfter[i] = Advanced(Processor!TableAfter[i - 1], packets[i])
<1>. DEFINE T == Processor!TableAfter
<1>1. PICK f : IsTables(f, Len(packets))
  BY TablesExist
<1>2. T = CHOOSE g : IsTables(g, Len(packets))
  <2>1. \A g : [i \in 0 .. Len(packets) |->
                  IF i = 0 THEN <<>>
                  ELSE IF Processor!keyed(packets[i])
                       THEN Processor!process(main_rules, g[i - 1], packets[i])
                       ELSE g[i - 1]]
             = [i \in 0 .. Len(packets) |->
                  IF i = 0 THEN <<>> ELSE Advanced(g[i - 1], packets[i])]
    BY SameProcessor DEF Advanced
  <2>. QED BY <2>1 DEF Processor!TableAfter, IsTables
<1>3. IsTables(T, Len(packets))
  BY <1>1, <1>2
<1>. HIDE DEF T
<1>4. /\ T[0] = <<>>
      /\ \A i \in 1 .. Len(packets) : T[i] = Advanced(T[i - 1], packets[i])
  BY <1>3 DEF IsTables
<1>. QED BY <1>4 DEF T

LEMMA TablesStay ==
  ASSUME packets' = packets
  PROVE  Processor!TableAfter' = Processor!TableAfter
  BY DEF Processor!TableAfter

-----------------------------------------------------------------------------
(* main and that processor, flow by flow.                                  *)

Verdict(ft, blocked, app_type, sni) == \/ blocked
                                       \/ is_ip_blocked(main_rules, ft.src_ip)
                                       \/ is_app_blocked(main_rules, app_type)
                                       \/ is_domain_blocked(main_rules, sni)

LEMMA RulesApplied ==
  ASSUME NEW ft, NEW flow \in Flow, NEW after,
         after = apply_blocking_rules(main_rules, ft, flow)
  PROVE  /\ after \in Flow /\ after.sni = flow.sni /\ after.app_type = flow.app_type
         /\ after.blocked <=> Verdict(ft, flow.blocked, flow.app_type, flow.sni)
<1>1. Verdict(ft, flow.blocked, flow.app_type, flow.sni) \in BOOLEAN
  BY DEF Flow, Verdict
<1>2. after = [flow EXCEPT !.blocked = Verdict(ft, flow.blocked, flow.app_type, flow.sni)]
  BY DEF apply_blocking_rules, Verdict
<1>. QED BY <1>1, <1>2 DEF Flow

LEMMA NameGiven ==
  ASSUME NEW flow \in Flow, NEW sni \in Seq(Char), NEW named, named = WithName(flow, sni)
  PROVE  /\ named \in Flow /\ named.blocked = flow.blocked
         /\ named.sni = IF flow.sni = <<>> THEN sni ELSE flow.sni
         /\ named.app_type = IF named.sni = <<>> THEN flow.app_type
                                                 ELSE classify_domain(named.sni)
  BY EveryNameIsClassified DEF Flow, WithName

LEMMA NameReplaced ==
  ASSUME NEW ft, NEW flow \in Flow, NEW domain \in Seq(Char), NEW after,
         after = Rename(main_rules, ft, flow, domain)
  PROVE  /\ after \in Flow /\ after.sni = domain /\ after.app_type = classify_domain(domain)
         /\ after.blocked <=> Verdict(ft, flow.blocked, classify_domain(domain), domain)
<1>1. PICK named : named = [flow EXCEPT !.sni = domain, !.app_type = classify_domain(domain)]
  OBVIOUS
<1>2. /\ named \in Flow /\ named.sni = domain /\ named.app_type = classify_domain(domain)
      /\ named.blocked = flow.blocked
  BY <1>1, EveryNameIsClassified DEF Flow
<1>3. after = apply_blocking_rules(main_rules, ft, named)
  BY <1>1 DEF Rename
<1>. QED BY <1>2, <1>3, RulesApplied

\* What main makes of a flow that meets a packet, and what the processor makes of it.
Met(flow, ft, sni) ==
  apply_blocking_rules(main_rules, ft, WithName([flow EXCEPT !.packet_count = @ + 1], sni))

Processed(flow, ft, packet) ==
  LET tracked == Met(flow, ft, <<>>)
  IN  IF domain_of(packet) = <<>> THEN tracked
      ELSE Rename(main_rules, ft, tracked, domain_of(packet))

LEMMA FlowMet ==
  ASSUME NEW ft, NEW flow \in Flow, NEW sni \in Seq(Char), NEW after, after = Met(flow, ft, sni)
  PROVE  /\ after \in Flow
         /\ after.sni = IF flow.sni = <<>> THEN sni ELSE flow.sni
         /\ after.app_type = IF after.sni = <<>> THEN flow.app_type
                                                 ELSE classify_domain(after.sni)
         /\ after.blocked <=> Verdict(ft, flow.blocked, after.app_type, after.sni)
<1>1. PICK counted : counted = [flow EXCEPT !.packet_count = @ + 1]
  OBVIOUS
<1>2. counted \in Flow /\ SameFlow(counted, flow)
  BY <1>1 DEF Flow, SameFlow
<1>3. PICK named : named = WithName(counted, sni)
  OBVIOUS
<1>4. after = apply_blocking_rules(main_rules, ft, named)
  BY <1>1, <1>3 DEF Met
<1>. QED BY <1>2, <1>3, <1>4, NameGiven, RulesApplied DEF SameFlow

\* main's flow f of packet i and the processor's flow g of it.
Alike(f, g, i) ==
  /\ f \in Flow /\ g \in Flow /\ SameFlow(f, g)
  /\ f.app_type = classify_domain(f.sni)
  /\ Verdict(FiveTupleOf(i), f.blocked, f.app_type, f.sni) => f.blocked
  /\ f.sni # <<>> => \E j \in FlowOf(i) : packets[j].sni = f.sni

LEMMA BothMeet ==
  ASSUME packets \in Captures, NEW i \in DOMAIN packets, Comparable(i), NEW n \in FlowOf(i),
         NEW f, NEW g,
         \/ Alike(f, g, i)
         \/ /\ f = NewFlow(packets[n].sni) /\ g = NewFlow(<<>>)
            /\ is_app_blocked(main_rules, UNKNOWN) => packets[n].sni = <<>>
  PROVE  Alike(Met(f, FiveTupleOf(i), packets[n].sni),
               Processed(g, FiveTupleOf(i), packets[n]), i)
<1>. DEFINE ft == FiveTupleOf(i)
            s == packets[n].sni
<1>1. /\ s \in Seq(Char) /\ <<>> \in Seq(Char) /\ n \in DOMAIN packets
      /\ domain_of(packets[n]) = s
  BY CaptureFacts DEF Comparable, FlowOf, domain_of
<1>2. classify_domain(<<>>) = UNKNOWN /\ ~is_domain_blocked(main_rules, <<>>)
  BY DEF classify_domain, is_domain_blocked
<1>3. f \in Flow /\ g \in Flow
  <2>1. \A sni \in Seq(Char) : NewFlow(sni) \in Flow
    BY RuleAssumption DEF NewFlow, Flow
  <2>. QED BY <1>1, <2>1 DEF Alike
<1>4. PICK f2, g1, g2 : /\ f2 = Met(f, ft, s) /\ g1 = Met(g, ft, <<>>)
                        /\ g2 = Rename(main_rules, ft, g1, s)
  OBVIOUS
<1>. HIDE DEF ft, s
<1>5. /\ f2 \in Flow /\ f2.sni = (IF f.sni = <<>> THEN s ELSE f.sni)
      /\ f2.app_type = IF f2.sni = <<>> THEN f.app_type ELSE classify_domain(f2.sni)
      /\ f2.blocked <=> Verdict(ft, f.blocked, f2.app_type, f2.sni)
  BY <1>1, <1>3, <1>4, FlowMet
<1>6. /\ g1 \in Flow /\ g1.sni = g.sni
      /\ g1.app_type = IF g1.sni = <<>> THEN g.app_type ELSE classify_domain(g1.sni)
      /\ g1.blocked <=> Verdict(ft, g.blocked, g1.app_type, g1.sni)
  <2>1. PICK empty \in Seq(Char) : empty = <<>>
    BY <1>1
  <2>2. g1 = Met(g, ft, empty)
    BY <1>4, <2>1
  <2>3. /\ g1 \in Flow /\ g1.sni = (IF g.sni = <<>> THEN empty ELSE g.sni)
        /\ g1.app_type = IF g1.sni = <<>> THEN g.app_type ELSE classify_domain(g1.sni)
        /\ g1.blocked <=> Verdict(ft, g.blocked, g1.app_type, g1.sni)
    BY <1>3, <2>2, FlowMet
  <2>. QED BY <2>1, <2>3
<1>7. /\ g2 \in Flow /\ g2.sni = s /\ g2.app_type = classify_domain(s)
      /\ g2.blocked <=> Verdict(ft, g1.blocked, classify_domain(s), s)
  BY <1>1, <1>4, <1>6, NameReplaced
<1>8. Processed(g, ft, packets[n]) = IF s = <<>> THEN g1 ELSE g2
  BY <1>1, <1>4 DEF Processed
<1>9. CASE Alike(f, g, i)
  <2>1. /\ f.sni = g.sni /\ f.app_type = g.app_type /\ f.blocked = g.blocked
        /\ f.app_type = classify_domain(f.sni)
        /\ Verdict(ft, f.blocked, f.app_type, f.sni) <=> f.blocked
    BY <1>9 DEF Alike, SameFlow, Verdict, ft
  <2>2. f.sni # <<>> /\ s # <<>> => f.sni = s
    BY <1>9 DEF Alike, Comparable, FlowOf, s
  <2>3. f2.app_type = classify_domain(f2.sni)
    BY <1>5, <2>1
  <2>4. g1.app_type = f.app_type /\ (g1.blocked <=> f.blocked)
    BY <1>6, <2>1
  <2>5. SameFlow(f2, IF s = <<>> THEN g1 ELSE g2)
    <3>1. CASE s = <<>>
      <4>1. f2.sni = f.sni /\ f2.app_type = f.app_type /\ (f2.blocked <=> f.blocked)
        BY <1>5, <2>1, <2>3, <3>1
      <4>2. f2.blocked = g1.blocked
        BY <1>5, <1>6, <2>4, <4>1 DEF Flow
      <4>. QED BY <1>6, <2>1, <2>4, <3>1, <4>1, <4>2 DEF SameFlow
    <3>2. CASE s # <<>>
      <4>1. f2.sni = s /\ f2.app_type = classify_domain(s)
        BY <1>5, <2>2, <2>3, <3>2
      <4>2. f2.blocked <=> g2.blocked
        BY <1>5, <1>7, <2>4, <4>1 DEF Verdict
      <4>3. f2.blocked = g2.blocked
        BY <1>5, <1>7, <4>2 DEF Flow
      <4>. QED BY <1>7, <3>2, <4>1, <4>3 DEF SameFlow
    <3>. QED BY <3>1, <3>2
  <2>6. f2.sni # <<>> => \E j \in FlowOf(i) : packets[j].sni = f2.sni
    BY <1>5, <1>9 DEF Alike, s
  <2>. QED BY <1>4, <1>5, <1>6, <1>7, <1>8, <2>3, <2>5, <2>6 DEF Alike, Verdict, ft, s
<1>10. CASE /\ f = NewFlow(s) /\ g = NewFlow(<<>>)
            /\ is_app_blocked(main_rules, UNKNOWN) => s = <<>>
  <2>1. /\ f.sni = s /\ f.app_type = UNKNOWN /\ f.blocked = FALSE
        /\ g.sni = <<>> /\ g.app_type = UNKNOWN /\ g.blocked = FALSE
    BY <1>10 DEF NewFlow
  <2>2. f2.sni = s /\ f2.app_type = classify_domain(s)
    BY <1>2, <1>5, <2>1
  <2>3. g1.sni = <<>> /\ g1.app_type = UNKNOWN
    BY <1>6, <2>1
  <2>4. g1.blocked <=> is_ip_blocked(main_rules, ft.src_ip) \/ is_app_blocked(main_rules, UNKNOWN)
    BY <1>2, <1>6, <2>1, <2>3 DEF Verdict
  <2>5. SameFlow(f2, IF s = <<>> THEN g1 ELSE g2)
    <3>1. CASE s = <<>>
      <4>1. f2.blocked <=> g1.blocked
        BY <1>2, <1>5, <2>1, <2>2, <2>4, <3>1 DEF Verdict
      <4>2. f2.blocked = g1.blocked
        BY <1>5, <1>6, <4>1 DEF Flow
      <4>. QED BY <1>2, <2>2, <2>3, <3>1, <4>2 DEF SameFlow
    <3>2. CASE s # <<>>
      <4>1. f2.blocked <=> g2.blocked
        BY <1>5, <1>7, <1>10, <2>1, <2>2, <2>4, <3>2 DEF Verdict
      <4>2. f2.blocked = g2.blocked
        BY <1>5, <1>7, <4>1 DEF Flow
      <4>. QED BY <1>7, <2>2, <3>2, <4>2 DEF SameFlow
    <3>. QED BY <3>1, <3>2
  <2>6. f2.sni # <<>> => \E j \in FlowOf(i) : packets[j].sni = f2.sni
    BY <2>2 DEF s
  <2>. QED BY <1>4, <1>5, <1>6, <1>7, <1>8, <2>2, <2>5, <2>6 DEF Alike, Verdict, ft, s
<1>. QED BY <1>9, <1>10 DEF s

\* The table with this flow stored, and nothing else changed.
Stored(after, table, key, flow) ==
  /\ DOMAIN after = DOMAIN table \cup {key} /\ after[key] = flow
  /\ \A ft \in DOMAIN table : ft # key => after[ft] = table[ft]

LEMMA MainMeets ==
  ASSUME NEW table, NEW key, NEW sni
  PROVE  Stored(get_or_create_flow(main_rules, table, key, sni), table, key,
                Met(Lookup(table, key, sni), key, sni))
<1>1. PICK flow : flow = Met(Lookup(table, key, sni), key, sni)
  OBVIOUS
<1>2. get_or_create_flow(main_rules, table, key, sni) = Store(table, key, flow)
  BY <1>1 DEF get_or_create_flow, Met
<1>. QED BY <1>1, <1>2 DEF Store, Stored

LEMMA ProcessorMeets ==
  ASSUME NEW table, NEW packet, NEW key, key = create_five_tuple(packet)
  PROVE  Stored(process(main_rules, table, packet), table, key,
                Processed(Lookup(table, key, <<>>), key, packet))
<1>0. PICK after : after = process(main_rules, table, packet)
  OBVIOUS
<1>1. PICK tracked : tracked = get_or_create_flow(main_rules, table, key, <<>>)
  OBVIOUS
<1>2. PICK flow : flow = Met(Lookup(table, key, <<>>), key, <<>>)
  OBVIOUS
<1>3. /\ DOMAIN tracked = DOMAIN table \cup {key} /\ tracked[key] = flow
      /\ \A ft \in DOMAIN table : ft # key => tracked[ft] = table[ft]
  <2>1. Stored(tracked, table, key, flow)
    BY <1>1, <1>2, MainMeets
  <2>. QED BY <2>1 DEF Stored
<1>4. after = IF domain_of(packet) = <<>> THEN tracked
              ELSE [tracked EXCEPT ![key] = Rename(main_rules, key, tracked[key], domain_of(packet))]
  BY <1>0, <1>1 DEF process
<1>5. PICK made : made = Processed(Lookup(table, key, <<>>), key, packet)
  OBVIOUS
<1>6. made = IF domain_of(packet) = <<>> THEN flow
             ELSE Rename(main_rules, key, flow, domain_of(packet))
  BY <1>2, <1>5 DEF Processed
<1>7. after[key] = made
  BY <1>3, <1>4, <1>6
<1>8. DOMAIN after = DOMAIN table \cup {key}
      /\ \A ft \in DOMAIN table : ft # key => after[ft] = table[ft]
  BY <1>3, <1>4
<1>. QED BY <1>0, <1>5, <1>7, <1>8 DEF Stored

\* main's table and the processor's, after n packets, on the flow of packet i.
AgreeOn(table, processed, i, n) ==
  LET ft == FiveTupleOf(i)
  IN  /\ ft \in DOMAIN table <=> \E j \in FlowOf(i) : j <= n
      /\ ft \in DOMAIN processed <=> \E j \in FlowOf(i) : j <= n
      /\ ft \in DOMAIN table => Alike(table[ft], processed[ft], i)

LEMMA AgreeOnOneMore ==
  ASSUME packets \in Captures, NEW i \in DOMAIN packets, Comparable(i),
         NEW n \in 1 .. Len(packets), NEW table, NEW processed,
         AgreeOn(table, processed, i, n - 1), NEW table2, NEW processed2,
         table2 = (IF packets[n].dst_port # 0 /\ FiveTupleOf(n) # NoFlow
                   THEN get_or_create_flow(main_rules, table, FiveTupleOf(n), packets[n].sni)
                   ELSE table),
         processed2 = Advanced(processed, packets[n])
  PROVE  AgreeOn(table2, processed2, i, n)
<1>. DEFINE ft == FiveTupleOf(i)
            key == FiveTupleOf(n)
<1>1. /\ DOMAIN packets = 1 .. Len(packets) /\ Len(packets) \in Nat
      /\ FlowOf(i) \subseteq 1 .. Len(packets) /\ n \in Nat
      /\ ft # NoFlow
  BY CaptureFacts DEF FlowOf, Comparable
<1>2. /\ ft \in DOMAIN table <=> \E j \in FlowOf(i) : j <= n - 1
      /\ ft \in DOMAIN processed <=> \E j \in FlowOf(i) : j <= n - 1
      /\ ft \in DOMAIN table => Alike(table[ft], processed[ft], i)
  BY DEF AgreeOn
<1>3. key = create_five_tuple(packets[n])
  BY DEF FiveTupleOf
<1>4. CASE key # ft
  <2>1. n \notin FlowOf(i)
    BY <1>4 DEF FlowOf
  <2>2. (\E j \in FlowOf(i) : j <= n) <=> \E j \in FlowOf(i) : j <= n - 1
    BY <1>1, <2>1
  <2>. HIDE DEF ft, key
  <2>3. /\ ft \in DOMAIN table2 <=> ft \in DOMAIN table
        /\ ft \in DOMAIN table => table2[ft] = table[ft]
    <3>1. CASE table2 = table
      BY <3>1
    <3>2. CASE table2 = get_or_create_flow(main_rules, table, key, packets[n].sni)
      <4>1. \E flow : Stored(table2, table, key, flow)
        BY <3>2, MainMeets
      <4>. QED BY <1>4, <4>1 DEF Stored
    <3>. QED BY <3>1, <3>2 DEF key
  <2>4. /\ ft \in DOMAIN processed2 <=> ft \in DOMAIN processed
        /\ ft \in DOMAIN processed => processed2[ft] = processed[ft]
    <3>1. CASE processed2 = processed
      BY <3>1
    <3>2. CASE processed2 = process(main_rules, processed, packets[n])
      <4>1. \E flow : Stored(processed2, processed, key, flow)
        BY <1>3, <3>2, ProcessorMeets
      <4>. QED BY <1>4, <4>1 DEF Stored
    <3>. QED BY <3>1, <3>2 DEF Advanced
  <2>. QED BY <1>2, <2>2, <2>3, <2>4 DEF AgreeOn, ft
<1>5. CASE key = ft
  <2>1. n \in FlowOf(i)
    BY <1>1, <1>5 DEF FlowOf
  <2>2. \E j \in FlowOf(i) : j <= n
    BY <1>1, <2>1
  <2>3. packets[n].dst_port # 0 /\ Processor!keyed(packets[n])
    <3>1. packets[i].dst_port # 0
      BY DEF Comparable
    <3>2. create_five_tuple(packets[n]) = create_five_tuple(packets[i])
          /\ create_five_tuple(packets[n]) # NoFlow
      BY <1>1, <1>5 DEF FiveTupleOf
    <3>3. /\ create_five_tuple(packets[n]).dst_port = packets[n].dst_port
          /\ create_five_tuple(packets[i]).dst_port = packets[i].dst_port
      BY <3>2 DEF create_five_tuple
    <3>4. Processor!keyed(packets[n])
      BY <3>2 DEF create_five_tuple, Processor!keyed
    <3>. QED BY <3>1, <3>2, <3>3, <3>4
  <2>4. /\ table2 = get_or_create_flow(main_rules, table, ft, packets[n].sni)
        /\ processed2 = process(main_rules, processed, packets[n])
    BY <1>1, <1>5, <2>3 DEF Advanced
  <2>. HIDE DEF ft, key
  <2>5. PICK f, g : /\ f = Lookup(table, ft, packets[n].sni)
                    /\ g = Lookup(processed, ft, <<>>)
    OBVIOUS
  <2>6. \/ Alike(f, g, i)
        \/ /\ f = NewFlow(packets[n].sni) /\ g = NewFlow(<<>>)
           /\ is_app_blocked(main_rules, UNKNOWN) => packets[n].sni = <<>>
    <3>1. CASE ft \in DOMAIN table
      BY <1>2, <2>5, <3>1 DEF Lookup
    <3>2. CASE ft \notin DOMAIN table
      <4>1. f = NewFlow(packets[n].sni) /\ g = NewFlow(<<>>)
        BY <1>2, <2>5, <3>2 DEF Lookup
      <4>2. \A j \in FlowOf(i) : n <= j
        BY <1>1, <1>2, <3>2
      <4>3. Min(FlowOf(i)) \in FlowOf(i) /\ Min(FlowOf(i)) <= n
        <5>1. FlowOf(i) \subseteq Nat /\ FlowOf(i) # {}
          BY <1>1, <2>1
        <5>. QED BY <2>1, <5>1, Least
      <4>4. Min(FlowOf(i)) = n
        BY <1>1, <4>2, <4>3
      <4>5. is_app_blocked(main_rules, UNKNOWN) => packets[Min(FlowOf(i))].sni = <<>>
        BY DEF Comparable, FlowOf
      <4>. QED BY <4>1, <4>4, <4>5
    <3>. QED BY <3>1, <3>2
  <2>7. Alike(Met(f, ft, packets[n].sni), Processed(g, ft, packets[n]), i)
    BY <2>1, <2>6, BothMeet DEF ft
  <2>8. Stored(table2, table, ft, Met(f, ft, packets[n].sni))
    BY <2>4, <2>5, MainMeets
  <2>9. Stored(processed2, processed, ft, Processed(g, ft, packets[n]))
    BY <1>3, <1>5, <2>4, <2>5, ProcessorMeets
  <2>. QED BY <2>2, <2>7, <2>8, <2>9 DEF AgreeOn, Stored, ft
<1>. QED BY <1>4, <1>5

\* The packets that main has analyzed.
Analysed == IF at = "analyze" THEN next - 1 ELSE Len(packets)

Agreeing == entry = "main" =>
  \A i \in DOMAIN packets :
    Comparable(i) => AgreeOn(flows, Processor!TableAfter[Analysed], i, Analysed)

LEMMA AgreeingInit == Init => Agreeing
<1>. SUFFICES ASSUME Init, entry = "main", NEW i \in DOMAIN packets
              PROVE  AgreeOn(flows, Processor!TableAfter[Analysed], i, Analysed)
  BY DEF Agreeing
<1>1. /\ packets \in Captures /\ Analysed = 0 /\ flows = <<>>
  BY DEF Init, Analysed
<1>2. Len(packets) \in Nat /\ FlowOf(i) \subseteq 1 .. Len(packets)
  BY <1>1, CaptureFacts DEF FlowOf
<1>3. Processor!TableAfter[0] = <<>>
  BY <1>2, TableAfterUnfolds
<1>. QED BY <1>1, <1>2, <1>3 DEF AgreeOn

LEMMA AgreeingStep == Inv /\ Agreeing /\ [Next]_vars => Agreeing'
<1>. SUFFICES ASSUME Inv, Agreeing, [Next]_vars, entry' = "main"
              PROVE  \A i \in DOMAIN packets' : Comparable(i)' =>
                       AgreeOn(flows, Processor!TableAfter[Analysed], i, Analysed)'
  BY DEF Agreeing
<1>1. /\ entry = "main" /\ UNCHANGED <<entry, packets>> /\ packets \in Captures
      /\ Len(packets) \in Nat /\ DOMAIN packets = 1 .. Len(packets)
      /\ next \in 1 .. Len(packets) + 1 /\ at # "decide"
  BY CaptureFacts
     DEF Inv, Places, Next, SkipPacket, Decide, AllDecided, AnalyzePacket, Summarise,
         NoPackets, WriteOutput, Emit, Finished, vars
<1>2. PICK T : T = Processor!TableAfter
  OBVIOUS
<1>3. Processor!TableAfter' = T
  BY <1>1, <1>2, TablesStay
<1>4. \A i : FiveTupleOf(i)' = FiveTupleOf(i) /\ FlowOf(i)' = FlowOf(i)
  <2>1. \A i : FiveTupleOf(i)' = FiveTupleOf(i)
    BY <1>1 DEF FiveTupleOf
  <2>. QED BY <1>1, <2>1 DEF FlowOf
<1>5. \A i : Comparable(i)' <=> Comparable(i)
  BY <1>1, <1>4 DEF Comparable
<1>6. \A f, g, i : Alike(f, g, i)' <=> Alike(f, g, i)
  BY <1>1, <1>4 DEF Alike
<1>7. PICK n, table : n = Analysed' /\ table = flows'
  OBVIOUS
<1>8. \A i : AgreeOn(flows, Processor!TableAfter[Analysed], i, Analysed)'
               <=> AgreeOn(table, T[n], i, n)
  BY <1>3, <1>4, <1>6, <1>7 DEF AgreeOn
<1>. SUFFICES ASSUME NEW i \in DOMAIN packets, Comparable(i)
              PROVE  AgreeOn(table, T[n], i, n)
  BY <1>1, <1>5, <1>8
<1>9. AgreeOn(flows, T[Analysed], i, Analysed)
  BY <1>1, <1>2 DEF Agreeing
<1>10. CASE AnalyzePacket
  <2>1. /\ at = "analyze" /\ next \in 1 .. Len(packets) /\ Analysed = next - 1 /\ n = next
        /\ table = (IF packets[next].dst_port # 0 /\ FiveTupleOf(next) # NoFlow
                    THEN get_or_create_flow(main_rules, flows, FiveTupleOf(next),
                                            packets[next].sni)
                    ELSE flows)
    BY <1>1, <1>7, <1>10 DEF AnalyzePacket, Reading, Analysed, rules, FiveTupleOf
  <2>2. T[next] = Advanced(T[next - 1], packets[next])
    BY <1>1, <1>2, <2>1, TableAfterUnfolds
  <2>. QED BY <1>1, <1>9, <2>1, <2>2, AgreeOnOneMore
<1>11. CASE ~AnalyzePacket
  <2>1. CASE SkipPacket \/ Decide
    BY <1>1, <2>1 DEF Inv, Places, SkipPacket, Decide, Reading
  <2>2. CASE AllDecided
    BY <1>1, <2>2 DEF Inv, Places, AllDecided, EndOf
  <2>3. CASE Summarise
    <3>1. /\ at = "analyze" /\ next > Len(packets) /\ at' # "analyze"
          /\ flows' = flows /\ packets' = packets
      BY <2>3 DEF Summarise, EndOf
    <3>2. next - 1 = Len(packets)
      BY <3>1, CaptureFacts DEF Inv, Places
    <3>. QED BY <1>7, <1>9, <3>1, <3>2 DEF Analysed
  <2>4. CASE NoPackets \/ WriteOutput \/ Emit
    <3>1. flows' = flows /\ Analysed' = Analysed
      BY <2>4 DEF NoPackets, WriteOutput, Emit, Analysed
    <3>. QED BY <1>7, <1>9, <3>1
  <2>5. CASE UNCHANGED vars
    <3>1. flows' = flows /\ Analysed' = Analysed
      BY <2>5 DEF vars, Analysed
    <3>. QED BY <1>7, <1>9, <3>1
  <2>. QED BY <1>1, <1>11, <2>1, <2>2, <2>3, <2>4, <2>5 DEF Next, Finished
<1>. QED BY <1>10, <1>11

\* Steps that track nothing.
LEMMA OtherPreserves ==
  Inv /\ (SkipPacket \/ AllDecided \/ Summarise \/ NoPackets \/ WriteOutput \/ Emit
          \/ UNCHANGED vars) => Inv'
<1>. SUFFICES ASSUME Inv, \/ SkipPacket \/ AllDecided \/ Summarise \/ NoPackets
                          \/ WriteOutput \/ Emit \/ UNCHANGED vars
              PROVE  Inv'
  OBVIOUS
<1>1. UNCHANGED <<entry, packets, flows, engine, protocol_count, sni_domains,
                  suspicious_domains>>
  BY DEF SkipPacket, AllDecided, Summarise, NoPackets, WriteOutput, Emit, vars, analyzer
<1>2. FlowsOK(flows)'
  BY <1>1 DEF Inv, FlowsOK, Settled, Asked, rules
<1>3. Places'
  BY <1>1, CaptureFacts
     DEF Inv, Places, SkipPacket, AllDecided, Summarise, NoPackets, WriteOutput, Emit,
         vars, Reading, EndOf
<1>4. Known'
  <2>1. ASSUME NEW i \in DOMAIN packets, at' = "decide" => i < next', FiveTupleOf(i) # NoFlow,
               entry = "DPIEngine"
        PROVE  at = "decide" => i < next
    <3>1. i \in Nat /\ next \in Nat /\ Len(packets) \in Nat /\ i <= Len(packets)
      BY CaptureFacts DEF Inv, Places
    <3>. QED BY <2>1, <3>1 DEF SkipPacket, AllDecided, Summarise, NoPackets, WriteOutput,
                Emit, vars, Reading, EndOf, FiveTupleOf
  <2>2. ASSUME NEW i \in DOMAIN packets
        PROVE  FiveTupleOf(i)' = FiveTupleOf(i)
    BY <1>1 DEF FiveTupleOf
  <2>. QED BY <1>1, <2>1, <2>2 DEF Inv, Known
<1>5. Counts'
  <2>1. /\ at' = "decide" => at = "decide"
        /\ at' = "analyze" => \/ at = "analyze" /\ next' = next
                              \/ at = "decide" /\ next' = 1
    BY DEF SkipPacket, AllDecided, Summarise, NoPackets, WriteOutput, Emit, vars, Reading,
           EndOf, Inv, Places
  <2>. QED BY <1>1, <2>1 DEF Inv, Counts, engine
<1>6. Written'
  <2>1. Unblocked' = Unblocked
    BY <1>1 DEF Unblocked, is_packet_blocked
  <2>2. CASE SkipPacket \/ AllDecided \/ Summarise
    BY <2>2, LoopKeepsWritten
       DEF SkipPacket, AllDecided, Summarise, Reading, EndOf, Inv, Places
  <2>3. CASE NoPackets
    BY <2>3 DEF NoPackets, Inv, Written
  <2>4. CASE WriteOutput
    <3>1. output' = Unblocked /\ at' = "emit" /\ events = None /\ events' = events
          /\ entry' = "main"
      BY <2>4 DEF WriteOutput, Unblocked, Inv, Places, Written
    <3>. QED BY <2>1, <3>1 DEF Written
  <2>5. CASE Emit
    <3>1. /\ at = "emit" /\ at' = "done" /\ output' = output
          /\ events' = [j \in 1 .. Min({Len(packets), Len(given_decisions)}) |->
                          Event(packets[j], given_decisions[j])]
      BY <2>5 DEF Emit
    <3>2. entry = "main" => events' = [j \in DOMAIN packets |->
                                         Event(packets[j], given_decisions[j])]
      <4>. SUFFICES ASSUME entry = "main"
                    PROVE  1 .. Min({Len(packets), Len(given_decisions)}) = DOMAIN packets
        BY <3>1
      <4>1. Len(packets) \in Nat /\ DOMAIN packets = 1 .. Len(packets)
        BY CaptureFacts DEF Inv, Places
      <4>2. DOMAIN given_decisions = 1 .. Len(packets)
        BY <4>1 DEF given_decisions
      <4>3. Len(given_decisions) = Len(packets)
        <5>. HIDE DEF given_decisions
        <5>1. given_decisions = [j \in 1 .. Len(packets) |-> given_decisions[j]]
          BY <4>1 DEF given_decisions
        <5>. QED BY <4>1, <4>2, <5>1
      <4>4. Min({Len(packets)}) \in {Len(packets)}
        BY <4>1, Least
      <4>. QED BY <4>1, <4>3, <4>4
    <3>3. /\ given_decisions' = given_decisions
          /\ \A packet, decision : Event(packet, decision)' = Event(packet, decision)
      BY <1>1 DEF given_decisions, is_packet_blocked, Event, engine
    <3>4. entry = "main" => events' = [j \in DOMAIN packets' |->
                                         Event(packets[j], given_decisions[j])']
      BY <1>1, <3>2, <3>3
    <3>. QED BY <1>1, <2>1, <3>1, <3>4 DEF Inv, Written
  <2>6. CASE UNCHANGED vars
    <3>1. /\ given_decisions' = given_decisions
          /\ \A packet, decision : Event(packet, decision)' = Event(packet, decision)
      BY <1>1 DEF given_decisions, is_packet_blocked, Event, engine
    <3>. QED BY <1>1, <2>1, <2>6, <3>1 DEF Inv, Written, vars
  <2>. QED BY <2>2, <2>3, <2>4, <2>5, <2>6
<1>. QED BY <1>2, <1>3, <1>4, <1>5, <1>6 DEF Inv

LEMMA DecidedInit == Init => Decided /\ Forwarded
<1>. SUFFICES ASSUME Init, entry = "DPIEngine" PROVE Decided /\ Forwarded
  BY DEF Decided, Forwarded
<1>1. /\ packets \in Captures /\ Reached = 0
      /\ decisions = <<>> /\ forwarded_packets = <<>> /\ flows = <<>>
  BY DEF Init, Reached
<1>2. Len(packets) \in Nat /\ DOMAIN packets = 1 .. Len(packets)
  BY <1>1, CaptureFacts
<1>3. TrackedTo(0) = {} /\ Rank(0) = 0
  <2>1. TrackedTo(0) = {}
    BY <1>2 DEF TrackedTo
  <2>. QED BY <2>1, FS_EmptySet DEF Rank
<1>4. DOMAIN flows = {} /\ Range(forwarded_packets) = {}
  BY <1>1 DEF Range
<1>. QED BY <1>1, <1>3, <1>4 DEF Decided, Forwarded

\* The loop decides on one more packet; the decisions made before stay.
OneMoreDecided(n, verdict) ==
  /\ at = "decide" /\ next = n /\ n \in 1 .. Len(packets) /\ n \in Nat
  /\ FiveTupleOf(n) # NoFlow
  /\ flows' = get_or_create_flow(rules, flows, FiveTupleOf(n), packets[n].sni)
  /\ verdict \in {"FORWARD", "DROP"}
  /\ verdict = "DROP" <=> flows'[FiveTupleOf(n)].blocked
  /\ forwarded_packets' = IF verdict = "DROP" THEN forwarded_packets
                          ELSE Append(forwarded_packets, n)
  /\ Reached = n - 1 /\ Reached' = n
  /\ \A i : /\ FiveTupleOf(i)' = FiveTupleOf(i) /\ TrackedTo(i)' = TrackedTo(i)
            /\ Rank(i)' = Rank(i)
  /\ TrackedTo(n) = TrackedTo(n - 1) \cup {n}
  /\ Len(decisions') = Rank(n)
  /\ DecisionOn(n)' = verdict
  /\ \A i \in TrackedTo(n - 1) : DecisionOn(i)' = DecisionOn(i) /\ i \in 1 .. n - 1

LEMMA OneMoreDecision ==
  ASSUME Inv, Decided, Decide, entry = "DPIEngine", NEW n, n = next
  PROVE  OneMoreDecided(n, decide(flows', packets[n]))
<1>. DEFINE ft == FiveTupleOf(n)
            verdict == decide(flows', packets[n])
<1>1. /\ at = "decide" /\ at' = "decide" /\ ft # NoFlow /\ packets' = packets
      /\ next = n /\ next' = n + 1
      /\ flows' = get_or_create_flow(rules, flows, ft, packets[n].sni)
      /\ decisions' = Append(decisions, verdict)
      /\ forwarded_packets' = IF verdict = "DROP" THEN forwarded_packets
                              ELSE Append(forwarded_packets, n)
  BY DEF Decide, Reading, FiveTupleOf, decide
<1>2. /\ packets \in Captures /\ n \in 1 .. Len(packets) /\ Len(packets) \in Nat
      /\ DOMAIN packets = 1 .. Len(packets)
  BY CaptureFacts DEF Inv, Places, Decide, Reading
<1>3. Reached = n - 1 /\ Reached' = n
  BY <1>1, <1>2 DEF Reached
<1>4. \A i : /\ FiveTupleOf(i)' = FiveTupleOf(i) /\ TrackedTo(i)' = TrackedTo(i)
             /\ Rank(i)' = Rank(i)
  <2>1. \A i : FiveTupleOf(i)' = FiveTupleOf(i)
    BY <1>1 DEF FiveTupleOf
  <2>2. \A i : TrackedTo(i)' = TrackedTo(i)
    BY <1>1, <2>1 DEF TrackedTo
  <2>. QED BY <2>1, <2>2 DEF Rank
<1>5. /\ TrackedTo(n) = TrackedTo(n - 1) \cup {n}
      /\ Rank(n) = Rank(n - 1) + 1 /\ Rank(n - 1) \in Nat
  BY <1>1, <1>2, Ranks DEF ft
<1>6. Len(decisions) = Rank(n - 1) /\ decisions \in Seq({"FORWARD", "DROP"})
  BY <1>3 DEF Decided, Inv, Counts
<1>7. verdict \in {"FORWARD", "DROP"} /\ (verdict = "DROP" <=> flows'[ft].blocked)
  BY DEF decide, FiveTupleOf
<1>. HIDE DEF verdict, ft
<1>8. Len(decisions') = Rank(n) /\ DecisionOn(n)' = verdict
  BY <1>1, <1>4, <1>5, <1>6, <1>7 DEF DecisionOn
<1>9. ASSUME NEW i \in TrackedTo(n - 1)
      PROVE  DecisionOn(i)' = DecisionOn(i) /\ i \in 1 .. n - 1
  <2>1. n - 1 \in 1 .. Len(packets)
    BY <1>2, <1>9 DEF TrackedTo
  <2>2. Rank(i) \in 1 .. Len(decisions) /\ i \in 1 .. n - 1
    BY <1>2, <1>6, <1>9, <2>1, Ranks
  <2>3. decisions'[Rank(i)] = decisions[Rank(i)]
    BY <1>1, <1>6, <1>7, <2>2
  <2>. QED BY <1>4, <2>2, <2>3 DEF DecisionOn
<1>. QED BY <1>1, <1>2, <1>3, <1>4, <1>5, <1>7, <1>8, <1>9 DEF OneMoreDecided, ft, verdict

LEMMA DecideDecides == Inv /\ Decided /\ Decide => Decided'
<1>. SUFFICES ASSUME Inv, Decided, Decide, entry = "DPIEngine" PROVE Decided'
  BY DEF Decided, Decide
<1>1. PICK n, verdict : OneMoreDecided(n, verdict)
  BY OneMoreDecision
<1>. DEFINE ft == FiveTupleOf(n)
<1>2. /\ Reached = n - 1 /\ Reached' = n
      /\ \A i : FiveTupleOf(i)' = FiveTupleOf(i) /\ TrackedTo(i)' = TrackedTo(i)
                                                 /\ Rank(i)' = Rank(i)
  BY <1>1 DEF OneMoreDecided
<1>3. /\ n \in 1 .. Len(packets) /\ n \in Nat
      /\ TrackedTo(n) = TrackedTo(n - 1) \cup {n}
      /\ \A i \in TrackedTo(n - 1) : i \in 1 .. n - 1 /\ i \in DOMAIN packets
  BY <1>1 DEF OneMoreDecided, TrackedTo
<1>4. /\ Len(decisions') = Rank(n) /\ DecisionOn(n)' = verdict
      /\ \A i \in TrackedTo(n - 1) : DecisionOn(i)' = DecisionOn(i)
      /\ verdict \in {"FORWARD", "DROP"} /\ (verdict = "DROP" <=> flows'[ft].blocked)
  BY <1>1 DEF OneMoreDecided
<1>5. /\ DOMAIN flows' = DOMAIN flows \cup {ft}
      /\ \A f \in DOMAIN flows \ {ft} : flows'[f] = flows[f]
      /\ ft \in DOMAIN flows => (flows[ft].blocked => flows'[ft].blocked)
  <2>1. FlowsOK(flows) /\ packets[n].sni \in Seq(Char)
    BY <1>3, CaptureFacts DEF Inv, Places
  <2>2. Tracks(flows, ft, packets[n].sni, flows')
    BY <1>1, <2>1, TrackedTable DEF OneMoreDecided
  <2>. QED BY <2>2 DEF Tracks
<1>6. ASSUME NEW i \in TrackedTo(n - 1), FiveTupleOf(i) = ft, DecisionOn(i) = "DROP"
      PROVE  flows[ft].blocked /\ ft \in DOMAIN flows
  <2>1. ft \in DOMAIN flows
    BY <1>1, <1>3, <1>6 DEF Inv, Known, OneMoreDecided
  <2>2. PICK k \in TrackedTo(n - 1) : AsLastOf(ft, k)
    BY <1>2, <2>1 DEF Decided
  <2>3. i <= k /\ FiveTupleOf(k) = ft /\ (flows[ft].blocked <=> DecisionOn(k) = "DROP")
    BY <1>2, <1>6, <2>2 DEF AsLastOf
  <2>4. i = k \/ i < k
    BY <1>3, <2>2, <2>3
  <2>5. DecisionOn(k) = "DROP"
    BY <1>2, <1>6, <2>3, <2>4 DEF Decided
  <2>. QED BY <2>1, <2>3, <2>5
<1>7. ASSUME NEW i \in TrackedTo(n), NEW j \in TrackedTo(n), i < j,
             FiveTupleOf(i) = FiveTupleOf(j), DecisionOn(i)' = "DROP"
      PROVE  DecisionOn(j)' = "DROP"
  <2>1. i \in TrackedTo(n - 1)
    BY <1>3, <1>7
  <2>2. CASE j \in TrackedTo(n - 1)
    BY <1>2, <1>4, <1>7, <2>1, <2>2 DEF Decided
  <2>3. CASE j = n
    <3>1. flows[ft].blocked /\ ft \in DOMAIN flows
      BY <1>4, <1>6, <1>7, <2>1, <2>3
    <3>. QED BY <1>4, <1>5, <2>3, <3>1
  <2>. QED BY <1>3, <2>2, <2>3
<1>8. ASSUME NEW f \in DOMAIN flows'
      PROVE  \E i \in TrackedTo(n) : AsLastOf(f, i)'
  <2>1. CASE f = ft
    <3>1. \A j \in TrackedTo(n) : j <= n
      BY <1>3
    <3>2. AsLastOf(f, n)'
      BY <1>2, <1>4, <2>1, <3>1 DEF AsLastOf
    <3>. QED BY <1>3, <3>2
  <2>2. CASE f # ft
    <3>1. f \in DOMAIN flows /\ flows'[f] = flows[f]
      BY <1>5, <1>8, <2>2
    <3>2. PICK i \in TrackedTo(n - 1) : AsLastOf(f, i)
      BY <1>2, <3>1 DEF Decided
    <3>3. AsLastOf(f, i)'
      BY <1>2, <1>3, <1>4, <2>2, <3>1, <3>2 DEF AsLastOf
    <3>. QED BY <1>3, <3>3
  <2>. QED BY <2>1, <2>2
<1>. QED BY <1>2, <1>4, <1>7, <1>8 DEF Decided

LEMMA DecideForwards == Inv /\ Decided /\ Forwarded /\ Decide => Forwarded'
<1>. SUFFICES ASSUME Inv, Decided, Forwarded, Decide, entry = "DPIEngine" PROVE Forwarded'
  BY DEF Forwarded, Decide
<1>1. PICK n, verdict : OneMoreDecided(n, verdict)
  BY OneMoreDecision
<1>2. /\ Reached = n - 1 /\ Reached' = n /\ n \in Nat /\ verdict \in {"FORWARD", "DROP"}
      /\ \A i : TrackedTo(i)' = TrackedTo(i)
      /\ TrackedTo(n) = TrackedTo(n - 1) \cup {n} /\ DecisionOn(n)' = verdict
      /\ \A i \in TrackedTo(n - 1) : DecisionOn(i)' = DecisionOn(i) /\ i \in 1 .. n - 1
      /\ forwarded_packets' = IF verdict = "DROP" THEN forwarded_packets
                              ELSE Append(forwarded_packets, n)
  BY <1>1 DEF OneMoreDecided
<1>3. forwarded_packets \in Seq(DOMAIN packets) /\ n \in DOMAIN packets
  BY <1>1, CaptureFacts DEF Inv, Places, Counts, OneMoreDecided
<1>4. Range(forwarded_packets) = {i \in TrackedTo(n - 1) : DecisionOn(i) = "FORWARD"}
      /\ \A j, k \in DOMAIN forwarded_packets :
           j < k => forwarded_packets[j] < forwarded_packets[k]
  BY <1>2 DEF Forwarded
<1>5. {i \in TrackedTo(n) : DecisionOn(i)' = "FORWARD"} =
        Range(forwarded_packets) \cup (IF verdict = "DROP" THEN {} ELSE {n})
  BY <1>2, <1>4
<1>6. CASE verdict = "DROP"
  BY <1>2, <1>4, <1>5, <1>6 DEF Forwarded
<1>7. CASE verdict # "DROP"
  <2>. DEFINE m == Len(forwarded_packets)
  <2>1. m \in Nat /\ DOMAIN forwarded_packets = 1 .. m
    BY <1>3
  <2>2. /\ DOMAIN forwarded_packets' = 1 .. m + 1
        /\ forwarded_packets'[m + 1] = n
        /\ \A j \in 1 .. m : forwarded_packets'[j] = forwarded_packets[j]
    BY <1>2, <1>3, <1>7
  <2>. HIDE DEF m
  <2>3. Range(forwarded_packets') = Range(forwarded_packets) \cup {n}
    <3>1. 1 .. m + 1 = (1 .. m) \cup {m + 1}
      BY <2>1
    <3>. QED BY <2>1, <2>2, <3>1 DEF Range
  <2>4. \A j \in 1 .. m : forwarded_packets[j] < n
    <3>1. \A j \in 1 .. m : forwarded_packets[j] \in Range(forwarded_packets)
      BY <2>1 DEF Range
    <3>2. \A i \in Range(forwarded_packets) : i < n
      BY <1>2, <1>4
    <3>. QED BY <3>1, <3>2
  <2>5. ASSUME NEW j \in 1 .. m + 1, NEW k \in 1 .. m + 1, j < k
        PROVE  forwarded_packets'[j] < forwarded_packets'[k]
    <3>1. j \in 1 .. m /\ (k \in 1 .. m \/ k = m + 1)
      BY <2>1, <2>5
    <3>. QED BY <1>4, <2>1, <2>2, <2>4, <2>5, <3>1
  <2>. QED BY <1>2, <1>5, <1>7, <2>2, <2>3, <2>5 DEF Forwarded
<1>. QED BY <1>6, <1>7

\* The steps that decide on nothing keep what was decided.
LEMMA OthersKeepDecided ==
  ASSUME Inv, Decided, Forwarded,
         \/ SkipPacket \/ AllDecided \/ AnalyzePacket \/ Summarise \/ NoPackets
         \/ WriteOutput \/ Emit \/ UNCHANGED vars
  PROVE  Decided' /\ Forwarded'
<1>. SUFFICES ASSUME entry = "DPIEngine" PROVE Decided' /\ Forwarded'
  BY DEF Decided, Forwarded, SkipPacket, AllDecided, AnalyzePacket, Summarise, NoPackets,
         WriteOutput, Emit, vars
<1>1. UNCHANGED <<entry, packets, decisions, forwarded_packets>>
  BY DEF SkipPacket, AllDecided, AnalyzePacket, Summarise, NoPackets, WriteOutput, Emit,
         vars, engine
<1>2. /\ packets \in Captures /\ next \in 1 .. Len(packets) + 1 /\ Len(packets) \in Nat
      /\ DOMAIN packets = 1 .. Len(packets)
  BY CaptureFacts DEF Inv, Places
<1>3. \A i : /\ FiveTupleOf(i)' = FiveTupleOf(i) /\ TrackedTo(i)' = TrackedTo(i)
             /\ Rank(i)' = Rank(i) /\ DecisionOn(i)' = DecisionOn(i)
  <2>1. \A i : FiveTupleOf(i)' = FiveTupleOf(i)
    BY <1>1 DEF FiveTupleOf
  <2>2. \A i : TrackedTo(i)' = TrackedTo(i)
    BY <1>1, <2>1 DEF TrackedTo
  <2>3. \A i : Rank(i)' = Rank(i)
    BY <2>2 DEF Rank
  <2>. QED BY <1>1, <2>1, <2>2, <2>3 DEF DecisionOn
<1>4. TrackedTo(Reached') = TrackedTo(Reached) /\ Rank(Reached') = Rank(Reached)
  <2>1. CASE SkipPacket
    <3>1. /\ Reached = next - 1 /\ Reached' = next /\ next \in 1 .. Len(packets)
          /\ FiveTupleOf(next) = NoFlow
      BY <1>2, <2>1 DEF SkipPacket, Reading, Reached, FiveTupleOf
    <3>. QED BY <1>2, <3>1, Ranks
  <2>2. CASE ~SkipPacket
    <3>1. Reached' = Reached
      BY <1>1, <1>2, <2>2
         DEF AllDecided, AnalyzePacket, Summarise, NoPackets, WriteOutput, Emit, vars,
             Reading, EndOf, Reached
    <3>. QED BY <3>1
  <2>. QED BY <2>1, <2>2
<1>5. /\ DOMAIN flows' = DOMAIN flows
      /\ \A ft \in DOMAIN flows : flows'[ft].blocked = flows[ft].blocked
  <2>1. CASE AnalyzePacket
    BY <2>1, AnalysisSettled DEF SameFlow
  <2>2. CASE ~AnalyzePacket
    BY <2>2 DEF SkipPacket, AllDecided, Summarise, NoPackets, WriteOutput, Emit, vars
  <2>. QED BY <2>1, <2>2
<1>6. ASSUME NEW ft \in DOMAIN flows, NEW i, AsLastOf(ft, i) PROVE AsLastOf(ft, i)'
  BY <1>3, <1>4, <1>5, <1>6 DEF AsLastOf
<1>7. Decided'
  BY <1>1, <1>3, <1>4, <1>5, <1>6 DEF Decided
<1>8. Forwarded'
  BY <1>1, <1>3, <1>4 DEF Forwarded
<1>. QED BY <1>7, <1>8

-----------------------------------------------------------------------------
(* The analyzer's statistics.                                              *)

\* The cardinality that the statistics take is the one of FiniteSets.
LEMMA SameCardinality == \A S : Statistics!Cardinality(S) = Cardinality(S)
  BY DEF Statistics!Cardinality, Cardinality

\* The bag of one list after another is the sum of theirs.
LEMMA ToBagOfConcat ==
  ASSUME NEW S, NEW s \in Seq(S), NEW t \in Seq(S)
  PROVE  Statistics!ToBag(s \o t) = Statistics!ToBag(s) (+) Statistics!ToBag(t)
<1>1. PICK u : u = s \o t
  OBVIOUS
<1>2. PICK a, b : a = Statistics!ToBag(s) /\ b = Statistics!ToBag(t)
  OBVIOUS
<1>3. \A v : Statistics!Range(v) = Range(v)
  BY DEF Statistics!Range, Range
<1>4. ASSUME NEW v PROVE Statistics!ToBag(v) = [x \in Range(v) |-> Cardinality(Positions(x, v))]
  <2>1. Statistics!ToBag(v) = [x \in Statistics!Range(v) |-> Cardinality(Positions(x, v))]
    BY SameCardinality DEF Statistics!ToBag, Positions
  <2>. QED BY <1>3, <2>1
<1>5. /\ DOMAIN a = Range(s) /\ \A x \in Range(s) : a[x] = Cardinality(Positions(x, s))
      /\ DOMAIN b = Range(t) /\ \A x \in Range(t) : b[x] = Cardinality(Positions(x, t))
  BY <1>2, <1>4
<1>6. Range(u) = Range(s) \cup Range(t)
  BY <1>1, RangeOfConcat
<1>7. ASSUME NEW x
      PROVE  Cardinality(Positions(x, u)) = (IF x \in DOMAIN a THEN a[x] ELSE 0)
                                        + (IF x \in DOMAIN b THEN b[x] ELSE 0)
  <2>1. /\ Cardinality(Positions(x, u)) = Cardinality(Positions(x, s)) + Cardinality(Positions(x, t))
        /\ Cardinality(Positions(x, s)) \in Nat /\ Cardinality(Positions(x, t)) \in Nat
        /\ x \notin Range(s) => Cardinality(Positions(x, s)) = 0
        /\ x \notin Range(t) => Cardinality(Positions(x, t)) = 0
    BY <1>1, CountOfConcat
  <2>2. Cardinality(Positions(x, s)) = IF x \in DOMAIN a THEN a[x] ELSE 0
    BY <1>5, <2>1
  <2>3. Cardinality(Positions(x, t)) = IF x \in DOMAIN b THEN b[x] ELSE 0
    BY <1>5, <2>1
  <2>. QED BY <2>1, <2>2, <2>3
<1>8. Statistics!ToBag(u) = [x \in DOMAIN a \cup DOMAIN b |->
                               (IF x \in DOMAIN a THEN a[x] ELSE 0)
                               + (IF x \in DOMAIN b THEN b[x] ELSE 0)]
  BY <1>4, <1>5, <1>6, <1>7
<1>. QED BY <1>1, <1>2, <1>8 DEF (+)

\* The host that the analyzer takes from a line.
HostAt(payload, line) == Statistics!AnalyzerHost(payload.headers[line].rest)

\* The hosts of a text's lines.
LEMMA HostsOfLines ==
  ASSUME NEW payload, NEW S,
         Len(payload.headers) \in Nat, DOMAIN payload.headers = 1 .. Len(payload.headers),
         \A k \in DOMAIN payload.headers : HostAt(payload, k) \in S
  PROVE  /\ Statistics!HostsIn(payload) \in Seq(S)
         /\ \A k \in Statistics!LinesOf(payload, {"Host:"}) :
              HostAt(payload, k) \in Range(Statistics!HostsIn(payload))
<1>. DEFINE lines == Statistics!LinesOf(payload, {"Host:"})
            seqs == [k \in DOMAIN payload.headers |->
                       IF k \in lines THEN <<HostAt(payload, k)>> ELSE <<>>]
<1>1. lines \subseteq DOMAIN payload.headers
  BY DEF Statistics!LinesOf
<1>2. Statistics!HostsIn(payload) = FlattenSeq(seqs)
  <2>1. \A s : Statistics!FlattenSeq(s) = FlattenSeq(s)
    BY DEF Statistics!FlattenSeq, FlattenSeq
  <2>. QED BY <2>1 DEF Statistics!HostsIn, HostAt
<1>. HIDE DEF lines
<1>3. \A v \in S : <<v>> \in Seq(S) /\ Range(<<v>>) = {v}
  BY DEF Range
<1>4. \A k \in DOMAIN payload.headers : seqs[k] \in Seq(S)
  BY <1>3
<1>5. seqs \in Seq(Seq(S))
  <2>. HIDE DEF seqs
  <2>1. DOMAIN seqs = 1 .. Len(payload.headers) /\ seqs = [k \in DOMAIN seqs |-> seqs[k]]
    BY DEF seqs
  <2>. QED BY <1>4, <2>1
<1>6. \A k \in lines : Range(seqs[k]) = {HostAt(payload, k)} /\ k \in DOMAIN seqs
  BY <1>1, <1>3
<1>. HIDE DEF seqs
<1>7. /\ FlattenSeq(seqs) \in Seq(S)
      /\ \A k \in lines : Range(seqs[k]) \subseteq Range(FlattenSeq(seqs))
  <2>1. PICK R : R = S \X S
    OBVIOUS
  <2>2. \A s \in Seq(S) : Range(s) \subseteq S
    BY DEF Range
  <2>3. \A j \in DOMAIN seqs : seqs[j] \in Seq(S) /\ Range(seqs[j]) \subseteq S
    BY <1>5, <2>2
  <2>4. \A j \in DOMAIN seqs : Ordered(R, seqs[j])
    BY <2>1, <2>3 DEF Ordered
  <2>5. \A i, j \in DOMAIN seqs :
          i < j => \A x \in Range(seqs[i]), y \in Range(seqs[j]) : <<x, y>> \in R
    BY <2>1, <2>3
  <2>6. /\ FlattenSeq(seqs) \in Seq(S)
        /\ Range(FlattenSeq(seqs)) = UNION {Range(seqs[j]) : j \in DOMAIN seqs}
    BY <1>5, <2>4, <2>5, Flattened
  <2>. QED BY <1>6, <2>6
<1>. QED BY <1>2, <1>6, <1>7 DEF lines

LEMMA Services ==
  /\ 443 \in DOMAIN Statistics!ServiceOf
  /\ \A p, q \in DOMAIN Statistics!ServiceOf :
        Statistics!ServiceOf[p] = Statistics!ServiceOf[q] => p = q
  BY DEF Statistics!ServiceOf

\* The first line of CountersAddUp, by port: a service counts as often as its port.
PortTallies ==
  /\ https_packet_count \in Nat
  /\ https_packet_count = Statistics!Times(443, destination_port_count)
  /\ \A service \in DOMAIN service_count :
       \E port \in DOMAIN Statistics!ServiceOf : Statistics!ServiceOf[port] = service
  /\ \A port \in DOMAIN Statistics!ServiceOf :
       Statistics!Times(Statistics!ServiceOf[port], service_count)
         = Statistics!Times(port, destination_port_count)

Seconds == {packets[k].payload.second : k \in DOMAIN packets}

MessageTallies ==
  /\ http_paths \in Seq(Seconds) /\ http_packet_count \in Nat
  /\ http_method_count \in [{"GET", "POST"} -> Nat]
  /\ Statistics!MessagesAddUp

HostValues == UNION {{HostAt(packets[k].payload, line) :
                    line \in DOMAIN packets[k].payload.headers} : k \in DOMAIN packets}

HostTallies ==
  /\ http_hosts \in Seq(HostValues) /\ http_host_count = Statistics!ToBag(http_hosts)
  /\ \A k \in Statistics!Seen :
       \A line \in Statistics!LinesOf(packets[k].payload, {"Host:"}) :
         HostAt(packets[k].payload, line) \in Range(http_hosts)

Tallies == PortTallies /\ MessageTallies /\ HostTallies

LEMMA TalliesInit == Init => Tallies
<1>. SUFFICES ASSUME Init PROVE Tallies
  OBVIOUS
<1>1. analysed = 1
  BY CaptureFacts DEF Init, analysed
<1>2. Statistics!Seen = {} /\ \A starts : Statistics!Starting(starts) = {}
  BY <1>1 DEF Statistics!Seen, Statistics!Starting
<1>3. PortTallies
  BY DEF Init, Statistics!Init, PortTallies, Statistics!Times, Statistics!EmptyBag,
         Statistics!SetToBag
<1>4. Statistics!Cardinality({}) = 0
  BY SameCardinality, FS_EmptySet
<1>5. MessageTallies
  <2>1. PICK paths : paths = http_paths
    OBVIOUS
  <2>2. paths \in Seq(Seconds) /\ Len(paths) = 0
    BY <2>1 DEF Init, Statistics!Init
  <2>3. http_method_count = [method \in {"GET", "POST"} |-> 0]
    BY DEF Init, Statistics!Init
  <2>4. http_packet_count = 0 /\ http_response_count = 0
        /\ http_status_codes = [code \in {} |-> 0]
    BY DEF Init, Statistics!Init, Statistics!EmptyBag, Statistics!SetToBag
  <2>5. [code \in {packets[k].payload.second : k \in {}} \ {None} |->
           Statistics!Cardinality(Statistics!Responses(code))] = [code \in {} |-> 0]
    OBVIOUS
  <2>6. /\ Len(http_paths) = http_method_count["GET"] + http_method_count["POST"]
        /\ http_packet_count = Len(http_paths) + 0
    BY <2>1, <2>2, <2>3, <2>4
  <2>7. /\ Statistics!Cardinality(Statistics!Starting({"PUT", "DELETE"})) = 0
        /\ Statistics!Cardinality(Statistics!Starting({"HTTP/"})) = 0
    BY <1>2, <1>4
  <2>8. http_status_codes =
          [code \in {packets[k].payload.second : k \in Statistics!Starting({"HTTP/"})} \ {None} |->
             Statistics!Cardinality(Statistics!Responses(code))]
    BY <1>2, <2>4, <2>5
  <2>9. Statistics!MessagesAddUp
    BY <2>4, <2>6, <2>7, <2>8 DEF Statistics!MessagesAddUp
  <2>. QED BY <2>1, <2>2, <2>3, <2>4, <2>9 DEF MessageTallies
<1>6. HostTallies
  <2>1. PICK empty : empty = <<>>
    OBVIOUS
  <2>2. empty \in Seq(HostValues) /\ DOMAIN empty = {}
    BY <2>1
  <2>3. Statistics!ToBag(empty) = Statistics!EmptyBag
    BY <2>2 DEF Statistics!ToBag, Statistics!Range, Statistics!EmptyBag, Statistics!SetToBag
  <2>. QED BY <1>2, <2>1, <2>2, <2>3 DEF Init, Statistics!Init, HostTallies
<1>. QED BY <1>3, <1>5, <1>6 DEF Tallies

\* A counter after one more.
LEMMA TimesAfter ==
  ASSUME NEW count, NEW key
  PROVE  /\ Statistics!Times(key, Statistics!BagAdd(count, key))
              = Statistics!Times(key, count) + 1
         /\ \A k : k # key => Statistics!Times(k, Statistics!BagAdd(count, key))
                                = Statistics!Times(k, count)
         /\ DOMAIN Statistics!BagAdd(count, key) = DOMAIN count \cup {key}
<1>1. PICK after : after = Statistics!BagAdd(count, key)
  OBVIOUS
<1>2. /\ DOMAIN after = DOMAIN count \cup {key}
      /\ after[key] = (IF key \in DOMAIN count THEN count[key] + 1 ELSE 1)
      /\ \A k \in DOMAIN count : k # key => after[k] = count[k]
  BY <1>1 DEF Statistics!BagAdd
<1>3. Statistics!Times(key, after) = Statistics!Times(key, count) + 1
  BY <1>2 DEF Statistics!Times
<1>4. \A k : k # key => Statistics!Times(k, after) = Statistics!Times(k, count)
  BY <1>2 DEF Statistics!Times
<1>. QED BY <1>1, <1>2, <1>3, <1>4

LEMMA PortsCounted == PortTallies /\ Statistics!CountPorts => PortTallies'
<1>. SUFFICES ASSUME PortTallies, Statistics!CountPorts PROVE PortTallies'
  OBVIOUS
<1>. DEFINE Of == Statistics!ServiceOf
<1>1. PICK port : port = Statistics!Packet.dst_port
  OBVIOUS
<1>2. /\ destination_port_count' = Statistics!BagAdd(destination_port_count, port)
      /\ service_count' = IF port \in DOMAIN Of
                          THEN Statistics!BagAdd(service_count, Of[port]) ELSE service_count
      /\ https_packet_count' = https_packet_count + (IF port = 443 THEN 1 ELSE 0)
  BY <1>1 DEF Statistics!CountPorts, Statistics!OneIf
<1>3. \A count, k : Statistics!Times(k, count)' = Statistics!Times(k, count')
  BY DEF Statistics!Times
<1>4. PICK ports, services : ports = destination_port_count' /\ services = service_count'
  OBVIOUS
<1>5. /\ Statistics!Times(port, ports) = Statistics!Times(port, destination_port_count) + 1
      /\ \A k : k # port => Statistics!Times(k, ports)
                              = Statistics!Times(k, destination_port_count)
  <2>1. PICK count : count = destination_port_count
    OBVIOUS
  <2>2. ports = Statistics!BagAdd(count, port)
    BY <1>2, <1>4, <2>1
  <2>. HIDE DEF Of
  <2>3. /\ Statistics!Times(port, Statistics!BagAdd(count, port)) = Statistics!Times(port, count) + 1
        /\ \A k : k # port => Statistics!Times(k, Statistics!BagAdd(count, port))
                                = Statistics!Times(k, count)
    BY TimesAfter
  <2>4. Statistics!Times(port, ports) = Statistics!Times(port, count) + 1
    BY <2>2, <2>3
  <2>5. \A k : k # port => Statistics!Times(k, ports) = Statistics!Times(k, count)
    BY <2>2, <2>3
  <2>. QED BY <2>1, <2>4, <2>5
<1>6. https_packet_count' \in Nat /\ https_packet_count' = Statistics!Times(443, ports)
  <2>. HIDE DEF Of
  <2>1. /\ https_packet_count \in Nat
        /\ https_packet_count = Statistics!Times(443, destination_port_count)
    BY DEF PortTallies
  <2>2. CASE port = 443
    BY <1>2, <1>5, <2>1, <2>2
  <2>3. CASE port # 443
    BY <1>2, <1>5, <2>1, <2>3
  <2>. QED BY <2>2, <2>3
<1>7. /\ \A service \in DOMAIN services : \E p \in DOMAIN Of : Of[p] = service
      /\ \A p \in DOMAIN Of :
           Statistics!Times(Of[p], services) = Statistics!Times(p, ports)
  <2>. HIDE DEF Of
  <2>1. /\ \A service \in DOMAIN service_count : \E p \in DOMAIN Of : Of[p] = service
        /\ \A p \in DOMAIN Of : Statistics!Times(Of[p], service_count)
                                  = Statistics!Times(p, destination_port_count)
    BY DEF PortTallies, Of
  <2>2. CASE port \in DOMAIN Of
    <3>1. PICK service : service = Of[port]
      OBVIOUS
    <3>2. /\ Statistics!Times(service, services)
               = Statistics!Times(service, service_count) + 1
          /\ \A k : k # service => Statistics!Times(k, services)
                                     = Statistics!Times(k, service_count)
          /\ DOMAIN services = DOMAIN service_count \cup {service}
      <4>1. services = Statistics!BagAdd(service_count, service)
        BY <1>2, <1>4, <2>2, <3>1 DEF Of
      <4>. QED BY <4>1, TimesAfter
    <3>3. \A p \in DOMAIN Of : Of[p] = service => p = port
      BY <2>2, <3>1, Services DEF Of
    <3>. QED BY <1>5, <2>1, <2>2, <3>1, <3>2, <3>3
  <2>3. CASE port \notin DOMAIN Of
    BY <1>2, <1>4, <1>5, <2>1, <2>3
  <2>. QED BY <2>2, <2>3
<1>. QED BY <1>4, <1>6, <1>7 DEF PortTallies, Statistics!Times

\* The packet that the analyzer reads is the next one that it has not seen.
LEMMA Reads ==
  ASSUME Places, AnalyzePacket
  PROVE  /\ analysed = next /\ analysed' = next + 1 /\ packets' = packets
         /\ next \in Nat /\ next \in DOMAIN packets
         /\ Statistics!Packet = packets[next] /\ Statistics!Text = packets[next].payload
<1>1. /\ at = "analyze" /\ at' = "analyze" /\ next' = next + 1 /\ packets' = packets
      /\ next <= Len(packets)
  BY DEF AnalyzePacket, Reading
<1>2. next \in Nat /\ next \in DOMAIN packets
  BY <1>1, CaptureFacts DEF Places
<1>3. analysed = next /\ analysed' = next + 1
  BY <1>1 DEF analysed
<1>. QED BY <1>1, <1>2, <1>3 DEF Statistics!Packet, Statistics!Text

\* The packets seen after it, and those of them that start in some way.
LEMMA SeesOneMore ==
  ASSUME Places, AnalyzePacket
  PROVE  /\ Statistics!Seen \subseteq 1 .. next - 1
         /\ Statistics!Seen' = IF packets[next].dst_port # 0 THEN Statistics!Seen \cup {next}
                               ELSE Statistics!Seen
<1>1. /\ analysed = next /\ analysed' = next + 1 /\ packets' = packets /\ next \in Nat
      /\ next \in DOMAIN packets
  BY Reads
<1>2. next >= 1 /\ \A k : k \in 1 .. (next + 1) - 1 <=> k \in 1 .. next - 1 \/ k = next
  BY <1>1 DEF Places
<1>3. Statistics!Seen = {k \in 1 .. next - 1 : packets[k].dst_port # 0}
  BY <1>1 DEF Statistics!Seen
<1>4. Statistics!Seen' = {k \in 1 .. (next + 1) - 1 : packets[k].dst_port # 0}
  BY <1>1 DEF Statistics!Seen
<1>. QED BY <1>2, <1>3, <1>4

LEMMA StartsOneMore ==
  ASSUME Places, AnalyzePacket, packets[next].dst_port # 0, NEW starts
  PROVE  /\ Statistics!Starting(starts) \subseteq 1 .. next - 1
         /\ Statistics!Starting(starts)' = IF packets[next].payload.start \in starts
                                           THEN Statistics!Starting(starts) \cup {next}
                                           ELSE Statistics!Starting(starts)
         /\ Statistics!Cardinality(Statistics!Starting(starts)) \in Nat
         /\ Statistics!Cardinality(Statistics!Starting(starts)') =
              Statistics!Cardinality(Statistics!Starting(starts))
                + (IF packets[next].payload.start \in starts THEN 1 ELSE 0)
<1>1. packets' = packets /\ next \in Nat
  BY Reads
<1>2. PICK seen : seen = Statistics!Seen'
  OBVIOUS
<1>3. seen = Statistics!Seen \cup {next} /\ Statistics!Seen \subseteq 1 .. next - 1
  BY <1>2, SeesOneMore
<1>4. Statistics!Starting(starts)' = {k \in seen : packets[k].payload.start \in starts}
  BY <1>1, <1>2 DEF Statistics!Starting
<1>5. PICK before, after : /\ before = Statistics!Starting(starts)
                           /\ after = Statistics!Starting(starts)'
  OBVIOUS
<1>6. /\ before \subseteq 1 .. next - 1
      /\ after = IF packets[next].payload.start \in starts THEN before \cup {next} ELSE before
  BY <1>3, <1>4, <1>5 DEF Statistics!Starting
<1>7. Cardinality(before) \in Nat /\ Cardinality(before \cup {next}) = Cardinality(before) + 1
  BY <1>1, <1>6, OneMorePosition
<1>. QED BY <1>5, <1>6, <1>7, SameCardinality

\* The responses of some positions with this second word.
With(positions, code) == {k \in positions : packets[k].payload.second = code}

\* How often each second word comes, as a dictionary.
Tally(positions) ==
  [code \in {packets[k].payload.second : k \in positions} \ {None} |->
     Cardinality(With(positions, code))]

LEMMA TallyOneMore ==
  ASSUME NEW n \in Nat, NEW positions, positions \subseteq 1 .. n - 1
  PROVE  Tally(positions \cup {n}) =
           IF packets[n].payload.second = None THEN Tally(positions)
           ELSE Statistics!BagAdd(Tally(positions), packets[n].payload.second)
<1>. DEFINE second(k) == packets[k].payload.second
            codes == {second(k) : k \in positions} \ {None}
<1>1. PICK new : new = second(n)
  OBVIOUS
<1>2. PICK more : more = positions \cup {n}
  OBVIOUS
<1>3. \A code : code # new => With(more, code) = With(positions, code)
  BY <1>1, <1>2 DEF With
<1>4. With(more, new) = With(positions, new) \cup {n}
  BY <1>1, <1>2 DEF With
<1>5. PICK before : before = Tally(positions)
  OBVIOUS
<1>6. /\ DOMAIN before = codes
      /\ \A code \in codes : before[code] = Cardinality(With(positions, code))
  BY <1>5 DEF Tally
<1>7. Tally(more) = [code \in {second(k) : k \in more} \ {None} |-> Cardinality(With(more, code))]
  BY DEF Tally
<1>8. CASE new = None
  <2>1. {second(k) : k \in more} \ {None} = codes
    BY <1>1, <1>2, <1>8
  <2>2. before = [code \in codes |-> Cardinality(With(positions, code))]
    BY <1>5 DEF Tally
  <2>3. \A code \in codes : With(more, code) = With(positions, code)
    BY <1>3, <1>8
  <2>. HIDE DEF codes
  <2>4. Tally(more) = [code \in codes |-> Cardinality(With(more, code))]
    BY <1>7, <2>1
  <2>5. Tally(more) = before
    BY <2>2, <2>3, <2>4
  <2>. QED BY <1>1, <1>2, <1>5, <1>8, <2>5
<1>9. CASE new # None
  <2>1. {second(k) : k \in more} \ {None} = codes \cup {new}
    BY <1>1, <1>2, <1>9
  <2>2. PICK old : old = With(positions, new)
    OBVIOUS
  <2>3. old \subseteq 1 .. n - 1
    BY <2>2 DEF With
  <2>4. Cardinality(old) \in Nat /\ Cardinality(old \cup {n}) = Cardinality(old) + 1
        /\ Cardinality({}) = 0
    BY <2>3, OneMorePosition
  <2>5. new \notin codes => old = {}
    BY <1>9, <2>2 DEF With
  <2>. HIDE DEF codes
  <2>6. Cardinality(With(more, new)) = IF new \in DOMAIN before THEN before[new] + 1 ELSE 1
    BY <1>4, <1>6, <2>2, <2>4, <2>5
  <2>7. Tally(more) = [code \in codes \cup {new} |-> Cardinality(With(more, code))]
    BY <1>7, <2>1
  <2>8. PICK after : after = Tally(more)
    OBVIOUS
  <2>9. /\ DOMAIN after = DOMAIN before \cup {new}
        /\ after[new] = (IF new \in DOMAIN before THEN before[new] + 1 ELSE 1)
        /\ \A code \in DOMAIN before : code # new => after[code] = before[code]
        /\ after = [code \in DOMAIN after |-> after[code]]
    BY <1>3, <1>6, <2>6, <2>7, <2>8
  <2>10. after = Statistics!BagAdd(before, new)
    <3>1. CASE new \in DOMAIN before
      <4>1. after = [e \in DOMAIN before |-> IF e = new THEN before[e] + 1 ELSE before[e]]
        BY <2>9, <3>1
      <4>. QED BY <3>1, <4>1 DEF Statistics!BagAdd
    <3>2. CASE new \notin DOMAIN before
      <4>1. after = [e \in DOMAIN before \cup {new} |-> IF e = new THEN 1 ELSE before[e]]
        BY <2>9, <3>2
      <4>. QED BY <3>2, <4>1 DEF Statistics!BagAdd
    <3>. QED BY <3>1, <3>2
  <2>. QED BY <1>1, <1>2, <1>5, <1>9, <2>8, <2>10
<1>. QED BY <1>8, <1>9

\* MessagesAddUp, with its dictionary as a tally.
LEMMA MessagesByTally ==
  Statistics!MessagesAddUp <=>
    /\ Len(http_paths) = http_method_count["GET"] + http_method_count["POST"]
    /\ http_packet_count =
         Len(http_paths) + Cardinality(Statistics!Starting({"PUT", "DELETE"}))
    /\ http_response_count = Cardinality(Statistics!Starting({"HTTP/"}))
    /\ http_status_codes = Tally(Statistics!Starting({"HTTP/"}))
<1>1. \A code : Statistics!Responses(code) = With(Statistics!Starting({"HTTP/"}), code)
  BY DEF Statistics!Responses, With
<1>. QED BY <1>1, SameCardinality DEF Statistics!MessagesAddUp, Tally

LEMMA MessagesCounted ==
  Places /\ MessageTallies /\ AnalyzePacket => MessageTallies'
<1>. SUFFICES ASSUME Places, MessageTallies, AnalyzePacket PROVE MessageTallies'
  OBVIOUS
<1>1. /\ packets' = packets /\ next \in Nat /\ next \in DOMAIN packets
      /\ Statistics!Packet = packets[next] /\ Statistics!Text = packets[next].payload
  BY Reads
<1>2. \A positions : Tally(positions)' = Tally(positions')
  BY <1>1 DEF Tally, With
<1>4. Statistics!CountWithPort \/ Statistics!CountWithoutPort
  BY DEF AnalyzePacket, Statistics!Count
<1>5. CASE Statistics!CountWithoutPort
  <2>1. Statistics!Packet.dst_port = 0 /\ UNCHANGED Statistics!messages
    BY <1>5 DEF Statistics!CountWithoutPort
  <2>2. Statistics!Seen' = Statistics!Seen
    BY <1>1, <2>1, SeesOneMore
  <2>3. /\ Statistics!Starting({"PUT", "DELETE"})' = Statistics!Starting({"PUT", "DELETE"})
        /\ Statistics!Starting({"HTTP/"})' = Statistics!Starting({"HTTP/"})
        /\ \A code : Statistics!Responses(code)' = Statistics!Responses(code)
    BY <1>1, <2>2 DEF Statistics!Starting, Statistics!Responses
  <2>4. Statistics!MessagesAddUp'
    BY <1>1, <2>1, <2>3 DEF MessageTallies, Statistics!messages, Statistics!MessagesAddUp
  <2>. QED BY <1>1, <2>1, <2>4 DEF MessageTallies, Statistics!messages, Seconds
<1>6. CASE Statistics!CountWithPort
  <2>1. PICK start, second : /\ start = packets[next].payload.start
                             /\ second = packets[next].payload.second
    OBVIOUS
  <2>2. packets[next].dst_port # 0 /\ Statistics!CountMessages
    BY <1>1, <1>6 DEF Statistics!CountWithPort
  <2>3. /\ http_response_count' = http_response_count + (IF start = "HTTP/" THEN 1 ELSE 0)
        /\ http_status_codes' = IF start = "HTTP/" /\ second # None
                                THEN Statistics!BagAdd(http_status_codes, second)
                                ELSE http_status_codes
        /\ http_paths' = IF start \in {"GET", "POST"} /\ second # None
                         THEN Append(http_paths, second) ELSE http_paths
        /\ http_packet_count' = http_packet_count +
             (IF \/ start \in {"GET", "POST"} /\ second # None
                 \/ start \in {"PUT", "DELETE"} THEN 1 ELSE 0)
        /\ http_method_count' = [method \in {"GET", "POST"} |->
             http_method_count[method] + (IF start = method /\ second # None THEN 1 ELSE 0)]
    BY <1>1, <2>1, <2>2 DEF Statistics!CountMessages, Statistics!Raises, Statistics!OneIf
  <2>4. PICK putting, putting2 :
          /\ putting = Cardinality(Statistics!Starting({"PUT", "DELETE"}))
          /\ putting2 = Cardinality(Statistics!Starting({"PUT", "DELETE"})')
    OBVIOUS
  <2>5. putting \in Nat /\ putting2 = putting + (IF start \in {"PUT", "DELETE"} THEN 1 ELSE 0)
    BY <2>1, <2>2, <2>4, StartsOneMore, SameCardinality
  <2>6. PICK responses, responses2 : /\ responses = Statistics!Starting({"HTTP/"})
                                     /\ responses2 = Statistics!Starting({"HTTP/"})'
    OBVIOUS
  <2>7. /\ responses \subseteq 1 .. next - 1
        /\ responses2 = IF start = "HTTP/" THEN responses \cup {next} ELSE responses
        /\ Cardinality(responses) \in Nat
        /\ Cardinality(responses2) = Cardinality(responses)
                                       + (IF start = "HTTP/" THEN 1 ELSE 0)
    BY <2>1, <2>2, <2>6, StartsOneMore, SameCardinality
  <2>8. /\ Len(http_paths) = http_method_count["GET"] + http_method_count["POST"]
        /\ http_packet_count = Len(http_paths) + putting
        /\ http_response_count = Cardinality(responses)
        /\ http_status_codes = Tally(responses)
    BY <2>4, <2>6, MessagesByTally DEF MessageTallies
  <2>9. second \in Seconds /\ Seconds' = Seconds
    BY <1>1, <2>1 DEF Seconds
  <2>10. PICK paths : paths = http_paths
    OBVIOUS
  <2>11. /\ Append(paths, second) \in Seq(Seconds) /\ paths \in Seq(Seconds)
         /\ Len(Append(paths, second)) = Len(paths) + 1 /\ Len(paths) \in Nat
    BY <2>9, <2>10 DEF MessageTallies
  <2>12. http_paths' \in Seq(Seconds) /\ Len(http_paths') =
           Len(paths) + (IF start \in {"GET", "POST"} /\ second # None THEN 1 ELSE 0)
    BY <2>3, <2>10, <2>11
  <2>13. PICK get, post : get = http_method_count["GET"] /\ post = http_method_count["POST"]
    OBVIOUS
  <2>14. get \in Nat /\ post \in Nat /\ http_packet_count \in Nat
    BY <2>13 DEF MessageTallies
  <2>15. /\ http_method_count'["GET"]
              = get + (IF start = "GET" /\ second # None THEN 1 ELSE 0)
         /\ http_method_count'["POST"]
              = post + (IF start = "POST" /\ second # None THEN 1 ELSE 0)
         /\ http_method_count' \in [{"GET", "POST"} -> Nat]
    BY <2>3, <2>13, <2>14
  <2>16. /\ Len(http_paths') = http_method_count'["GET"] + http_method_count'["POST"]
         /\ http_packet_count' = Len(http_paths') + putting2
         /\ http_packet_count' \in Nat
    <3>1. PICK length, length2 : length = Len(paths) /\ length2 = Len(http_paths')
      OBVIOUS
    <3>2. length \in Nat /\ length = get + post /\ http_packet_count = length + putting
      BY <2>8, <2>10, <2>11, <2>13, <3>1
    <3>3. length2 = length + (IF start \in {"GET", "POST"} /\ second # None THEN 1 ELSE 0)
      BY <2>12, <3>1
    <3>4. length2 = http_method_count'["GET"] + http_method_count'["POST"]
      BY <2>14, <2>15, <3>2, <3>3
    <3>5. http_packet_count' = length2 + putting2 /\ http_packet_count' \in Nat
      <4>1. CASE start \in {"PUT", "DELETE"}
        BY <2>3, <2>5, <2>14, <3>2, <3>3, <4>1
      <4>2. CASE start \notin {"PUT", "DELETE"}
        BY <2>3, <2>5, <2>14, <3>2, <3>3, <4>2
      <4>. QED BY <4>1, <4>2
    <3>. QED BY <3>1, <3>4, <3>5
  <2>17. http_response_count' = Cardinality(responses2)
    BY <2>3, <2>7, <2>8
  <2>18. http_status_codes' = Tally(responses2)
    <3>1. CASE start = "HTTP/"
      <4>1. Tally(responses \cup {next}) = IF second = None THEN Tally(responses)
                                           ELSE Statistics!BagAdd(Tally(responses), second)
        BY <1>1, <2>1, <2>7, TallyOneMore
      <4>. QED BY <2>3, <2>7, <2>8, <3>1, <4>1
    <3>2. CASE start # "HTTP/"
      BY <2>3, <2>7, <2>8, <3>2
    <3>. QED BY <3>1, <3>2
  <2>19. Statistics!MessagesAddUp'
    <3>1. Tally(Statistics!Starting({"HTTP/"}))' = Tally(responses2)
      BY <1>2, <2>6
    <3>2. Statistics!MessagesAddUp' <=>
            (/\ Len(http_paths) = http_method_count["GET"] + http_method_count["POST"]
             /\ http_packet_count =
                  Len(http_paths) + Cardinality(Statistics!Starting({"PUT", "DELETE"}))
             /\ http_response_count = Cardinality(Statistics!Starting({"HTTP/"}))
             /\ http_status_codes = Tally(Statistics!Starting({"HTTP/"})))'
      BY MessagesByTally, PTL
    <3>. QED BY <2>4, <2>6, <2>16, <2>17, <2>18, <3>1, <3>2
  <2>. QED BY <2>9, <2>12, <2>15, <2>16, <2>19 DEF MessageTallies
<1>. QED BY <1>4, <1>5, <1>6

\* The hosts of a text are added to the list and to the count of each.
LEMMA HostsCounted ==
  Places /\ HostTallies /\ AnalyzePacket => HostTallies'
<1>. SUFFICES ASSUME Places, HostTallies, AnalyzePacket PROVE HostTallies'
  OBVIOUS
<1>1. /\ packets' = packets /\ next \in Nat /\ next \in DOMAIN packets
      /\ Statistics!Packet = packets[next] /\ Statistics!Text = packets[next].payload
  BY Reads
<1>2. HostValues' = HostValues
  BY <1>1 DEF HostValues
<1>3. Statistics!CountWithPort \/ Statistics!CountWithoutPort
  BY DEF AnalyzePacket, Statistics!Count
<1>4. CASE Statistics!CountWithoutPort
  <2>1. Statistics!Packet.dst_port = 0 /\ UNCHANGED Statistics!headers
    BY <1>4 DEF Statistics!CountWithoutPort
  <2>2. Statistics!Seen' = Statistics!Seen
    BY <1>1, <2>1, SeesOneMore
  <2>3. http_hosts' = http_hosts /\ http_host_count' = http_host_count
    BY <2>1 DEF Statistics!headers
  <2>4. \A payload : Statistics!LinesOf(payload, {"Host:"})'
                       = Statistics!LinesOf(payload', {"Host:"})
    BY DEF Statistics!LinesOf
  <2>. QED BY <1>1, <1>2, <2>2, <2>3
           DEF HostTallies, Statistics!LinesOf, Statistics!ToBag, Statistics!Range, Range,
               Statistics!Cardinality
<1>5. CASE Statistics!CountWithPort
  <2>1. PICK payload, hosts : /\ payload = packets[next].payload
                              /\ hosts = Statistics!HostsIn(payload)
    OBVIOUS
  <2>2. packets[next].dst_port # 0 /\ Statistics!CountHeaders
    BY <1>1, <1>5 DEF Statistics!CountWithPort
  <2>3. /\ http_hosts' = http_hosts \o hosts
        /\ http_host_count' = Statistics!(+)(http_host_count, Statistics!ToBag(hosts))
    BY <1>1, <2>1, <2>2 DEF Statistics!CountHeaders
  <2>4. /\ Len(payload.headers) \in Nat /\ DOMAIN payload.headers = 1 .. Len(payload.headers)
    BY <1>1, <2>1, V1CaptureAssumption DEF Places
  <2>5. \A k \in DOMAIN payload.headers : HostAt(payload, k) \in HostValues
    <3>. SUFFICES ASSUME NEW k \in DOMAIN payload.headers
                  PROVE  HostAt(payload, k) \in HostValues
      OBVIOUS
    <3>1. PICK own : own = {HostAt(packets[next].payload, line) :
                              line \in DOMAIN packets[next].payload.headers}
      OBVIOUS
    <3>2. own \subseteq HostValues
      BY <1>1, <3>1 DEF HostValues
    <3>3. HostAt(payload, k) \in own
      BY <2>1, <3>1
    <3>. QED BY <3>2, <3>3
  <2>6. /\ hosts \in Seq(HostValues)
        /\ \A line \in Statistics!LinesOf(payload, {"Host:"}) :
             HostAt(payload, line) \in Range(hosts)
    BY <2>1, <2>4, <2>5, HostsOfLines
  <2>7. PICK before, after : before = http_hosts /\ after = http_hosts'
    OBVIOUS
  <2>8. /\ before \in Seq(HostValues) /\ after = before \o hosts
        /\ http_host_count = Statistics!ToBag(before)
    BY <2>3, <2>7 DEF HostTallies
  <2>9. after \in Seq(HostValues) /\ Range(after) = Range(before) \cup Range(hosts)
    BY <2>6, <2>8, RangeOfConcat
  <2>10. http_host_count' = Statistics!ToBag(after)
    <3>1. Statistics!ToBag(after) = Statistics!ToBag(before) (+) Statistics!ToBag(hosts)
      BY <2>6, <2>8, ToBagOfConcat
    <3>. QED BY <2>3, <2>8, <3>1 DEF Statistics!(+), (+)
  <2>11. PICK seen : seen = Statistics!Seen'
    OBVIOUS
  <2>12. ASSUME NEW k \in seen,
                NEW line \in Statistics!LinesOf(packets[k].payload, {"Host:"})
         PROVE  HostAt(packets[k].payload, line) \in Range(after)
    <3>1. CASE k = next
      BY <2>1, <2>6, <2>9, <2>12, <3>1
    <3>2. CASE k # next
      <4>1. k \in Statistics!Seen
        BY <2>2, <2>11, <2>12, <3>2, SeesOneMore
      <4>. QED BY <2>7, <2>9, <2>12, <4>1 DEF HostTallies
    <3>. QED BY <3>1, <3>2
  <2>. QED BY <1>1, <1>2, <2>7, <2>9, <2>10, <2>11, <2>12
           DEF HostTallies, Statistics!LinesOf, Statistics!ToBag, Statistics!Range, Range,
               Statistics!Cardinality
<1>. QED BY <1>3, <1>4, <1>5

LEMMA PortsStep == Places /\ PortTallies /\ AnalyzePacket => PortTallies'
<1>. SUFFICES ASSUME Places, PortTallies, AnalyzePacket PROVE PortTallies'
  OBVIOUS
<1>1. Statistics!CountWithPort \/ Statistics!CountWithoutPort
  BY DEF AnalyzePacket, Statistics!Count
<1>2. CASE Statistics!CountWithoutPort
  <2>1. UNCHANGED <<https_packet_count, destination_port_count, service_count>>
    BY <1>2 DEF Statistics!CountWithoutPort, Statistics!ports
  <2>. QED BY <2>1 DEF PortTallies, Statistics!Times
<1>3. CASE Statistics!CountWithPort
  BY <1>3, PortsCounted DEF Statistics!CountWithPort
<1>. QED BY <1>1, <1>2, <1>3

\* The other steps count nothing, and the analyzer has seen what it had.
LEMMA OthersCountNothing ==
  ASSUME Places, [Next]_vars, ~AnalyzePacket
  PROVE  UNCHANGED <<packets, analysed, counters>>
<1>1. Len(packets) \in Nat /\ next \in 1 .. Len(packets) + 1
  BY CaptureFacts DEF Places
<1>2. CASE SkipPacket \/ Decide
  BY <1>2 DEF SkipPacket, Decide, Reading, analysed, analyzer
<1>3. CASE AllDecided
  BY <1>3 DEF AllDecided, EndOf, analysed, analyzer
<1>4. CASE Summarise
  <2>1. /\ at = "analyze" /\ next > Len(packets) /\ at' \in {"write", "emit"}
        /\ packets' = packets /\ counters' = counters
    BY <1>4 DEF Summarise, EndOf
  <2>2. next = Len(packets) + 1
    BY <1>1, <2>1
  <2>. QED BY <2>1, <2>2 DEF analysed
<1>5. CASE NoPackets \/ WriteOutput \/ Emit
  BY <1>5 DEF NoPackets, WriteOutput, Emit, analysed, analyzer
<1>6. CASE UNCHANGED vars
  BY <1>6 DEF vars, analyzer, analysed
<1>. QED BY <1>2, <1>3, <1>4, <1>5, <1>6 DEF Next, Finished

LEMMA TalliesStep == Places /\ Tallies /\ [Next]_vars => Tallies'
<1>. SUFFICES ASSUME Places, Tallies, [Next]_vars PROVE Tallies'
  OBVIOUS
<1>1. CASE AnalyzePacket
  BY <1>1, PortsStep, MessagesCounted, HostsCounted DEF Tallies
<1>2. CASE ~AnalyzePacket
  <2>1. UNCHANGED <<packets, analysed>>
    BY <1>2, OthersCountNothing
  <2>2. UNCHANGED counters
    BY <1>2, OthersCountNothing
  <2>3. UNCHANGED <<https_packet_count, destination_port_count, service_count,
                    http_packet_count, http_response_count, http_status_codes, http_paths,
                    http_method_count, http_hosts, http_host_count>>
    BY <2>2 DEF counters
  <2>4. PortTallies'
    BY <2>3 DEF Tallies, PortTallies, Statistics!Times
  <2>5. Statistics!Seen' = Statistics!Seen
    BY <2>1 DEF Statistics!Seen
  <2>6. /\ Statistics!Starting({"PUT", "DELETE"})' = Statistics!Starting({"PUT", "DELETE"})
        /\ Statistics!Starting({"HTTP/"})' = Statistics!Starting({"HTTP/"})
        /\ \A code : Statistics!Responses(code)' = Statistics!Responses(code)
    BY <2>1, <2>5 DEF Statistics!Starting, Statistics!Responses
  <2>7. MessageTallies'
    <3>1. Statistics!MessagesAddUp'
      BY <2>1, <2>3, <2>6 DEF Tallies, MessageTallies, Statistics!MessagesAddUp
    <3>. QED BY <2>1, <2>3, <3>1 DEF Tallies, MessageTallies, Seconds
  <2>8. HostTallies'
    <3>1. HostValues' = HostValues
      BY <2>1 DEF HostValues
    <3>2. Statistics!ToBag(http_hosts)' = Statistics!ToBag(http_hosts)
      BY <2>3 DEF Statistics!ToBag, Statistics!Range, Statistics!Cardinality
    <3>3. \A k \in Statistics!Seen :
            \A line \in Statistics!LinesOf(packets[k].payload, {"Host:"}) :
              HostAt(packets[k].payload, line) \in Range(http_hosts)
      BY DEF Tallies, HostTallies
    <3>4. (\A k \in Statistics!Seen :
             \A line \in Statistics!LinesOf(packets[k].payload, {"Host:"}) :
               HostAt(packets[k].payload, line) \in Range(http_hosts))'
      BY <2>1, <2>3, <2>5, <3>3 DEF Statistics!LinesOf, Range
    <3>5. http_hosts \in Seq(HostValues) /\ http_host_count = Statistics!ToBag(http_hosts)
      BY DEF Tallies, HostTallies
    <3>. QED BY <2>3, <3>1, <3>2, <3>4, <3>5 DEF HostTallies
  <2>. QED BY <2>4, <2>7, <2>8 DEF Tallies
<1>. QED BY <1>1, <1>2

-----------------------------------------------------------------------------
(* The invariants hold.                                                    *)

LEMMA InvStep == Inv /\ [Next]_vars => Inv'
  BY DecidePreserves, AnalyzePreserves, OtherPreserves DEF Next, Finished

LEMMA Invariance == Spec => []Inv
  BY InvInit, InvStep, PTL DEF Spec

LEMMA TalliesInvariance == Spec => []Tallies
<1>1. Inv /\ Tallies /\ [Next]_vars => Tallies'
  BY TalliesStep DEF Inv
<1>. QED BY <1>1, TalliesInit, Invariance, PTL DEF Spec

LEMMA DecidedInvariance == Spec => [](Decided /\ Forwarded)
<1>1. Inv /\ Decided /\ Forwarded /\ [Next]_vars => Decided' /\ Forwarded'
  BY DecideDecides, DecideForwards, OthersKeepDecided DEF Next, Finished
<1>. QED BY <1>1, DecidedInit, Invariance, PTL DEF Spec

-----------------------------------------------------------------------------
(* What follows.                                                           *)

\* The engine's state stays in its types, for every capture and both entries
\* (dpi_engine.py, analyzer.py, main.py:253-254).
THEOREM TypeCorrect == Spec => []TypeOK
<1>1. Inv => TypeOK
  BY DEF Inv, Places, FlowsOK, Counts, TypeOK
<1>. QED BY <1>1, Invariance, PTL

\* The analyzer's second pass over the packets, with the engine's own tracker,
\* blocks, unblocks and renames no flow and finds no new one (dpi_engine.py:76-78).
THEOREM AnalysisIsHarmless == Spec => AnalysisDecidesNothing
<1>. DEFINE Harmless == entry = "DPIEngine" /\ at = "analyze" =>
                          /\ DOMAIN flows' = DOMAIN flows
                          /\ \A ft \in DOMAIN flows : SameFlow(flows'[ft], flows[ft])
<1>1. Inv /\ [Next]_vars => [Harmless]_vars
  <2>. SUFFICES ASSUME Inv, Next, entry = "DPIEngine", at = "analyze"
                PROVE  /\ DOMAIN flows' = DOMAIN flows
                       /\ \A ft \in DOMAIN flows : SameFlow(flows'[ft], flows[ft])
    OBVIOUS
  <2>1. CASE AnalyzePacket
    BY <2>1, AnalysisSettled
  <2>2. CASE Summarise \/ Finished
    BY <2>2 DEF Summarise, Finished, vars, SameFlow
  <2>. QED BY <2>1, <2>2 DEF Next, SkipPacket, Decide, AllDecided, NoPackets, WriteOutput,
              Emit, Reading, EndOf
<1>2. [Harmless]_vars => [entry = "DPIEngine" /\ at = "analyze" =>
         /\ DOMAIN flows' = DOMAIN flows
         /\ \A ft \in DOMAIN flows : /\ flows'[ft].blocked = flows[ft].blocked
                                     /\ flows'[ft].sni = flows[ft].sni
                                     /\ flows'[ft].app_type = flows[ft].app_type]_vars
  BY DEF SameFlow
<1>. QED BY <1>1, <1>2, Invariance, PTL DEF Spec, AnalysisDecidesNothing

\* The engine's k-th decision is that of the k-th packet with a five-tuple, a flow
\* that was dropped once is dropped ever after and ends blocked exactly if its last
\* packet was dropped, and the packets forwarded are those with the decision FORWARD,
\* in order (dpi_engine.py:46-71).
THEOREM DecisionsStick == Spec => []EngineDecisionsStick
<1>1. Inv /\ Decided /\ Forwarded => EngineDecisionsStick
  <2>. SUFFICES ASSUME Inv, Decided, Forwarded, entry = "DPIEngine", at = "done"
                PROVE  EngineDecisionsStick
    BY DEF EngineDecisionsStick
  <2>1. Reached = Len(packets) /\ TrackedTo(Reached) = Tracked
    BY DEF Reached, Tracked
  <2>2. ASSUME NEW ft \in DOMAIN flows
        PROVE  flows[ft].blocked
                 <=> DecisionOn(Max({i \in Tracked : FiveTupleOf(i) = ft})) = "DROP"
    <3>. DEFINE of_flow == {i \in Tracked : FiveTupleOf(i) = ft}
    <3>1. PICK i \in Tracked : AsLastOf(ft, i)
      BY <2>1, <2>2 DEF Decided
    <3>2. i \in of_flow /\ of_flow \subseteq Nat /\ \A j \in of_flow : i >= j
      <4>1. of_flow \subseteq Nat
        BY CaptureFacts DEF Inv, Places, Tracked, TrackedTo
      <4>. QED BY <2>1, <3>1, <4>1 DEF AsLastOf
    <3>3. Max(of_flow) = i
      <4>. HIDE DEF of_flow
      <4>1. \E m \in of_flow : \A j \in of_flow : m >= j
        BY <3>2
      <4>2. Max(of_flow) \in of_flow /\ Max(of_flow) >= i
        BY <3>2, <4>1, Zenon DEF Max
      <4>3. i >= Max(of_flow) /\ Max(of_flow) \in Nat /\ i \in Nat
        BY <3>2, <4>2
      <4>. QED BY <4>2, <4>3
    <3>. QED BY <3>1, <3>3 DEF AsLastOf
  <2>3. Len(decisions) = Cardinality(Tracked)
    BY <2>1 DEF Decided, Rank
  <2>. QED BY <2>1, <2>2, <2>3 DEF Decided, Forwarded, EngineDecisionsStick
<1>. QED BY <1>1, Invariance, DecidedInvariance, PTL

\* A name seen late takes the flow's earlier packets out of main's file too, and no
\* packet without a five-tuple is dropped (main.py:253).
THEOREM WholeFlowsDropped == Spec => []MainDropsWholeFlows
<1>1. Inv => MainDropsWholeFlows
  <2>. SUFFICES ASSUME Inv, output # None, NEW i \in DOMAIN packets, NEW j \in DOMAIN packets
                PROVE  /\ FiveTupleOf(i) = NoFlow => i \in output
                       /\ FiveTupleOf(i) = FiveTupleOf(j) => (i \in output <=> j \in output)
    BY DEF MainDropsWholeFlows
  <2>1. \A k \in DOMAIN packets :
          k \in output <=> ~(FiveTupleOf(k) \in DOMAIN flows /\ flows[FiveTupleOf(k)].blocked)
    BY DEF Inv, Written, Unblocked, is_packet_blocked, FiveTupleOf
  <2>2. NoFlow \notin DOMAIN flows
    BY DEF Inv, FlowsOK
  <2>. QED BY <2>1, <2>2
<1>. QED BY <1>1, Invariance, PTL

\* A flow that both engines look at in the same way is in main's file exactly if the
\* processor of V2 would not have blocked it by the end of the capture
\* (main.py:253-254, dpi_processor.py:30-75).
THEOREM EnginesAgree == Spec => []MainAgreesWithV2
<1>1. Inv /\ Agreeing => MainAgreesWithV2
  <2>. SUFFICES ASSUME Inv, Agreeing, output # None, NEW i \in DOMAIN packets, Comparable(i)
                PROVE  i \in output
                         <=> ~Processor!TableAfter[Len(packets)][FiveTupleOf(i)].blocked
    BY DEF MainAgreesWithV2
  <2>. DEFINE ft == FiveTupleOf(i)
              T == Processor!TableAfter[Len(packets)]
  <2>1. entry = "main" /\ Analysed = Len(packets) /\ output = Unblocked
    BY DEF Inv, Places, Written, Analysed
  <2>. HIDE DEF T
  <2>2. AgreeOn(flows, T, i, Len(packets))
    BY <2>1 DEF Agreeing, T
  <2>3. i \in FlowOf(i) /\ i <= Len(packets)
    BY CaptureFacts DEF Inv, Places, FlowOf
  <2>4. ft \in DOMAIN flows /\ flows[ft].blocked = T[ft].blocked
    BY <2>2, <2>3 DEF AgreeOn, Alike, SameFlow
  <2>5. i \in output <=> ~flows[ft].blocked
    BY <2>1, <2>4 DEF Unblocked, is_packet_blocked, FiveTupleOf
  <2>. QED BY <2>4, <2>5 DEF T
<1>. QED BY <1>1, Invariance, AgreeingInit, AgreeingStep, PTL DEF Spec

\* Whatever text makes the analyzer's block raise half way, the counts of ports
\* and services, and those of paths, methods, requests, responses and status
\* codes, agree with each other and with the packets seen (analyzer.py:116-232).
THEOREM StatisticsAddUp == Spec => []CountersAddUp
<1>1. Tallies => CountersAddUp
  <2>. SUFFICES ASSUME Tallies PROVE Statistics!PortsAddUp
    BY DEF Tallies, MessageTallies, CountersAddUp
  <2>1. ASSUME NEW service \in DOMAIN service_count
        PROVE  \E port \in DOMAIN Statistics!ServiceOf :
                 /\ Statistics!ServiceOf[port] = service
                 /\ service_count[service] = Statistics!Times(port, destination_port_count)
    <3>1. PICK port \in DOMAIN Statistics!ServiceOf : Statistics!ServiceOf[port] = service
      BY <2>1 DEF Tallies, PortTallies
    <3>2. Statistics!Times(service, service_count)
            = Statistics!Times(port, destination_port_count)
      BY <3>1 DEF Tallies, PortTallies
    <3>3. Statistics!Times(service, service_count) = service_count[service]
      BY <2>1 DEF Statistics!Times
    <3>. QED BY <3>1, <3>2, <3>3
  <2>. QED BY <2>1 DEF Tallies, PortTallies, Statistics!PortsAddUp
<1>. QED BY <1>1, TalliesInvariance, PTL

\* Of the texts that have the header's name once in a line and never in other
\* letters, the host that V2 takes is in the list that V1 makes of the capture, V2
\* takes none only where V1 lists nothing but blanks, and V1's count per host is
\* that of its list (analyzer.py:174-185, http_host_extractor.py:15-20).
THEOREM HostsAgree == Spec => []EnginesAgreeOnHosts
<1>1. Inv /\ Tallies => EnginesAgreeOnHosts
  <2>. SUFFICES ASSUME Inv, Tallies PROVE Statistics!EnginesAgreeOnHosts
    BY DEF EnginesAgreeOnHosts
  <2>. SUFFICES
         ASSUME NEW k \in Statistics!Seen, NEW payload, payload = packets[k].payload,
                Statistics!NamesHostOnce(payload),
                NEW host, host = Statistics!Extract(payload)
         PROVE  IF host = Statistics!Blank
                THEN \A line \in Statistics!LinesOf(payload, {"Host:"}) :
                       HostAt(payload, line) = Statistics!Blank
                ELSE host \in Range(http_hosts)
    BY DEF Tallies, HostTallies, Statistics!EnginesAgreeOnHosts, Statistics!Range, Range,
           HostAt
  <2>. DEFINE either == Statistics!LinesOf(payload, {"Host:", "host:"})
              taken(l) == Statistics!ExtractorHost(payload.headers[l].rest)
              hosts == {l \in either : taken(l) # Statistics!Blank}
  <2>1. either = Statistics!LinesOf(payload, {"Host:"})
    BY DEF Statistics!LinesOf, Statistics!NamesHostOnce
  <2>2. /\ Len(payload.headers) \in Nat /\ DOMAIN payload.headers = 1 .. Len(payload.headers)
        /\ \A l \in DOMAIN payload.headers : IsSequence(payload.headers[l].rest)
    <3>1. Len(packets) \in Nat /\ DOMAIN packets = 1 .. Len(packets) /\ packets \in Captures
          /\ next \in 1 .. Len(packets) + 1
      BY CaptureFacts DEF Inv, Places
    <3>2. analysed \in 1 .. Len(packets) + 1
      BY <3>1 DEF analysed
    <3>3. k \in 1 .. analysed - 1
      BY DEF Statistics!Seen
    <3>4. k \in DOMAIN packets
      BY <3>1, <3>2, <3>3
    <3>. QED BY <3>1, <3>4, V1CaptureAssumption
  <2>3. either \subseteq DOMAIN payload.headers /\ either \subseteq Nat
    BY <2>2 DEF Statistics!LinesOf
  \* With the name once, there is one piece, and nothing to remove or to keep.
  <2>4. ASSUME NEW l \in either PROVE taken(l) = HostAt(payload, l)
    <3>1. PICK rest : rest = payload.headers[l].rest
      OBVIOUS
    <3>2. IsSequence(rest) /\ Len(rest) = 1
      BY <2>1, <2>2, <2>3, <2>4, <3>1 DEF Statistics!NamesHostOnce
    <3>3. [j \in DOMAIN rest |-> IF j = 1 THEN rest[1] ELSE <<"Host:">> \o rest[j]] = rest
      BY <3>2 DEF IsSequence
    <3>4. Statistics!ExtractorHost(rest) = Statistics!AnalyzerHost(rest)
      BY <3>3 DEF Statistics!ExtractorHost, Statistics!AnalyzerHost
    <3>. QED BY <3>1, <3>4 DEF HostAt
  <2>5. host = IF hosts = {} THEN Statistics!Blank ELSE taken(Statistics!Min(hosts))
    BY DEF Statistics!Extract
  <2>. HIDE DEF either, taken
  <2>6. CASE hosts = {}
    BY <2>1, <2>4, <2>5, <2>6
  <2>7. CASE hosts # {}
    <3>1. PICK line : line = Statistics!Min(hosts)
      OBVIOUS
    <3>2. line \in hosts
      <4>1. hosts \subseteq Nat
        BY <2>3
      <4>2. Statistics!Min(hosts) = Min(hosts)
        BY DEF Statistics!Min, Min
      <4>. HIDE DEF hosts
      <4>. QED BY <2>7, <3>1, <4>1, <4>2, Least
    <3>3. host = HostAt(payload, line) /\ line \in Statistics!LinesOf(payload, {"Host:"})
          /\ host # Statistics!Blank
      BY <2>1, <2>4, <2>5, <2>7, <3>1, <3>2
    <3>. QED BY <3>3 DEF Tallies, HostTallies
  <2>. QED BY <2>6, <2>7
<1>. QED BY <1>1, Invariance, TalliesInvariance, PTL

\* main's events are one per packet and in order, and each says what the file and
\* the flow say (main.py:268-274, emitter.py:17-70).
THEOREM EventsAreOfTheFile == Spec => []EventsAgreeWithFile
<1>1. Inv => EventsAgreeWithFile
  <2>. SUFFICES ASSUME Inv, entry = "main", events # None
                PROVE  /\ Len(events) = Len(packets)
                       /\ \A i \in DOMAIN events :
                            /\ events[i].decision = "FORWARD" <=> i \in output
                            /\ events[i].blocked <=> events[i].decision = "DROP"
    BY DEF EventsAgreeWithFile
  <2>1. /\ events = [j \in DOMAIN packets |-> Event(packets[j], given_decisions[j])]
        /\ output = Unblocked
    BY DEF Inv, Written
  <2>2. Len(packets) \in Nat /\ DOMAIN packets = 1 .. Len(packets)
    BY CaptureFacts DEF Inv, Places
  <2>3. Len(events) = Len(packets) /\ DOMAIN events = DOMAIN packets
    BY <2>1, <2>2
  <2>4. ASSUME NEW i \in DOMAIN packets
        PROVE  /\ events[i].decision = "FORWARD" <=> i \in output
               /\ events[i].blocked <=> events[i].decision = "DROP"
    <3>1. events[i] = Event(packets[i], given_decisions[i])
      BY <2>1
    <3>2. given_decisions[i] = IF is_packet_blocked(flows, packets[i]) THEN "DROP" ELSE "FORWARD"
      BY DEF given_decisions
    <3>3. i \in output <=> ~is_packet_blocked(flows, packets[i])
      BY <2>1 DEF Unblocked
    <3>4. events[i].decision = given_decisions[i]
      BY <3>1 DEF Event
    <3>5. events[i].blocked <=> is_packet_blocked(flows, packets[i])
      BY <3>1 DEF Event, is_packet_blocked, NewFlow
    <3>. QED BY <3>2, <3>3, <3>4, <3>5
  <2>. QED BY <2>3, <2>4
<1>. QED BY <1>1, Invariance, PTL
=============================================================================
