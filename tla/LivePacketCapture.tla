------------------------- MODULE LivePacketCapture -------------------------
(***************************************************************************)
(* src/src/live_capture.py: one call of LivePacketCapture.sniff, with the  *)
(* interface it resolves, scapy's sniff and wrpcap, which may fail, and    *)
(* the replay of a capture file that it falls back to.  Without a          *)
(* callback: main.py passes none, and the call of a streaming thread, the  *)
(* only other one, raises before it gets here (LiveStreaming).             *)
(***************************************************************************)
EXTENDS Naturals, Sequences, SequencesExt

CONSTANTS
  Packet,
  MaxLive,     \* bound on the packets that one live capture delivers
  IfaceLists,  \* lists of interfaces [name, loopback, hwaddr] scapy may know
  Interfaces,  \* what interface may be: names, parts of names, or None
  EndsWith,    \* <<name, part>>: the name ends with the part
  TestPcap,    \* the packets of input/test_dpi.pcap
  MayFail,     \* which calls into scapy and the system may fail
  None

ASSUME CaptureAssumption ==
  /\ MaxLive \in Nat /\ TestPcap \in Seq(Packet)
  /\ \A ifaces \in IfaceLists : ifaces \in Seq(Range(ifaces))
  /\ None \notin {"no interface", "timeout", "failed"}
  /\ MayFail \subseteq {"hwaddr", "sniff", "save"}

VARIABLES
  where,         \* the next step of the call
  request,       \* of the object: [interface, pcap_save]
  world,         \* what it finds: [ifaces, test_pcap]
  resolved,      \* self._resolved_interface
  live,          \* what scapy captured
  packets,       \* the list that scapy's sniff returned
  saved,         \* the file pcap_save
  reason,        \* why the capture is simulated
  returned       \* the result of the call

capture_vars == <<where, request, world, resolved, live, packets, saved, reason,
                  returned>>

SeqUpTo(S, n) == UNION {[1 .. k -> S] : k \in 0 .. n}

CaptureInit ==
  /\ where = "resolve"
  /\ request \in [interface : Interfaces, pcap_save : BOOLEAN]
  /\ world \in [ifaces : IfaceLists, test_pcap : BOOLEAN]
  /\ resolved = None /\ live = <<>> /\ packets = <<>>
  /\ saved = None /\ reason = None /\ returned = None

Names == [k \in DOMAIN world.ifaces |-> world.ifaces[k].name]

\* Mutant: a loopback interface will do.
CandidatesAll == {k \in DOMAIN world.ifaces : world.ifaces[k].hwaddr}

\* Interfaces that are worth listening to, by their positions: no loopback, a
\* hardware address.
Candidates == {k \in DOMAIN world.ifaces : ~world.ifaces[k].loopback /\ world.ifaces[k].hwaddr}

\* The first of them.
AutoSelected == IF Candidates = {} THEN None ELSE Names[Min(Candidates)]

\* A name of scapy's, or the first that ends so, or whatever was asked for.
Named(interface) ==
  LET ending == {k \in DOMAIN Names : <<Names[k], interface>> \in EndsWith}
  IN  IF interface \in Range(Names) \/ ending = {} THEN interface ELSE Names[Min(ending)]

\* Mutant: the warning is given for an interface that was asked for, too.
ResolveInterfaceWarnsAlways ==
  /\ where = "resolve"
  /\ LET chosen == IF request.interface = None THEN AutoSelected
                                               ELSE Named(request.interface)
     IN \/ /\ chosen = None
           /\ where' = "simulate" /\ reason' = "no interface"
           /\ UNCHANGED resolved
        \/ /\ chosen # None
           /\ where' = "sniff" /\ resolved' = chosen
           /\ UNCHANGED reason
        \/ /\ "hwaddr" \in MayFail /\ chosen # None
           /\ where' = "raised"
           /\ UNCHANGED <<resolved, reason>>
  /\ UNCHANGED <<request, world, live, packets, saved, returned>>

\* _resolve_interface; the warning about an interface that was chosen asks for
\* its hardware address, which may raise, outside of the try block.
ResolveInterface ==
  /\ where = "resolve"
  /\ LET chosen == IF request.interface = None THEN AutoSelected
                                               ELSE Named(request.interface)
     IN \/ /\ chosen = None
           /\ where' = "simulate" /\ reason' = "no interface"
           /\ UNCHANGED resolved
        \/ /\ chosen # None
           /\ where' = "sniff" /\ resolved' = chosen
           /\ UNCHANGED reason
        \/ /\ "hwaddr" \in MayFail /\ request.interface = None /\ chosen # None
           /\ where' = "raised"
           /\ UNCHANGED <<resolved, reason>>
  /\ UNCHANGED <<request, world, live, packets, saved, returned>>

\* scapy's sniff until the timeout or stop_after.
Sniff ==
  /\ where = "sniff"
  /\ \/ /\ live' \in SeqUpTo(Packet, MaxLive) /\ packets' = live'
        /\ where' = "save" /\ UNCHANGED reason
     \/ /\ "sniff" \in MayFail
        /\ where' = "simulate" /\ reason' = "failed"
        /\ UNCHANGED <<live, packets>>
  /\ UNCHANGED <<request, world, resolved, saved, returned>>

\* A file that was written as far as it went.
PartsOf(list) == {SubSeq(list, 1, k) : k \in 0 .. Len(list)}

\* Mutant: a failure of wrpcap is ignored.
SaveOrNot ==
  /\ where = "save"
  /\ saved' \in IF request.pcap_save THEN PartsOf(packets) ELSE {None}
  /\ where' = "count"
  /\ UNCHANGED <<request, world, resolved, live, packets, reason, returned>>

\* wrpcap(pcap_save, packets), of an empty list too; a failure leaves a part of
\* the file or none and ends in the replay.
Save ==
  /\ where = "save"
  /\ \/ /\ saved' = IF request.pcap_save THEN packets ELSE None
        /\ where' = "count" /\ UNCHANGED reason
     \/ /\ request.pcap_save /\ "save" \in MayFail
        /\ saved' \in PartsOf(packets) \cup {None}
        /\ where' = "simulate" /\ reason' = "failed"
  /\ UNCHANGED <<request, world, resolved, live, packets, returned>>

CountPackets ==
  /\ where = "count"
  /\ IF packets = <<>> THEN where' = "simulate" /\ reason' = "timeout" /\ UNCHANGED returned
                       ELSE where' = "returned" /\ returned' = packets /\ UNCHANGED reason
  /\ UNCHANGED <<request, world, resolved, live, packets, saved>>

\* Mutant: the replay is put behind what was captured.
SimulateBehind ==
  /\ where = "simulate"
  /\ IF world.test_pcap THEN where' = "returned" /\ returned' = packets \o TestPcap
                        ELSE where' = "raised" /\ UNCHANGED returned
  /\ UNCHANGED <<request, world, resolved, live, packets, saved, reason>>

\* _simulate_capture: the test capture, or else the Parquet file of an earlier
\* run, which no reader of captures can read: PcapReader raises.
Simulate ==
  /\ where = "simulate"
  /\ IF world.test_pcap THEN where' = "returned" /\ returned' = TestPcap
                        ELSE where' = "raised" /\ UNCHANGED returned
  /\ UNCHANGED <<request, world, resolved, live, packets, saved, reason>>

CaptureStep == \/ ResolveInterface \/ Sniff \/ Save \/ CountPackets \/ Simulate

-----------------------------------------------------------------------------
(* What sniff promises.                                                    *)

CaptureTypeOK ==
  /\ where \in {"resolve", "sniff", "save", "count", "simulate",
                "returned", "raised"}
  /\ request.pcap_save \in BOOLEAN
  /\ live \in Seq(Packet) /\ packets \in Seq(Packet)
  /\ saved \in Seq(Packet) \cup {None} /\ returned \in Seq(Packet) \cup {None}
  /\ reason \in {None, "no interface", "timeout", "failed"}

\* The program listens where it was told to, or by itself where a network is:
\* a name of scapy's is taken as it is, a part of one stands for such a name,
\* and without a name the choice is no loopback (live_capture.py:113-144).
ListensWhereAsked ==
  IF request.interface = None
  THEN \E i \in Range(world.ifaces) : i.name = resolved /\ ~i.loopback /\ i.hwaddr
  ELSE \/ resolved = request.interface
       \/ /\ request.interface \notin Range(Names)
          /\ resolved \in Range(Names) /\ <<resolved, request.interface>> \in EndsWith

\* Unless a call fails, the saved file holds the packets that the caller goes on
\* with, or none at all when these are a replay (live_capture.py:212-218 in this
\* order): a later look at the file is a look at what was analysed.
SavedIsReturned ==
  CASE reason = None      -> saved = returned
    [] reason = "timeout" -> saved = <<>>
    [] OTHER              -> saved \in PartsOf(packets) \cup {None}

\* The result is a whole live capture, of the interface that was asked for, or the
\* whole test capture, whatever fails on the way; it is never empty while the latter
\* has packets, so that main, which divides by their number (main.py:142), can
\* rely on it in live mode; and the saved file fits to it.  The call raises in two
\* cases only: the replay has no test capture, or the warning about an interface
\* that was chosen by itself asks for its address in vain (live_capture.py:127-131,
\* outside of the try block), when nothing has been captured or saved yet.
LiveOrReplay ==
  /\ where = "returned" =>
       /\ returned = IF reason = None THEN live ELSE TestPcap
       /\ TestPcap # <<>> => returned # <<>>
       /\ reason = None => ListensWhereAsked
       /\ request.pcap_save => SavedIsReturned
  /\ where = "raised" =>
       \/ reason # None /\ ~world.test_pcap
       \/ request.interface = None /\ live = <<>> /\ saved = None
=============================================================================
