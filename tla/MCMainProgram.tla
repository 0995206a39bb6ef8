--------------------------- MODULE MCMainProgram ---------------------------
(***************************************************************************)
(* Model checking of MainProgram, and of LivePacketCapture in it: two      *)
(* packets and a malformed one, one dependency or several missing, any     *)
(* phase failing; no interface, one without an address and two with it,    *)
(* one of which the user asks for by a part of its name.                   *)
(***************************************************************************)
EXTENDS MainProgram

CONSTANTS p, b, bad, lo, eth0, eth1, part

Iface(name, loopback) == [name |-> name, loopback |-> loopback, hwaddr |-> TRUE]

MCPacket     == {p, b, bad}
MCIfaceLists ==
  {<<>>, <<Iface(lo, TRUE)>>, <<Iface(lo, TRUE), Iface(eth0, FALSE), Iface(eth1, FALSE)>>,
   <<[name |-> eth0, loopback |-> FALSE, hwaddr |-> FALSE], Iface(eth1, FALSE)>>}
MCInterfaces == {None, eth1, part}
MCEndsWith   == {<<eth1, part>>}
MCTestPcap   == <<b, p>>
MCMayFail    == {"hwaddr", "sniff", "save"}
MCBad        == {bad}
MCCaptures   == {None, <<>>, <<p>>, <<b, p>>, <<p, bad>>}

MCEnvironments ==
  {Dependencies, {}, {"pyspark", "java"}}
    \cup {Dependencies \ {d} : d \in Dependencies}

MCFailures == Phases
MCNothing  == {}

\* A file is read with any contents, and nothing is captured then; in live mode
\* two files are enough, as nobody looks into them before V2.
MCInit ==
  /\ Init
  /\ args.live  => disk.input \in {None, <<p>>}
  /\ ~args.live => request.interface = None /\ ~request.pcap_save
                    /\ world.ifaces = <<>> /\ world.test_pcap

MCSpec == MCInit /\ [][Next]_vars
=============================================================================
