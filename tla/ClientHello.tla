---------------------------- MODULE ClientHello ----------------------------
(***************************************************************************)
(* What a ClientHello looks like on the wire, as build_client_hello in     *)
(* src/generate_test_pcap.py writes it, with a session id, cipher suites   *)
(* and further extensions of the sender's choice; and what SNIExtractor    *)
(* has to find in it, however much of it was captured.                     *)
(***************************************************************************)
EXTENDS SNIExtractor, SequencesExt

CONSTANT Hellos   \* records [session_id, cipher_suites, extensions]

Word(n) == <<n \div 256, n % 256>>

\* A field with its length in front.
Counted1(bytes) == <<Len(bytes)>> \o bytes
Counted2(bytes) == Word(Len(bytes)) \o bytes

Extension(type, data) == Word(type) \o Counted2(data)

\* server_name: list length, name type, length, name.
ServerNameExtension(host) == Extension(EXTENSION_TYPE_SNI,
                                       Counted2(<<0>> \o Counted2(host)))

Zeros(n) == [k \in 1 .. n |-> 0]

Body(hello) == <<3, 3>> \o Zeros(32) \o Counted1(hello.session_id)
               \o Counted2(hello.cipher_suites) \o Counted1(<<0>>)
               \o Counted2(FlattenSeq(hello.extensions))

Encode(hello) ==
  <<22, 3, 1>> \o Counted2(<<1, 0>> \o Counted2(Body(hello)))

\* What follows a type and a length, and in a server_name extension one name.
IsExtension(bytes) ==
  LET type == BigEndian(SubSeq(bytes, 1, 2))
  IN  /\ Len(bytes) >= 4 /\ bytes = Extension(type, SubSeq(bytes, 5, Len(bytes)))
      /\ type = EXTENSION_TYPE_SNI
           => bytes = ServerNameExtension(SubSeq(bytes, 10, Len(bytes)))

ASSUME HelloAssumption ==
  \A hello \in Hellos :
    /\ hello.session_id \in Seq(Byte) /\ hello.cipher_suites \in Seq(Byte)
    /\ hello.extensions \in Seq(Seq(Byte))
    /\ \A k \in DOMAIN hello.extensions : IsExtension(hello.extensions[k])

-----------------------------------------------------------------------------
\* The server_name extensions of a hello, by their positions.
Named(hello) == {k \in DOMAIN hello.extensions :
                   SubSeq(hello.extensions[k], 1, 2) = Word(EXTENSION_TYPE_SNI)}

\* The name that a hello gives, if it gives one: that of its first server_name
\* extension, decoded, unless nothing is left of it.
NameIn(hello) ==
  LET first == hello.extensions[Min(Named(hello))]
      name  == decode(SubSeq(first, 10, Len(first)))
  IN  IF Named(hello) = {} \/ name = <<>> THEN None ELSE name

\* How much of a hello has to be captured for its name to be found.
NeededFor(hello) ==
  LET after == FlattenSeq(SubSeq(hello.extensions, Min(Named(hello)) + 1,
                                 Len(hello.extensions)))
  IN  IF Named(hello) = {} THEN 0 ELSE Len(Encode(hello)) - Len(after)

Expected == [hello \in Hellos |-> [bytes |-> Encode(hello), name |-> NameIn(hello),
                                   needed |-> NeededFor(hello)]]

\* From a ClientHello that was captured up to any byte, extract returns its
\* server name exactly if the bytes up to the name's end are there, and nothing
\* else otherwise: a capture that is cut off may hide a name and never yields a
\* wrong or a shortened one (README.md:896-911).
TruncationNeverLies ==
  at = "done" =>
    \A hello \in Hellos :
      IsPrefix(payload, Expected[hello].bytes) =>
        server_name = IF length >= Expected[hello].needed THEN Expected[hello].name
                                                          ELSE None
=============================================================================
