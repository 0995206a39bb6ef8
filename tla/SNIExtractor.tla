---------------------------- MODULE SNIExtractor ----------------------------
(***************************************************************************)
(* src/src/sni_extractor.py: SNIExtractor.extract, one step per field that *)
(* it reads.  A payload is a sequence of bytes; offsets count from 0, as   *)
(* the code's do.  A capture may be cut at any byte and every length in it *)
(* may be wrong, so nothing is assumed of a payload.                       *)
(*                                                                         *)
(* read is not in the code: the offsets of the bytes that the last step    *)
(* looked at, for the property ReadsInBounds.                              *)
(***************************************************************************)
EXTENDS Integers, Sequences

Byte == 0 .. 255

CONSTANTS Payloads,
          decode(_),   \* bytes.decode(errors="ignore")
          None

ASSUME PayloadAssumption == \A p \in Payloads : p \in Seq(Byte)

SESSION_ID_OFFSET  == 43
EXTENSION_TYPE_SNI == 0

VARIABLES payload, at, offset, extensions_end, server_name, read

vars == <<payload, at, offset, extensions_end, server_name, read>>

length == Len(payload)

\* payload[from:to], which Python cuts off at the end of the payload, and the
\* number in such a slice of at most two bytes, big end first.
Smaller(m, n) == IF m < n THEN m ELSE n

Slice(from, to) == SubSeq(payload, from + 1, Smaller(to, length))

BigEndian(bytes) == IF bytes = <<>> THEN 0
                    ELSE IF Len(bytes) = 1 THEN bytes[1]
                    ELSE 256 * bytes[1] + bytes[2]

Number(from, to) == BigEndian(Slice(from, to))

Init ==
  /\ payload \in Payloads
  /\ at = "classify" /\ offset = 0 /\ extensions_end = 0
  /\ server_name = None /\ read = {}

Return(name) ==
  /\ at' = "done" /\ server_name' = name
  /\ UNCHANGED <<payload, offset, extensions_end>>

IsHandshake == length >= 6 /\ Number(0, 1) = 22 /\ Number(5, 6) = 1

\* A TLS handshake record with a ClientHello, or return.
Classify ==
  /\ at = "classify"
  /\ read' = {k \in {0, 5} : length >= 6}
  /\ \/ ~IsHandshake /\ Return(None)
     \/ /\ IsHandshake
        /\ at' = "session_id" /\ offset' = SESSION_ID_OFFSET
        /\ UNCHANGED <<payload, extensions_end, server_name>>

\* Mutant: the last byte of the field may be missing.
FitsLoosely(width) == offset + width <= length + 1

\* The length field of width bytes at offset is within the payload.
Fits(width) == offset + width <= length

CutOff(field, width) ==
  /\ at = field /\ ~Fits(width)
  /\ Return(None) /\ read' = {}

\* Read a length and skip what it counts.
Skip(field, width, next) ==
  /\ at = field /\ Fits(width)
  /\ read' = offset .. offset + width - 1
  /\ offset' = offset + width + Number(offset, offset + width)
  /\ at' = next
  /\ UNCHANGED <<payload, extensions_end, server_name>>

SessionId    == CutOff("session_id", 1)    \/ Skip("session_id", 1, "cipher_suites")
CipherSuites == CutOff("cipher_suites", 2) \/ Skip("cipher_suites", 2, "compression")
Compression  == CutOff("compression", 1)   \/ Skip("compression", 1, "extensions")

\* Mutant: the declared end is believed.
ExtensionsBelieved ==
  \/ CutOff("extensions", 2)
  \/ /\ at = "extensions" /\ Fits(2)
     /\ read' = offset .. offset + 1
     /\ offset' = offset + 2
     /\ extensions_end' = offset + 2 + Number(offset, offset + 2)
     /\ at' = "extension"
     /\ UNCHANGED <<payload, server_name>>

\* The end of the extensions is clamped to that of the payload.
Extensions ==
  \/ CutOff("extensions", 2)
  \/ /\ at = "extensions" /\ Fits(2)
     /\ read' = offset .. offset + 1
     /\ offset' = offset + 2
     /\ extensions_end' = Smaller(offset + 2 + Number(offset, offset + 2), length)
     /\ at' = "extension"
     /\ UNCHANGED <<payload, server_name>>

EndOfExtensions ==
  /\ at = "extension" /\ offset + 4 > extensions_end
  /\ Return(None) /\ read' = {}

\* Mutant: the header of the extension is not skipped with it.
NextExtensionNoHeader ==
  /\ at = "extension" /\ offset + 4 <= extensions_end
  /\ read' = offset .. offset + 3
  /\ IF Number(offset, offset + 2) = EXTENSION_TYPE_SNI
     THEN at' = "server_name" /\ UNCHANGED offset
     ELSE at' = "extension" /\ offset' = offset + Number(offset + 2, offset + 4)
  /\ UNCHANGED <<payload, extensions_end, server_name>>

\* The body of the loop: stop at server_name or go to the next extension.
NextExtension ==
  /\ at = "extension" /\ offset + 4 <= extensions_end
  /\ read' = offset .. offset + 3
  /\ IF Number(offset, offset + 2) = EXTENSION_TYPE_SNI
     THEN at' = "server_name" /\ UNCHANGED offset
     ELSE at' = "extension" /\ offset' = offset + 4 + Number(offset + 2, offset + 4)
  /\ UNCHANGED <<payload, extensions_end, server_name>>

\* Within the server_name extension: list length (2), name type (1), name
\* length (2), name.
name_start == offset + 9
name_end   == name_start + Number(offset + 7, offset + 9)

NoNameHeader ==
  /\ at = "server_name" /\ ~Fits(9)
  /\ Return(None) /\ read' = {}

NameCutOff ==
  /\ at = "server_name" /\ Fits(9) /\ name_end > length
  /\ Return(None) /\ read' = offset + 7 .. offset + 8

\* Mutant: a name that is cut off is returned as far as it goes.
ServerNameAsFar ==
  /\ at = "server_name" /\ Fits(9)
  /\ LET name == decode(Slice(name_start, name_end))
     IN  Return(IF name = <<>> THEN None ELSE name)
  /\ read' = offset + 7 .. name_end - 1

ServerName ==
  /\ at = "server_name" /\ Fits(9) /\ name_end <= length
  /\ LET name == decode(Slice(name_start, name_end))
     IN  Return(IF name = <<>> THEN None ELSE name)
  /\ read' = offset + 7 .. name_end - 1

Finished == at = "done" /\ UNCHANGED vars

Step == \/ Classify \/ SessionId \/ CipherSuites \/ Compression \/ Extensions
        \/ EndOfExtensions \/ NextExtension
        \/ NoNameHeader \/ NameCutOff \/ ServerName

Next == Step \/ Finished

Spec == Init /\ [][Next]_vars

\* A call goes on until it returns.
FairSpec == Spec /\ WF_vars(Step)
-----------------------------------------------------------------------------
(* What extract promises.                                                  *)

Places == {"classify", "session_id", "cipher_suites", "compression",
           "extensions", "extension", "server_name", "done"}

TypeOK ==
  /\ payload \in Payloads
  /\ at \in Places
  /\ offset \in Nat /\ extensions_end \in Nat
  /\ read \subseteq Nat

\* No field is read beyond the end of the payload, wherever the capture was
\* cut and whatever its length fields say: payload[i] does not raise IndexError
\* and no slice is shorter than the number it is taken for.
ReadsInBounds == \A k \in read : k < length

\* The walk stays on the payload's extensions: their end is within the payload
\* and the loop's offset is never left inside an extension header that is not
\* all there.
WalkStaysInside ==
  /\ at \in {"extension", "server_name"} => extensions_end <= length
  /\ at = "server_name" => offset + 4 <= extensions_end

\* A name that is returned is the whole name that the extension declares: its
\* length field and all its bytes are in the payload.
NameIsWhole ==
  server_name # None =>
    /\ name_end <= length
    /\ server_name = decode(SubSeq(payload, name_start + 1, name_end))

\* The walk ends on every payload.
Ends == <>(at = "done")
=============================================================================
