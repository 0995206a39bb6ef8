------------------------- MODULE SNIExtractorProofs -------------------------
(***************************************************************************)
(* SNIExtractor stays within the payload, for every payload; and of every  *)
(* ClientHello, however much of it was captured, it returns the name or    *)
(* nothing.                                                                *)
(*                                                                         *)
(* The second needs to know where a hello has its fields (Layout), where   *)
(* its extensions (ExtensionAt), and what of them a capture still shows    *)
(* (SliceOfPart); the invariant Walk then says, place by place, that the   *)
(* walk is at the offset of the field that it takes itself to be at.       *)
(***************************************************************************)
EXTENDS ClientHello, SequenceLemmas

\* A byte is a natural number, and so is a number of one or two of them.
LEMMA ByteType == \A b \in Byte : b \in Nat
BY DEF Byte

LEMMA BigEndianType ==
  ASSUME NEW bytes \in Seq(Byte)
  PROVE  BigEndian(bytes) \in Nat
<1>1. CASE bytes = <<>>
  BY <1>1 DEF BigEndian
<1>2. CASE Len(bytes) = 1
  <2>1. bytes # <<>> /\ bytes[1] \in Byte
    BY <1>2
  <2>. QED BY <1>2, <2>1, ByteType DEF BigEndian
<1>3. CASE bytes # <<>> /\ Len(bytes) # 1
  <2>1. Len(bytes) \in Nat /\ Len(bytes) >= 2
    <3>1. Len(bytes) \in Nat /\ Len(bytes) # 0
      BY <1>3, EmptySeq
    <3>2. \A n \in Nat : n \notin {0, 1} => n >= 2
      OBVIOUS
    <3>. QED BY <1>3, <3>1, <3>2
  <2>2. bytes[1] \in Byte /\ bytes[2] \in Byte
    BY <2>1
  <2>3. bytes[1] \in Nat /\ bytes[2] \in Nat
    BY <2>2, ByteType
  <2>. QED BY <1>3, <2>3 DEF BigEndian
<1>. QED BY <1>1, <1>2, <1>3

\* So is a number read from a payload, wherever the slice lies.
LEMMA NumberType ==
  ASSUME payload \in Seq(Byte), NEW from \in Nat, NEW to \in Nat
  PROVE  Number(from, to) \in Nat
<1>1. Smaller(to, length) \in Nat /\ Smaller(to, length) <= Len(payload)
  BY DEF Smaller, length
<1>2. Slice(from, to) \in Seq(Byte)
  BY <1>1 DEF Slice
<1>. QED BY <1>2, BigEndianType DEF Number

\* What holds of a call between any two of its steps.
Inv ==
  /\ TypeOK
  /\ ReadsInBounds
  /\ WalkStaysInside
  /\ NameIsWhole
  /\ at # "done" => server_name = None

LEMMA InitEstablishes == Init => Inv
BY DEF Init, Inv, TypeOK, Places, ReadsInBounds, WalkStaysInside, NameIsWhole

\* To return None leaves the walk where it is.
LEMMA ReturnNone ==
  ASSUME Inv, Return(None), read' \subseteq Nat, \A k \in read' : k < length
  PROVE  Inv'
BY DEF Inv, TypeOK, Places, Return, ReadsInBounds, WalkStaysInside, NameIsWhole, length

\* A field that fits is skipped without leaving the natural numbers.
LEMMA SkipPreserves ==
  ASSUME Inv, NEW field \in Places \ {"done"}, NEW width \in {1, 2},
         NEW next \in Places \ {"extension", "server_name", "done"},
         Skip(field, width, next)
  PROVE  Inv'
<1>1. payload \in Seq(Byte) /\ offset \in Nat /\ length \in Nat
  BY PayloadAssumption DEF Inv, TypeOK, length
<1>2. Number(offset, offset + width) \in Nat
  <2>. offset + width \in Nat
    BY <1>1
  <2>. QED BY <1>1, NumberType
<1>3. TypeOK'
  BY <1>1, <1>2 DEF Inv, TypeOK, Skip
<1>4. ReadsInBounds'
  BY <1>1 DEF Skip, Fits, ReadsInBounds, length
<1>. QED BY <1>3, <1>4 DEF Inv, Skip, WalkStaysInside, NameIsWhole

LEMMA CutOffPreserves ==
  ASSUME Inv, NEW field, NEW width, CutOff(field, width)
  PROVE  Inv'
BY ReturnNone DEF CutOff

LEMMA StepPreserves == Inv /\ [Next]_vars => Inv'
<1>. SUFFICES ASSUME Inv, [Next]_vars PROVE Inv'
  OBVIOUS
<1>. USE DEF Places
<1>0. /\ payload \in Payloads /\ payload \in Seq(Byte) /\ at \in Places
      /\ offset \in Nat /\ extensions_end \in Nat /\ length \in Nat
  BY PayloadAssumption DEF Inv, TypeOK, length
<1>1. CASE Classify
  <2>1. read' \subseteq Nat /\ \A k \in read' : k < length
    BY <1>0, <1>1 DEF Classify
  <2>2. CASE Return(None)
    BY <2>1, <2>2, ReturnNone
  <2>3. CASE ~Return(None)
    BY <1>0, <1>1, <2>1, <2>3
       DEF Classify, Inv, TypeOK, SESSION_ID_OFFSET, ReadsInBounds, WalkStaysInside,
           NameIsWhole, length
  <2>. QED BY <2>2, <2>3
<1>2. CASE SessionId
  BY <1>2, CutOffPreserves, SkipPreserves DEF SessionId
<1>3. CASE CipherSuites
  BY <1>3, CutOffPreserves, SkipPreserves DEF CipherSuites
<1>4. CASE Compression
  BY <1>4, CutOffPreserves, SkipPreserves DEF Compression
<1>5. CASE Extensions
  <2>1. CASE CutOff("extensions", 2)
    BY <2>1, CutOffPreserves
  <2>2. CASE ~CutOff("extensions", 2)
    <3>0. offset + 2 \in Nat
      BY <1>0
    <3>1. Number(offset, offset + 2) \in Nat
      BY <1>0, <3>0, NumberType
    <3>2. /\ at' = "extension" /\ offset' = offset + 2
          /\ extensions_end' \in Nat /\ extensions_end' <= length
          /\ read' = offset .. offset + 1 /\ offset + 2 <= length
          /\ UNCHANGED <<payload, server_name>> /\ at = "extensions"
      BY <1>0, <1>5, <2>2, <3>1 DEF Extensions, Smaller, Fits
    <3>. QED BY <1>0, <3>2 DEF Inv, TypeOK, ReadsInBounds, WalkStaysInside, NameIsWhole, length
  <2>. QED BY <2>1, <2>2
<1>6. CASE EndOfExtensions
  BY <1>6, ReturnNone DEF EndOfExtensions
<1>7. CASE NextExtension
  <2>. offset + 2 \in Nat /\ offset + 4 \in Nat
    BY <1>0
  <2>1. Number(offset + 2, offset + 4) \in Nat
    BY <1>0, NumberType
  <2>2. at = "extension" /\ offset + 4 <= extensions_end /\ extensions_end <= length
    BY <1>7 DEF NextExtension, Inv, WalkStaysInside
  <2>3. /\ read' = offset .. offset + 3 /\ UNCHANGED <<payload, extensions_end, server_name>>
        /\ \/ at' = "server_name" /\ offset' = offset
           \/ at' = "extension" /\ offset' \in Nat
    BY <1>0, <1>7, <2>1 DEF NextExtension
  <2>. QED BY <1>0, <2>2, <2>3
           DEF Inv, TypeOK, ReadsInBounds, WalkStaysInside, NameIsWhole, length
<1>8. CASE NoNameHeader
  BY <1>8, ReturnNone DEF NoNameHeader
<1>9. CASE NameCutOff
  <2>1. read' \subseteq Nat /\ \A k \in read' : k < length
    BY <1>0, <1>9 DEF NameCutOff, Fits
  <2>. QED BY <1>9, <2>1, ReturnNone DEF NameCutOff
<1>10. CASE ServerName
  <2>. offset + 7 \in Nat /\ offset + 9 \in Nat
    BY <1>0
  <2>0. Number(offset + 7, offset + 9) \in Nat
    BY <1>0, NumberType
  <2>1. name_end \in Nat /\ name_start = offset + 9 /\ name_end <= length
    BY <1>0, <1>10, <2>0 DEF ServerName, name_start, name_end
  <2>2. Slice(name_start, name_end) = SubSeq(payload, name_start + 1, name_end)
    BY <1>0, <2>1 DEF Slice, Smaller
  <2>3. /\ at = "server_name" /\ at' = "done"
        /\ UNCHANGED <<payload, offset, extensions_end>>
        /\ read' = offset + 7 .. name_end - 1
        /\ \/ server_name' = None
           \/ server_name' = decode(Slice(name_start, name_end))
    BY <1>10 DEF ServerName, Return
  <2>4. TypeOK' /\ ReadsInBounds' /\ WalkStaysInside'
    BY <1>0, <2>1, <2>3 DEF TypeOK, ReadsInBounds, WalkStaysInside, length
  <2>5. name_end' = name_end /\ length' = length /\ name_start' = name_start
    BY <2>3 DEF name_end, name_start, Number, Slice, length
  <2>6. NameIsWhole'
    BY <2>1, <2>2, <2>3, <2>5 DEF NameIsWhole
  <2>. QED BY <2>3, <2>4, <2>6 DEF Inv
<1>11. CASE UNCHANGED vars
  BY <1>11 DEF vars, Inv, TypeOK, ReadsInBounds, WalkStaysInside, NameIsWhole,
               name_end, name_start, Number, Slice, length
<1>. QED BY <1>1, <1>2, <1>3, <1>4, <1>5, <1>6, <1>7, <1>8, <1>9, <1>10, <1>11
         DEF Next, Step, Finished

LEMMA AlwaysInv == Spec => []Inv
BY InitEstablishes, StepPreserves, PTL DEF Spec

\* The walk's variables stay offsets and ends of the payload's own kind
\* (SNIExtractor.extract: the guards and the arithmetic of every step).
THEOREM TypeCorrect == Spec => []TypeOK
BY AlwaysInv, PTL DEF Inv

\* Whatever bytes are captured, extract reads none that is not there
\* (sni_extractor.py:20-128).
THEOREM ReadsStayInBounds == Spec => []ReadsInBounds
BY AlwaysInv, PTL DEF Inv

\* The walk over the extensions stays before their clamped end
\* (sni_extractor.py:80-126).
THEOREM WalkInside == Spec => []WalkStaysInside
BY AlwaysInv, PTL DEF Inv

\* No name is ever returned in part (sni_extractor.py:113-124).
THEOREM NamesAreWhole == Spec => []NameIsWhole
BY AlwaysInv, PTL DEF Inv

-----------------------------------------------------------------------------
(* The bytes of a list that is made of parts.                              *)

\* Two bytes and one byte hold the number that they were written for.
LEMMA WordIs ==
  ASSUME NEW n \in Nat
  PROVE  Word(n) \in Seq(Nat) /\ Len(Word(n)) = 2 /\ BigEndian(Word(n)) = n
<1>1. PICK q \in Nat, r \in Nat : q = n \div 256 /\ r = n % 256 /\ n = 256 * q + r
  OBVIOUS
<1>2. Word(n) = <<q, r>>
  BY <1>1 DEF Word
<1>3. /\ <<q, r>> # <<>> /\ Len(<<q, r>>) = 2 /\ <<q, r>> \in Seq(Nat)
      /\ <<q, r>>[1] = q /\ <<q, r>>[2] = r
  OBVIOUS
<1>4. BigEndian(<<q, r>>) = n
  <2>1. BigEndian(<<q, r>>) = 256 * q + r
    BY <1>3 DEF BigEndian
  <2>. QED BY <1>1, <2>1
<1>. QED BY <1>2, <1>3, <1>4, Zenon

LEMMA ByteIs == ASSUME NEW n \in Nat PROVE BigEndian(<<n>>) = n
<1>1. <<n>> # <<>> /\ Len(<<n>>) = 1 /\ <<n>>[1] = n
  OBVIOUS
<1>. QED BY <1>1 DEF BigEndian

\* From offset k on, the bytes of s are those of part.
At(s, k, part) == k + Len(part) <= Len(s) /\ \A i \in 1 .. Len(part) : s[k + i] = part[i]

\* If one part follows another, each is at its own offset.
LEMMA SplitAt ==
  ASSUME NEW s \in Seq(Nat), NEW k \in Nat, NEW part \in Seq(Nat), NEW other \in Seq(Nat),
         At(s, k, part \o other)
  PROVE  /\ At(s, k, part) /\ At(s, k + Len(part), other)
         /\ Len(part \o other) = Len(part) + Len(other) /\ part \o other \in Seq(Nat)
         /\ k + Len(part) \in Nat
<1>1. PICK m \in Nat, n \in Nat : m = Len(part) /\ n = Len(other)
  OBVIOUS
<1>2. /\ Len(part \o other) = m + n /\ \A i \in 1 .. m : (part \o other)[i] = part[i]
      /\ \A i \in 1 .. n : (part \o other)[m + i] = other[i] /\ part \o other \in Seq(Nat)
  BY <1>1
<1>0. Len(s) \in Nat /\ k + (m + n) <= Len(s) /\ \A i \in 1 .. m + n : s[k + i] = (part \o other)[i]
  <2>1. PICK both : both = part \o other
    OBVIOUS
  <2>2. At(s, k, both) /\ Len(both) = m + n
    BY <1>2, <2>1
  <2>3. k + (m + n) <= Len(s) /\ \A i \in 1 .. m + n : s[k + i] = both[i]
    BY <2>2, Zenon DEF At
  <2>4. Len(s) \in Nat
    OBVIOUS
  <2>. QED BY <2>1, <2>3, <2>4, Zenon
<1>3. At(s, k, part)
  <2>1. \A i \in 1 .. m : i \in 1 .. m + n
    OBVIOUS
  <2>2. k + m <= Len(s)
    BY <1>0
  <2>. QED BY <1>0, <1>1, <1>2, <2>1, <2>2 DEF At
<1>4. k + m + n <= Len(s)
  BY <1>0
<1>5. \A i \in 1 .. n : s[k + m + i] = other[i]
  <2>1. \A i \in 1 .. n : m + i \in 1 .. m + n /\ k + (m + i) = k + m + i
    OBVIOUS
  <2>2. \A i \in 1 .. m + n : s[k + i] = (part \o other)[i]
    BY <1>2 DEF At
  <2>. QED BY <1>2, <2>1, <2>2
<1>. QED BY <1>1, <1>2, <1>3, <1>4, <1>5 DEF At

LEMMA AtItself == ASSUME NEW s \in Seq(Nat) PROVE At(s, 0, s)
BY DEF At

\* What a capture shows of a part that was captured.
LEMMA SliceOfPart ==
  ASSUME NEW s \in Seq(Nat), payload \in Seq(Byte), IsPrefix(payload, s),
         NEW k \in Nat, NEW part \in Seq(Nat), At(s, k, part),
         NEW to \in Nat, to = k + Len(part), to <= length
  PROVE  Slice(k, to) = part
<1>1. PICK n \in Nat : n = Len(payload)
  OBVIOUS
<1>2. \A i \in 1 .. n : payload[i] = s[i]
  <2>1. /\ n <= Len(s) /\ SubSeq(payload, 1, n) = SubSeq(s, 1, n)
    BY <1>1 DEF IsPrefix
  <2>2. \A i \in 1 .. n : SubSeq(payload, 1, n)[i] = payload[i] /\ SubSeq(s, 1, n)[i] = s[i]
    BY <1>1, <2>1
  <2>. QED BY <2>1, <2>2
<1>3. PICK m \in Nat : m = Len(part) /\ to = k + m
  OBVIOUS
<1>4. Slice(k, to) = SubSeq(payload, k + 1, to)
  <2>1. to <= n /\ length = n
    BY <1>1 DEF length
  <2>2. Smaller(to, length) = to
    BY <1>1, <2>1 DEF Smaller
  <2>. QED BY <2>2 DEF Slice
<1>5. PICK t : t = SubSeq(payload, k + 1, to)
  OBVIOUS
<1>6. t \in Seq(Byte) /\ Len(t) = m /\ \A i \in 1 .. m : t[i] = payload[k + i]
  <2>1. k + 1 \in 1 .. n + 1 /\ to <= n /\ k + m <= n
    BY <1>1, <1>3 DEF length
  <2>2. \A i \in k + 1 .. to : payload[i] \in Byte
    BY <1>1, <2>1
  <2>3. \A i \in 1 .. m : k + i = k + 1 + i - 1 /\ i <= to - (k + 1) + 1
    BY <1>3
  <2>4. t \in Seq(Byte) /\ Len(t) = IF k + 1 <= to THEN to - (k + 1) + 1 ELSE 0
    BY <1>5, <2>2, SubSeqProperties
  <2>5. Len(t) = m
    BY <1>3, <2>4
  <2>6. \A i \in 1 .. m : t[i] = payload[k + i]
    BY <1>1, <1>3, <1>5, <2>1
  <2>. QED BY <2>4, <2>5, <2>6
<1>7. \A i \in 1 .. m : t[i] = part[i]
  <2>1. \A i \in 1 .. m : k + i \in 1 .. n
    BY <1>1, <1>3 DEF length
  <2>2. \A i \in 1 .. m : s[k + i] = part[i]
    BY <1>3 DEF At
  <2>. QED BY <1>2, <1>6, <2>1, <2>2
<1>8. t \in Seq(Nat)
  <2>1. Byte \subseteq Nat
    BY DEF Byte
  <2>. QED BY <1>6, <2>1, SeqMonotonic
<1>9. t = part
  BY <1>3, <1>6, <1>7, <1>8, SeqEqual
<1>. QED BY <1>4, <1>5, <1>9

-----------------------------------------------------------------------------
(* Where a hello has its fields.                                           *)

SuitesOf(hello)      == 44 + Len(hello.session_id)
CompressionOf(hello) == SuitesOf(hello) + 2 + Len(hello.cipher_suites)
ExtensionsOf(hello)  == CompressionOf(hello) + 2

\* The offset of an extension: those before it follow the length of them all.
OffsetOf(hello, k) == ExtensionsOf(hello) + 2 + Len(FlattenSeq(SubSeq(hello.extensions, 1, k - 1)))

\* A hello is made of lists of numbers.
LEMMA HelloType ==
  ASSUME NEW hello \in Hellos
  PROVE  /\ hello.session_id \in Seq(Nat) /\ hello.cipher_suites \in Seq(Nat)
         /\ hello.extensions \in Seq(Seq(Nat)) /\ FlattenSeq(hello.extensions) \in Seq(Nat)
         /\ Len(hello.session_id) \in Nat /\ Len(hello.cipher_suites) \in Nat
         /\ Len(hello.extensions) \in Nat /\ Len(FlattenSeq(hello.extensions)) \in Nat
         /\ DOMAIN hello.extensions = 1 .. Len(hello.extensions)
<1>1. Byte \subseteq Nat
  BY DEF Byte
<1>2. PICK a, b, c : a = hello.session_id /\ b = hello.cipher_suites /\ c = hello.extensions
  OBVIOUS
<1>3. a \in Seq(Byte) /\ b \in Seq(Byte) /\ c \in Seq(Seq(Byte))
  BY <1>2, HelloAssumption
<1>4. a \in Seq(Nat) /\ b \in Seq(Nat)
  BY <1>1, <1>3, SeqMonotonic
<1>5. Seq(Byte) \subseteq Seq(Nat)
  BY <1>1, SeqMonotonic
<1>6. c \in Seq(Seq(Nat))
  <2>. HIDE DEF Byte
  <2>1. PICK S, T : S = Seq(Byte) /\ T = Seq(Nat)
    OBVIOUS
  <2>2. c \in Seq(S) /\ S \subseteq T
    BY <1>3, <1>5, <2>1
  <2>3. c \in Seq(T)
    BY <2>2, SeqMonotonic
  <2>. QED BY <2>1, <2>3
<1>7. FlattenSeq(c) \in Seq(Nat)
  BY <1>6, FlattenType
<1>. QED BY <1>2, <1>4, <1>6, <1>7

\* s is a list of n numbers.
Bytes(s, n) == s \in Seq(Nat) /\ n \in Nat /\ Len(s) = n

\* u is s and then t.
Row(u, s, t) == u = s \o t

LEMMA InARow ==
  ASSUME NEW s, NEW t, NEW u, Row(u, s, t), NEW m, NEW n, Bytes(s, m), Bytes(t, n)
  PROVE  Bytes(u, m + n)
<1>1. s \o t \in Seq(Nat) /\ Len(s \o t) = Len(s) + Len(t)
  BY ConcatProperties DEF Bytes
<1>. QED BY <1>1 DEF Bytes, Row

\* The one and, further on, the other.
LEMMA PartsAt ==
  ASSUME NEW s \in Seq(Nat), NEW k \in Nat, NEW part, NEW other, NEW m, NEW n,
         Bytes(part, m), Bytes(other, n), NEW both, Row(both, part, other), At(s, k, both)
  PROVE  At(s, k, part) /\ At(s, k + m, other)
BY SplitAt DEF Bytes, Row

LEMMA ZerosIs == ASSUME NEW n \in Nat PROVE Bytes(Zeros(n), n)
<1>1. Zeros(n) \in [1 .. n -> Nat]
  BY DEF Zeros
<1>2. Zeros(n) \in Seq(Nat)
  BY <1>1, SeqDef
<1>. QED BY <1>1, <1>2, LenProperties DEF Bytes

LEMMA ShortBytes ==
  /\ Bytes(<<22, 3, 1>>, 3) /\ Bytes(<<3, 3>>, 2) /\ Bytes(<<1, 0>>, 2)
  /\ \A n \in Nat : Bytes(<<n>>, 1) /\ Bytes(Word(n), 2)
<1>1. Bytes(<<22, 3, 1>>, 3) /\ Bytes(<<3, 3>>, 2) /\ Bytes(<<1, 0>>, 2)
  BY DEF Bytes
<1>2. \A n \in Nat : Bytes(<<n>>, 1)
  BY DEF Bytes
<1>3. \A n \in Nat : Bytes(Word(n), 2)
  BY WordIs DEF Bytes
<1>. QED BY <1>1, <1>2, <1>3

\* The fields of a hello, and how long it is.
LEMMA Layout ==
  ASSUME NEW hello \in Hellos
  PROVE  LET bytes == Encode(hello)
         IN  /\ bytes \in Seq(Nat)
             /\ At(bytes, 0, <<22, 3, 1>>) /\ At(bytes, 5, <<1, 0>>)
             /\ At(bytes, 43, <<Len(hello.session_id)>>)
             /\ At(bytes, SuitesOf(hello), Word(Len(hello.cipher_suites)))
             /\ At(bytes, CompressionOf(hello), <<1>>)
             /\ At(bytes, ExtensionsOf(hello), Word(Len(FlattenSeq(hello.extensions))))
             /\ At(bytes, ExtensionsOf(hello) + 2, FlattenSeq(hello.extensions))
             /\ Len(bytes) = ExtensionsOf(hello) + 2 + Len(FlattenSeq(hello.extensions))
<1>1. PICK sid, suites, all :
        sid = hello.session_id /\ suites = hello.cipher_suites /\ all = FlattenSeq(hello.extensions)
  OBVIOUS
<1>2. PICK a, b, c : a = Len(sid) /\ b = Len(suites) /\ c = Len(all)
  OBVIOUS
<1>3. a \in Nat /\ b \in Nat /\ c \in Nat /\ Bytes(sid, a) /\ Bytes(suites, b) /\ Bytes(all, c)
  BY <1>1, <1>2, HelloType DEF Bytes
\* The offsets.
<1>4. PICK suites_at, compression_at, extensions_at, first_at :
        /\ suites_at = 44 + a /\ compression_at = suites_at + 2 + b
        /\ extensions_at = compression_at + 2 /\ first_at = extensions_at + 2
  OBVIOUS
<1>5. /\ SuitesOf(hello) = suites_at /\ CompressionOf(hello) = compression_at
      /\ ExtensionsOf(hello) = extensions_at
  BY <1>1, <1>2, <1>4, Zenon DEF SuitesOf, CompressionOf, ExtensionsOf
<1>6. /\ suites_at \in Nat /\ compression_at \in Nat /\ extensions_at \in Nat /\ first_at \in Nat
  BY <1>3, <1>4
\* The fields of a fixed size.
<1>7. PICK start, version, kind, la, one, nul, wb, wc, zeros :
        /\ start = <<22, 3, 1>> /\ version = <<3, 3>> /\ kind = <<1, 0>>
        /\ la = <<a>> /\ one = <<1>> /\ nul = <<0>> /\ wb = Word(b) /\ wc = Word(c)
        /\ zeros = Zeros(32)
  OBVIOUS
<1>8. /\ Bytes(start, 3) /\ Bytes(version, 2) /\ Bytes(kind, 2)
      /\ Bytes(la, 1) /\ Bytes(one, 1) /\ Bytes(nul, 1) /\ Bytes(wb, 2) /\ Bytes(wc, 2)
      /\ Bytes(zeros, 32)
  BY <1>3, <1>7, ShortBytes, ZerosIs
\* The parts of the body, from the left.
<1>9. PICK f1, f2, f3, f4 :
        Row(f1, la, sid) /\ Row(f2, wb, suites) /\ Row(f3, one, nul) /\ Row(f4, wc, all)
  BY DEF Row
<1>10. Bytes(f1, 1 + a) /\ Bytes(f2, 2 + b) /\ Bytes(f3, 1 + 1) /\ Bytes(f4, 2 + c)
  BY <1>3, <1>8, <1>9, InARow
<1>11. PICK p1, p2, p3, p4, body :
         /\ Row(p1, version, zeros) /\ Row(p2, p1, f1) /\ Row(p3, p2, f2) /\ Row(p4, p3, f3)
         /\ Row(body, p4, f4)
  BY DEF Row
<1>12. /\ 34 = 2 + 32 /\ 35 + a = 34 + (1 + a) /\ 37 + a + b = (35 + a) + (2 + b)
       /\ 39 + a + b = (37 + a + b) + (1 + 1) /\ 41 + a + b + c = (39 + a + b) + (2 + c)
  BY <1>3
<1>13. Bytes(p1, 34)
  BY <1>8, <1>11, <1>12, InARow
<1>14. Bytes(p2, 35 + a)
  BY <1>10, <1>11, <1>12, <1>13, InARow
<1>15. Bytes(p3, 37 + a + b)
  BY <1>10, <1>11, <1>12, <1>14, InARow
<1>16. Bytes(p4, 39 + a + b)
  BY <1>10, <1>11, <1>12, <1>15, InARow
<1>17. Bytes(body, 41 + a + b + c)
  BY <1>10, <1>11, <1>12, <1>16, InARow
<1>18. Body(hello) = body
  BY <1>1, <1>2, <1>7, <1>9, <1>11, Zenon DEF Body, Counted1, Counted2, Row
\* What goes around the body.
<1>19. PICK w2, sized, message : w2 = Word(Len(body)) /\ Row(sized, w2, body) /\ Row(message, kind, sized)
  BY DEF Row
<1>20. PICK w1, record, bytes : w1 = Word(Len(message)) /\ Row(record, w1, message) /\ Row(bytes, start, record)
  BY DEF Row
<1>21. /\ 43 + a + b + c = 2 + (41 + a + b + c) /\ 45 + a + b + c = 2 + (43 + a + b + c)
       /\ 47 + a + b + c = 2 + (45 + a + b + c) /\ 50 + a + b + c = 3 + (47 + a + b + c)
  BY <1>3
<1>22. Bytes(w2, 2)
  BY <1>17, <1>19, ShortBytes DEF Bytes
<1>23. Bytes(sized, 43 + a + b + c)
  BY <1>17, <1>19, <1>21, <1>22, InARow
<1>24. Bytes(message, 45 + a + b + c)
  BY <1>8, <1>19, <1>21, <1>23, InARow
<1>25. Bytes(w1, 2)
  BY <1>20, <1>24, ShortBytes DEF Bytes
<1>26. Bytes(record, 47 + a + b + c)
  BY <1>20, <1>21, <1>24, <1>25, InARow
<1>27. Bytes(bytes, 50 + a + b + c)
  BY <1>8, <1>20, <1>21, <1>26, InARow
<1>28. Encode(hello) = bytes
  BY <1>7, <1>18, <1>19, <1>20, Zenon DEF Encode, Counted2, Row
\* Where they are.
<1>29. bytes \in Seq(Nat)
  BY <1>27 DEF Bytes
<1>30. At(bytes, 0, bytes)
  BY <1>29, AtItself
<1>31. At(bytes, 0, start) /\ At(bytes, 3, record)
  BY <1>8, <1>20, <1>26, <1>29, <1>30, PartsAt
<1>32. At(bytes, 5, message)
  BY <1>20, <1>24, <1>25, <1>29, <1>31, PartsAt
<1>33. At(bytes, 5, kind) /\ At(bytes, 7, sized)
  BY <1>8, <1>19, <1>23, <1>29, <1>32, PartsAt
<1>34. At(bytes, 9, body)
  BY <1>17, <1>19, <1>22, <1>29, <1>33, PartsAt
<1>35. At(bytes, 9, p4) /\ At(bytes, extensions_at, f4)
  <2>1. extensions_at = 9 + (39 + a + b)
    BY <1>3, <1>4
  <2>. QED BY <1>10, <1>11, <1>16, <1>29, <1>34, <2>1, PartsAt
<1>36. At(bytes, 9, p3) /\ At(bytes, compression_at, f3)
  <2>1. compression_at = 9 + (37 + a + b)
    BY <1>3, <1>4
  <2>. QED BY <1>10, <1>11, <1>15, <1>29, <1>35, <2>1, PartsAt
<1>37. At(bytes, 9, p2) /\ At(bytes, suites_at, f2)
  <2>1. suites_at = 9 + (35 + a)
    BY <1>3, <1>4
  <2>. QED BY <1>10, <1>11, <1>14, <1>29, <1>36, <2>1, PartsAt
<1>38. At(bytes, 43, f1)
  BY <1>10, <1>11, <1>13, <1>29, <1>37, PartsAt
<1>39. At(bytes, 43, la)
  BY <1>3, <1>8, <1>9, <1>29, <1>38, PartsAt
<1>40. At(bytes, suites_at, wb)
  BY <1>3, <1>6, <1>8, <1>9, <1>29, <1>37, PartsAt
<1>41. At(bytes, compression_at, one)
  BY <1>3, <1>6, <1>8, <1>9, <1>29, <1>36, PartsAt
<1>42. At(bytes, extensions_at, wc) /\ At(bytes, first_at, all)
  BY <1>3, <1>4, <1>6, <1>8, <1>9, <1>29, <1>35, PartsAt
<1>43. Len(bytes) = first_at + c
  BY <1>3, <1>4, <1>27 DEF Bytes
<1>. QED BY <1>1, <1>2, <1>4, <1>5, <1>7, <1>28, <1>29, <1>31, <1>33, <1>39, <1>40, <1>41,
            <1>42, <1>43, Zenon

-----------------------------------------------------------------------------
(* The extensions.                                                         *)

\* The number in front of a part of which the rest is known.
LEMMA WordsDiffer ==
  ASSUME NEW m \in Nat, NEW n \in Nat, Word(m) = Word(n)
  PROVE  m = n
<1>1. BigEndian(Word(m)) = m /\ BigEndian(Word(n)) = n
  BY WordIs
<1>. QED BY <1>1

\* The first two bytes of a list that begins with a word.
LEMMA FirstWord ==
  ASSUME NEW w, Bytes(w, 2), NEW rest, NEW m, Bytes(rest, m), NEW s, Row(s, w, rest)
  PROVE  SubSeq(s, 1, 2) = w
<1>1. w \in Seq(Nat) /\ Len(w) = 2 /\ rest \in Seq(Nat)
  BY DEF Bytes
<1>2. 1 \in 1 .. Len(w) /\ 2 \in 1 .. Len(w)
  BY <1>1
<1>3. SubSeq(w \o rest, 1, 2) = SubSeq(w, 1, 2)
  BY <1>1, <1>2, SubSeqOfConcat1
<1>4. SubSeq(w, 1, 2) = w
  BY <1>1, SubSeqFull
<1>. QED BY <1>3, <1>4 DEF Row

\* What an extension is made of, and how long it is.
LEMMA PartsOfExtension ==
  ASSUME NEW hello \in Hellos, NEW k \in 1 .. Len(hello.extensions), NEW e, e = hello.extensions[k]
  PROVE  \E n, type, data, tail :
           /\ n \in Nat /\ type \in Nat
           /\ Bytes(e, n + 4) /\ Bytes(data, n) /\ Bytes(tail, n + 2)
           /\ Row(tail, Word(n), data) /\ Row(e, Word(type), tail)
           /\ k \in Named(hello) <=> type = 0
<1>1. /\ e \in Seq(Byte) /\ IsExtension(e) /\ k \in DOMAIN hello.extensions
  BY HelloAssumption, HelloType
<1>2. PICK data, first : data = SubSeq(e, 5, Len(e)) /\ first = SubSeq(e, 1, 2)
  OBVIOUS
<1>3. Len(e) \in Nat /\ Len(e) >= 4
  BY <1>1 DEF IsExtension
<1>4. first \in Seq(Byte) /\ data \in Seq(Byte) /\ Len(data) = Len(e) - 4
  <2>. HIDE DEF Byte
  <2>. QED BY <1>1, <1>2, <1>3
<1>5. PICK n \in Nat, type \in Nat : n = Len(data) /\ type = BigEndian(first)
  BY <1>3, <1>4, BigEndianType
<1>6. PICK tail : tail = Word(n) \o data
  OBVIOUS
<1>7. e = Word(type) \o tail
  BY <1>1, <1>2, <1>5, <1>6, Zenon DEF IsExtension, Extension, Counted2
<1>8. Row(tail, Word(n), data) /\ Row(e, Word(type), tail)
  BY <1>6, <1>7 DEF Row
<1>9. Bytes(data, n) /\ Bytes(e, n + 4)
  <2>1. Byte \subseteq Nat
    BY DEF Byte
  <2>2. data \in Seq(Nat) /\ e \in Seq(Nat)
    BY <1>1, <1>4, <2>1, SeqMonotonic
  <2>3. Len(e) = n + 4
    BY <1>3, <1>4, <1>5
  <2>. QED BY <1>5, <2>2, <2>3 DEF Bytes
<1>10. Bytes(Word(n), 2) /\ Bytes(Word(type), 2)
  BY ShortBytes
<1>11. Bytes(tail, n + 2)
  <2>1. Bytes(tail, 2 + n)
    BY <1>8, <1>9, <1>10, InARow
  <2>2. 2 + n = n + 2
    OBVIOUS
  <2>. QED BY <2>1, <2>2
<1>12. first = Word(type)
  BY <1>2, <1>8, <1>10, <1>11, FirstWord
<1>13. k \in Named(hello) <=> first = Word(0)
  BY <1>1, <1>2 DEF Named, EXTENSION_TYPE_SNI
<1>14. first = Word(0) <=> type = 0
  BY <1>12, WordsDiffer
<1>15. k \in Named(hello) <=> type = 0
  BY <1>13, <1>14, Zenon
<1>16. /\ n \in Nat /\ type \in Nat
       /\ Bytes(e, n + 4) /\ Bytes(data, n) /\ Bytes(tail, n + 2)
       /\ Row(tail, Word(n), data) /\ Row(e, Word(type), tail)
       /\ k \in Named(hello) <=> type = 0
  BY <1>5, <1>8, <1>9, <1>11, <1>15, Zenon
<1>. QED BY <1>16

\* Three parts in a row are a row from the left and from the right.
LEMMA SameRow ==
  ASSUME NEW s, NEW t, NEW u, NEW k, NEW m, NEW n, Bytes(s, k), Bytes(t, m), Bytes(u, n),
         NEW tu, Row(tu, t, u), NEW all, Row(all, s, tu), NEW st, Row(st, s, t)
  PROVE  Row(all, st, u)
<1>1. PICK S : S = Nat
  OBVIOUS
<1>2. s \in Seq(S) /\ t \in Seq(S) /\ u \in Seq(S)
  BY <1>1 DEF Bytes
<1>3. (s \o t) \o u = s \o (t \o u)
  BY <1>2, ConcatAssociative
<1>. QED BY <1>3, Zenon DEF Row

\* What a server_name extension is made of.
LEMMA PartsOfServerName ==
  ASSUME NEW hello \in Hellos, NEW k \in Named(hello), NEW e, e = hello.extensions[k]
  PROVE  \E n, before, host, tail :
           /\ n \in Nat /\ host = SubSeq(e, 10, Len(e)) /\ Bytes(host, n) /\ Bytes(tail, n + 2) /\ Bytes(before, 7)
           /\ Row(tail, Word(n), host) /\ Row(e, before, tail)
<1>1. k \in 1 .. Len(hello.extensions)
  BY HelloType DEF Named
<1>2. e \in Seq(Byte) /\ IsExtension(e) /\ SubSeq(e, 1, 2) = Word(0)
  BY <1>1, HelloAssumption, HelloType DEF Named, EXTENSION_TYPE_SNI
<1>3. BigEndian(SubSeq(e, 1, 2)) = 0
  BY <1>2, WordIs
<1>4. PICK host : host = SubSeq(e, 10, Len(e))
  OBVIOUS
<1>5. e = ServerNameExtension(host)
  BY <1>2, <1>3, <1>4 DEF IsExtension, EXTENSION_TYPE_SNI
<1>6. Len(e) \in Nat /\ e \in Seq(Nat) /\ host \in Seq(Nat)
  <2>1. Byte \subseteq Nat
    BY DEF Byte
  <2>2. e \in Seq(Nat)
    BY <1>2, <2>1, SeqMonotonic
  <2>3. Len(e) \in Nat
    BY <2>2
  <2>4. host \in Seq(Nat)
    BY <1>4, <2>2, <2>3
  <2>. QED BY <2>2, <2>3, <2>4
<1>7. PICK n \in Nat : n = Len(host)
  BY <1>6
<1>8. PICK tail, typed, list, counted, nul :
        /\ Row(tail, Word(n), host) /\ nul = <<0>> /\ Row(typed, nul, tail)
        /\ Row(list, Word(Len(typed)), typed) /\ Row(counted, Word(Len(list)), list)
  BY DEF Row
<1>9. Row(e, Word(0), counted)
  BY <1>5, <1>7, <1>8, Zenon
     DEF ServerNameExtension, Extension, Counted2, Row, EXTENSION_TYPE_SNI
<1>10. Bytes(host, n) /\ Bytes(nul, 1) /\ Bytes(Word(n), 2) /\ Bytes(Word(0), 2)
  BY <1>6, <1>7, <1>8, ShortBytes DEF Bytes
<1>11. Bytes(tail, 2 + n)
  BY <1>8, <1>10, InARow
<1>12. Bytes(typed, 1 + (2 + n))
  BY <1>8, <1>10, <1>11, InARow
<1>13. Bytes(Word(Len(typed)), 2)
  BY <1>12, ShortBytes DEF Bytes
<1>14. Bytes(list, 2 + (1 + (2 + n)))
  BY <1>8, <1>12, <1>13, InARow
<1>15. Bytes(Word(Len(list)), 2)
  BY <1>14, ShortBytes DEF Bytes
\* The same from the left.
<1>16. PICK s1, s2, before :
         Row(s1, Word(0), Word(Len(list))) /\ Row(s2, s1, Word(Len(typed))) /\ Row(before, s2, nul)
  BY DEF Row
<1>17. Bytes(s1, 2 + 2)
  BY <1>10, <1>15, <1>16, InARow
<1>18. Bytes(s2, (2 + 2) + 2)
  BY <1>13, <1>16, <1>17, InARow
<1>19. Bytes(before, (2 + 2) + 2 + 1)
  BY <1>10, <1>16, <1>18, InARow
<1>20. Row(e, before, tail)
  <2>1. Row(e, s1, list)
    BY <1>8, <1>9, <1>10, <1>14, <1>15, <1>16, SameRow
  <2>2. Row(e, s2, typed)
    BY <1>8, <1>12, <1>13, <1>16, <1>17, <2>1, SameRow
  <2>. QED BY <1>8, <1>10, <1>11, <1>16, <1>18, <2>2, SameRow
<1>21. /\ (2 + 2) + 2 + 1 = 7 /\ 2 + n = n + 2
  OBVIOUS
<1>22. Bytes(before, 7) /\ Bytes(tail, n + 2)
  BY <1>11, <1>19, <1>21
<1>. QED BY <1>4, <1>8, <1>10, <1>20, <1>22, Zenon

\* Fields are at offsets.
LEMMA FieldsType ==
  ASSUME NEW hello \in Hellos
  PROVE  SuitesOf(hello) \in Nat /\ CompressionOf(hello) \in Nat /\ ExtensionsOf(hello) \in Nat
<1>1. PICK x, y : x = Len(hello.session_id) /\ y = Len(hello.cipher_suites)
  OBVIOUS
<1>2. x \in Nat /\ y \in Nat
  BY <1>1, HelloType
<1>3. PICK s, c, e : s = SuitesOf(hello) /\ c = CompressionOf(hello) /\ e = ExtensionsOf(hello)
  OBVIOUS
<1>4. s = 44 + x /\ c = s + 2 + y /\ e = c + 2
  BY <1>1, <1>3, Zenon DEF SuitesOf, CompressionOf, ExtensionsOf
<1>. QED BY <1>2, <1>3, <1>4

\* Where an extension is in a hello, and how much is behind it.
LEMMA ExtensionAt ==
  ASSUME NEW hello \in Hellos, NEW k \in 1 .. Len(hello.extensions),
         NEW e, e = hello.extensions[k], NEW bytes, bytes = Encode(hello),
         NEW o, o = OffsetOf(hello, k)
  PROVE  /\ bytes \in Seq(Nat) /\ Len(bytes) \in Nat /\ o \in Nat /\ At(bytes, o, e)
         /\ e \in Seq(Nat) /\ Len(e) \in Nat
         /\ OffsetOf(hello, k + 1) = o + Len(e)
         /\ LET after == FlattenSeq(SubSeq(hello.extensions, k + 1, Len(hello.extensions)))
            IN  Len(after) \in Nat /\ Len(bytes) = o + Len(e) + Len(after)
<1>1. PICK list, N : list = hello.extensions /\ N = Len(list)
  OBVIOUS
<1>2. list \in Seq(Seq(Nat)) /\ N \in Nat /\ k \in 1 .. N /\ e = list[k]
  BY <1>1, HelloType
<1>3. PICK s1, s2 : s1 = SubSeq(list, 1, k - 1) /\ s2 = SubSeq(list, k + 1, N)
  OBVIOUS
<1>4. s1 \in Seq(Seq(Nat)) /\ s2 \in Seq(Seq(Nat)) /\ e \in Seq(Nat)
  BY <1>1, <1>2, <1>3
<1>5. PICK before, after, all, upto :
        /\ before = FlattenSeq(s1) /\ after = FlattenSeq(s2) /\ all = FlattenSeq(list)
        /\ upto = FlattenSeq(SubSeq(list, 1, k))
  OBVIOUS
<1>6. upto = before \o e /\ all = (before \o e) \o after
  <2>1. k \in 1 .. Len(list)
    BY <1>1, <1>2
  <2>. QED BY <1>1, <1>2, <1>3, <1>5, <2>1, FlattenAt
<1>7. PICK b, l, a : b = Len(before) /\ l = Len(e) /\ a = Len(after)
  OBVIOUS
<1>8. Bytes(before, b) /\ Bytes(e, l) /\ Bytes(after, a)
  <2>1. before \in Seq(Nat) /\ after \in Seq(Nat)
    BY <1>4, <1>5, FlattenType
  <2>. QED BY <1>4, <1>7, <2>1 DEF Bytes
<1>9. Row(upto, before, e) /\ Row(all, upto, after)
  BY <1>6 DEF Row
<1>10. Bytes(upto, b + l)
  BY <1>8, <1>9, InARow
<1>11. Bytes(all, (b + l) + a)
  BY <1>8, <1>9, <1>10, InARow
<1>12. PICK first : first = ExtensionsOf(hello) + 2
  OBVIOUS
<1>13. bytes \in Seq(Nat) /\ At(bytes, first, all) /\ Len(bytes) = first + Len(all)
  BY <1>1, <1>5, <1>12, Layout
<1>14. first \in Nat
  BY <1>12, FieldsType
<1>15. At(bytes, first, upto)
  BY <1>8, <1>9, <1>10, <1>13, <1>14, PartsAt
<1>16. At(bytes, first + b, e)
  BY <1>8, <1>9, <1>13, <1>14, <1>15, PartsAt
<1>17. o = first + b
  BY <1>1, <1>3, <1>5, <1>7, <1>12 DEF OffsetOf
<1>18. OffsetOf(hello, k + 1) = first + Len(upto)
  <2>1. k + 1 - 1 = k
    BY <1>2
  <2>2. OffsetOf(hello, k + 1) = first + Len(FlattenSeq(SubSeq(list, 1, k + 1 - 1)))
    BY <1>1, <1>12 DEF OffsetOf
  <2>. QED BY <1>5, <2>1, <2>2
<1>19. b \in Nat /\ l \in Nat /\ a \in Nat /\ Len(upto) = b + l /\ Len(all) = b + l + a
  BY <1>8, <1>10, <1>11 DEF Bytes
<1>20. OffsetOf(hello, k + 1) = o + l /\ Len(bytes) = o + l + a /\ o \in Nat
  BY <1>13, <1>14, <1>17, <1>18, <1>19
<1>21. Len(bytes) \in Nat
  BY <1>13
<1>. QED BY <1>1, <1>3, <1>4, <1>5, <1>7, <1>13, <1>16, <1>17, <1>19, <1>20, <1>21

\* The offset of the next one.
LEMMA NextOffset ==
  ASSUME NEW hello \in Hellos, NEW k \in 1 .. Len(hello.extensions)
  PROVE  OffsetOf(hello, k + 1) = OffsetOf(hello, k) + Len(hello.extensions[k])
BY ExtensionAt

\* The header of an extension.
LEMMA HeaderAt ==
  ASSUME NEW hello \in Hellos, NEW k \in 1 .. Len(hello.extensions),
         NEW e, e = hello.extensions[k], NEW bytes, bytes = Encode(hello),
         NEW o, o = OffsetOf(hello, k)
  PROVE  \E n \in Nat, type \in Nat :
           /\ Len(e) = n + 4 /\ At(bytes, o, Word(type)) /\ At(bytes, o + 2, Word(n))
           /\ k \in Named(hello) <=> type = 0
<1>1. PICK n, type, data, tail :
        /\ n \in Nat /\ type \in Nat
        /\ Bytes(e, n + 4) /\ Bytes(data, n) /\ Bytes(tail, n + 2)
        /\ Row(tail, Word(n), data) /\ Row(e, Word(type), tail)
        /\ k \in Named(hello) <=> type = 0
  BY PartsOfExtension
<1>2. bytes \in Seq(Nat) /\ o \in Nat /\ At(bytes, o, e)
  BY ExtensionAt
<1>3. Bytes(Word(n), 2) /\ Bytes(Word(type), 2)
  BY <1>1, ShortBytes
<1>4. At(bytes, o, Word(type)) /\ At(bytes, o + 2, tail)
  BY <1>1, <1>2, <1>3, PartsAt
<1>5. At(bytes, o + 2, Word(n))
  <2>1. o + 2 \in Nat
    BY <1>2
  <2>. QED BY <1>1, <1>2, <1>3, <1>4, <2>1, PartsAt
<1>. QED BY <1>1, <1>4, <1>5 DEF Bytes

\* The name in a server_name extension e that is at o, and its length.
NameOf(bytes, o, e, n, host) ==
  /\ n \in Nat /\ host = SubSeq(e, 10, Len(e)) /\ host \in Seq(Nat) /\ Len(host) = n
  /\ Len(e) = n + 9 /\ At(bytes, o + 7, Word(n)) /\ At(bytes, o + 9, host)

LEMMA NameAt ==
  ASSUME NEW hello \in Hellos, NEW k \in Named(hello),
         NEW e, e = hello.extensions[k], NEW bytes, bytes = Encode(hello),
         NEW o, o = OffsetOf(hello, k)
  PROVE  \E n, host : NameOf(bytes, o, e, n, host)
<1>1. PICK n, before, host, tail :
        /\ n \in Nat /\ host = SubSeq(e, 10, Len(e)) /\ Bytes(host, n) /\ Bytes(tail, n + 2) /\ Bytes(before, 7)
        /\ Row(tail, Word(n), host) /\ Row(e, before, tail)
  BY PartsOfServerName
<1>2. k \in 1 .. Len(hello.extensions)
  BY HelloType DEF Named
<1>3. bytes \in Seq(Nat) /\ o \in Nat /\ At(bytes, o, e)
  BY <1>2, ExtensionAt
<1>4. At(bytes, o + 7, tail)
  BY <1>1, <1>3, PartsAt
<1>5. Bytes(Word(n), 2) /\ o + 7 \in Nat
  <2>1. o + 7 \in Nat
    BY <1>3
  <2>. QED BY <1>1, <2>1, ShortBytes
<1>6. At(bytes, o + 7, Word(n)) /\ At(bytes, (o + 7) + 2, host)
  BY <1>1, <1>3, <1>4, <1>5, PartsAt
<1>7. (o + 7) + 2 = o + 9
  BY <1>3
<1>8. Bytes(e, 7 + (n + 2))
  BY <1>1, InARow
<1>9. host \in Seq(Nat) /\ Len(host) = n /\ Len(e) = n + 9
  <2>1. 7 + (n + 2) = n + 9
    BY <1>1
  <2>. QED BY <1>1, <1>8, <2>1 DEF Bytes
<1>. QED BY <1>1, <1>6, <1>7, <1>9 DEF NameOf

\* Extensions are one behind another, and the last one ends the hello.
LEMMA Offsets ==
  ASSUME NEW hello \in Hellos, NEW N, N = Len(hello.extensions)
  PROVE  /\ N \in Nat
         /\ \A k \in 1 .. N + 1 : OffsetOf(hello, k) \in Nat
         /\ OffsetOf(hello, 1) = ExtensionsOf(hello) + 2
         /\ OffsetOf(hello, N + 1) = Len(Encode(hello))
         /\ \A j, k \in 1 .. N + 1 : j <= k => OffsetOf(hello, j) <= OffsetOf(hello, k)
<1>1. PICK list : list = hello.extensions
  OBVIOUS
<1>2. list \in Seq(Seq(Nat)) /\ N \in Nat /\ N = Len(list)
  BY <1>1, HelloType
<1>3. PICK first : first = ExtensionsOf(hello) + 2
  OBVIOUS
<1>4. first \in Nat
  BY <1>3, FieldsType
<1>5. ASSUME NEW k \in 1 .. N + 1
      PROVE  /\ OffsetOf(hello, k) = first + Len(FlattenSeq(SubSeq(list, 1, k - 1)))
             /\ SubSeq(list, 1, k - 1) \in Seq(Seq(Nat)) /\ Len(SubSeq(list, 1, k - 1)) = k - 1
             /\ FlattenSeq(SubSeq(list, 1, k - 1)) \in Seq(Nat) /\ OffsetOf(hello, k) \in Nat
  <2>1. SubSeq(list, 1, k - 1) \in Seq(Seq(Nat)) /\ Len(SubSeq(list, 1, k - 1)) = k - 1
    BY <1>2
  <2>2. FlattenSeq(SubSeq(list, 1, k - 1)) \in Seq(Nat)
    BY <2>1, FlattenType
  <2>3. OffsetOf(hello, k) = first + Len(FlattenSeq(SubSeq(list, 1, k - 1)))
    BY <1>1, <1>3 DEF OffsetOf
  <2>. QED BY <1>4, <2>1, <2>2, <2>3
<1>6. OffsetOf(hello, 1) = first
  <2>1. SubSeq(list, 1, 0) = <<>>
    BY <1>2
  <2>2. 1 \in 1 .. N + 1 /\ 1 - 1 = 0
    BY <1>2
  <2>3. FlattenSeq(<<>>) = <<>>
    BY DEF FlattenSeq
  <2>4. OffsetOf(hello, 1) = first + Len(FlattenSeq(SubSeq(list, 1, 1 - 1)))
    BY <1>5, <2>2
  <2>5. Len(<<>>) = 0 /\ first + 0 = first
    BY <1>4
  <2>. QED BY <2>1, <2>2, <2>3, <2>4, <2>5
<1>7. OffsetOf(hello, N + 1) = Len(Encode(hello))
  <2>1. SubSeq(list, 1, N) = list
    BY <1>2, SubSeqFull
  <2>2. PICK last : last = (N + 1) - 1
    OBVIOUS
  <2>3. last = N
    BY <1>2, <2>2
  <2>4. OffsetOf(hello, N + 1) = first + Len(FlattenSeq(SubSeq(list, 1, last)))
    BY <1>1, <1>3, <2>2, Zenon DEF OffsetOf
  <2>5. Len(Encode(hello)) = first + Len(FlattenSeq(list))
    BY <1>1, <1>3, Layout
  <2>. QED BY <2>1, <2>3, <2>4, <2>5, Zenon
<1>8. ASSUME NEW j \in 1 .. N + 1, NEW k \in 1 .. N + 1, j <= k
      PROVE  OffsetOf(hello, j) <= OffsetOf(hello, k)
  <2>1. PICK s : s = SubSeq(list, 1, k - 1)
    OBVIOUS
  <2>2. s \in Seq(Seq(Nat)) /\ Len(s) = k - 1 /\ FlattenSeq(s) \in Seq(Nat)
    BY <1>5, <2>1
  <2>3. PICK h : h = j - 1
    OBVIOUS
  <2>4. h \in 0 .. Len(s)
    BY <1>2, <1>8, <2>2, <2>3
  <2>5. PICK b, a : b = FlattenSeq(SubSeq(s, 1, h)) /\ a = FlattenSeq(SubSeq(s, h + 1, Len(s)))
    OBVIOUS
  <2>6. FlattenSeq(s) = b \o a
    BY <2>2, <2>4, <2>5, FlattenSplit
  <2>7. SubSeq(s, 1, h) = SubSeq(list, 1, j - 1)
    BY <1>2, <1>8, <2>1, <2>3
  <2>8. b = FlattenSeq(SubSeq(list, 1, j - 1)) /\ b \in Seq(Nat)
    BY <1>5, <2>5, <2>7
  <2>9. SubSeq(s, h + 1, Len(s)) \in Seq(Seq(Nat))
    BY <2>2, <2>4
  <2>10. a \in Seq(Nat)
    BY <2>5, <2>9, FlattenType
  <2>11. Len(b \o a) = Len(b) + Len(a) /\ Len(a) \in Nat /\ Len(b) \in Nat
    BY <2>8, <2>10
  <2>12. OffsetOf(hello, j) = first + Len(b) /\ OffsetOf(hello, k) = first + Len(FlattenSeq(s))
    BY <1>5, <2>1, <2>8
  <2>. QED BY <1>4, <2>6, <2>11, <2>12
<1>. QED BY <1>2, <1>3, <1>5, <1>6, <1>7, <1>8

-----------------------------------------------------------------------------
(* What extract has to return.                                             *)

\* A number that was captured is read as it was written.
LEMMA ReadsNumber ==
  ASSUME NEW s \in Seq(Nat), payload \in Seq(Byte), IsPrefix(payload, s), NEW k \in Nat, NEW n \in Nat
  PROVE  /\ At(s, k, Word(n)) /\ k + 2 <= length => Number(k, k + 2) = n
         /\ At(s, k, <<n>>) /\ k + 1 <= length => Number(k, k + 1) = n
<1>1. ASSUME At(s, k, Word(n)), k + 2 <= length PROVE Number(k, k + 2) = n
  <2>1. PICK w, to : w = Word(n) /\ to = k + 2
    OBVIOUS
  <2>2. w \in Seq(Nat) /\ Len(w) = 2 /\ BigEndian(w) = n
    BY <2>1, WordIs
  <2>3. to \in Nat /\ to = k + Len(w) /\ to <= length /\ At(s, k, w)
    BY <1>1, <2>1, <2>2
  <2>4. Slice(k, to) = w
    BY <2>2, <2>3, SliceOfPart
  <2>. QED BY <2>1, <2>2, <2>4, Zenon DEF Number
<1>2. ASSUME At(s, k, <<n>>), k + 1 <= length PROVE Number(k, k + 1) = n
  <2>1. PICK w, to : w = <<n>> /\ to = k + 1
    OBVIOUS
  <2>2. w \in Seq(Nat) /\ Len(w) = 1 /\ BigEndian(w) = n
    BY <2>1, ByteIs
  <2>3. to \in Nat /\ to = k + Len(w) /\ to <= length /\ At(s, k, w)
    BY <1>2, <2>1, <2>2
  <2>4. Slice(k, to) = w
    BY <2>2, <2>3, SliceOfPart
  <2>. QED BY <2>1, <2>2, <2>4, Zenon DEF Number
<1>. QED BY <1>1, <1>2

\* j is the first server_name extension of hello.
FirstNamed(hello, j) == j \in Named(hello) /\ \A i \in Named(hello) : j <= i

\* If there are server_name extensions, one is the first.
LEMMA NamedType ==
  ASSUME NEW hello \in Hellos
  PROVE  /\ Named(hello) \subseteq 1 .. Len(hello.extensions)
         /\ Named(hello) # {} => \E j : FirstNamed(hello, j)
<1>1. Named(hello) \subseteq 1 .. Len(hello.extensions)
  BY HelloType DEF Named
<1>2. Named(hello) \subseteq Nat
  BY <1>1, HelloType
<1>. QED BY <1>1, <1>2, Least DEF FirstNamed

\* What extract has to return.
Answer(hello) == IF length >= Expected[hello].needed THEN Expected[hello].name ELSE None

\* A hello is expected to give the name in its first server_name extension, once
\* that is captured to its end.
LEMMA ExpectedIs ==
  ASSUME NEW hello \in Hellos
  PROVE  /\ Expected[hello].bytes = Encode(hello)
         /\ Named(hello) = {} => Expected[hello].name = None
         /\ \A j, e : FirstNamed(hello, j) /\ e = hello.extensions[j] =>
              /\ Expected[hello].needed = OffsetOf(hello, j) + Len(e)
              /\ LET name == decode(SubSeq(e, 10, Len(e)))
                 IN  Expected[hello].name = IF name = <<>> THEN None ELSE name
<1>1. /\ Expected[hello].bytes = Encode(hello) /\ Expected[hello].name = NameIn(hello)
      /\ Expected[hello].needed = NeededFor(hello)
  BY DEF Expected
<1>2. ASSUME Named(hello) = {} PROVE NameIn(hello) = None
  BY <1>2 DEF NameIn
<1>3. ASSUME NEW j, NEW e, FirstNamed(hello, j), e = hello.extensions[j]
      PROVE  /\ NeededFor(hello) = OffsetOf(hello, j) + Len(e)
             /\ NameIn(hello) = IF decode(SubSeq(e, 10, Len(e))) = <<>> THEN None
                                ELSE decode(SubSeq(e, 10, Len(e)))
  <2>1. PICK S : S = Named(hello)
    OBVIOUS
  <2>2. S \subseteq Nat /\ j \in S /\ \A i \in S : j <= i
    BY <1>3, <2>1, NamedType, HelloType DEF FirstNamed
  <2>3. S # {} /\ Min(S) = j
    <3>1. Min(S) \in S /\ \A y \in S : Min(S) <= y
      BY <2>2, Least
    <3>2. Min(S) <= j /\ j <= Min(S) /\ Min(S) \in Nat /\ j \in Nat
      BY <2>2, <3>1
    <3>. QED BY <2>2, <3>2
  <2>4. NameIn(hello) = IF decode(SubSeq(e, 10, Len(e))) = <<>> THEN None
                        ELSE decode(SubSeq(e, 10, Len(e)))
    BY <1>3, <2>1, <2>3, Zenon DEF NameIn
  <2>5. PICK after, bytes, o :
          /\ after = FlattenSeq(SubSeq(hello.extensions, j + 1, Len(hello.extensions)))
          /\ bytes = Encode(hello) /\ o = OffsetOf(hello, j)
    OBVIOUS
  <2>6. NeededFor(hello) = Len(bytes) - Len(after)
    BY <2>1, <2>3, <2>5, Zenon DEF NeededFor
  <2>7. j \in 1 .. Len(hello.extensions)
    BY <1>3, NamedType DEF FirstNamed
  <2>8. /\ Len(after) \in Nat /\ o \in Nat /\ Len(e) \in Nat
        /\ Len(bytes) = o + Len(e) + Len(after)
    BY <1>3, <2>5, <2>7, ExtensionAt
  <2>. QED BY <2>4, <2>5, <2>6, <2>8
<1>. QED BY <1>1, <1>2, <1>3

\* Before the first server_name extension has been captured as a whole there is
\* nothing to be returned.
LEMMA NotYet ==
  ASSUME NEW hello \in Hellos, length \in Nat,
         \A j, e : FirstNamed(hello, j) /\ e = hello.extensions[j]
                     => length < OffsetOf(hello, j) + Len(e)
  PROVE  Answer(hello) = None
<1>1. CASE Named(hello) = {}
  BY <1>1, ExpectedIs DEF Answer
<1>2. CASE Named(hello) # {}
  <2>1. PICK j : FirstNamed(hello, j)
    BY <1>2, NamedType
  <2>2. PICK e : e = hello.extensions[j]
    OBVIOUS
  <2>3. PICK needed : needed = OffsetOf(hello, j) + Len(e)
    OBVIOUS
  <2>4. Expected[hello].needed = needed /\ length < needed /\ needed \in Nat
    <3>1. j \in 1 .. Len(hello.extensions)
      BY <2>1, NamedType DEF FirstNamed
    <3>2. OffsetOf(hello, j) \in Nat /\ Len(e) \in Nat
      BY <2>2, <3>1, ExtensionAt
    <3>. QED BY <2>1, <2>2, <2>3, <3>2, ExpectedIs
  <2>. QED BY <2>4 DEF Answer
<1>. QED BY <1>1, <1>2

\* In particular as long as the extensions have not begun.
LEMMA NotBegun ==
  ASSUME NEW hello \in Hellos, length \in Nat, length < ExtensionsOf(hello) + 2
  PROVE  Answer(hello) = None
<1>1. ASSUME NEW j, NEW e, FirstNamed(hello, j), e = hello.extensions[j]
      PROVE  length < OffsetOf(hello, j) + Len(e)
  <2>1. PICK N : N = Len(hello.extensions)
    OBVIOUS
  <2>2. N \in Nat /\ j \in 1 .. N
    BY <1>1, <2>1, NamedType, HelloType DEF FirstNamed
  <2>3. j \in 1 .. N + 1 /\ 1 \in 1 .. N + 1 /\ 1 <= j
    BY <2>2
  <2>4. ExtensionsOf(hello) + 2 <= OffsetOf(hello, j) /\ OffsetOf(hello, j) \in Nat
    BY <2>1, <2>3, Offsets
  <2>5. Len(e) \in Nat
    BY <1>1, <2>1, <2>2, ExtensionAt
  <2>6. ExtensionsOf(hello) \in Nat
    BY FieldsType
  <2>. QED BY <2>4, <2>5, <2>6
<1>. QED BY <1>1, NotYet

-----------------------------------------------------------------------------
(* The walk over a hello that may be cut off.                              *)

\* Where the walk is in a hello of which the payload is the beginning.
OnTheWay(hello) ==
  /\ at = "session_id"    => offset = 43
  /\ at = "cipher_suites" => offset = SuitesOf(hello)
  /\ at = "compression"   => offset = CompressionOf(hello)
  /\ at = "extensions"    => offset = ExtensionsOf(hello)
  /\ at \in {"extension", "server_name"} => extensions_end = length
  /\ at = "extension" => \E j \in 1 .. Len(hello.extensions) + 1 :
                           offset = OffsetOf(hello, j) /\ \A i \in Named(hello) : j <= i
  /\ at = "server_name" => \E j : FirstNamed(hello, j) /\ offset = OffsetOf(hello, j)
  /\ at = "done" => server_name = Answer(hello)

Walk == \A hello \in Hellos : IsPrefix(payload, Encode(hello)) => OnTheWay(hello)

LEMMA WalkBegins == Init => Walk
BY DEF Init, Walk, OnTheWay

\* What is the same before and after.
LEMMA AnswerStays ==
  ASSUME payload' = payload, NEW hello \in Hellos
  PROVE  length' = length /\ Answer(hello)' = Answer(hello)
BY DEF length, Answer

\* To return None is right when there is nothing to be returned.
LEMMA ReturnsNone ==
  ASSUME NEW hello \in Hellos, Return(None), Answer(hello) = None
  PROVE  OnTheWay(hello)'
<1>1. at' = "done" /\ server_name' = None /\ payload' = payload
  BY DEF Return
<1>2. Answer(hello)' = None
  BY <1>1, AnswerStays
<1>. QED BY <1>1, <1>2 DEF OnTheWay

\* A field before the extensions that is cut off.
LEMMA FieldCutOff ==
  ASSUME NEW hello \in Hellos, NEW field, NEW width \in Nat, CutOff(field, width),
         length \in Nat, offset \in Nat, offset + width <= ExtensionsOf(hello) + 2
  PROVE  OnTheWay(hello)'
<1>1. length < ExtensionsOf(hello) + 2
  BY FieldsType DEF CutOff, Fits
<1>2. Answer(hello) = None
  BY <1>1, NotBegun
<1>. QED BY <1>2, ReturnsNone DEF CutOff

\* What the fields say and where they are.
LEMMA Fields ==
  ASSUME NEW hello \in Hellos, IsPrefix(payload, Encode(hello)), payload \in Seq(Byte)
  PROVE  /\ length \in Nat /\ length <= ExtensionsOf(hello) + 2 + Len(FlattenSeq(hello.extensions))
         /\ length >= 6 => IsHandshake
         /\ 44 <= length => 44 + Number(43, 44) = SuitesOf(hello)
         /\ SuitesOf(hello) + 2 <= length
              => SuitesOf(hello) + 2 + Number(SuitesOf(hello), SuitesOf(hello) + 2) = CompressionOf(hello)
         /\ CompressionOf(hello) + 1 <= length
              => CompressionOf(hello) + 1 + Number(CompressionOf(hello), CompressionOf(hello) + 1)
                   = ExtensionsOf(hello)
         /\ ExtensionsOf(hello) + 2 <= length
              => Number(ExtensionsOf(hello), ExtensionsOf(hello) + 2) = Len(FlattenSeq(hello.extensions))
         /\ 44 <= SuitesOf(hello) /\ SuitesOf(hello) + 2 <= CompressionOf(hello)
         /\ CompressionOf(hello) + 2 = ExtensionsOf(hello)
<1>1. PICK bytes, a, b, c : /\ bytes = Encode(hello) /\ a = Len(hello.session_id)
                            /\ b = Len(hello.cipher_suites) /\ c = Len(FlattenSeq(hello.extensions))
  OBVIOUS
<1>2. a \in Nat /\ b \in Nat /\ c \in Nat
  BY <1>1, HelloType
<1>3. PICK s, m, x : s = SuitesOf(hello) /\ m = CompressionOf(hello) /\ x = ExtensionsOf(hello)
  OBVIOUS
<1>4. s = 44 + a /\ m = s + 2 + b /\ x = m + 2
  BY <1>1, <1>3, Zenon DEF SuitesOf, CompressionOf, ExtensionsOf
<1>5. /\ bytes \in Seq(Nat) /\ At(bytes, 0, <<22, 3, 1>>) /\ At(bytes, 5, <<1, 0>>)
      /\ At(bytes, 43, <<a>>) /\ At(bytes, s, Word(b)) /\ At(bytes, m, <<1>>) /\ At(bytes, x, Word(c))
      /\ Len(bytes) = x + 2 + c
  BY <1>1, <1>3, Layout, Zenon
<1>6. length \in Nat /\ length <= Len(bytes)
  BY <1>1 DEF length, IsPrefix
<1>7. s \in Nat /\ m \in Nat /\ x \in Nat
  BY <1>2, <1>4
<1>8. length >= 6 => IsHandshake
  <2>1. At(bytes, 0, <<22>>) /\ At(bytes, 5, <<1>>)
    BY <1>5 DEF At
  <2>2. /\ 0 + 1 <= length => Number(0, 0 + 1) = 22
        /\ 5 + 1 <= length => Number(5, 5 + 1) = 1
    BY <1>1, <1>5, <2>1, ReadsNumber
  <2>3. length >= 6 => Number(0, 1) = 22 /\ Number(5, 6) = 1
    BY <1>6, <2>2
  <2>. QED BY <2>3 DEF IsHandshake
<1>9. 43 + 1 <= length => Number(43, 43 + 1) = a
  BY <1>1, <1>2, <1>5, ReadsNumber
<1>10. s + 2 <= length => Number(s, s + 2) = b
  BY <1>1, <1>2, <1>5, <1>7, ReadsNumber
<1>11. m + 1 <= length => Number(m, m + 1) = 1
  BY <1>1, <1>5, <1>7, ReadsNumber
<1>12. x + 2 <= length => Number(x, x + 2) = c
  BY <1>1, <1>2, <1>5, <1>7, ReadsNumber
<1>13. 44 <= length => 44 + Number(43, 44) = s
  BY <1>4, <1>9
<1>14. /\ s + 2 <= length => s + 2 + Number(s, s + 2) = m
       /\ m + 1 <= length => m + 1 + Number(m, m + 1) = x
       /\ 44 <= s /\ s + 2 <= m
  BY <1>2, <1>4, <1>7, <1>10, <1>11
<1>. QED BY <1>1, <1>3, <1>4, <1>5, <1>6, <1>8, <1>12, <1>13, <1>14

\* The extension at which the walk is.
LEMMA AtExtension ==
  ASSUME NEW hello \in Hellos, IsPrefix(payload, Encode(hello)), payload \in Seq(Byte),
         at = "extension", OnTheWay(hello), offset \in Nat, offset + 4 <= extensions_end
  PROVE  \E j \in 1 .. Len(hello.extensions), n \in Nat, type \in Nat :
           /\ offset = OffsetOf(hello, j) /\ \A i \in Named(hello) : j <= i
           /\ Number(offset, offset + 2) = type /\ (j \in Named(hello) <=> type = 0)
           /\ offset + 4 + Number(offset + 2, offset + 4) = OffsetOf(hello, j + 1)
<1>1. PICK N, bytes : N = Len(hello.extensions) /\ bytes = Encode(hello)
  OBVIOUS
<1>2. PICK j \in 1 .. N + 1 : offset = OffsetOf(hello, j) /\ \A i \in Named(hello) : j <= i
  BY <1>1 DEF OnTheWay
<1>3. extensions_end = length
  BY DEF OnTheWay
<1>4. N \in Nat /\ OffsetOf(hello, N + 1) = Len(bytes)
  BY <1>1, Offsets
<1>5. length \in Nat /\ length <= Len(bytes) /\ bytes \in Seq(Nat) /\ Len(bytes) \in Nat
  <2>1. bytes \in Seq(Nat)
    BY <1>1, Layout, Zenon
  <2>. QED BY <1>1, <2>1 DEF length, IsPrefix
<1>6. j # N + 1
  <2>1. SUFFICES ASSUME j = N + 1 PROVE FALSE
    OBVIOUS
  <2>2. offset = Len(bytes)
    BY <1>2, <1>4, <2>1, Zenon
  <2>. QED BY <1>3, <1>5, <2>2
<1>7. j \in 1 .. N
  BY <1>2, <1>4, <1>6
<1>8. PICK e : e = hello.extensions[j]
  OBVIOUS
<1>9. PICK n \in Nat, type \in Nat :
        /\ Len(e) = n + 4 /\ At(bytes, offset, Word(type)) /\ At(bytes, offset + 2, Word(n))
        /\ j \in Named(hello) <=> type = 0
  BY <1>1, <1>2, <1>7, <1>8, HeaderAt
<1>10. offset + 2 <= length /\ (offset + 2) + 2 = offset + 4 /\ offset + 4 <= length /\ offset + 2 \in Nat
  BY <1>3, <1>5
<1>11. Number(offset, offset + 2) = type
  BY <1>1, <1>5, <1>9, <1>10, ReadsNumber
<1>12. Number(offset + 2, offset + 4) = n
  <2>1. PICK k : k = offset + 2
    OBVIOUS
  <2>2. k \in Nat /\ k + 2 <= length /\ k + 2 = offset + 4 /\ At(bytes, k, Word(n))
    BY <1>9, <1>10, <2>1
  <2>3. Number(k, k + 2) = n
    BY <1>1, <1>5, <2>2, ReadsNumber
  <2>. QED BY <2>1, <2>2, <2>3, Zenon
<1>13. OffsetOf(hello, j + 1) = offset + Len(e)
  <2>1. j \in 1 .. Len(hello.extensions) /\ offset = OffsetOf(hello, j)
    BY <1>1, <1>2, <1>7, Zenon
  <2>. QED BY <1>8, <2>1, NextOffset, Zenon
<1>14. offset + 4 + Number(offset + 2, offset + 4) = OffsetOf(hello, j + 1)
  BY <1>9, <1>12, <1>13
<1>15. j \in 1 .. Len(hello.extensions)
  BY <1>1, <1>7, Zenon
<1>. QED BY <1>2, <1>9, <1>11, <1>14, <1>15, Zenon

\* The end of the extensions that were captured.
LEMMA NoMoreExtensions ==
  ASSUME NEW hello \in Hellos, IsPrefix(payload, Encode(hello)), payload \in Seq(Byte),
         at = "extension", OnTheWay(hello), offset \in Nat, offset + 4 > extensions_end
  PROVE  Answer(hello) = None
<1>1. PICK N : N = Len(hello.extensions)
  OBVIOUS
<1>2. PICK j \in 1 .. N + 1 : offset = OffsetOf(hello, j) /\ \A i \in Named(hello) : j <= i
  BY <1>1 DEF OnTheWay
<1>3. extensions_end = length /\ length \in Nat
  BY DEF OnTheWay, length
<1>4. ASSUME NEW i, NEW e, FirstNamed(hello, i), e = hello.extensions[i]
      PROVE  length < OffsetOf(hello, i) + Len(e)
  <2>1. N \in Nat /\ i \in Named(hello) /\ i \in 1 .. N
    BY <1>1, <1>4, NamedType, HelloType DEF FirstNamed
  <2>2. i \in 1 .. N + 1 /\ j <= i
    BY <1>2, <2>1
  <2>3. offset <= OffsetOf(hello, i) /\ OffsetOf(hello, i) \in Nat
    BY <1>1, <1>2, <2>2, Offsets
  <2>4. PICK n \in Nat : Len(e) = n + 9
    BY <1>4, <2>1, NameAt DEF NameOf
  <2>. QED BY <1>3, <2>3, <2>4
<1>. QED BY <1>3, <1>4, NotYet

\* The server_name extension at which the walk ends.
LEMMA AtServerName ==
  ASSUME NEW hello \in Hellos, IsPrefix(payload, Encode(hello)), payload \in Seq(Byte),
         at = "server_name", OnTheWay(hello), offset \in Nat
  PROVE  \E n, host :
           /\ n \in Nat /\ Expected[hello].needed = offset + 9 + n
           /\ Expected[hello].name = IF decode(host) = <<>> THEN None ELSE decode(host)
           /\ offset + 9 <= length => Number(offset + 7, offset + 9) = n
           /\ offset + 9 + n <= length => Slice(offset + 9, offset + 9 + n) = host
<1>1. PICK j : FirstNamed(hello, j) /\ offset = OffsetOf(hello, j)
  BY DEF OnTheWay
<1>2. PICK e, bytes : e = hello.extensions[j] /\ bytes = Encode(hello)
  OBVIOUS
<1>3. PICK n, host : NameOf(bytes, offset, e, n, host)
  <2>1. j \in Named(hello)
    BY <1>1 DEF FirstNamed
  <2>. QED BY <1>1, <1>2, <2>1, NameAt
<1>4. bytes \in Seq(Nat) /\ length \in Nat
  <2>1. bytes \in Seq(Nat)
    BY <1>2, Layout, Zenon
  <2>. QED BY <2>1 DEF length
<1>5. Expected[hello].needed = offset + 9 + n
  <2>1. Expected[hello].needed = offset + Len(e)
    BY <1>1, <1>2, ExpectedIs
  <2>. QED BY <1>3, <2>1 DEF NameOf
<1>6. Expected[hello].name = IF decode(host) = <<>> THEN None ELSE decode(host)
  BY <1>1, <1>2, <1>3, ExpectedIs, Zenon DEF NameOf
<1>7. offset + 9 <= length => Number(offset + 7, offset + 9) = n
  <2>1. PICK k : k = offset + 7
    OBVIOUS
  <2>2. k \in Nat /\ n \in Nat /\ k + 2 = offset + 9 /\ At(bytes, k, Word(n))
    BY <1>3, <2>1 DEF NameOf
  <2>3. k + 2 <= length => Number(k, k + 2) = n
    BY <1>2, <1>4, <2>2, ReadsNumber
  <2>. QED BY <2>1, <2>2, <2>3, Zenon
<1>8. ASSUME offset + 9 + n <= length PROVE Slice(offset + 9, offset + 9 + n) = host
  <2>1. PICK k, to : k = offset + 9 /\ to = offset + 9 + n
    OBVIOUS
  <2>2. k \in Nat /\ to \in Nat /\ to = k + Len(host) /\ to <= length /\ At(bytes, k, host)
    BY <1>3, <1>8, <2>1 DEF NameOf
  <2>3. host \in Seq(Nat) /\ IsPrefix(payload, bytes)
    BY <1>2, <1>3, Zenon DEF NameOf
  <2>4. Slice(k, to) = host
    BY <1>4, <2>2, <2>3, SliceOfPart, Zenon
  <2>. QED BY <2>1, <2>4
<1>. QED BY <1>3, <1>5, <1>6, <1>7, <1>8 DEF NameOf

\* A step from where the walk is leads to where it has to be.
LEMMA WalkGoesOn ==
  ASSUME Inv, Next, NEW hello \in Hellos, IsPrefix(payload, Encode(hello)), OnTheWay(hello)
  PROVE  OnTheWay(hello)'
<1>0. payload \in Seq(Byte) /\ offset \in Nat /\ length \in Nat
  BY PayloadAssumption DEF Inv, TypeOK, length
<1>a. payload' = payload /\ length' = length /\ Answer(hello)' = Answer(hello)
  <2>1. payload' = payload
    BY DEF Next, Step, Finished, vars, Classify, SessionId, CipherSuites, Compression, Extensions,
           EndOfExtensions, NextExtension, NoNameHeader, NameCutOff, ServerName, CutOff, Skip, Return
  <2>. QED BY <2>1, AnswerStays
<1>b. /\ SuitesOf(hello) \in Nat /\ CompressionOf(hello) \in Nat /\ ExtensionsOf(hello) \in Nat
      /\ 44 <= SuitesOf(hello) /\ SuitesOf(hello) + 2 <= CompressionOf(hello)
      /\ CompressionOf(hello) + 2 = ExtensionsOf(hello)
  BY <1>0, FieldsType, Fields
<1>1. CASE Classify
  <2>1. CASE IsHandshake
    BY <1>1, <2>1 DEF Classify, OnTheWay, Return, SESSION_ID_OFFSET
  <2>2. CASE ~IsHandshake
    <3>1. length < 6
      BY <1>0, <2>2, Fields
    <3>2. Answer(hello) = None
      BY <1>0, <1>b, <3>1, NotBegun
    <3>. QED BY <1>1, <2>2, <3>2, ReturnsNone DEF Classify
  <2>. QED BY <2>1, <2>2
<1>2. CASE SessionId
  <2>1. at = "session_id" /\ offset = 43
    BY <1>2 DEF SessionId, CutOff, Skip, OnTheWay
  <2>2. CASE CutOff("session_id", 1)
    BY <1>0, <1>b, <2>1, <2>2, FieldCutOff
  <2>3. CASE Skip("session_id", 1, "cipher_suites")
    <3>1. 44 <= length /\ at' = "cipher_suites" /\ offset' = 44 + Number(43, 44)
      BY <2>1, <2>3 DEF Skip, Fits
    <3>2. 44 + Number(43, 44) = SuitesOf(hello)
      BY <1>0, <3>1, Fields
    <3>. QED BY <3>1, <3>2 DEF OnTheWay
  <2>. QED BY <1>2, <2>2, <2>3 DEF SessionId
<1>3. CASE CipherSuites
  <2>1. at = "cipher_suites" /\ offset = SuitesOf(hello)
    BY <1>3 DEF CipherSuites, CutOff, Skip, OnTheWay
  <2>2. CASE CutOff("cipher_suites", 2)
    BY <1>0, <1>b, <2>1, <2>2, FieldCutOff
  <2>3. CASE Skip("cipher_suites", 2, "compression")
    <3>1. /\ SuitesOf(hello) + 2 <= length /\ at' = "compression"
          /\ offset' = SuitesOf(hello) + 2 + Number(SuitesOf(hello), SuitesOf(hello) + 2)
      BY <2>1, <2>3 DEF Skip, Fits
    <3>2. offset' = CompressionOf(hello)
      BY <1>0, <3>1, Fields
    <3>. QED BY <3>1, <3>2 DEF OnTheWay
  <2>. QED BY <1>3, <2>2, <2>3 DEF CipherSuites
<1>4. CASE Compression
  <2>1. at = "compression" /\ offset = CompressionOf(hello)
    BY <1>4 DEF Compression, CutOff, Skip, OnTheWay
  <2>2. CASE CutOff("compression", 1)
    BY <1>0, <1>b, <2>1, <2>2, FieldCutOff
  <2>3. CASE Skip("compression", 1, "extensions")
    <3>1. /\ CompressionOf(hello) + 1 <= length /\ at' = "extensions"
          /\ offset' = CompressionOf(hello) + 1
                         + Number(CompressionOf(hello), CompressionOf(hello) + 1)
      BY <2>1, <2>3 DEF Skip, Fits
    <3>2. offset' = ExtensionsOf(hello)
      BY <1>0, <3>1, Fields
    <3>. QED BY <3>1, <3>2 DEF OnTheWay
  <2>. QED BY <1>4, <2>2, <2>3 DEF Compression
<1>5. CASE Extensions
  <2>1. at = "extensions" /\ offset = ExtensionsOf(hello)
    BY <1>5 DEF Extensions, CutOff, OnTheWay
  <2>2. CASE CutOff("extensions", 2)
    BY <1>0, <1>b, <2>1, <2>2, FieldCutOff
  <2>3. CASE ~CutOff("extensions", 2)
    <3>1. PICK o, c : o = offset + 2 /\ c = Len(FlattenSeq(hello.extensions))
      OBVIOUS
    <3>2. o \in Nat /\ c \in Nat /\ o = ExtensionsOf(hello) + 2
      BY <1>0, <2>1, <3>1, HelloType
    <3>3. /\ o <= length /\ at' = "extension" /\ offset' = o
          /\ extensions_end' = Smaller(o + Number(offset, offset + 2), length)
      BY <1>5, <2>3, <3>1 DEF Extensions, Fits
    <3>4. Number(offset, offset + 2) = c /\ length <= o + c
      BY <1>0, <2>1, <3>1, <3>2, <3>3, Fields
    <3>5. extensions_end' = length
      BY <1>0, <3>2, <3>3, <3>4 DEF Smaller
    <3>6. PICK N : N = Len(hello.extensions)
      OBVIOUS
    <3>7. N \in Nat /\ OffsetOf(hello, 1) = o
      BY <3>2, <3>6, Offsets
    <3>8. \A i \in Named(hello) : 1 <= i
      BY NamedType, HelloType
    <3>9. 1 \in 1 .. Len(hello.extensions) + 1
      BY <3>6, <3>7
    <3>10. \E j \in 1 .. Len(hello.extensions) + 1 :
             offset' = OffsetOf(hello, j) /\ \A i \in Named(hello) : j <= i
      BY <3>3, <3>7, <3>8, <3>9
    <3>. QED BY <1>a, <3>3, <3>5, <3>10 DEF OnTheWay
  <2>. QED BY <2>2, <2>3
<1>6. CASE EndOfExtensions
  <2>1. Answer(hello) = None
    BY <1>0, <1>6, NoMoreExtensions DEF EndOfExtensions
  <2>. QED BY <1>6, <2>1, ReturnsNone DEF EndOfExtensions
<1>7. CASE NextExtension
  <2>1. at = "extension" /\ offset + 4 <= extensions_end /\ extensions_end' = extensions_end
    BY <1>7 DEF NextExtension
  <2>2. PICK j \in 1 .. Len(hello.extensions), n \in Nat, type \in Nat :
          /\ offset = OffsetOf(hello, j) /\ \A i \in Named(hello) : j <= i
          /\ Number(offset, offset + 2) = type /\ (j \in Named(hello) <=> type = 0)
          /\ offset + 4 + Number(offset + 2, offset + 4) = OffsetOf(hello, j + 1)
    BY <1>0, <2>1, AtExtension
  <2>3. extensions_end' = length'
    BY <1>a, <2>1 DEF OnTheWay
  <2>4. CASE type = 0
    <3>1. at' = "server_name" /\ offset' = offset /\ FirstNamed(hello, j)
      BY <1>7, <2>2, <2>4 DEF NextExtension, EXTENSION_TYPE_SNI, FirstNamed
    <3>2. offset' = OffsetOf(hello, j)
      BY <2>2, <3>1
    <3>. QED BY <2>3, <3>1, <3>2 DEF OnTheWay
  <2>5. CASE type # 0
    <3>1. at' = "extension" /\ offset' = OffsetOf(hello, j + 1)
      BY <1>7, <2>2, <2>5 DEF NextExtension, EXTENSION_TYPE_SNI
    <3>2. \A i \in Named(hello) : i \in Nat
      BY NamedType, HelloType
    <3>3. \A i \in Named(hello) : j + 1 <= i
      <4>1. j \notin Named(hello) /\ j \in Nat
        BY <2>2, <2>5, HelloType
      <4>. QED BY <2>2, <3>2, <4>1
    <3>4. j + 1 \in 1 .. Len(hello.extensions) + 1
      BY HelloType
    <3>5. \E k \in 1 .. Len(hello.extensions) + 1 :
             offset' = OffsetOf(hello, k) /\ \A i \in Named(hello) : k <= i
      BY <3>1, <3>3, <3>4
    <3>. QED BY <2>3, <3>1, <3>5 DEF OnTheWay
  <2>. QED BY <2>4, <2>5
<1>8. ASSUME NoNameHeader \/ NameCutOff \/ ServerName PROVE OnTheWay(hello)'
  <2>1. at = "server_name"
    BY <1>8 DEF NoNameHeader, NameCutOff, ServerName
  <2>2. PICK n, host :
           /\ n \in Nat /\ Expected[hello].needed = offset + 9 + n
           /\ Expected[hello].name = IF decode(host) = <<>> THEN None ELSE decode(host)
           /\ offset + 9 <= length => Number(offset + 7, offset + 9) = n
           /\ offset + 9 + n <= length => Slice(offset + 9, offset + 9 + n) = host
    BY <1>0, <2>1, AtServerName
  <2>3. CASE NoNameHeader
    <3>1. offset + 9 > length
      BY <1>0, <2>3 DEF NoNameHeader, Fits
    <3>2. Answer(hello) = None
      BY <1>0, <2>2, <3>1 DEF Answer
    <3>. QED BY <2>3, <3>2, ReturnsNone DEF NoNameHeader
  <2>4. CASE NameCutOff
    <3>1. offset + 9 <= length /\ name_end > length
      BY <2>4 DEF NameCutOff, Fits
    <3>2. name_end = offset + 9 + n
      BY <2>2, <3>1 DEF name_end, name_start
    <3>3. Answer(hello) = None
      BY <1>0, <2>2, <3>1, <3>2 DEF Answer
    <3>. QED BY <2>4, <3>3, ReturnsNone DEF NameCutOff
  <2>5. CASE ServerName
    <3>1. offset + 9 <= length /\ name_end <= length
      BY <2>5 DEF ServerName, Fits
    <3>2. name_end = offset + 9 + n /\ name_start = offset + 9
      BY <2>2, <3>1 DEF name_end, name_start
    <3>3. Slice(name_start, name_end) = host
      BY <2>2, <3>1, <3>2
    <3>4. Answer(hello) = IF decode(host) = <<>> THEN None ELSE decode(host)
      BY <1>0, <2>2, <3>1, <3>2 DEF Answer
    <3>5. at' = "done" /\ server_name' = IF decode(host) = <<>> THEN None ELSE decode(host)
      BY <2>5, <3>3, Zenon DEF ServerName, Return
    <3>. QED BY <1>a, <3>4, <3>5 DEF OnTheWay
  <2>. QED BY <1>8, <2>3, <2>4, <2>5
<1>9. CASE Finished
  <2>1. at' = at /\ server_name' = server_name /\ at = "done"
    BY <1>9 DEF Finished, vars
  <2>. QED BY <1>a, <2>1 DEF OnTheWay
<1>. QED BY <1>1, <1>2, <1>3, <1>4, <1>5, <1>6, <1>7, <1>8, <1>9 DEF Next, Step

\* Whatever the hellos are that the payload may be the beginning of.
LEMMA WalkPreserved == Inv /\ Walk /\ [Next]_vars => Walk'
<1>1. CASE UNCHANGED vars
  <2>. SUFFICES ASSUME Walk, NEW hello \in Hellos, IsPrefix(payload', Encode(hello))
                PROVE  OnTheWay(hello)'
    BY DEF Walk
  <2>1. OnTheWay(hello) /\ payload' = payload
    BY <1>1 DEF Walk, vars
  <2>2. length' = length /\ Answer(hello)' = Answer(hello)
    BY <2>1, AnswerStays
  <2>. QED BY <1>1, <2>1, <2>2 DEF OnTheWay, vars
<1>2. CASE Inv /\ Next
  <2>. SUFFICES ASSUME Walk, NEW hello \in Hellos, IsPrefix(payload', Encode(hello))
                PROVE  OnTheWay(hello)'
    BY DEF Walk
  <2>1. payload' = payload
    BY <1>2 DEF Next, Step, Finished, vars, Classify, SessionId, CipherSuites, Compression, Extensions,
           EndOfExtensions, NextExtension, NoNameHeader, NameCutOff, ServerName, CutOff, Skip, Return
  <2>2. IsPrefix(payload, Encode(hello)) /\ OnTheWay(hello)
    BY <2>1 DEF Walk
  <2>. QED BY <1>2, <2>2, WalkGoesOn
<1>. QED BY <1>1, <1>2

\* At the end, the walk says what TruncationNeverLies asks for.
LEMMA WalkAnswers == Walk => TruncationNeverLies
<1>. SUFFICES ASSUME Walk, at = "done", NEW hello \in Hellos, IsPrefix(payload, Expected[hello].bytes)
              PROVE  server_name = Answer(hello)
  BY DEF TruncationNeverLies, Answer
<1>1. IsPrefix(payload, Encode(hello))
  BY ExpectedIs
<1>. QED BY <1>1 DEF Walk, OnTheWay

\* Of every ClientHello that was captured up to any byte, extract returns the
\* name if all of it is there and None if not (sni_extractor.py:20-128).
THEOREM TruncationIsHarmless == Spec => []TruncationNeverLies
<1>1. Spec => []Walk
  BY WalkBegins, WalkPreserved, AlwaysInv, PTL DEF Spec
<1>. QED BY <1>1, WalkAnswers, PTL
=============================================================================
