--------------------------- MODULE MCSNIExtractor ---------------------------
(***************************************************************************)
(* Model checking of SNIExtractor on ClientHellos cut off at every byte,   *)
(* and on whole ones with one byte changed, so that every length field is  *)
(* too small, too large, and larger than anything captured.                *)
(***************************************************************************)
EXTENDS ClientHello

\* Names of one and two letters, and two with a byte that no UTF-8 text has.
MCNames == {<<103>>, <<103, 46>>, <<255>>, <<103, 255>>}

MCDecode(bytes) == SelectSeq(bytes, LAMBDA b : b < 128)

\* An empty extension, and one whose data look like the header of server_name.
MCExtensions == {Extension(21, <<>>), Extension(10, <<0, 0>>)}
                  \cup {ServerNameExtension(name) : name \in MCNames}

MCHellos ==
  [session_id : {<<>>, <<7, 7>>}, cipher_suites : {<<0, 47>>},
   extensions : UNION {[1 .. n -> MCExtensions] : n \in 0 .. 2}]

CutOffHellos == UNION {{SubSeq(Encode(hello), 1, n) : n \in 0 .. Len(Encode(hello))} :
                         hello \in MCHellos}

ChangedHellos ==
  UNION {{[Encode(hello) EXCEPT ![k] = b] :
            k \in {1, 6} \cup 44 .. Len(Encode(hello)), b \in {0, 3, 255}} :
           hello \in {h \in MCHellos : h.session_id = <<>>}}

MCPayloads == CutOffHellos \cup ChangedHellos
=============================================================================
