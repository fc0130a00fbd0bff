-------------------------------- MODULE Wire --------------------------------
(***************************************************************************)
(* The wire format: the encoder and the decoder of every message, in       *)
(* wire.c, and the supernode that decodes a message and encodes it again.  *)
(* There is no length and no tag in front of a field: the two sides agree  *)
(* only because they walk the same layout, steered by flags and by what is *)
(* left of the datagram, and senders of older versions stop earlier.       *)
(* A byte is <<field, value, i>>, the i-th byte of a field that holds the  *)
(* value: a decoder that is off by a byte reads something else.  The       *)
(* values are the ones the layout depends on (flags, lengths, address      *)
(* families); every other field holds its own name.                        *)
(***************************************************************************)
EXTENDS Naturals, Sequences, SequencesExt, TLC

VARIABLES
    sent,   \* the fields of the datagram on its way, one record each
    net,    \* its bytes
    how,    \* who wrote it: "edge", "sn" (decoded and encoded again), "converted"
    got     \* what the last decoder made of it

vars == <<sent, net, how, got>>

MacSize == 6
CookieSize == 4
CommunitySize == 16
TokenSize == 32
SockbufSize == 64
SockMin == 8            \* an encoded IPv4 address, or no address
SizeofSock == 20        \* sizeof(n2n_sock_t)

Garbage == <<>>
NoFrame == [vals |-> <<>>, rest |-> <<>>]

-----------------------------------------------------------------------------
(* Encoding: a sequence of fields, each with its bytes.                    *)

Bytes(f, v, n) == [i \in 1..n |-> <<f, v, i>>]
Field(f, v, n) == <<[f |-> f, v |-> v, bytes |-> Bytes(f, v, n)]>>
encode_buf(f, n) == Field(f, f, n)
encode_mac(f) == encode_buf(f, MacSize)

\* An address that was never set is sent as an IPv4 address of zeros, so that
\* the fields behind it stay where they are.
NoAddressBytes(f) == Bytes("family", "v4", 2) \o Bytes(f, "zero", 6)

encode_sock(f, s) ==
    <<[f |-> f, v |-> IF s = "none" THEN "zero" ELSE s,
       bytes |-> CASE s = "v4" -> Bytes("family", "v4", 2) \o Bytes(f, "v4", 6)
                   [] s = "v6" -> Bytes("family", "v6", 2) \o Bytes(f, "v6", 18)
                   [] s = "none" -> NoAddressBytes(f)]>>

When(c, fields) == IF c THEN fields ELSE <<>>

encode_common(pc, flags) ==
    Field("version_tag", 2, 1) \o encode_buf("ttl", 1) \o Field("flags", <<pc, flags>>, 2)
        \o encode_buf("community", CommunitySize)

encode_REGISTER(m) ==
    encode_common("REGISTER", m.flags) \o encode_buf("cookie", CookieSize)
        \o encode_mac("srcMac") \o encode_mac("dstMac")
        \o When(m.sock # "none", encode_sock("sock", m.sock))
        \o Field("version", m.version, 8) \o Field("os_name", m.os_name, 16)

encode_DEREGISTER(m) == encode_common("DEREGISTER", {}) \o encode_mac("srcMac")

encode_REGISTER_SUPER(m) ==
    encode_common("REGISTER_SUPER", m.flags) \o encode_buf("cookie", CookieSize)
        \o encode_mac("edgeMac") \o encode_buf("net_addr", 4) \o encode_buf("net_bitlen", 1)
        \o Field("num_local", IF "LOCAL_SOCKET" \in m.aflags THEN 1 ELSE 0, 1)
        \o When("LOCAL_SOCKET" \in m.aflags, encode_sock("local_sock", m.local_sock))
        \o Field("aflags", m.aflags, 2) \o encode_buf("scheme", 2)
        \o Field("toksize", m.toksize, 2)
        \o When(m.toksize > 0, encode_buf("token", IF m.toksize > TokenSize THEN TokenSize ELSE m.toksize))
        \o When("IPV6_SOCKET" \in m.aflags, encode_sock("own_ipv6", "v6"))
        \o When("SN_INFO" \in m.aflags, encode_buf("version", 8) \o encode_buf("os_name", 16))
        \o When(m.hint # "none" \/ m.hintmac # "zero",
                encode_sock("desired_sn1_sock", m.hint) \o Field("desired_sn1_mac", m.hintmac, MacSize))

encode_REGISTER_ACK(m) ==
    encode_common("REGISTER_ACK", {}) \o encode_buf("cookie", CookieSize)
        \o encode_mac("dstMac") \o encode_mac("srcMac")

encode_REGISTER_SUPER_ACK(m) ==
    encode_common("REGISTER_SUPER_ACK", {"SOCKET", "FROM_SUPERNODE"})
        \o encode_buf("cookie", CookieSize) \o encode_mac("edgeMac")
        \o encode_buf("net_addr", 4) \o encode_buf("net_bitlen", 1) \o encode_buf("lifetime", 2)
        \o encode_sock("sock", m.sock)
        \o Field("num_sn", m.num_sn, 1) \o When(m.num_sn > 0, encode_sock("sn_bak", m.sn_bak))
        \o encode_buf("sn_caps", 1) \o encode_buf("sn_version", 24)
        \o Field("sn_bak_str_len", m.len, 2) \o When(m.len > 0, encode_buf("sn_bak_str", m.len))
        \o encode_sock("sn_bak_v6", m.sn_bak_v6) \o Field("sn1_mac", m.sn1_mac, MacSize)

encode_PACKET(m) ==
    encode_common("PACKET", m.flags) \o encode_mac("srcMac") \o encode_mac("dstMac")
        \o When(m.sock # "none", encode_sock("sock", m.sock)) \o encode_buf("transform", 2)

encode_compact_header(m) ==
    Field("version_tag", 229, 1) \o encode_buf("ttl", 1) \o Field("flags", <<"PACKET", m.flags>>, 2)
        \o encode_mac("dstMac") \o When(m.sock # "none", encode_sock("sock", m.sock))

encode_PROBE(m) == encode_common("PROBE", {}) \o encode_mac("srcMac") \o encode_mac("dstMac")

encode_PROBE_ACK(m) ==
    encode_common("PROBE_ACK", {}) \o encode_mac("srcMac") \o encode_mac("dstMac")
        \o encode_sock("observed_addr", m.sock)

encode_PEER_INFO(m) ==
    encode_common("PEER_INFO", {"FROM_SUPERNODE"}) \o Field("aflags", m.aflags, 2) \o encode_mac("mac")
        \o encode_sock("sockets0", m.sock)
        \o When("LOCAL_SOCKET" \in m.aflags, encode_sock("sockets1", m.local_sock))
        \o When("IPV6_SOCKET" \in m.aflags, encode_sock("sock6", "v6"))
        \o encode_buf("version", 8) \o encode_buf("os_name", 16) \o encode_buf("assigned_ip", 4)

encode_QUERY_PEER(m) ==
    encode_common("QUERY_PEER", {}) \o encode_mac("srcMac") \o encode_mac("targetMac")

encode(m) ==
    CASE m.pc = "REGISTER" -> encode_REGISTER(m)
      [] m.pc = "DEREGISTER" -> encode_DEREGISTER(m)
      [] m.pc = "REGISTER_SUPER" -> encode_REGISTER_SUPER(m)
      [] m.pc = "REGISTER_ACK" -> encode_REGISTER_ACK(m)
      [] m.pc = "REGISTER_SUPER_ACK" -> encode_REGISTER_SUPER_ACK(m)
      [] m.pc = "PACKET" -> encode_PACKET(m)
      [] m.pc = "compact" -> encode_compact_header(m)
      [] m.pc = "PROBE" -> encode_PROBE(m)
      [] m.pc = "PROBE_ACK" -> encode_PROBE_ACK(m)
      [] m.pc = "PEER_INFO" -> encode_PEER_INFO(m)
      [] m.pc = "QUERY_PEER" -> encode_QUERY_PEER(m)

-----------------------------------------------------------------------------
(* Decoding: a walk over a layout.  A step of the layout is a field, how   *)
(* many bytes it takes (0: an address, which says itself), how many must   *)
(* be left, and the flag that must be set in the field `in', if any.       *)

Step(f, n, min, in, flag) == [f |-> f, n |-> n, min |-> min, in |-> in, flag |-> flag]
Buf(f, n) == Step(f, n, n, "", "")
Mac(f) == Buf(f, MacSize)
Sock(f) == Step(f, 0, 0, "", "")

\* The value of a field read from these bytes: <<v>> when they are exactly the
\* bytes of that field, garbage otherwise.
Value(f, b) == IF b # <<>> /\ b = Bytes(f, b[1][2], Len(b)) THEN <<b[1][2]>> ELSE Garbage

Read(d, f) == f \in DOMAIN d.vals /\ d.vals[f] # Garbage
Number(d, f) == IF Read(d, f) THEN d.vals[f][1] ELSE 0
Flags(d, f) == CASE ~Read(d, f) -> {} [] f = "flags" -> d.vals[f][1][2] [] f = "aflags" -> d.vals[f][1]
Type(d) == IF Read(d, "flags") THEN d.vals["flags"][1][1] ELSE "none"
Compact(bytes) == bytes[1] = <<"version_tag", 229, 1>>

Take(d, f, n) ==
    IF Len(d.rest) < n THEN d
    ELSE [vals |-> (f :> Value(f, SubSeq(d.rest, 1, n))) @@ d.vals,
          rest |-> SubSeq(d.rest, n + 1, Len(d.rest))]

decode_sock(d, f) ==
    LET v6 == Len(d.rest) >= 2 /\ d.rest[1] = <<"family", "v6", 1>>
    IN  Take([d EXCEPT !.rest = SubSeq(@, 3, Len(@))], f, IF v6 THEN 18 ELSE 6)

\* A step is skipped when its flag, or its count, is not there or too little is
\* left; the size of a token and of a name was read before.
Walk(d, s) ==
    LET n == CASE s.f = "token" -> IF Number(d, "toksize") > TokenSize THEN TokenSize ELSE Number(d, "toksize")
               [] s.f = "sn_bak_str" -> IF Number(d, "sn_bak_str_len") < SockbufSize
                                        THEN Number(d, "sn_bak_str_len") ELSE 0
               [] OTHER -> s.n
    IN  IF \/ s.flag = "count" /\ Number(d, s.in) = 0
           \/ s.flag \notin {"", "count"} /\ s.flag \notin Flags(d, s.in)
           \/ Len(d.rest) < s.min
           \/ s.f \in {"token", "sn_bak_str"} /\ n = 0
        THEN d
        ELSE IF s.n = 0 /\ s.f \notin {"token", "sn_bak_str"} THEN decode_sock(d, s.f)
        ELSE Take(d, s.f, n)

decode_common == <<Buf("version_tag", 1), Buf("ttl", 1), Buf("flags", 2), Buf("community", CommunitySize)>>

decode_REGISTER ==
    <<Buf("cookie", CookieSize), Mac("srcMac"), Mac("dstMac"),
      Step("sock", 0, 0, "flags", "SOCKET"), Buf("version", 8), Buf("os_name", 16)>>

decode_DEREGISTER == <<Mac("srcMac")>>

\* mutant: the length of an address is taken for the size of its structure
HintByStruct == <<Step("desired_sn1_sock", 0, SizeofSock, "", ""), Mac("desired_sn1_mac")>>

\* The hint of ask_backup is recognised by its length alone.
HintSteps == <<Step("desired_sn1_sock", 0, SockMin, "", ""), Mac("desired_sn1_mac")>>

decode_REGISTER_SUPER ==
    <<Buf("cookie", CookieSize), Mac("edgeMac"), Buf("net_addr", 4), Buf("net_bitlen", 1),
      Buf("num_local", 1), Step("local_sock", 0, SockMin, "num_local", "count"),
      Buf("aflags", 2), Buf("scheme", 2), Buf("toksize", 2), Step("token", 0, 0, "toksize", "count"),
      Step("own_ipv6", 0, SizeofSock, "aflags", "IPV6_SOCKET"),
      Step("version", 8, 24, "aflags", "SN_INFO"), Step("os_name", 16, 16, "aflags", "SN_INFO")>>
    \o HintSteps

decode_REGISTER_ACK ==
    <<Buf("cookie", CookieSize), Mac("dstMac"), Mac("srcMac"), Step("sock", 0, 0, "flags", "SOCKET")>>

decode_REGISTER_SUPER_ACK ==
    <<Buf("cookie", CookieSize), Mac("edgeMac"), Buf("net_addr", 4), Buf("net_bitlen", 1),
      Buf("lifetime", 2), Sock("sock"), Buf("num_sn", 1), Step("sn_bak", 0, 0, "num_sn", "count"),
      Buf("sn_caps", 1), Buf("sn_version", 24), Buf("sn_bak_str_len", 2),
      Step("sn_bak_str", 0, 0, "sn_bak_str_len", "count"),
      Step("sn_bak_v6", 0, SockMin, "", ""), Mac("sn1_mac")>>

decode_PACKET ==
    <<Mac("srcMac"), Mac("dstMac"), Step("sock", 0, 0, "flags", "SOCKET"), Buf("transform", 2)>>

decode_compact_header ==
    <<Buf("version_tag", 1), Buf("ttl", 1), Buf("flags", 2), Mac("dstMac"),
      Step("sock", 0, 0, "flags", "SOCKET")>>

decode_PROBE == <<Mac("srcMac"), Mac("dstMac")>>

decode_PROBE_ACK == <<Mac("srcMac"), Mac("dstMac"), Sock("observed_addr")>>

decode_PEER_INFO ==
    <<Buf("aflags", 2), Mac("mac"), Sock("sockets0"),
      Step("sockets1", 0, SockMin, "aflags", "LOCAL_SOCKET"),
      Step("sock6", 0, SockMin, "aflags", "IPV6_SOCKET"),
      Buf("version", 8), Buf("os_name", 16), Buf("assigned_ip", 4)>>

decode_QUERY_PEER == <<Mac("srcMac"), Mac("targetMac")>>

Layout(pc) ==
    CASE pc = "REGISTER" -> decode_REGISTER
      [] pc = "DEREGISTER" -> decode_DEREGISTER
      [] pc = "REGISTER_SUPER" -> decode_REGISTER_SUPER
      [] pc = "REGISTER_ACK" -> decode_REGISTER_ACK
      [] pc = "REGISTER_SUPER_ACK" -> decode_REGISTER_SUPER_ACK
      [] pc = "PACKET" -> decode_PACKET
      [] pc = "PROBE" -> decode_PROBE
      [] pc = "PROBE_ACK" -> decode_PROBE_ACK
      [] pc = "PEER_INFO" -> decode_PEER_INFO
      [] pc = "QUERY_PEER" -> decode_QUERY_PEER

\* The first byte tells a compact packet, whose header is all there is, from an
\* ordinary one, whose type is in its flags.
decode(bytes) ==
    LET raw == [vals |-> <<>>, rest |-> bytes]
        common == FoldLeft(Walk, raw, decode_common)
    IN  IF Compact(bytes) THEN FoldLeft(Walk, raw, decode_compact_header)
        ELSE FoldLeft(Walk, common, Layout(Type(common)))

-----------------------------------------------------------------------------
(* The senders: which of these fields they fill in.                        *)

Families == {"v4", "v6"}
MaybeSock == {"none", "v4", "v6"}
Sourced(s) == IF s = "none" THEN {} ELSE {"SOCKET"}

Registers ==        \* send_register_with_local
    {[pc |-> "REGISTER", flags |-> Sourced(s), sock |-> s, version |-> "version", os_name |-> "os_name"] :
        s \in MaybeSock}

Supers ==           \* send_register_super
    {[pc |-> "REGISTER_SUPER", flags |-> {}, aflags |-> a, local_sock |-> "v4", toksize |-> t,
      hint |-> h, hintmac |-> x] :
        a \in SUBSET {"LOCAL_SOCKET", "IPV6_SOCKET", "QUERY_ONLY"}, t \in {0, 5, TokenSize},
        h \in MaybeSock, x \in {"zero", "mac"}}

BrotherRegs ==      \* send_brother_reg_to
    {[pc |-> "REGISTER_SUPER", flags |-> {"SOCKET"}, aflags |-> a \cup {"SN_INFO"}, local_sock |-> "none",
      toksize |-> t, hint |-> "none", hintmac |-> "zero"] :
        a \in SUBSET {"IPV6_SOCKET", "BROTHER_REPLY"}, t \in {0, 5, TokenSize}}

SuperAcks ==        \* process_udp, REGISTER_SUPER
    {[pc |-> "REGISTER_SUPER_ACK", sock |-> s, num_sn |-> n, sn_bak |-> b, len |-> l, sn_bak_v6 |-> v,
      sn1_mac |-> x] :
        s \in Families, n \in {0, 1}, b \in Families, l \in {0, 1, SockbufSize - 1},
        v \in {"none", "v6"}, x \in {"zero", "mac"}}

PeerInfos ==        \* push_peer_info, sn_push_punch, QUERY_PEER, REGISTER_SUPER
    {[pc |-> "PEER_INFO", aflags |-> a, sock |-> s, local_sock |-> "v4"] :
        a \in SUBSET {"LOCAL_SOCKET", "IPV6_SOCKET", "PUNCH"}, s \in MaybeSock}

Packets ==          \* send_packet2net
    {[pc |-> p, flags |-> {}, sock |-> "none"] : p \in {"PACKET", "compact"}}

Others ==           \* send_deregister, send_register_ack, send_probe, send_probe_ack, send_query_peer
    {[pc |-> p, sock |-> s] : p \in {"DEREGISTER", "REGISTER_ACK", "PROBE", "PROBE_ACK", "QUERY_PEER"},
                              s \in Families}

Messages == Registers \cup Supers \cup BrotherRegs \cup SuperAcks \cup PeerInfos \cup Packets \cup Others

Payload(m) == When(m.pc \in {"PACKET", "compact"}, encode_buf("payload", 9))

\* The fields an older sender of the message does not know: the ones that were
\* appended.  It stops before any of them, never inside the ones before.
Appended(pc) ==
    CASE pc = "REGISTER" -> {"version", "os_name"}
      [] pc = "REGISTER_SUPER" -> {"desired_sn1_sock", "desired_sn1_mac"}
      [] pc = "REGISTER_SUPER_ACK" ->
            {"sn_caps", "sn_version", "sn_bak_str_len", "sn_bak_str", "sn_bak_v6", "sn1_mac"}
      [] pc = "PEER_INFO" -> {"version", "os_name", "assigned_ip"}
      [] OTHER -> {}

Unsplit == {"sn_bak_str"}       \* written together with the field before it

Put(fields, who) ==
    /\ sent' = fields
    /\ net' = FlattenSeq([i \in DOMAIN fields |-> fields[i].bytes])
    /\ how' = who

Init == sent = <<>> /\ net = <<>> /\ how = "nobody" /\ got = NoFrame

\* A current sender sends everything, an older one stops at one of the fields
\* that were appended.
Send(m, last) ==
    LET fields == encode(m) \o Payload(m)
    IN  /\ sent = <<>>
        /\ last \in DOMAIN fields
        /\ last < Len(fields) => fields[last + 1].f \in Appended(m.pc) \ Unsplit
        /\ Put(SubSeq(fields, 1, last), "edge") /\ got' = NoFrame

Receive ==
    /\ net # <<>>
    /\ got' = decode(net)
    /\ sent' = sent /\ net' = <<>> /\ how' = how

\* The reader returns, and its buffer is used for the next datagram.
Handled == got # NoFrame /\ sent' = <<>> /\ net' = net /\ how' = "nobody" /\ got' = NoFrame

-----------------------------------------------------------------------------
(* The supernode decodes a packet or a registration that an edge sent to    *)
(* another one, adds the address it came from, and encodes it again.        *)

Kept(d, f) == IF Read(d, f) THEN d.vals[f][1] ELSE "unknown"
RestOf(d) == When(d.rest # <<>>, <<[f |-> "payload", v |-> "payload", bytes |-> d.rest]>>)
FromEdge(d) == how = "edge" /\ "FROM_SUPERNODE" \notin Flags(d, "flags")

Forward(pc, s) ==
    LET d == decode(net)
        seen == [pc |-> pc, flags |-> Flags(d, "flags") \cup {"SOCKET", "FROM_SUPERNODE"}, sock |-> s]
    IN  /\ net # <<>> /\ FromEdge(d) /\ Type(d) = pc /\ ~Compact(net)
        /\ Put(CASE pc = "PACKET" -> encode_PACKET(seen) \o RestOf(d)
                 [] pc = "REGISTER" -> encode_REGISTER([version |-> Kept(d, "version"),
                                                        os_name |-> Kept(d, "os_name")] @@ seen), "sn")
        /\ got' = got

ForwardCompact(s) ==
    LET d == decode(net)
    IN  /\ net # <<>> /\ FromEdge(d) /\ Compact(net)
        /\ Put(encode_compact_header([flags |-> Flags(d, "flags") \cup {"SOCKET", "FROM_SUPERNODE"},
                                      sock |-> s]) \o RestOf(d), "sn")
        /\ got' = got

\* A receiver that is not known to read compact packets is sent an ordinary one:
\* a common header, and then the whole of encode_PACKET, which starts with one.
ConvertToLegacy(s) ==
    LET d == decode(net)
        flags == Flags(d, "flags") \cup {"SOCKET", "FROM_SUPERNODE"}
    IN  /\ net # <<>> /\ FromEdge(d) /\ Compact(net)
        /\ Put(encode_common("PACKET", flags) \o encode_PACKET([flags |-> flags, sock |-> s]) \o RestOf(d),
               "converted")
        /\ got' = got

Next ==
    \/ \E m \in Messages : \E last \in DOMAIN (encode(m) \o Payload(m)) : Send(m, last)
    \/ Receive \/ Handled
    \/ \E s \in Families : (\E pc \in {"PACKET", "REGISTER"} : Forward(pc, s))
                           \/ ForwardCompact(s) \/ ConvertToLegacy(s)

Spec == Init /\ [][Next]_vars

-----------------------------------------------------------------------------

Understands ==
    /\ DOMAIN got.vals = {sent[i].f : i \in DOMAIN sent} \ {"payload"}
    /\ \A i \in DOMAIN sent : sent[i].f # "payload" => got.vals[sent[i].f] = <<sent[i].v>>
    /\ got.rest = IF sent[Len(sent)].f = "payload" THEN Bytes("payload", "payload", 9) ELSE <<>>

\* Whoever wrote the datagram, a current edge or supernode, one of an older
\* version that stops earlier, or the supernode that passed it on, its reader
\* finds in every field what the writer put there, finds no field that was not
\* sent, and leaves exactly the payload.
Understood == got # NoFrame /\ how # "converted" => Understands

\* "Convert to legacy format for old edges" (sn.c): a converted packet is one
\* that an edge that only knows the ordinary format understands.
ConvertedUnderstood == got # NoFrame /\ how = "converted" => Understands
=============================================================================
