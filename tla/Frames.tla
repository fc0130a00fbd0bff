------------------------------- MODULE Frames -------------------------------
(***************************************************************************)
(* Frames between the TAP devices of two edges: what an edge reads from    *)
(* its interface, the transform it was configured with (null, Twofish,     *)
(* AES-CBC, ChaCha20, Speck), the datagram, and what the other edge makes  *)
(* of it.  edge.c setup_encryption, readFromTAPSocket, send_packet2net and *)
(* handle_PACKET, transform_*.c.                                           *)
(* Encrypted bytes are the frame with the schedule they were made with;    *)
(* under another schedule they read as Junk.  Lengths are kept: nothing    *)
(* authenticates a datagram, so lengths and a version byte are all that    *)
(* a receiver can refuse it by.  Which path a datagram takes is EdgePeers' *)
(* and Relay's subject, its header Wire's: here the header has a length,   *)
(* and the network may lose what is sent, or take it by a supernode.       *)
(***************************************************************************)
EXTENDS Naturals, Sequences, FiniteSets

CONSTANTS
    Edges,                  \* two edges of a community
    Configs,                \* how each of them may be started
    Kinds,                  \* kinds of frames: see Kind
    Sizes,                  \* lengths of frames, in bytes
    N2N_PKT_BUF_SIZE,       \* the buffer a datagram is built in
    N2N_TRANSFORM_BUF_SIZE, \* the largest payload of a transform
    MaxTap,                 \* bound: frames that wait at a TAP device
    MaxNet                  \* bound: datagrams on their way

VARIABLES
    conf,       \* an edge's options and the transform they end up selecting
    tap,        \* frames waiting at its TAP device
    net,        \* datagrams on their way
    knows,      \* the peers in its lists
    compact,    \* those with compact_capable
    ip,         \* assigned_ip of a peer: "none", "own" (the peer's), "other" or "junk"
    wrote       \* the last frame written to a TAP device, and who sent it

vars == <<conf, tap, net, knows, compact, ip, wrote>>

\* "own": IPv4 or IPv6 that this host originates; "routed": of another host;
\* "arp": neither; "mcast": to an Ethernet multicast group, of this host.
Kind == {"own", "routed", "arp", "mcast"}
Frame == [kind : Kind, size : Sizes]
Junk == [kind |-> "junk", size |-> 0]
Nothing == [at |-> "nowhere", frame |-> Junk, from |-> "nobody", form |-> "none"]
ETH_FRAMESIZE == 14
LegacyHeader == 20 + 6 + 6 + 2          \* common, srcMac, dstMac, transform
CompactHeader == 4 + 6                   \* tag, ttl and flags, dstMac
Huge == 2 ^ 30                          \* a ssize_t of -1 in a size_t

-----------------------------------------------------------------------------
(* Start-up.  An option record has mode (-A), key (-k), hex (whether the   *)
(* key reads as hexadecimal), routing (-r), accept (-E), win (the build).  *)

\* Without -k and without -A the second half of the community's name is the
\* key and only the first half is sent (main, simple mode): both edges have it.
KeyOf(o) == IF o.mode = 0 /\ o.key = "none" THEN "half" ELSE o.key
ModeOf(o) == IF o.mode = 0 THEN 4 ELSE o.mode           \* the default is -A4

\* -A3, -A4 and -A5 without a key do not start.
Starts(o) == KeyOf(o) # "none" \/ ModeOf(o) \in {1, 2}

transop_enum == <<"null", "twofish", "aes", "cc20", "speck">>
setup_encryption(o) == IF KeyOf(o) = "none" THEN "null" ELSE transop_enum[ModeOf(o)]

\* The schedules a key can end in: one that the key's text decides, for the
\* transforms that hash it or fill their key space with it.
transop_twofish_setup(o) == {<<KeyOf(o), "alone">>}
setup_aes_key(o) == {<<KeyOf(o), "alone">>}
edge_init_cc20_from_key(o) == {<<KeyOf(o), "alone">>}
\* Speck's key is a string up to its NUL.  One that reads as hexadecimal is put
\* as bytes that no NUL ends into a record that was never cleared: the
\* schedule covers what the stack held behind them too.
transop_addspec_speck(key, ended) ==
    IF ended THEN {<<key, "alone">>} ELSE {<<key, "alone">>, <<key, "and more">>}
edge_init_speck(o) == transop_addspec_speck(KeyOf(o), ~o.hex)

Schedules(o) ==
    CASE setup_encryption(o) = "null" -> {<<"clear", "alone">>}
      [] setup_encryption(o) = "twofish" -> transop_twofish_setup(o)
      [] setup_encryption(o) = "aes" -> setup_aes_key(o)
      [] setup_encryption(o) = "cc20" -> edge_init_cc20_from_key(o)
      [] setup_encryption(o) = "speck" -> edge_init_speck(o)

edge_choose_tx_transop(e) == conf[e].transop

Init ==
    /\ conf \in [Edges -> UNION {
          {[opt |-> o, transop |-> setup_encryption(o), sched |-> s] : s \in Schedules(o)} :
          o \in {c \in Configs : Starts(c)}}]
    /\ tap = [e \in Edges |-> <<>>]
    /\ net = {}
    /\ knows \in [Edges -> SUBSET Edges]
    /\ \A e \in Edges : e \notin knows[e]
    /\ compact = [e \in Edges |-> {}]
    /\ ip = [e \in Edges |-> "none"]
    /\ wrote = Nothing

-----------------------------------------------------------------------------
(* The transforms: how many bytes fwd writes and rev returns.              *)

TRANSOP_TF_NONCE_SIZE == 4
TfPreamble == 1 + 4 + TRANSOP_TF_NONCE_SIZE
TRANSOP_AES_PREAMBLE_SIZE == 1 + 8
TRANSOP_CC20_PREAMBLE_SIZE == 1 + 16
SpeckPreamble == 1 + 16
N2N_AES_BLOCK_SIZE == 16
No == 0                                 \* what a fwd that refuses adds, plus one

\* At least one byte of padding; its last byte says how many there are.
Padded(n) == (n \div N2N_AES_BLOCK_SIZE + 1) * N2N_AES_BLOCK_SIZE
Padding(n) == Padded(n) - n

transop_encode_null(n, out) == IF n <= out THEN n + 1 ELSE No
transop_encode_twofish(n, out) ==
    IF n + TRANSOP_TF_NONCE_SIZE <= N2N_TRANSFORM_BUF_SIZE /\ n + TfPreamble <= out
    THEN n + TfPreamble + 1 ELSE No
transop_encode_aes(n, out) ==
    IF n <= N2N_TRANSFORM_BUF_SIZE /\ n + TRANSOP_AES_PREAMBLE_SIZE <= out
    THEN Padded(n) + TRANSOP_AES_PREAMBLE_SIZE + 1 ELSE No
transop_encode_cc20(n, out) ==
    IF n <= N2N_TRANSFORM_BUF_SIZE /\ n + TRANSOP_CC20_PREAMBLE_SIZE <= out
    THEN n + TRANSOP_CC20_PREAMBLE_SIZE + 1 ELSE No
transop_encode_speck(n, out) == IF n + SpeckPreamble <= out THEN n + SpeckPreamble + 1 ELSE No

\* fwd's result plus one: No stands for the -1 that send_packet2net adds up.
fwd(t, n, out) ==
    CASE t = "null" -> transop_encode_null(n, out)
      [] t = "twofish" -> transop_encode_twofish(n, out)
      [] t = "aes" -> transop_encode_aes(n, out)
      [] t = "cc20" -> transop_encode_cc20(n, out)
      [] t = "speck" -> transop_encode_speck(n, out)

\* rev's possible results for n bytes of payload, ok telling whether they are
\* of the same transform and schedule, v1 whether the first of them is 1.
transop_decode_null(n) == {n}
transop_decode_twofish(n, v1) == {IF n >= TfPreamble /\ v1 THEN n - TfPreamble ELSE 0}
transop_decode_aes(n, v1, ok, pad) ==
    LET len == n - TRANSOP_AES_PREAMBLE_SIZE
    IN  IF n < TRANSOP_AES_PREAMBLE_SIZE + N2N_AES_BLOCK_SIZE \/ ~v1
           \/ len % N2N_AES_BLOCK_SIZE # 0 THEN {0}
        ELSE IF ok THEN {len - pad}
        ELSE {0, len}                   \* the last byte is anything
transop_decode_cc20(n, v1) ==
    {IF n >= TRANSOP_CC20_PREAMBLE_SIZE /\ v1 THEN n - TRANSOP_CC20_PREAMBLE_SIZE ELSE 0}
transop_decode_speck(n, v1) == {IF n >= SpeckPreamble /\ v1 THEN n - SpeckPreamble ELSE Huge}

rev(t, n, v1, ok, pad) ==
    CASE t = "null" -> transop_decode_null(n)
      [] t = "twofish" -> transop_decode_twofish(n, v1)
      [] t = "aes" -> transop_decode_aes(n, v1, ok, pad)
      [] t = "cc20" -> transop_decode_cc20(n, v1)
      [] t = "speck" -> transop_decode_speck(n, v1)

-----------------------------------------------------------------------------
(* From the TAP device to the network.                                     *)

is_ethMulticast(f) == f.kind = "mcast"
Dropped(e, f) == ~conf[e].opt.accept /\ is_ethMulticast(f)
Routed(e, f) == ~conf[e].opt.routing /\ f.kind = "routed"

\* The datagram that send_packet2net builds, for a peer that is known to read
\* the compact format in that format.  When fwd refuses the frame what is
\* sent is the header without its last byte, and the receiver takes the bytes
\* of the field it cuts for the payload.
Datagram(e, p, f) ==
    LET form == IF p \in compact[e] THEN "compact" ELSE "legacy"
        header == IF form = "compact" THEN CompactHeader ELSE LegacyHeader
        t == edge_choose_tx_transop(e)
        n == fwd(t, f.size, N2N_PKT_BUF_SIZE - header)
    IN  [form |-> form, from |-> e, to |-> p, frame |-> f, transform |-> t,
         sched |-> conf[e].sched, stub |-> n = No, psize |-> IF n # No THEN n - 1 ELSE IF form = "compact" THEN 5 ELSE 1,
         pad |-> Padding(f.size), v1 |-> t # "null" \/ is_ethMulticast(f)]

send_packet2net(e, p, fs) ==
    {Datagram(e, p, f) : f \in {g \in fs : ~Routed(e, g)}}

\* Up to eight frames in a call.  The build for Windows filters each of them
\* and takes none of more than 1600 bytes (process_tap_rx_frame); the other
\* filters the first, and drains the rest as they are.
Taken(e) ==
    IF conf[e].opt.win
    THEN {tap[e][i] : i \in {j \in DOMAIN tap[e] : ~Dropped(e, tap[e][j]) /\ tap[e][j].size <= 1600}}
    ELSE {tap[e][i] : i \in {j \in DOMAIN tap[e] : j > 1 \/ ~Dropped(e, tap[e][1])}}

readFromTAPSocket(e) ==
    /\ tap[e] # <<>>
    /\ \E p \in Edges \ {e} :
          LET sent == send_packet2net(e, p, Taken(e))
          IN  /\ Cardinality(net \cup sent) <= MaxNet
              /\ net' = net \cup sent
    /\ tap' = [tap EXCEPT ![e] = <<>>]
    /\ UNCHANGED <<conf, knows, compact, ip, wrote>>

\* The host writes a frame; a packet of another host is there when the
\* system's own routing table leads through the interface.
HostSends(e, f) ==
    /\ Len(tap[e]) < MaxTap
    /\ tap' = [tap EXCEPT ![e] = Append(@, f)]
    /\ UNCHANGED <<conf, net, knows, compact, ip, wrote>>

\* A peer of an edition that sends the compact format unasked: the only way
\* an edge learns that a peer reads it.
SpeaksCompact(e, p) ==
    /\ p # e
    /\ p \in knows[e]
    /\ compact' = [compact EXCEPT ![e] = @ \cup {p}]
    /\ UNCHANGED <<conf, tap, net, knows, ip, wrote>>

-----------------------------------------------------------------------------
(* From the network to the TAP device.                                     *)

\* A compact datagram has no source and no transform: the peer is looked up
\* by the socket it came from, the transform is taken to be the receiver's.
Recognised(e, d) == d.form = "legacy" \/ d.from \in knows[e]

\* Mutant: every datagram is taken to use the receiver's transform.
TransformTrusted(e, d) == {conf[e].transop}

\* A legacy header that lost its last byte leaves the transform as it was on
\* the stack: anything.
TransformOf(e, d) ==
    CASE d.form = "compact" -> {conf[e].transop}
      [] d.form = "legacy" /\ d.stub -> {conf[e].transop, "invalid"}
      [] OTHER -> {d.transform}

Readable(e, d) == ~d.stub /\ d.transform = conf[e].transop /\ d.sched = conf[e].sched

\* The sender's virtual address is read from the first frame that shows one.
LearnsIp(e, d, size) ==
    IF ip[e] # "none" THEN {ip[e]}
    ELSE IF size < 34 THEN {"none"}
    ELSE IF ~Readable(e, d) THEN {"none", "junk"}       \* bytes that may look like a packet
    ELSE {CASE d.frame.kind \in {"own", "mcast"} -> "own"
            [] d.frame.kind = "routed" -> "other"
            [] d.frame.kind = "arp" -> IF size >= 42 THEN "own" ELSE "none"}

\* The kernel takes no frame shorter than an Ethernet header, and no length
\* that is not one (external: tuntap_write).
tuntap_write(e, d, size) ==
    IF size < ETH_FRAMESIZE \/ size = Huge THEN wrote
    ELSE [at |-> e, frame |-> IF Readable(e, d) /\ size = d.frame.size THEN d.frame ELSE Junk,
          from |-> d.from, form |-> d.form]

\* A relayed first frame puts its sender into the pending list; a direct one
\* of an unknown sender is delivered all the same.  All of it happens whether
\* the transform could be undone or not.
handle_PACKET(e, d, direct, size) ==
    /\ knows' = [knows EXCEPT ![e] = IF direct THEN @ ELSE @ \cup {d.from}]
    /\ \E a \in IF d.from \in knows'[e] THEN LearnsIp(e, d, size) ELSE {ip[e]} :
          ip' = [ip EXCEPT ![e] = a]
    /\ wrote' = tuntap_write(e, d, size)

readFromIPSocket(e) ==
    /\ \E d \in net, direct \in BOOLEAN :
          /\ d.to = e
          /\ net' = net \ {d}
          /\ compact' = [compact EXCEPT ![e] =
                IF d.form = "compact" /\ Recognised(e, d) THEN @ \cup {d.from} ELSE @]
          /\ \/ /\ Recognised(e, d) /\ conf[e].transop \in TransformOf(e, d)
                /\ \E size \in rev(conf[e].transop, d.psize, d.v1, Readable(e, d), d.pad) :
                      handle_PACKET(e, d, direct, size)
             \/ /\ ~Recognised(e, d) \/ TransformOf(e, d) # {conf[e].transop}
                /\ UNCHANGED <<knows, ip, wrote>>
    /\ UNCHANGED <<conf, tap>>

Lose ==
    /\ \E d \in net : net' = net \ {d}
    /\ UNCHANGED <<conf, tap, knows, compact, ip, wrote>>

Next ==
    \/ \E e \in Edges :
          \/ readFromTAPSocket(e)
          \/ readFromIPSocket(e)
          \/ \E f \in Frame : f.kind \in Kinds /\ HostSends(e, f)
          \/ \E p \in Edges : SpeaksCompact(e, p)
    \/ Lose

Spec == Init /\ [][Next]_vars

-----------------------------------------------------------------------------
(* Correctness.                                                            *)

Alike(e, p) == conf[e].transop = conf[p].transop /\ conf[e].sched = conf[p].sched
Oversize == \E n \in Sizes : n + SpeckPreamble + LegacyHeader > N2N_PKT_BUF_SIZE

\* What an edge writes to its TAP device is a frame the other edge's host sent,
\* byte for byte and with its length, whatever the transform pads and prepends
\* and whatever a refused frame left on the wire.  Anything else is written
\* only between edges that differ in key or transform, and, unless the compact
\* format hid the transform, only when it is the keys alone that differ
\* (handle_PACKET's transform check, the transforms' rev).
Intact ==
    wrote # Nothing /\ wrote.frame = Junk =>
        /\ ~Alike(wrote.at, wrote.from)
        /\ wrote.form = "legacy" => conf[wrote.at].transop = conf[wrote.from].transop

\* The virtual address an edge reads from a peer's first frame is the peer's
\* own: a packet of a third host is kept back at the other end, by an edge that
\* does not route.  What is taken from bytes that are no frame comes of keys
\* that differ, or of Speck's -1 for a datagram without a payload
\* (handle_PACKET's assigned_ip, send_packet2net's routed packets).
AddressOwn ==
    \A e \in Edges : \A p \in Edges \ {e} :
        /\ ip[e] = "other" => conf[p].opt.routing
        /\ ip[e] = "junk" => ~Alike(e, p) \/ (Oversize /\ conf[e].transop = "speck")

FramesAssumption ==
    /\ \E a, b \in Edges : a # b /\ Edges = {a, b}
    /\ \A o \in Configs : o.mode \in 0 .. 5
    /\ Kinds \subseteq Kind /\ Sizes \subseteq Nat
    /\ N2N_PKT_BUF_SIZE \in Nat /\ N2N_TRANSFORM_BUF_SIZE \in Nat
    \* Frames that fit in front of AES's padding and not with it are left out:
    \* transop_encode_aes would write past the datagram's buffer.
    /\ \A n \in Sizes, h \in {LegacyHeader, CompactHeader} :
          /\ n >= ETH_FRAMESIZE
          /\ n + TRANSOP_AES_PREAMBLE_SIZE <= N2N_PKT_BUF_SIZE - h =>
                Padded(n) + TRANSOP_AES_PREAMBLE_SIZE <= N2N_PKT_BUF_SIZE - h
=============================================================================
