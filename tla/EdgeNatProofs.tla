--------------------------- MODULE EdgeNatProofs ---------------------------
(***************************************************************************)
(* The edge's verdict about its NAT is never better than the NAT, whatever *)
(* the NAT, the number of tries and rebuilds, and the order in which       *)
(* answers, bounces and probes arrive: proofs about EdgeNat.  The handlers *)
(* of EdgeNat are operators on w, the part of the state they change, so    *)
(* most of the invariant is about w, too.                                  *)
(***************************************************************************)
EXTENDS EdgeNat, TLAPS

Views     == {"", "private", "sn1", "sn2"} \cup Dests
Endpoints == Nat \X Views
Seens     == {None} \cup Endpoints

Evidence == [type : Types, s1 : Seens, s2 : Seens, alt : Seens, cross : Seens,
             bounce : BOOLEAN, fc : BOOLEAN, window : BOOLEAN, crossing : BOOLEAN,
             tries : Nat, final : BOOLEAN, pub : Seens, pending : BOOLEAN,
             reprobe : BOOLEAN, suppress : BOOLEAN, revert : BOOLEAN, rebuilds : Nat,
             wait : BOOLEAN, acked : BOOLEAN]

Acks    == [k : {"ack"}, from : Dests, cookie : {"last", "probe"}, to : Endpoints]
Bounces == [k : {"bounce"}, from : {"helper1", "helper2"}, to : Endpoints]
Fcs     == [k : {"fc"}, from : {"main2", "helper2"}, to : Endpoints]

Messages == Acks \cup Bounces \cup Fcs

Worlds == [gen : Nat, sent : SUBSET Dests, rec : Seens, e : Evidence, net : SUBSET Messages]

\* No endpoint of the future is known.
UpTo(o, g) == o # None => o[1] <= g
NoneAhead(w) ==
    /\ UpTo(w.rec, w.gen) /\ UpTo(w.e.s1, w.gen) /\ UpTo(w.e.s2, w.gen)
    /\ UpTo(w.e.alt, w.gen) /\ UpTo(w.e.cross, w.gen) /\ UpTo(w.e.pub, w.gen)

\* What is under way was sent to the mapping the NAT has now, by somebody who may.
Fair(m, g, known) ==
    /\ m.k = "ack" => /\ m.to = Seen(g, m.from) /\ m.from \in known
                      /\ m.cookie = "last" => m.from # "alt1"
    /\ m.k = "bounce" => nat.filter # "port" /\ m.to[1] = g
    /\ m.k = "fc" => /\ m.to = Seen(g, "main1") /\ Public(m.to)
                     /\ m.from = "helper2" => nat.filter # "port"

NetOk(w) == \A m \in w.net : Fair(m, w.gen, w.sent)

\* A helper's packet came in, so the filter is not by port.
Opened(w) ==
    /\ w.e.bounce => nat.filter # "port"
    /\ w.e.type = "restricted" => nat.filter # "port"

\* The verdict, and what it rests on.
Proved(w) ==
    /\ w.e.fc => nat.filter = "any"
    /\ w.e.type = "full" => nat.filter = "any"
    /\ w.e.type = "symmetric" => nat.map = "port"

\* The observations are of the mapping the NAT has now; the last registration's
\* endpoint is the one that is compared with the next.
Current(w) ==
    /\ w.e.s1 \in {None, Seen(w.gen, "main1")}
    /\ w.e.alt \in {None, Seen(w.gen, "alt1")}
    /\ w.e.s2 \in {None, Seen(w.gen, "main1"), Seen(w.gen, "main2")}
    /\ w.e.s1 # None => w.e.pub = w.e.s1
    /\ w.e.s2 \notin {None, Seen(w.gen, "main1")} => w.e.pub = w.e.s2
    /\ w.e.pub \in {None, Seen(w.gen, "main1"), Seen(w.gen, "main2")} \/ w.e.suppress
    /\ w.e.pub = None => w.e.type = "unknown" /\ w.e.s1 = None /\ w.e.s2 = None /\ ~w.e.pending

\* After a refresh the first answer is not taken for a new mapping: until it
\* comes, nothing is found out.
Suppressed(w) ==
    w.e.suppress =>
        /\ w.e.final /\ ~w.e.pending /\ ~w.e.revert /\ w.e.s2 = None /\ w.e.alt = None
        /\ \/ w.e.pub # None /\ w.e.pub[1] < w.gen /\ w.e.s1 = None
           \/ /\ w.e.type = "unknown" /\ "main2" \notin w.sent
              /\ w.e.pub \in {None, Seen(w.gen, "main1")}

\* While the stranger window is open, sn2 is a stranger: a packet of it that
\* arrives was not let in because of one the edge has sent.
Strange(w) == nat.map = "any" /\ ~nat.inside /\ w.e.window => "main2" \notin w.sent

\* What holds as long as the NAT has kept its mappings.
Kept(w) == Proved(w) /\ Current(w) /\ Suppressed(w) /\ Strange(w)

Sound(w) == NoneAhead(w) /\ NetOk(w) /\ Opened(w) /\ (dropped = 0 => Kept(w))

\* An attempt is left as long as the verdict is open.
Counted(w) ==
    /\ w.e.tries <= MaxTries + 1 /\ w.e.rebuilds <= MaxRebuilds
    /\ ~w.e.final => w.e.tries <= MaxTries /\ (w.e.tries = MaxTries => w.e.pending)

NatInv ==
    /\ nat \in Nats /\ dropped \in Nat /\ Now \in Worlds
    /\ Sound(Now) /\ Counted(Now)

\* The NAT is one of those there are.
Behind == nat \in [map : {"any", "ip", "port"}, filter : {"any", "ip", "port"},
                   inside : BOOLEAN, fixed : BOOLEAN]

\* The same but for the verdict and for what the invariant does not mention.
Alike(c, d) ==
    /\ c.s1 = d.s1 /\ c.s2 = d.s2 /\ c.alt = d.alt /\ c.cross = d.cross
    /\ c.bounce = d.bounce /\ c.fc = d.fc /\ c.window = d.window /\ c.crossing = d.crossing
    /\ c.tries = d.tries /\ c.final = d.final /\ c.pub = d.pub /\ c.pending = d.pending
    /\ c.suppress = d.suppress /\ c.revert = d.revert /\ c.rebuilds = d.rebuilds

-----------------------------------------------------------------------------
(* Endpoints and messages *)

\* An endpoint is one: it is not None, and says which mapping it is of.
LEMMA EndpointFacts ==
    ASSUME NEW g \in Nat, NEW v \in Views
    PROVE  <<g, v>> \in Endpoints /\ <<g, v>> # None /\ <<g, v>>[1] = g
  BY DEF Endpoints, None

\* None is none, and endpoints have a mapping (struct n2n_sock).
LEMMA SeensFacts ==
    ASSUME NEW o \in Endpoints
    PROVE  o # None /\ o[1] \in Nat /\ o \in Seens
<1>1. PICK g \in Nat, v \in Views : o = <<g, v>>
  BY DEF Endpoints
<1> QED BY <1>1, EndpointFacts DEF Seens

\* What a destination sees is an endpoint of the mapping (NAT).
LEMMA SeenFacts ==
    ASSUME Behind, NEW g \in Nat, NEW d \in Dests
    PROVE  Seen(g, d) \in Endpoints /\ Seen(g, d) # None /\ Seen(g, d)[1] = g
<1>1. \E v \in Views : Seen(g, d) = <<g, v>>
  BY DEF Behind, Seen, Views, Dests, Ip
<1> QED BY <1>1, EndpointFacts

\* Whom the NAT shows the same port: both supernodes, one host, or none of them.
LEMMA SeenIs ==
    ASSUME Behind, NEW g \in Nat
    PROVE  /\ nat.inside => ~Public(Seen(g, "main1"))
           /\ ~nat.inside /\ nat.map = "any" => Seen(g, "main1") = Seen(g, "main2") /\ Seen(g, "alt1") = Seen(g, "main1")
           /\ ~nat.inside /\ nat.map = "ip" => Seen(g, "main1") # Seen(g, "main2") /\ Seen(g, "alt1") = Seen(g, "main1")
           /\ ~nat.inside /\ nat.map = "port" => Seen(g, "main1") # Seen(g, "main2")
  BY DEF Behind, Seen, Ip, Public, None

\* The answers of the supernode at d, and its helper's bounce, are fair.
LEMMA RepliesFair ==
    ASSUME Behind, NEW w \in Worlds, NEW d \in Dests, NEW c \in {"last", "probe"},
           c = "last" => d # "alt1"
    PROVE  /\ Replies(w, d, c) \subseteq Messages
           /\ \A m \in Replies(w, d, c) : Fair(m, w.gen, w.sent \cup {d})
<1>1. w.gen \in Nat
  BY DEF Worlds
<1>2. Seen(w.gen, d) \in Endpoints /\ Seen(w.gen, d)[1] = w.gen
  BY <1>1, SeenFacts
<1> DEFINE o == Seen(w.gen, d)
           a == [k |-> "ack", from |-> d, cookie |-> c, to |-> o]
           b == [k |-> "bounce", from |-> IF Ip(d) = "sn1" THEN "helper1" ELSE "helper2", to |-> o]
<1>3. a \in Messages /\ Fair(a, w.gen, w.sent \cup {d})
  BY <1>2 DEF Messages, Acks, Fair
<1>4. b \in Messages /\ (nat.filter # "port" => Fair(b, w.gen, w.sent \cup {d}))
  BY <1>2 DEF Messages, Bounces, Fair
<1>5. \A m \in Replies(w, d, c) : m = a \/ (m = b /\ nat.filter # "port")
  BY DEF Replies
<1> HIDE DEF a, b
<1> QED BY <1>3, <1>4, <1>5

\* The full-cone probes of sn2 are fair.
LEMMA ProbesFair ==
    ASSUME Behind, NEW w \in Worlds, NEW again \in BOOLEAN
    PROVE  /\ Probes(w, again) \subseteq Messages
           /\ \A m \in Probes(w, again) : \A S : Fair(m, w.gen, S)
<1>1. w.gen \in Nat
  BY DEF Worlds
<1>2. "main1" \in Dests
  BY DEF Dests
<1>3. Seen(w.gen, "main1") \in Endpoints
  BY <1>1, <1>2, SeenFacts
<1> DEFINE o == Seen(w.gen, "main1")
           p(s) == [k |-> "fc", from |-> s, to |-> o]
<1>4. \A s \in {"main2", "helper2"} : p(s) \in Messages
  BY <1>3 DEF Messages, Fcs
<1>5. \A s \in {"main2", "helper2"} : Public(o) /\ (s = "helper2" => nat.filter # "port") => \A S : Fair(p(s), w.gen, S)
  BY DEF Fair
<1>6. \A m \in Probes(w, again) : \E s \in {"main2", "helper2"} :
         m = p(s) /\ Public(o) /\ (s = "helper2" => nat.filter # "port")
  BY DEF Probes
<1> HIDE DEF o, p
<1> QED BY <1>4, <1>5, <1>6

\* What was fair stays so when the edge sends to more destinations.
LEMMA FairMore ==
    ASSUME NEW m, NEW g, NEW S, NEW T, Fair(m, g, S), S \subseteq T
    PROVE  Fair(m, g, T)
  BY DEF Fair

-----------------------------------------------------------------------------
(* What the edge does, on w *)

\* Registering with sn1 changes no evidence and keeps what is sound.
LEMMA RegisterSn1Is ==
    ASSUME Behind, NEW w \in Worlds
    PROVE  LET r == RegisterSn1(w) IN
           /\ r \in Worlds /\ r.gen = w.gen /\ r.sent = w.sent \cup {"main1"}
           /\ r.rec = Seen(w.gen, "main1") /\ r.e \in Evidence /\ Alike(r.e, w.e) /\ r.e.type = w.e.type
           /\ NetOk(w) => NetOk(r)
<1> DEFINE r == RegisterSn1(w)
           n == Forget(w.net, "last") \cup Replies(w, "main1", "last") \cup Probes(w, w.e.reprobe)
<1>1. w.gen \in Nat /\ w.e \in Evidence /\ w.sent \subseteq Dests /\ w.net \subseteq Messages /\ "main1" \in Dests
  BY DEF Worlds, Dests
<1>2. w.e.reprobe \in BOOLEAN
  BY <1>1 DEF Evidence
<1>3. Seen(w.gen, "main1") \in Endpoints
  BY <1>1, SeenFacts
<1>4. n \subseteq Messages
  BY <1>1, <1>2, RepliesFair, ProbesFair DEF Forget
<1>5. NetOk(w) => \A m \in n : Fair(m, w.gen, w.sent \cup {"main1"})
  <2> SUFFICES ASSUME NetOk(w), NEW m \in n PROVE Fair(m, w.gen, w.sent \cup {"main1"})
    OBVIOUS
  <2>1. CASE m \in Forget(w.net, "last")
    BY <2>1, FairMore DEF Forget, NetOk
  <2>2. CASE m \in Replies(w, "main1", "last")
    BY <2>2, <1>1, RepliesFair
  <2>3. CASE m \in Probes(w, w.e.reprobe)
    BY <2>3, <1>2, ProbesFair
  <2> QED BY <2>1, <2>2, <2>3
<1>6. /\ r.gen = w.gen /\ r.sent = w.sent \cup {"main1"} /\ r.rec = Seen(w.gen, "main1") /\ r.net = n
      /\ r.e = [w.e EXCEPT !.reprobe = FALSE, !.acked = FALSE]
      /\ r = [gen |-> r.gen, sent |-> r.sent, rec |-> r.rec, e |-> r.e, net |-> r.net]
  <2>1. w = [gen |-> w.gen, sent |-> w.sent, rec |-> w.rec, e |-> w.e, net |-> w.net]
    BY DEF Worlds
  <2>2. r = [w EXCEPT !.sent = w.sent \cup {"main1"}, !.rec = Seen(w.gen, "main1"), !.net = n,
                      !.e = [w.e EXCEPT !.reprobe = FALSE, !.acked = FALSE]]
    BY DEF RegisterSn1
  <2> HIDE DEF r, n
  <2> QED BY <2>1, <2>2
<1> HIDE DEF r, n
<1>7. r.e \in Evidence /\ Alike(r.e, w.e) /\ r.e.type = w.e.type
  BY <1>1, <1>6 DEF Evidence, Alike
<1>8. r \in Worlds
  BY <1>1, <1>3, <1>4, <1>6, <1>7 DEF Worlds, Seens
<1>9. NetOk(w) => NetOk(r)
  BY <1>5, <1>6 DEF NetOk
<1> QED BY <1>6, <1>7, <1>8, <1>9 DEF r

\* Telling sn2 changes no evidence, either; sn2 is written to only when it need not
\* be a stranger any more.
LEMMA TellSn2Is ==
    ASSUME Behind, NEW w \in Worlds
    PROVE  LET r == TellSn2(w) IN
           /\ r \in Worlds /\ r.gen = w.gen /\ r.rec = w.rec
           /\ r.sent = (IF w.e.window THEN w.sent ELSE w.sent \cup {"main2"})
           /\ r.e \in Evidence /\ Alike(r.e, w.e) /\ r.e.type = w.e.type
           /\ NetOk(w) => NetOk(r)
<1> DEFINE r == TellSn2(w)
           n == Forget(w.net, "last") \cup Replies(w, "main2", "last")
<1>1. w.gen \in Nat /\ w.e \in Evidence /\ w.sent \subseteq Dests /\ w.net \subseteq Messages /\ "main2" \in Dests
  BY DEF Worlds, Dests
<1>2. CASE w.e.window
  BY <1>1, <1>2 DEF TellSn2, Alike
<1>3. CASE ~w.e.window
  <2>1. n \subseteq Messages
    BY <1>1, RepliesFair DEF Forget
  <2>2. NetOk(w) => \A m \in n : Fair(m, w.gen, w.sent \cup {"main2"})
    <3> SUFFICES ASSUME NetOk(w), NEW m \in n PROVE Fair(m, w.gen, w.sent \cup {"main2"})
      OBVIOUS
    <3>1. CASE m \in Forget(w.net, "last")
      BY <3>1, FairMore DEF Forget, NetOk
    <3>2. CASE m \in Replies(w, "main2", "last")
      BY <3>2, <1>1, RepliesFair
    <3> QED BY <3>1, <3>2
  <2>3. /\ r.gen = w.gen /\ r.sent = w.sent \cup {"main2"} /\ r.rec = w.rec /\ r.net = n
        /\ r.e = [w.e EXCEPT !.acked = FALSE]
        /\ r = [gen |-> r.gen, sent |-> r.sent, rec |-> r.rec, e |-> r.e, net |-> r.net]
    BY <1>3 DEF TellSn2, Worlds
  <2> HIDE DEF r, n
  <2>4. r.e \in Evidence /\ Alike(r.e, w.e) /\ r.e.type = w.e.type
    BY <1>1, <2>3 DEF Evidence, Alike
  <2>5. r \in Worlds
    BY <1>1, <2>1, <2>3, <2>4 DEF Worlds
  <2>6. NetOk(w) => NetOk(r)
    BY <2>2, <2>3 DEF NetOk
  <2> QED BY <1>3, <2>3, <2>4, <2>5, <2>6 DEF r
<1> QED BY <1>2, <1>3

\* What a world's invariant says of its evidence alone, and of its mapping.
Base(w) == NoneAhead(w) /\ NetOk(w) /\ Opened(w) /\ (dropped = 0 => Proved(w) /\ Current(w) /\ Strange(w))

\* A registration keeps it, whatever it is for.
LEMMA RegisterSn1Keeps ==
    ASSUME Behind, NEW w \in Worlds
    PROVE  /\ Base(w) => Base(RegisterSn1(w))
           /\ Sound(w) => Sound(RegisterSn1(w))
           /\ Counted(w) => Counted(RegisterSn1(w))
<1> DEFINE r == RegisterSn1(w)
<1>1. /\ r \in Worlds /\ r.gen = w.gen /\ r.sent = w.sent \cup {"main1"}
      /\ r.rec = Seen(w.gen, "main1") /\ r.e \in Evidence /\ Alike(r.e, w.e) /\ r.e.type = w.e.type
      /\ NetOk(w) => NetOk(r)
  BY RegisterSn1Is
<1>2. w.gen \in Nat /\ "main1" \in Dests
  BY DEF Worlds, Dests
<1>3. Seen(w.gen, "main1")[1] = w.gen
  BY <1>2, SeenFacts
<1> HIDE DEF r
<1>4. NoneAhead(w) => NoneAhead(r)
  BY <1>1, <1>2, <1>3 DEF NoneAhead, UpTo, Alike
<1>5. (Opened(w) => Opened(r)) /\ (Counted(w) => Counted(r)) /\ (Proved(w) => Proved(r))
  BY <1>1 DEF Opened, Counted, Proved, Alike
<1>6. (Current(w) => Current(r)) /\ (Strange(w) => Strange(r))
  BY <1>1 DEF Current, Strange, Alike
<1>7. Suppressed(w) => Suppressed(r)
  BY <1>1 DEF Suppressed, Alike
<1> QED BY <1>1, <1>4, <1>5, <1>6, <1>7 DEF Base, Sound, Kept, r

\* Nor does telling sn2 disturb what is known.
LEMMA TellSn2Keeps ==
    ASSUME Behind, NEW w \in Worlds
    PROVE  (Base(w) => Base(TellSn2(w))) /\ (Counted(w) => Counted(TellSn2(w)))
<1> DEFINE r == TellSn2(w)
<1>1. /\ r \in Worlds /\ r.gen = w.gen /\ r.rec = w.rec
      /\ r.sent = (IF w.e.window THEN w.sent ELSE w.sent \cup {"main2"})
      /\ r.e \in Evidence /\ Alike(r.e, w.e) /\ r.e.type = w.e.type
      /\ NetOk(w) => NetOk(r)
  BY TellSn2Is
<1> HIDE DEF r
<1>2. NoneAhead(w) => NoneAhead(r)
  BY <1>1 DEF NoneAhead, UpTo, Alike
<1>3. (Opened(w) => Opened(r)) /\ (Counted(w) => Counted(r)) /\ (Proved(w) => Proved(r))
  BY <1>1 DEF Opened, Counted, Proved, Alike
<1>4. (Current(w) => Current(r)) /\ (Strange(w) => Strange(r))
  BY <1>1 DEF Current, Strange, Alike
<1> QED BY <1>1, <1>2, <1>3, <1>4 DEF Base, r

\* The verdict that nat_classify comes to is no better than the NAT.
LEMMA VerdictRight ==
    ASSUME Behind, NEW w \in Worlds, Base(w)
    PROVE  LET t == Verdict(w.e) IN
           /\ t \in Types
           /\ t = "restricted" => nat.filter # "port"
           /\ dropped = 0 /\ t = "full" => nat.filter = "any"
           /\ dropped = 0 /\ t = "symmetric" => nat.map = "port"
<1> DEFINE r == w.e
           t == Verdict(r)
           twins == Public(r.s1) /\ Public(r.s2)
           both  == r.s2 # None /\ r.alt # None
           split == twins /\ ~(both /\ r.s2 = r.alt) /\ (both \/ r.s1 # r.s2)
<1>1. w.gen \in Nat /\ "main1" \in Dests /\ "main2" \in Dests
  BY DEF Worlds, Dests
<1>2. /\ t \in {"symmetric", "full", "restricted", "port", "unknown"}
      /\ t = "restricted" => r.bounce
      /\ t = "full" => r.fc
      /\ t = "symmetric" => split
  BY DEF Verdict
<1>3. ASSUME dropped = 0, t = "symmetric" PROVE nat.map = "port"
  <2>1. Current(w) /\ split
    BY <1>2, <1>3 DEF Base
  <2>2. r.s1 # None /\ Public(r.s1) /\ r.s1 = Seen(w.gen, "main1") /\ r.s2 # None
    BY <2>1 DEF Current, Public
  <2>3. ~nat.inside
    BY <2>2, <1>1, SeenIs
  <2>4. CASE nat.map = "any"
    BY <2>1, <2>2, <2>3, <2>4, <1>1, SeenIs DEF Current
  <2>5. CASE nat.map = "ip"
    <3>1. r.s2 = Seen(w.gen, "main1")
      BY <2>1, <2>2 DEF Current
    <3> QED BY <3>1, <2>1, <2>2, <2>3, <2>5, <1>1, SeenIs DEF Current
  <2> QED BY <2>4, <2>5 DEF Behind
<1> HIDE DEF t, split
<1>4. t = "restricted" => nat.filter # "port"
  BY <1>2 DEF Base, Opened
<1>5. dropped = 0 /\ t = "full" => nat.filter = "any"
  BY <1>2 DEF Base, Proved
<1> QED BY <1>2, <1>3, <1>4, <1>5 DEF t, Types

\* nat_classify: a new verdict is announced to both supernodes, and is right.
LEMMA ClassifyKeeps ==
    ASSUME Behind, NEW w \in Worlds, Base(w)
    PROVE  LET c == nat_classify(w) IN
           /\ c \in Worlds /\ Base(c) /\ c.gen = w.gen /\ Alike(c.e, w.e)
           /\ Counted(w) => Counted(c)
           /\ c = w \/ (~w.e.final /\ ~(w.e.s1 = None /\ w.e.s2 = None))
<1> DEFINE t == Verdict(w.e)
           v == [w EXCEPT !.e.type = t]
           q == w.e.final \/ (w.e.s1 = None /\ w.e.s2 = None) \/ t \in {w.e.type, "unknown"}
<1>1. nat_classify(w) = IF q THEN w ELSE TellSn2(RegisterSn1(v))
  BY DEF nat_classify
<1>2. CASE q
  BY <1>1, <1>2 DEF Alike
<1>3. CASE ~q
  <2>1. w.e \in Evidence /\ t \in Types
    BY VerdictRight DEF Worlds
  <2>2. /\ v = [w EXCEPT !.e = [w.e EXCEPT !.type = t]]
        /\ w = [gen |-> w.gen, sent |-> w.sent, rec |-> w.rec, e |-> w.e, net |-> w.net]
    BY DEF Worlds
  <2>3. /\ v.gen = w.gen /\ v.sent = w.sent /\ v.rec = w.rec /\ v.net = w.net
        /\ v.e = [w.e EXCEPT !.type = t]
        /\ v = [gen |-> v.gen, sent |-> v.sent, rec |-> v.rec, e |-> v.e, net |-> v.net]
    <3> HIDE DEF t, v
    <3> QED BY <2>2
  <2>4. /\ t = "restricted" => nat.filter # "port"
        /\ dropped = 0 /\ t = "full" => nat.filter = "any"
        /\ dropped = 0 /\ t = "symmetric" => nat.map = "port"
    BY VerdictRight
  <2> HIDE DEF t, v
  <2>5. v.e \in Evidence /\ v.e.type = t /\ Alike(v.e, w.e)
    BY <2>1, <2>3 DEF Evidence, Alike
  <2>6. v \in Worlds
    BY <2>3, <2>5 DEF Worlds
  <2>7. Base(v)
    <3>1. NoneAhead(v) /\ NetOk(v)
      BY <2>3, <2>5 DEF Base, NoneAhead, NetOk, UpTo, Alike
    <3>2. Opened(v) /\ (dropped = 0 => Proved(v))
      BY <2>4, <2>5 DEF Base, Opened, Proved, Alike
    <3>3. dropped = 0 => Strange(v)
      BY <2>3, <2>5 DEF Base, Strange, Alike
    <3>4. dropped = 0 => Current(v)
      BY <1>3, <2>3, <2>5 DEF Base, Current, Alike
    <3> QED BY <3>1, <3>2, <3>3, <3>4 DEF Base
  <2>8. Counted(w) => Counted(v)
    BY <2>5 DEF Counted, Alike
  <2> DEFINE r == RegisterSn1(v)
             c == TellSn2(r)
  <2>9. r \in Worlds /\ r.gen = v.gen /\ Alike(r.e, v.e) /\ Base(r) /\ (Counted(v) => Counted(r))
    BY <2>6, <2>7, RegisterSn1Is, RegisterSn1Keeps
  <2> HIDE DEF r
  <2>10. c \in Worlds /\ c.gen = r.gen /\ Alike(c.e, r.e) /\ Base(c) /\ (Counted(r) => Counted(c))
    BY <2>9, TellSn2Is, TellSn2Keeps
  <2> HIDE DEF c
  <2>11. Alike(c.e, w.e)
    BY <2>5, <2>9, <2>10 DEF Alike
  <2>12. nat_classify(w) = c
    BY <1>1, <1>3 DEF c, r
  <2> QED BY <1>3, <2>3, <2>8, <2>9, <2>10, <2>11, <2>12
<1> QED BY <1>2, <1>3

\* nat_classify on a world that is sound as a whole.
LEMMA ClassifySound ==
    ASSUME Behind, NEW w \in Worlds, Sound(w)
    PROVE  LET c == nat_classify(w) IN
           /\ c \in Worlds /\ Sound(c) /\ c.gen = w.gen /\ Alike(c.e, w.e)
           /\ Counted(w) => Counted(c)
<1> DEFINE c == nat_classify(w)
<1>1. Base(w)
  BY DEF Sound, Base, Kept
<1>2. /\ c \in Worlds /\ Base(c) /\ c.gen = w.gen /\ Alike(c.e, w.e)
      /\ Counted(w) => Counted(c)
      /\ c = w \/ ~w.e.final
  BY <1>1, ClassifyKeeps
<1> HIDE DEF c
<1>3. dropped = 0 => Suppressed(c)
  BY <1>2 DEF Sound, Kept, Suppressed, Alike
<1> QED BY <1>2, <1>3 DEF Base, Sound, Kept, c

\* A world in which only the edge's evidence is other.
LEMMA OtherEvidence ==
    ASSUME NEW w \in Worlds, NEW x \in Evidence
    PROVE  LET v == [w EXCEPT !.e = x] IN
           /\ v \in Worlds /\ v.e = x
           /\ v.gen = w.gen /\ v.sent = w.sent /\ v.rec = w.rec /\ v.net = w.net
<1> DEFINE v == [w EXCEPT !.e = x]
<1>1. w = [gen |-> w.gen, sent |-> w.sent, rec |-> w.rec, e |-> w.e, net |-> w.net]
  BY DEF Worlds
<1>2. /\ v.gen = w.gen /\ v.sent = w.sent /\ v.rec = w.rec /\ v.net = w.net /\ v.e = x
      /\ v = [gen |-> v.gen, sent |-> v.sent, rec |-> v.rec, e |-> v.e, net |-> v.net]
  BY <1>1
<1> HIDE DEF v
<1>3. v \in Worlds
  BY <1>2 DEF Worlds
<1> QED BY <1>2, <1>3 DEF v

\* A packet from a port never written to: the bounce is evidence, and only a "port"
\* verdict is opened again for it.
LEMMA HelperPortSound ==
    ASSUME Behind, NEW w \in Worlds, Sound(w), Counted(w), nat.filter # "port"
    PROVE  LET c == nat_note_helper_port(w) IN c \in Worlds /\ Sound(c) /\ Counted(c)
<1> DEFINE x == [w.e EXCEPT !.bounce = TRUE]
           b == [w EXCEPT !.e = x]
           y == [x EXCEPT !.final = FALSE]
           o == [b EXCEPT !.e = y]
           c == nat_classify(o)
           z == [c.e EXCEPT !.final = TRUE]
           f == [c EXCEPT !.e = z]
<1>1. w.e \in Evidence
  BY DEF Worlds
<1>2. x \in Evidence /\ y \in Evidence
  BY <1>1 DEF Evidence
<1>3. /\ b \in Worlds /\ b.e = x /\ b.gen = w.gen /\ b.sent = w.sent /\ b.rec = w.rec /\ b.net = w.net
      /\ b = [w EXCEPT !.e.bounce = TRUE]
  <2>1. b \in Worlds /\ b.e = x /\ b.gen = w.gen /\ b.sent = w.sent /\ b.rec = w.rec /\ b.net = w.net
    <3> HIDE DEF x
    <3> QED BY <1>2, OtherEvidence
  <2> QED BY <2>1
<1>4. /\ o \in Worlds /\ o.e = y /\ o.gen = w.gen /\ o.sent = w.sent /\ o.rec = w.rec /\ o.net = w.net
      /\ o = [b EXCEPT !.e.final = FALSE]
  <2>1. o \in Worlds /\ o.e = y /\ o.gen = b.gen /\ o.sent = b.sent /\ o.rec = b.rec /\ o.net = b.net
    <3> HIDE DEF b, y
    <3> QED BY <1>2, <1>3, OtherEvidence
  <2>2. o = [b EXCEPT !.e = [b.e EXCEPT !.final = FALSE]]
    <3> HIDE DEF b, x
    <3> QED BY <1>3
  <2> QED BY <1>3, <2>1, <2>2
<1>5. nat_note_helper_port(w) = IF w.e.bounce THEN w ELSE IF ~w.e.final THEN nat_classify(b)
                                ELSE IF w.e.type # "port" THEN b ELSE [c EXCEPT !.e.final = TRUE]
  <2> HIDE DEF b, o, c
  <2> QED BY <1>3, <1>4 DEF nat_note_helper_port, c
<1>6. /\ x.bounce = TRUE /\ x.type = w.e.type /\ x.s1 = w.e.s1 /\ x.s2 = w.e.s2 /\ x.alt = w.e.alt
      /\ x.cross = w.e.cross /\ x.fc = w.e.fc /\ x.window = w.e.window /\ x.tries = w.e.tries
      /\ x.final = w.e.final /\ x.pub = w.e.pub /\ x.pending = w.e.pending /\ x.suppress = w.e.suppress
      /\ x.revert = w.e.revert /\ x.rebuilds = w.e.rebuilds /\ x.crossing = w.e.crossing
  BY <1>1 DEF Evidence
<1>7. /\ y.final = FALSE /\ y.type = x.type
      /\ y.s1 = x.s1 /\ y.s2 = x.s2 /\ y.alt = x.alt /\ y.cross = x.cross /\ y.bounce = x.bounce
      /\ y.fc = x.fc /\ y.window = x.window /\ y.tries = x.tries /\ y.pub = x.pub
      /\ y.pending = x.pending /\ y.suppress = x.suppress /\ y.revert = x.revert /\ y.rebuilds = x.rebuilds
  BY <1>2 DEF Evidence
<1> HIDE DEF x, b, y, o
<1>8. Sound(b) /\ Counted(b)
  BY <1>3, <1>6 DEF Sound, NoneAhead, UpTo, NetOk, Opened, Kept, Proved, Current, Suppressed, Strange, Counted
<1>9. CASE w.e.bounce
  BY <1>5, <1>9
<1>10. CASE ~w.e.bounce /\ ~w.e.final
  BY <1>3, <1>5, <1>8, <1>10, ClassifySound
<1>11. CASE ~w.e.bounce /\ w.e.final /\ w.e.type # "port"
  BY <1>3, <1>5, <1>8, <1>11
<1>12. CASE ~w.e.bounce /\ w.e.final /\ w.e.type = "port"
  <2>1. Base(o)
    BY <1>3, <1>4, <1>6, <1>7, <1>8 DEF Base, Sound, NoneAhead, UpTo, NetOk, Opened, Kept, Proved, Current, Strange
  <2>2. /\ c \in Worlds /\ Base(c) /\ c.gen = o.gen /\ Alike(c.e, o.e)
        /\ c = o \/ (~o.e.final /\ ~(o.e.s1 = None /\ o.e.s2 = None))
    BY <1>4, <2>1, ClassifyKeeps
  <2> HIDE DEF c
  <2>3. c.e \in Evidence
    BY <2>2 DEF Worlds
  <2>4. /\ z \in Evidence /\ z.final = TRUE /\ z.type = c.e.type
        /\ z.s1 = c.e.s1 /\ z.s2 = c.e.s2 /\ z.alt = c.e.alt /\ z.cross = c.e.cross /\ z.bounce = c.e.bounce
        /\ z.fc = c.e.fc /\ z.window = c.e.window /\ z.tries = c.e.tries /\ z.pub = c.e.pub
        /\ z.pending = c.e.pending /\ z.suppress = c.e.suppress /\ z.revert = c.e.revert /\ z.rebuilds = c.e.rebuilds
    BY <2>3 DEF Evidence
  <2> HIDE DEF z
  <2>5. f \in Worlds /\ f.e = z /\ f.gen = c.gen /\ f.sent = c.sent /\ f.rec = c.rec /\ f.net = c.net
    BY <2>2, <2>4, OtherEvidence
  <2>6. nat_note_helper_port(w) = f
    BY <1>5, <1>12 DEF f, z
  <2> HIDE DEF f
  <2>7. NoneAhead(f) /\ NetOk(f) /\ Opened(f) /\ (dropped = 0 => Proved(f) /\ Current(f) /\ Strange(f))
    BY <2>2, <2>4, <2>5 DEF Base, NoneAhead, UpTo, NetOk, Opened, Proved, Current, Strange
  <2>10. /\ z.s1 = w.e.s1 /\ z.s2 = w.e.s2 /\ z.alt = w.e.alt /\ z.tries = w.e.tries /\ z.pub = w.e.pub
         /\ z.pending = w.e.pending /\ z.suppress = w.e.suppress /\ z.revert = w.e.revert /\ z.rebuilds = w.e.rebuilds
    <3>1. Alike(c.e, y)
      BY <1>4, <2>2
    <3> QED BY <1>6, <1>7, <2>4, <3>1 DEF Alike
  <2>8. ASSUME dropped = 0, z.suppress PROVE Suppressed(f)
    <3>1. Suppressed(w) /\ w.e.suppress
      BY <1>4, <1>6, <1>7, <2>2, <2>4, <2>8 DEF Sound, Kept, Alike
    <3>2. w.e.s1 = None /\ w.e.s2 = None /\ w.e.pub # None /\ w.e.pub[1] < w.gen
      BY <1>12, <3>1 DEF Suppressed
    <3>3. c = o
      BY <1>4, <1>6, <1>7, <2>2, <3>2
    <3>4. f.gen = w.gen
      BY <1>4, <2>2, <2>5
    <3> QED BY <1>12, <2>4, <2>5, <2>10, <3>1, <3>2, <3>4 DEF Suppressed
  <2>9. Counted(f)
    BY <2>4, <2>5, <2>10 DEF Counted
  <2> QED BY <2>5, <2>6, <2>7, <2>8, <2>9 DEF Sound, Kept, Suppressed
<1> QED BY <1>9, <1>10, <1>11, <1>12

\* A probe of sn2 arrives that the NAT let in.
LEMMA FcSound ==
    ASSUME Behind, NEW w \in Worlds, Sound(w), Counted(w), NEW m \in Fcs,
           m.from = "helper2" => nat.filter # "port",
           dropped = 0 /\ w.e.window => nat.filter = "any"
    PROVE  LET c == handle_nat_fc(w, m) IN c \in Worlds /\ Sound(c) /\ Counted(c)
<1> DEFINE x == [w.e EXCEPT !.fc = TRUE]
           b == [w EXCEPT !.e = x]
<1>1. w.e \in Evidence
  BY DEF Worlds
<1>2. x \in Evidence /\ Alike([x EXCEPT !.fc = w.e.fc], w.e) /\ x.type = w.e.type /\ x.fc = TRUE
  BY <1>1 DEF Evidence, Alike
<1>3. b \in Worlds /\ b.e = x /\ b.gen = w.gen /\ b.sent = w.sent /\ b.rec = w.rec /\ b.net = w.net
  <2> HIDE DEF x
  <2> QED BY <1>2, OtherEvidence
<1>4. CASE ~w.e.window
  BY <1>4, HelperPortSound DEF handle_nat_fc
<1>5. CASE w.e.window /\ w.e.fc
  BY <1>5 DEF handle_nat_fc
<1>6. CASE w.e.window /\ ~w.e.fc
  <2>1. handle_nat_fc(w, m) = nat_classify(b)
    BY <1>6 DEF handle_nat_fc
  <2>2. /\ x.s1 = w.e.s1 /\ x.s2 = w.e.s2 /\ x.alt = w.e.alt /\ x.cross = w.e.cross
        /\ x.bounce = w.e.bounce /\ x.window = w.e.window /\ x.tries = w.e.tries
        /\ x.final = w.e.final /\ x.pub = w.e.pub /\ x.pending = w.e.pending
        /\ x.suppress = w.e.suppress /\ x.revert = w.e.revert /\ x.rebuilds = w.e.rebuilds
    BY <1>1 DEF Evidence
  <2> HIDE DEF x, b
  <2>3. Sound(b) /\ Counted(b)
    BY <1>2, <1>3, <1>6, <2>2 DEF Sound, NoneAhead, UpTo, NetOk, Opened, Kept, Proved, Current, Suppressed, Strange, Counted
  <2> QED BY <1>3, <2>1, <2>3, ClassifySound
<1> QED BY <1>4, <1>5, <1>6

\* The same but for the observations.
Steady(c, d) ==
    /\ c.type = d.type /\ c.bounce = d.bounce /\ c.fc = d.fc /\ c.window = d.window
    /\ c.tries = d.tries /\ c.final = d.final /\ c.pub = d.pub /\ c.pending = d.pending
    /\ c.suppress = d.suppress /\ c.revert = d.revert /\ c.rebuilds = d.rebuilds

\* An observation of the mapping the NAT has now leaves the rest as it was.
LEMMA ObservedSound ==
    ASSUME NEW w \in Worlds, Sound(w), Counted(w), NEW v \in Worlds,
           v.gen = w.gen, v.sent = w.sent, v.rec = w.rec, v.net = w.net, Steady(v.e, w.e),
           UpTo(v.e.s1, w.gen), UpTo(v.e.s2, w.gen), UpTo(v.e.alt, w.gen), UpTo(v.e.cross, w.gen),
           dropped = 0 => Current(v) /\ ~w.e.suppress
    PROVE  Sound(v) /\ Counted(v)
<1>1. NoneAhead(v) /\ NetOk(v) /\ Opened(v)
  BY DEF Sound, NoneAhead, UpTo, NetOk, Opened, Steady
<1>2. dropped = 0 => Proved(v) /\ Strange(v) /\ Suppressed(v)
  BY DEF Sound, Kept, Proved, Strange, Suppressed, Steady
<1>3. Counted(v)
  BY DEF Counted, Steady
<1> QED BY <1>1, <1>2, <1>3 DEF Sound, Kept

\* The answer to a probe is an observation; with both, the verdict is final.
LEMMA ProbeEchoSound ==
    ASSUME Behind, NEW w \in Worlds, Sound(w), Counted(w), w.e.pending,
           NEW m \in Acks, m.to = Seen(w.gen, m.from)
    PROVE  LET c == ProbeEcho(w, m) IN c \in Worlds /\ Sound(c) /\ Counted(c)
<1> DEFINE x2 == [w.e EXCEPT !.s2 = m.to]
           xa == [w.e EXCEPT !.alt = m.to]
           xc == [w.e EXCEPT !.cross = m.to]
           b2 == [w EXCEPT !.e = x2]
           ba == [w EXCEPT !.e = xa]
           bc == [w EXCEPT !.e = xc]
           c  == CASE m.from = "main1" -> nat_classify([w EXCEPT !.e.s2 = m.to])
                   [] m.from = "alt1"  -> nat_classify([w EXCEPT !.e.alt = m.to])
                   [] m.from = "main2" -> IF w.e.crossing THEN nat_classify([w EXCEPT !.e.cross = m.to])
                                          ELSE w
           z  == [c.e EXCEPT !.pending = FALSE, !.final = TRUE]
           f  == [c EXCEPT !.e = z]
<1>1. /\ w.e \in Evidence /\ w.gen \in Nat /\ m.to \in Endpoints /\ m.to \in Seens /\ m.to # None /\ m.to[1] = w.gen
      /\ m.from \in {"main1", "alt1", "main2"}
  <2>1. m.from \in Dests /\ m.to \in Endpoints /\ w.gen \in Nat /\ w.e \in Evidence
    BY DEF Acks, Worlds
  <2> QED BY <2>1, SeenFacts, SeensFacts DEF Dests
<1>2. dropped = 0 => ~w.e.suppress /\ w.e.pub # None
  BY DEF Sound, Kept, Suppressed, Current
<1>3. /\ x2 \in Evidence /\ xa \in Evidence /\ xc \in Evidence
      /\ x2.s2 = m.to /\ xa.alt = m.to /\ xc.cross = m.to
  BY <1>1 DEF Evidence
<1>4. /\ x2.s1 = w.e.s1 /\ x2.alt = w.e.alt /\ x2.cross = w.e.cross /\ x2.fc = w.e.fc
      /\ x2.bounce = w.e.bounce /\ x2.window = w.e.window /\ x2.tries = w.e.tries /\ x2.type = w.e.type
      /\ x2.final = w.e.final /\ x2.pub = w.e.pub /\ x2.pending = w.e.pending
      /\ x2.suppress = w.e.suppress /\ x2.revert = w.e.revert /\ x2.rebuilds = w.e.rebuilds
  BY <1>1 DEF Evidence
<1>5. /\ xa.s1 = w.e.s1 /\ xa.s2 = w.e.s2 /\ xa.cross = w.e.cross /\ xa.fc = w.e.fc
      /\ xa.bounce = w.e.bounce /\ xa.window = w.e.window /\ xa.tries = w.e.tries /\ xa.type = w.e.type
      /\ xa.final = w.e.final /\ xa.pub = w.e.pub /\ xa.pending = w.e.pending
      /\ xa.suppress = w.e.suppress /\ xa.revert = w.e.revert /\ xa.rebuilds = w.e.rebuilds
  BY <1>1 DEF Evidence
<1>6. /\ xc.s1 = w.e.s1 /\ xc.s2 = w.e.s2 /\ xc.alt = w.e.alt /\ xc.fc = w.e.fc
      /\ xc.bounce = w.e.bounce /\ xc.window = w.e.window /\ xc.tries = w.e.tries /\ xc.type = w.e.type
      /\ xc.final = w.e.final /\ xc.pub = w.e.pub /\ xc.pending = w.e.pending
      /\ xc.suppress = w.e.suppress /\ xc.revert = w.e.revert /\ xc.rebuilds = w.e.rebuilds
  BY <1>1 DEF Evidence
<1>7. ProbeEcho(w, m) = IF c.e.s2 # None /\ c.e.alt # None
                        THEN [c EXCEPT !.e.pending = FALSE, !.e.final = TRUE] ELSE c
  BY DEF ProbeEcho
<1>8. c = (IF m.from = "main1" THEN nat_classify(b2) ELSE IF m.from = "alt1" THEN nat_classify(ba)
           ELSE IF w.e.crossing THEN nat_classify(bc) ELSE w)
  BY <1>1
<1> HIDE DEF x2, xa, xc, c
<1>9. /\ b2 \in Worlds /\ b2.e = x2 /\ b2.gen = w.gen /\ b2.sent = w.sent /\ b2.rec = w.rec /\ b2.net = w.net
      /\ ba \in Worlds /\ ba.e = xa /\ ba.gen = w.gen /\ ba.sent = w.sent /\ ba.rec = w.rec /\ ba.net = w.net
      /\ bc \in Worlds /\ bc.e = xc /\ bc.gen = w.gen /\ bc.sent = w.sent /\ bc.rec = w.rec /\ bc.net = w.net
  BY <1>3, OtherEvidence
<1> HIDE DEF b2, ba, bc
<1>10. ASSUME m.from = "main1" PROVE Sound(b2) /\ Counted(b2)
  <2>1. Steady(b2.e, w.e)
    BY <1>4, <1>9 DEF Steady
  <2>2. UpTo(b2.e.s1, w.gen) /\ UpTo(b2.e.s2, w.gen) /\ UpTo(b2.e.alt, w.gen) /\ UpTo(b2.e.cross, w.gen)
    BY <1>1, <1>3, <1>4, <1>9 DEF Sound, NoneAhead, UpTo
  <2>3. dropped = 0 => Current(b2)
    BY <1>1, <1>2, <1>3, <1>4, <1>9, <1>10 DEF Sound, Kept, Current
  <2> QED BY <1>2, <1>9, <2>1, <2>2, <2>3, ObservedSound
<1>11. ASSUME m.from = "alt1" PROVE Sound(ba) /\ Counted(ba)
  <2>1. Steady(ba.e, w.e)
    BY <1>5, <1>9 DEF Steady
  <2>2. UpTo(ba.e.s1, w.gen) /\ UpTo(ba.e.s2, w.gen) /\ UpTo(ba.e.alt, w.gen) /\ UpTo(ba.e.cross, w.gen)
    BY <1>1, <1>3, <1>5, <1>9 DEF Sound, NoneAhead, UpTo
  <2>3. dropped = 0 => Current(ba)
    BY <1>1, <1>2, <1>3, <1>5, <1>9, <1>11 DEF Sound, Kept, Current
  <2> QED BY <1>2, <1>9, <2>1, <2>2, <2>3, ObservedSound
<1>12. Sound(bc) /\ Counted(bc)
  <2>1. Steady(bc.e, w.e)
    BY <1>6, <1>9 DEF Steady
  <2>2. UpTo(bc.e.s1, w.gen) /\ UpTo(bc.e.s2, w.gen) /\ UpTo(bc.e.alt, w.gen) /\ UpTo(bc.e.cross, w.gen)
    BY <1>1, <1>3, <1>6, <1>9 DEF Sound, NoneAhead, UpTo
  <2>3. dropped = 0 => Current(bc)
    BY <1>1, <1>2, <1>3, <1>6, <1>9 DEF Sound, Kept, Current
  <2> QED BY <1>2, <1>9, <2>1, <2>2, <2>3, ObservedSound
<1>13. /\ c \in Worlds /\ Sound(c) /\ Counted(c) /\ c.e.suppress = w.e.suppress
  <2>1. CASE m.from = "main1"
    BY <1>4, <1>8, <1>9, <1>10, <2>1, ClassifySound DEF Alike
  <2>2. CASE m.from = "alt1"
    BY <1>5, <1>8, <1>9, <1>11, <2>2, ClassifySound DEF Alike
  <2>3. CASE m.from = "main2"
    BY <1>6, <1>8, <1>9, <1>12, <2>3, ClassifySound DEF Alike
  <2> QED BY <1>1, <2>1, <2>2, <2>3
<1>14. c.e \in Evidence
  BY <1>13 DEF Worlds
<1>15. /\ z \in Evidence /\ z.final = TRUE /\ z.pending = FALSE /\ z.type = c.e.type
       /\ z.s1 = c.e.s1 /\ z.s2 = c.e.s2 /\ z.alt = c.e.alt /\ z.cross = c.e.cross /\ z.bounce = c.e.bounce
       /\ z.fc = c.e.fc /\ z.window = c.e.window /\ z.tries = c.e.tries /\ z.pub = c.e.pub
       /\ z.suppress = c.e.suppress /\ z.revert = c.e.revert /\ z.rebuilds = c.e.rebuilds
  BY <1>14 DEF Evidence
<1>16. [c EXCEPT !.e.pending = FALSE, !.e.final = TRUE] = f
  BY <1>13 DEF Worlds
<1> HIDE DEF z
<1>17. f \in Worlds /\ f.e = z /\ f.gen = c.gen /\ f.sent = c.sent /\ f.rec = c.rec /\ f.net = c.net
  BY <1>13, <1>15, OtherEvidence
<1> HIDE DEF f
<1>18. Sound(f) /\ Counted(f)
  BY <1>2, <1>13, <1>15, <1>17
     DEF Sound, NoneAhead, UpTo, NetOk, Opened, Kept, Proved, Current, Suppressed, Strange, Counted
<1> QED BY <1>7, <1>13, <1>17, <1>18, <1>16

\* An observation that comes with a registration's answer: the endpoint that is
\* compared with the next one.  The parameter x is the edge after it.
LEMMA EndpointTaken ==
    ASSUME Behind, NEW w \in Worlds, Sound(w), Counted(w),
           NEW o, NEW from \in {"main1", "main2"}, o = Seen(w.gen, from), from \in w.sent,
           NEW x \in Evidence, x.pub = o,
           x.s1 = (IF from = "main1" THEN o ELSE w.e.s1),
           x.s2 = (IF from = "main2" THEN o ELSE w.e.s2),
           x.alt = w.e.alt, x.cross = w.e.cross, x.type = w.e.type, x.bounce = w.e.bounce,
           x.fc = w.e.fc, x.window = w.e.window, x.tries = w.e.tries, x.final = w.e.final,
           x.pending = w.e.pending, x.suppress = w.e.suppress, x.revert = w.e.revert,
           x.rebuilds = w.e.rebuilds,
           w.e.pub \in {None, o}
    PROVE  LET v == [w EXCEPT !.e = x] IN v \in Worlds /\ Sound(v) /\ Counted(v)
<1> DEFINE v == [w EXCEPT !.e = x]
<1>1. v \in Worlds /\ v.e = x /\ v.gen = w.gen /\ v.sent = w.sent /\ v.rec = w.rec /\ v.net = w.net
  BY OtherEvidence
<1> HIDE DEF v
<1>2. w.gen \in Nat /\ from \in Dests /\ "main1" \in Dests
  BY DEF Worlds, Dests
<1>3. o # None /\ o[1] = w.gen
  BY <1>2, SeenFacts
<1>4. NoneAhead(v) /\ NetOk(v) /\ Opened(v) /\ Counted(v)
  <2>1. NoneAhead(v)
    BY <1>1, <1>3, <1>2 DEF Sound, NoneAhead, UpTo
  <2>2. NetOk(v) /\ Opened(v) /\ Counted(v)
    BY <1>1 DEF Sound, NetOk, Opened, Counted
  <2> QED BY <2>1, <2>2
<1>5. dropped = 0 => Proved(v) /\ Strange(v)
  BY <1>1 DEF Sound, Kept, Proved, Strange
<1>6. dropped = 0 => Current(v)
  BY <1>1, <1>3 DEF Sound, Kept, Current
<1>7. dropped = 0 => Suppressed(v)
  <2> SUFFICES ASSUME dropped = 0, x.suppress PROVE Suppressed(v)
    BY <1>1 DEF Suppressed
  <2>1. Suppressed(w) /\ w.e.suppress
    BY DEF Sound, Kept
  <2>2. w.e.type = "unknown" /\ "main2" \notin w.sent
    BY <1>2, <1>3, <2>1 DEF Suppressed
  <2>3. from = "main1"
    BY <2>2
  <2> QED BY <1>1, <2>1, <2>2, <2>3 DEF Suppressed
<1> QED BY <1>1, <1>4, <1>5, <1>6, <1>7 DEF Sound, Kept, v

\* The evidence that is left of an edge that starts over.
LEMMA NoEvidenceIs ==
    ASSUME NEW c \in Evidence
    PROVE  LET d == NoEvidence(c) IN
           /\ d \in Evidence /\ d.type = "unknown" /\ d.s1 = None /\ d.s2 = None /\ d.alt = None /\ d.cross = None
           /\ d.bounce = FALSE /\ d.fc = FALSE /\ d.window = TRUE /\ d.tries = 0 /\ d.final = FALSE
           /\ d.pub = c.pub /\ d.pending = c.pending /\ d.suppress = c.suppress
           /\ d.revert = c.revert /\ d.rebuilds = c.rebuilds
<1> DEFINE d == NoEvidence(c)
<1>1. /\ d.type = "unknown" /\ d.s1 = None /\ d.s2 = None /\ d.alt = None /\ d.cross = None
      /\ d.bounce = FALSE /\ d.fc = FALSE /\ d.window = TRUE /\ d.tries = 0 /\ d.final = FALSE
      /\ d.pub = c.pub /\ d.pending = c.pending /\ d.suppress = c.suppress
      /\ d.revert = c.revert /\ d.rebuilds = c.rebuilds
  BY DEF NoEvidence, Evidence
<1>2. d \in Evidence
  BY DEF NoEvidence, Evidence, Types, Seens, None
<1> QED BY <1>1, <1>2

\* An answer shows another endpoint: what was found out is of an old mapping.
LEMMA EndpointChanged ==
    ASSUME Behind, NEW w \in Worlds, Sound(w), Counted(w),
           NEW o, NEW from \in {"main1", "main2"}, o = Seen(w.gen, from), from \in w.sent,
           w.e.pub \notin {None, o}, ~w.e.suppress,
           NEW x \in Evidence, x.pub = o,
           x.s1 = (IF from = "main1" THEN o ELSE None),
           x.s2 = (IF from = "main2" THEN o ELSE None),
           x.alt = None, x.cross = None, x.type = "unknown", x.bounce = FALSE,
           x.fc = FALSE, x.window = TRUE, x.tries = 0, x.final = FALSE,
           x.pending = w.e.pending, x.suppress = FALSE, x.revert = w.e.revert,
           x.rebuilds = w.e.rebuilds
    PROVE  LET v == [w EXCEPT !.e = x] IN v \in Worlds /\ Sound(v) /\ Counted(v)
<1> DEFINE v == [w EXCEPT !.e = x]
<1>1. v \in Worlds /\ v.e = x /\ v.gen = w.gen /\ v.sent = w.sent /\ v.rec = w.rec /\ v.net = w.net
  BY OtherEvidence
<1> HIDE DEF v
<1>2. w.gen \in Nat /\ from \in Dests /\ "main1" \in Dests
  BY DEF Worlds, Dests
<1>3. o # None /\ o[1] = w.gen
  BY <1>2, SeenFacts
<1>4. NoneAhead(v) /\ NetOk(v) /\ Opened(v)
  <2>1. NoneAhead(v)
    BY <1>1, <1>3, <1>2 DEF Sound, NoneAhead, UpTo
  <2>2. NetOk(v) /\ Opened(v)
    BY <1>1 DEF Sound, NetOk, Opened
  <2> QED BY <2>1, <2>2
<1>5. Counted(v)
  BY <1>1, NatAssumption DEF Counted
<1>6. dropped = 0 => Proved(v) /\ Suppressed(v) /\ Current(v)
  BY <1>1, <1>3 DEF Sound, Kept, Proved, Suppressed, Current
<1>7. dropped = 0 => Strange(v)
  <2> SUFFICES ASSUME dropped = 0, nat.map = "any", ~nat.inside PROVE FALSE
    BY DEF Strange
  <2>1. w.e.pub \in {Seen(w.gen, "main1"), Seen(w.gen, "main2")}
    BY DEF Sound, Kept, Current
  <2> QED BY <1>2, <2>1, SeenIs
<1> QED BY <1>1, <1>4, <1>5, <1>6, <1>7 DEF Sound, Kept, v

\* A first answer after a refresh only replaces the endpoint (nat_suppress).
LEMMA EndpointKept ==
    ASSUME Behind, NEW w \in Worlds, Sound(w), Counted(w),
           NEW o, NEW from \in {"main1", "main2"}, o = Seen(w.gen, from), from \in w.sent,
           w.e.pub \notin {None, o}, w.e.suppress,
           NEW x \in Evidence, x.pub = o, x.s1 = w.e.s1, x.s2 = w.e.s2,
           x.alt = w.e.alt, x.cross = w.e.cross, x.type = w.e.type, x.bounce = w.e.bounce,
           x.fc = w.e.fc, x.window = w.e.window, x.tries = w.e.tries, x.final = w.e.final,
           x.pending = w.e.pending, x.suppress = FALSE, x.revert = w.e.revert,
           x.rebuilds = w.e.rebuilds
    PROVE  LET v == [w EXCEPT !.e = x] IN v \in Worlds /\ Sound(v) /\ Counted(v)
<1> DEFINE v == [w EXCEPT !.e = x]
<1>1. v \in Worlds /\ v.e = x /\ v.gen = w.gen /\ v.sent = w.sent /\ v.rec = w.rec /\ v.net = w.net
  BY OtherEvidence
<1> HIDE DEF v
<1>2. w.gen \in Nat /\ from \in Dests
  BY DEF Worlds, Dests
<1>3. o # None /\ o[1] = w.gen
  BY <1>2, SeenFacts
<1>4. NoneAhead(v) /\ NetOk(v) /\ Opened(v) /\ Counted(v)
  <2>1. NoneAhead(v)
    BY <1>1, <1>3, <1>2 DEF Sound, NoneAhead, UpTo
  <2>2. NetOk(v) /\ Opened(v) /\ Counted(v)
    BY <1>1 DEF Sound, NetOk, Opened, Counted
  <2> QED BY <2>1, <2>2
<1>5. dropped = 0 => Proved(v) /\ Strange(v) /\ Suppressed(v)
  BY <1>1 DEF Sound, Kept, Proved, Strange, Suppressed
<1>6. dropped = 0 => Current(v)
  <2> SUFFICES ASSUME dropped = 0 PROVE Current(v)
    OBVIOUS
  <2>1. w.e.s2 = None /\ w.e.alt = None /\ w.e.s1 = None
    <3>1. Suppressed(w) /\ Current(w)
      BY DEF Sound, Kept
    <3>2. w.e.s2 = None /\ w.e.alt = None
      BY <3>1 DEF Suppressed
    <3>3. CASE w.e.s1 # None
      <4>1. w.e.pub = Seen(w.gen, "main1") /\ "main2" \notin w.sent
        BY <3>1, <3>3 DEF Suppressed, Current
      <4> QED BY <4>1
    <3> QED BY <3>2, <3>3
  <2> QED BY <1>1, <1>3, <2>1 DEF Current
<1> QED BY <1>1, <1>4, <1>5, <1>6 DEF Sound, Kept, v

\* The first answer to a registration, from the supernode at from.
LEMMA FirstAckSound ==
    ASSUME Behind, NEW w \in Worlds, Sound(w), Counted(w),
           NEW m \in Acks, Fair(m, w.gen, w.sent), m.cookie = "last"
    PROVE  LET c == FirstAck(w, m) IN c \in Worlds /\ Sound(c) /\ Counted(c)
<1> DEFINE o == m.to
           changed == w.e.pub # None /\ w.e.pub # o
           keep == changed /\ w.e.suppress
           r == [w.e EXCEPT !.acked = TRUE, !.wait = FALSE, !.pub = o]
           xk == [r EXCEPT !.suppress = FALSE]
           n == NoEvidence(r)
           d == IF changed THEN n ELSE r
           a == [w EXCEPT !.e = d]
           x1 == [d EXCEPT !.s1 = o]
           x2 == [d EXCEPT !.s2 = o]
<1>1. /\ w.e \in Evidence /\ o = Seen(w.gen, m.from) /\ m.from \in w.sent /\ m.from \in {"main1", "main2"}
      /\ o \in Endpoints /\ o \in Seens
  <2>1. m.k = "ack" /\ m.from \in Dests /\ m.to \in Endpoints /\ w.e \in Evidence
    BY DEF Acks, Worlds
  <2> QED BY <2>1, SeensFacts DEF Fair, Dests
<1>2. /\ r \in Evidence /\ r.pub = o /\ r.s1 = w.e.s1 /\ r.s2 = w.e.s2
      /\ r.alt = w.e.alt /\ r.cross = w.e.cross /\ r.type = w.e.type /\ r.bounce = w.e.bounce
      /\ r.fc = w.e.fc /\ r.window = w.e.window /\ r.tries = w.e.tries /\ r.final = w.e.final
      /\ r.pending = w.e.pending /\ r.suppress = w.e.suppress /\ r.revert = w.e.revert
      /\ r.rebuilds = w.e.rebuilds
  BY <1>1 DEF Evidence
<1>3. FirstAck(w, m) = IF keep THEN [w EXCEPT !.e = xk]
                       ELSE IF m.from = "main2" THEN nat_classify([a EXCEPT !.e.s2 = o])
                       ELSE nat_classify([a EXCEPT !.e.s1 = o])
  BY DEF FirstAck
<1> HIDE DEF r
<1>4. CASE keep
  <2>1. /\ xk \in Evidence /\ xk.pub = o /\ xk.s1 = w.e.s1 /\ xk.s2 = w.e.s2
        /\ xk.alt = w.e.alt /\ xk.cross = w.e.cross /\ xk.type = w.e.type /\ xk.bounce = w.e.bounce
        /\ xk.fc = w.e.fc /\ xk.window = w.e.window /\ xk.tries = w.e.tries /\ xk.final = w.e.final
        /\ xk.pending = w.e.pending /\ xk.suppress = FALSE /\ xk.revert = w.e.revert
        /\ xk.rebuilds = w.e.rebuilds
    <3>1. r \in Evidence
      BY <1>2
    <3>2. /\ xk \in Evidence /\ xk.pub = r.pub /\ xk.s1 = r.s1 /\ xk.s2 = r.s2
          /\ xk.alt = r.alt /\ xk.cross = r.cross /\ xk.type = r.type /\ xk.bounce = r.bounce
          /\ xk.fc = r.fc /\ xk.window = r.window /\ xk.tries = r.tries /\ xk.final = r.final
          /\ xk.pending = r.pending /\ xk.suppress = FALSE /\ xk.revert = r.revert
          /\ xk.rebuilds = r.rebuilds
      BY <3>1 DEF Evidence
    <3> HIDE DEF xk
    <3> QED BY <3>2, <1>2
  <2>3. w.e.pub \notin {None, o} /\ w.e.suppress
    BY <1>4
  <2> HIDE DEF a, xk, o
  <2> QED BY <1>1, <1>3, <1>4, <2>1, <2>3, EndpointKept
<1>5. CASE ~keep
  <2>1. /\ n \in Evidence /\ n.type = "unknown" /\ n.s1 = None /\ n.s2 = None /\ n.alt = None /\ n.cross = None
        /\ n.bounce = FALSE /\ n.fc = FALSE /\ n.window = TRUE /\ n.tries = 0 /\ n.final = FALSE
        /\ n.pub = r.pub /\ n.pending = r.pending /\ n.suppress = r.suppress
        /\ n.revert = r.revert /\ n.rebuilds = r.rebuilds
    BY <1>2, NoEvidenceIs
  <2>2. a = [w EXCEPT !.e = d]
    OBVIOUS
  <2> HIDE DEF n, a
  <2>3. d \in Evidence
    BY <1>2, <2>1
  <2>4. [w EXCEPT !.e = d].e = d
    <3> HIDE DEF d
    <3> QED BY <2>3, OtherEvidence
  <2> DEFINE v1 == [w EXCEPT !.e = x1]
             v2 == [w EXCEPT !.e = x2]
  <2>5. [a EXCEPT !.e.s1 = o] = v1 /\ [a EXCEPT !.e.s2 = o] = v2
    <3> HIDE DEF d, o
    <3> QED BY <2>2, <2>4 DEF Worlds
  <2>6. /\ x1 \in Evidence /\ x1.pub = d.pub /\ x1.s1 = o /\ x1.s2 = d.s2
        /\ x1.alt = d.alt /\ x1.cross = d.cross /\ x1.type = d.type /\ x1.bounce = d.bounce
        /\ x1.fc = d.fc /\ x1.window = d.window /\ x1.tries = d.tries /\ x1.final = d.final
        /\ x1.pending = d.pending /\ x1.suppress = d.suppress /\ x1.revert = d.revert
        /\ x1.rebuilds = d.rebuilds
    <3> HIDE DEF d, o
    <3> QED BY <1>1, <2>3 DEF Evidence
  <2>7. /\ x2 \in Evidence /\ x2.pub = d.pub /\ x2.s2 = o /\ x2.s1 = d.s1
        /\ x2.alt = d.alt /\ x2.cross = d.cross /\ x2.type = d.type /\ x2.bounce = d.bounce
        /\ x2.fc = d.fc /\ x2.window = d.window /\ x2.tries = d.tries /\ x2.final = d.final
        /\ x2.pending = d.pending /\ x2.suppress = d.suppress /\ x2.revert = d.revert
        /\ x2.rebuilds = d.rebuilds
    <3> HIDE DEF d, o
    <3> QED BY <1>1, <2>3 DEF Evidence
  <2> HIDE DEF x1, x2
  <2>8. CASE changed
    <3>1. d = n /\ w.e.pub \notin {None, o} /\ ~w.e.suppress
      BY <1>5, <2>8
    <3>4. w.e.suppress = FALSE
      BY <1>1, <3>1 DEF Evidence
    <3> HIDE DEF d, o
    <3>2. CASE m.from = "main1"
      <4>0. /\ x1.pub = o /\ x1.s2 = None /\ x1.alt = None /\ x1.cross = None
            /\ x1.type = "unknown" /\ x1.bounce = FALSE
            /\ x1.fc = FALSE /\ x1.window = TRUE /\ x1.tries = 0 /\ x1.final = FALSE
            /\ x1.pending = w.e.pending /\ x1.suppress = FALSE /\ x1.revert = w.e.revert
            /\ x1.rebuilds = w.e.rebuilds
        BY <1>2, <2>1, <2>6, <3>1, <3>4
      <4>1. v1 \in Worlds /\ Sound(v1) /\ Counted(v1)
        <5>1. x1 \in Evidence /\ x1.s1 = o
          BY <2>6
        <5>2. o = Seen(w.gen, "main1") /\ "main1" \in w.sent
          BY <1>1, <3>2
        <5> HIDE DEF v1
        <5>3. LET v == [w EXCEPT !.e = x1] IN v \in Worlds /\ Sound(v) /\ Counted(v)
          BY <3>1, <4>0, <5>1, <5>2, EndpointChanged
        <5> QED BY <5>3 DEF v1
      <4> HIDE DEF v1
      <4> QED BY <1>3, <1>5, <2>5, <3>2, <4>1, ClassifySound
    <3>3. CASE m.from = "main2"
      <4>0. /\ x2.pub = o /\ x2.s1 = None /\ x2.alt = None /\ x2.cross = None
            /\ x2.type = "unknown" /\ x2.bounce = FALSE
            /\ x2.fc = FALSE /\ x2.window = TRUE /\ x2.tries = 0 /\ x2.final = FALSE
            /\ x2.pending = w.e.pending /\ x2.suppress = FALSE /\ x2.revert = w.e.revert
            /\ x2.rebuilds = w.e.rebuilds
        BY <1>2, <2>1, <2>7, <3>1, <3>4
      <4>1. v2 \in Worlds /\ Sound(v2) /\ Counted(v2)
        BY <1>1, <2>7, <3>1, <3>3, <4>0, EndpointChanged
      <4> HIDE DEF v2
      <4> QED BY <1>3, <1>5, <2>5, <3>3, <4>1, ClassifySound
    <3> QED BY <1>1, <3>2, <3>3
  <2>9. CASE ~changed
    <3>1. d = r /\ w.e.pub \in {None, o}
      BY <2>9
    <3> HIDE DEF d, o
    <3>2. CASE m.from = "main1"
      <4>0. /\ x1.pub = o /\ x1.s2 = w.e.s2 /\ x1.alt = w.e.alt /\ x1.cross = w.e.cross
            /\ x1.type = w.e.type /\ x1.bounce = w.e.bounce
            /\ x1.fc = w.e.fc /\ x1.window = w.e.window /\ x1.tries = w.e.tries /\ x1.final = w.e.final
            /\ x1.pending = w.e.pending /\ x1.suppress = w.e.suppress /\ x1.revert = w.e.revert
            /\ x1.rebuilds = w.e.rebuilds
        BY <1>2, <2>6, <3>1
      <4>1. v1 \in Worlds /\ Sound(v1) /\ Counted(v1)
        BY <1>1, <2>6, <3>1, <3>2, <4>0, EndpointTaken
      <4> HIDE DEF v1
      <4> QED BY <1>3, <1>5, <2>5, <3>2, <4>1, ClassifySound
    <3>3. CASE m.from = "main2"
      <4>0. /\ x2.pub = o /\ x2.s1 = w.e.s1 /\ x2.alt = w.e.alt /\ x2.cross = w.e.cross
            /\ x2.type = w.e.type /\ x2.bounce = w.e.bounce
            /\ x2.fc = w.e.fc /\ x2.window = w.e.window /\ x2.tries = w.e.tries /\ x2.final = w.e.final
            /\ x2.pending = w.e.pending /\ x2.suppress = w.e.suppress /\ x2.revert = w.e.revert
            /\ x2.rebuilds = w.e.rebuilds
        BY <1>2, <2>7, <3>1
      <4>1. v2 \in Worlds /\ Sound(v2) /\ Counted(v2)
        BY <1>1, <2>7, <3>1, <3>3, <4>0, EndpointTaken
      <4> HIDE DEF v2
      <4> QED BY <1>3, <1>5, <2>5, <3>3, <4>1, ClassifySound
    <3> QED BY <1>1, <3>2, <3>3
  <2> QED BY <2>8, <2>9
<1> QED BY <1>4, <1>5

\* The twin probe and the one to sn2: sn2 ceases to be a stranger.
LEMMA SendTwinsSound ==
    ASSUME Behind, NEW w \in Worlds, Sound(w), w.e.s1 # None,
           dropped = 0 => ~w.e.suppress,
           w.e.tries <= MaxTries, w.e.rebuilds <= MaxRebuilds, MaxTries \in Nat,
           w.e.tries = MaxTries => w.e.final
    PROVE  LET c == SendTwins(w) IN c \in Worlds /\ Sound(c) /\ Counted(c)
<1> DEFINE cross == ~w.e.fc
           S == w.sent \cup {"main1", "alt1"} \cup (IF cross THEN {"main2"} ELSE {})
           n == Forget(w.net, "probe") \cup Replies(w, "main1", "probe") \cup Replies(w, "alt1", "probe")
                \cup (IF cross THEN Replies(w, "main2", "probe") ELSE {})
           x == Attempt(w.e)
           c == SendTwins(w)
<1>1. /\ w.gen \in Nat /\ w.e \in Evidence /\ w.sent \subseteq Dests /\ w.net \subseteq Messages
      /\ {"main1", "alt1", "main2"} \subseteq Dests /\ NetOk(w)
  BY DEF Worlds, Dests, Sound
<1>2. n \subseteq Messages
  BY <1>1, RepliesFair DEF Forget
<1>3. \A m \in n : Fair(m, w.gen, S)
  <2> SUFFICES ASSUME NEW m \in n PROVE Fair(m, w.gen, S)
    OBVIOUS
  <2>1. CASE m \in Forget(w.net, "probe")
    BY <1>1, <2>1, FairMore DEF Forget, NetOk
  <2>2. ASSUME NEW d \in {"main1", "alt1", "main2"}, d \in S, m \in Replies(w, d, "probe")
        PROVE  Fair(m, w.gen, S)
    <3>1. Fair(m, w.gen, w.sent \cup {d})
      BY <1>1, <2>2, RepliesFair
    <3>2. w.sent \cup {d} \subseteq S
      BY <2>2
    <3> HIDE DEF S
    <3> QED BY <3>1, <3>2, FairMore
  <2>3. "main1" \in S /\ "alt1" \in S /\ (cross => "main2" \in S)
    OBVIOUS
  <2>4. \/ m \in Forget(w.net, "probe")
        \/ m \in Replies(w, "main1", "probe") \/ m \in Replies(w, "alt1", "probe")
        \/ cross /\ m \in Replies(w, "main2", "probe")
    OBVIOUS
  <2> HIDE DEF S, n, cross
  <2> QED BY <2>1, <2>2, <2>3, <2>4
<1>4. /\ c.gen = w.gen /\ c.sent = S /\ c.rec = w.rec /\ c.net = n /\ c.e = x
      /\ c = [gen |-> c.gen, sent |-> c.sent, rec |-> c.rec, e |-> c.e, net |-> c.net]
  <2>1. w = [gen |-> w.gen, sent |-> w.sent, rec |-> w.rec, e |-> w.e, net |-> w.net]
    BY DEF Worlds
  <2>2. c = [w EXCEPT !.sent = S, !.net = n, !.e = x]
    BY DEF SendTwins
  <2> HIDE DEF S, n, x, c
  <2> QED BY <2>1, <2>2
<1>5. /\ x \in Evidence /\ x.type = w.e.type /\ x.s1 = w.e.s1 /\ x.s2 = w.e.s2 /\ x.alt = w.e.alt
      /\ x.cross = w.e.cross /\ x.bounce = w.e.bounce /\ x.fc = w.e.fc /\ (x.window <=> w.e.window /\ w.e.fc)
      /\ x.tries = w.e.tries + 1 /\ x.final = w.e.final /\ x.pub = w.e.pub /\ x.pending = TRUE
      /\ x.suppress = w.e.suppress /\ x.revert = w.e.revert /\ x.rebuilds = w.e.rebuilds
  <2>1. w.e.tries \in Nat /\ w.e.window \in BOOLEAN /\ w.e.fc \in BOOLEAN
    BY <1>1 DEF Evidence
  <2> DEFINE T == w.e.tries + 1
             win == w.e.window /\ w.e.fc
             out == ~w.e.fc
  <2>2. T \in Nat /\ win \in BOOLEAN /\ out \in BOOLEAN /\ (win <=> w.e.window /\ w.e.fc) /\ T = w.e.tries + 1
    BY <2>1
  <2>3. x = [w.e EXCEPT !.tries = T, !.pending = TRUE, !.crossing = out, !.window = win]
    BY Zenon DEF Attempt
  <2> HIDE DEF T, win, out, x
  <2>4. /\ x.type = w.e.type /\ x.s1 = w.e.s1 /\ x.s2 = w.e.s2 /\ x.alt = w.e.alt
        /\ x.cross = w.e.cross /\ x.bounce = w.e.bounce /\ x.fc = w.e.fc /\ x.window = win
        /\ x.tries = T /\ x.final = w.e.final /\ x.pub = w.e.pub /\ x.pending = TRUE
        /\ x.suppress = w.e.suppress /\ x.revert = w.e.revert /\ x.rebuilds = w.e.rebuilds
    BY <1>1, <2>3 DEF Evidence
  <2>5. x \in Evidence
    <3> DEFINE y == [w.e EXCEPT !.tries = T, !.pending = TRUE]
    <3>1. y \in Evidence
      BY <1>1, <2>2 DEF Evidence
    <3>2. x = [y EXCEPT !.crossing = out, !.window = win]
      BY <2>3
    <3> HIDE DEF y
    <3> QED BY <2>2, <3>1, <3>2 DEF Evidence
  <2> QED BY <2>2, <2>4, <2>5
<1>6. S \subseteq Dests /\ (w.e.fc /\ "main2" \in S => "main2" \in w.sent)
  BY <1>1
<1> HIDE DEF S, n, x, c
<1>7. c \in Worlds
  BY <1>1, <1>2, <1>4, <1>5, <1>6 DEF Worlds
<1>8. NoneAhead(c) /\ Opened(c)
  BY <1>4, <1>5 DEF Sound, NoneAhead, UpTo, Opened
<1>9. NetOk(c)
  BY <1>3, <1>4 DEF NetOk
<1>10. dropped = 0 => Proved(c) /\ Strange(c) /\ Suppressed(c)
  BY <1>4, <1>5, <1>6 DEF Sound, Kept, Proved, Strange, Suppressed
<1>11. dropped = 0 => Current(c)
  BY <1>4, <1>5 DEF Sound, Kept, Current
<1>12. Counted(c)
  <2>1. w.e.tries \in Nat
    BY <1>1 DEF Evidence
  <2> QED BY <1>4, <1>5, <2>1 DEF Counted
<1> QED BY <1>7, <1>8, <1>9, <1>10, <1>11, <1>12 DEF Sound, Kept, c

\* A new socket, in a world without evidence of the old one.
LEMMA NewSocketSound ==
    ASSUME Behind, NEW w \in Worlds, NoneAhead(w), Opened(w), Counted(w),
           w.e.s1 = None, w.e.s2 = None, w.e.alt = None,
           dropped = 0 => Proved(w) /\ (w.e.pub = None => w.e.type = "unknown" /\ ~w.e.pending),
           w.e.pub # None => w.e.suppress,
           w.e.suppress => w.e.final /\ ~w.e.pending /\ ~w.e.revert
    PROVE  LET c == NewSocket(w) IN c \in Worlds /\ Sound(c) /\ Counted(c)
<1> DEFINE c == NewSocket(w)
<1>1. w.gen \in Nat /\ w.e \in Evidence /\ w.rec \in Seens
  BY DEF Worlds
<1>2. /\ c.gen = w.gen + 1 /\ c.sent = {} /\ c.rec = w.rec /\ c.net = {} /\ c.e = w.e
      /\ c = [gen |-> c.gen, sent |-> c.sent, rec |-> c.rec, e |-> c.e, net |-> c.net]
  <2>1. w = [gen |-> w.gen, sent |-> w.sent, rec |-> w.rec, e |-> w.e, net |-> w.net]
    BY DEF Worlds
  <2>2. c = [w EXCEPT !.gen = w.gen + 1, !.sent = {}, !.net = {}]
    BY DEF NewSocket
  <2> HIDE DEF c
  <2> QED BY <2>1, <2>2
<1> HIDE DEF c
<1>3. c \in Worlds
  BY <1>1, <1>2 DEF Worlds
<1>4. \A o \in Seens : UpTo(o, w.gen) => UpTo(o, c.gen) /\ (o # None => o[1] < c.gen)
  <2> SUFFICES ASSUME NEW o \in Seens, UpTo(o, w.gen), o # None PROVE o[1] <= c.gen /\ o[1] < c.gen
    BY DEF UpTo
  <2>1. o[1] \in Nat
    BY SeensFacts DEF Seens
  <2>2. o[1] <= w.gen
    BY DEF UpTo
  <2> QED BY <1>1, <1>2, <2>1, <2>2
<1>5. /\ w.e.s1 \in Seens /\ w.e.s2 \in Seens /\ w.e.alt \in Seens /\ w.e.cross \in Seens /\ w.e.pub \in Seens
  BY <1>1 DEF Evidence
<1>6. NoneAhead(c)
  BY <1>1, <1>2, <1>4, <1>5 DEF NoneAhead
<1>7. NetOk(c) /\ Opened(c) /\ Counted(c)
  BY <1>2 DEF NetOk, Opened, Counted
<1>8. dropped = 0 => Proved(c) /\ Strange(c)
  BY <1>2 DEF Proved, Strange
<1>9. dropped = 0 => Current(c)
  BY <1>2 DEF Current
<1>10. dropped = 0 => Suppressed(c)
  <2>1. w.e.pub # None => w.e.pub[1] < c.gen
    BY <1>4, <1>5 DEF NoneAhead
  <2> QED BY <1>2, <2>1 DEF Suppressed
<1> QED BY <1>3, <1>6, <1>7, <1>8, <1>9, <1>10 DEF Sound, Kept, c

\* nat_refresh_rebuild starts over from nothing.
LEMMA RebuildSound ==
    ASSUME Behind, NEW w \in Worlds, NoneAhead(w), w.e.rebuilds <= MaxRebuilds, NEW bound \in BOOLEAN
    PROVE  LET c == nat_refresh_rebuild(w, bound) IN c \in Worlds /\ Sound(c) /\ Counted(c)
<1> DEFINE n == NoEvidence(w.e)
           r == [n EXCEPT !.pub = None, !.pending = FALSE, !.suppress = FALSE,
                          !.reprobe = bound, !.revert = bound]
           v == [w EXCEPT !.e = r]
           s == NewSocket(v)
<1>1. w.e \in Evidence
  BY DEF Worlds
<1>2. /\ n \in Evidence /\ n.type = "unknown" /\ n.s1 = None /\ n.s2 = None /\ n.alt = None /\ n.cross = None
      /\ n.bounce = FALSE /\ n.fc = FALSE /\ n.window = TRUE /\ n.tries = 0 /\ n.final = FALSE
      /\ n.rebuilds = w.e.rebuilds
  BY <1>1, NoEvidenceIs
<1>3. nat_refresh_rebuild(w, bound) = IF bound THEN RegisterSn1(s) ELSE s
  BY DEF nat_refresh_rebuild
<1> HIDE DEF n
<1>4. /\ r.type = "unknown" /\ r.s1 = None /\ r.s2 = None /\ r.alt = None /\ r.cross = None
      /\ r.bounce = FALSE /\ r.fc = FALSE /\ r.tries = 0 /\ r.final = FALSE
      /\ r.pub = None /\ r.pending = FALSE /\ r.suppress = FALSE /\ r.rebuilds = w.e.rebuilds
  BY <1>2 DEF Evidence
<1>5. r \in Evidence
  BY <1>2 DEF Evidence, Seens, None
<1> HIDE DEF r
<1>6. v \in Worlds /\ v.e = r /\ v.gen = w.gen /\ v.rec = w.rec
  BY <1>5, OtherEvidence
<1> HIDE DEF v
<1>7. NoneAhead(v) /\ Opened(v) /\ Counted(v) /\ Proved(v)
  <2>1. NoneAhead(v)
    BY <1>4, <1>6 DEF NoneAhead, UpTo
  <2>2. Opened(v) /\ Proved(v)
    BY <1>4, <1>6 DEF Opened, Proved
  <2>3. Counted(v)
    BY <1>4, <1>6, NatAssumption DEF Counted
  <2> QED BY <2>1, <2>2, <2>3
<1>8. s \in Worlds /\ Sound(s) /\ Counted(s)
  BY <1>4, <1>6, <1>7, NewSocketSound
<1> HIDE DEF s
<1> QED BY <1>3, <1>8, RegisterSn1Is, RegisterSn1Keeps

\* A world that differs in nothing the invariant looks at, or has fewer messages.
LEMMA SameWorld ==
    ASSUME NEW w \in Worlds, Sound(w), Counted(w), NEW v \in Worlds,
           v.gen = w.gen, v.sent = w.sent, v.rec = w.rec, v.net \subseteq w.net,
           Alike(v.e, w.e), v.e.type = w.e.type
    PROVE  Sound(v) /\ Counted(v)
<1>1. NoneAhead(v) /\ NetOk(v) /\ Opened(v)
  BY DEF Sound, NoneAhead, UpTo, NetOk, Opened, Alike
<1>2. dropped = 0 => Proved(v) /\ Strange(v) /\ Suppressed(v)
  BY DEF Sound, Kept, Proved, Strange, Suppressed, Alike
<1>3. dropped = 0 => Current(v)
  BY DEF Sound, Kept, Current, Alike
<1>4. Counted(v)
  BY DEF Counted, Alike
<1> QED BY <1>1, <1>2, <1>3, <1>4 DEF Sound, Kept

\* While evidence may still come, a refresh starts its probes again.
LEMMA ExtendSound ==
    ASSUME Behind, NEW w \in Worlds, Sound(w), Counted(w), ~w.e.final
    PROVE  LET c == Extend(w) IN c \in Worlds /\ Sound(c) /\ Counted(c)
<1> DEFINE x == [w.e EXCEPT !.pending = FALSE, !.tries = 0, !.reprobe = TRUE]
           v == [w EXCEPT !.e = x]
<1>1. w.e \in Evidence
  BY DEF Worlds
<1>2. /\ x \in Evidence /\ x.type = w.e.type /\ x.s1 = w.e.s1 /\ x.s2 = w.e.s2 /\ x.alt = w.e.alt
      /\ x.cross = w.e.cross /\ x.bounce = w.e.bounce /\ x.fc = w.e.fc /\ x.window = w.e.window
      /\ x.tries = 0 /\ x.final = w.e.final /\ x.pub = w.e.pub /\ x.pending = FALSE
      /\ x.suppress = w.e.suppress /\ x.revert = w.e.revert /\ x.rebuilds = w.e.rebuilds
  BY <1>1 DEF Evidence
<1>3. Extend(w) = IF w.e.window THEN RegisterSn1(v) ELSE w
  <2>1. [w EXCEPT !.e.pending = FALSE, !.e.tries = 0, !.e.reprobe = TRUE] = v
    BY DEF Worlds
  <2> HIDE DEF v
  <2> QED BY <2>1 DEF Extend
<1> HIDE DEF x
<1>4. v \in Worlds /\ v.e = x /\ v.gen = w.gen /\ v.sent = w.sent /\ v.rec = w.rec /\ v.net = w.net
  BY <1>2, OtherEvidence
<1> HIDE DEF v
<1>5. NoneAhead(v) /\ NetOk(v) /\ Opened(v)
  BY <1>2, <1>4 DEF Sound, NoneAhead, UpTo, NetOk, Opened
<1>6. Counted(v)
  BY <1>2, <1>4, NatAssumption DEF Counted
<1>7. dropped = 0 => Proved(v) /\ Strange(v) /\ Suppressed(v)
  BY <1>2, <1>4 DEF Sound, Kept, Proved, Strange, Suppressed
<1>8. dropped = 0 => Current(v)
  BY <1>2, <1>4 DEF Sound, Kept, Current
<1>9. Sound(v)
  BY <1>5, <1>7, <1>8 DEF Sound, Kept
<1> QED BY <1>3, <1>4, <1>6, <1>9, RegisterSn1Is, RegisterSn1Keeps

\* The end of a refresh: the verdict stays, the evidence and the random port go.
LEMMA FreezeSound ==
    ASSUME Behind, NEW w \in Worlds, Sound(w), Counted(w), w.e.revert
    PROVE  LET c == Freeze(w) IN c \in Worlds /\ Sound(c) /\ Counted(c)
<1> DEFINE r == [w.e EXCEPT !.revert = FALSE, !.s1 = None, !.s2 = None, !.alt = None, !.cross = None,
                            !.bounce = FALSE, !.crossing = FALSE, !.final = TRUE, !.pending = FALSE]
           n == [w EXCEPT !.e = r]
           x == [r EXCEPT !.suppress = TRUE]
           v == [n EXCEPT !.e = x]
           s == NewSocket(v)
           g == RegisterSn1(s)
           z == [g.e EXCEPT !.wait = TRUE]
           f == [g EXCEPT !.e = z]
<1>1. w.e \in Evidence
  BY DEF Worlds
<1>2. /\ r.type = w.e.type /\ r.s1 = None /\ r.s2 = None /\ r.alt = None
      /\ r.cross = None /\ r.bounce = FALSE /\ r.fc = w.e.fc /\ r.window = w.e.window
      /\ r.tries = w.e.tries /\ r.final = TRUE /\ r.pub = w.e.pub /\ r.pending = FALSE
      /\ r.suppress = w.e.suppress /\ r.revert = FALSE /\ r.rebuilds = w.e.rebuilds
  BY <1>1 DEF Evidence
<1>3. r \in Evidence
  BY <1>1, ZenonT(60) DEF Evidence, Seens, None
<1>4. Freeze(w) = IF ~nat.fixed THEN n
                  ELSE [RegisterSn1(NewSocket([n EXCEPT !.e.suppress = TRUE])) EXCEPT !.e.wait = TRUE]
  BY DEF Freeze
<1> HIDE DEF r
<1>5. n \in Worlds /\ n.e = r /\ n.gen = w.gen /\ n.sent = w.sent /\ n.rec = w.rec /\ n.net = w.net
  BY <1>3, OtherEvidence
<1> HIDE DEF n
<1>6. dropped = 0 => ~w.e.suppress
  BY DEF Sound, Kept, Suppressed
<1>7. NoneAhead(n) /\ NetOk(n) /\ Opened(n) /\ Counted(n)
  <2>1. NoneAhead(n)
    BY <1>2, <1>5 DEF Sound, NoneAhead, UpTo
  <2>2. NetOk(n) /\ Opened(n)
    BY <1>2, <1>5 DEF Sound, NetOk, Opened
  <2>3. Counted(n)
    BY <1>2, <1>5 DEF Counted
  <2> QED BY <2>1, <2>2, <2>3
<1>8. dropped = 0 => Proved(n) /\ Strange(n) /\ Suppressed(n)
  BY <1>2, <1>5, <1>6 DEF Sound, Kept, Proved, Strange, Suppressed
<1>9. dropped = 0 => Current(n)
  BY <1>2, <1>5, <1>6 DEF Sound, Kept, Current
<1>10. CASE ~nat.fixed
  BY <1>4, <1>5, <1>7, <1>8, <1>9, <1>10 DEF Sound, Kept
<1>11. CASE nat.fixed
  <2>1. x \in Evidence
    BY <1>3 DEF Evidence
  <2>2. /\ x.type = r.type /\ x.s1 = None /\ x.s2 = None /\ x.alt = None
        /\ x.cross = None /\ x.bounce = FALSE /\ x.fc = r.fc
        /\ x.tries = r.tries /\ x.final = TRUE /\ x.pub = r.pub /\ x.pending = FALSE
        /\ x.suppress = TRUE /\ x.revert = FALSE /\ x.rebuilds = r.rebuilds
    BY <1>2, <1>3 DEF Evidence
  <2> HIDE DEF x
  <2>3. v \in Worlds /\ v.e = x /\ v.gen = n.gen /\ v.rec = n.rec
    BY <1>5, <2>1, OtherEvidence
  <2>4. [n EXCEPT !.e.suppress = TRUE] = v
    BY <1>5 DEF Worlds, x
  <2> HIDE DEF v
  <2>5. NoneAhead(v)
    BY <1>5, <1>7, <1>2, <2>2, <2>3 DEF NoneAhead, UpTo
  <2>6. Opened(v) /\ Counted(v)
    BY <1>5, <1>7, <2>2, <2>3 DEF Opened, Counted
  <2>7. dropped = 0 => Proved(v) /\ (v.e.pub = None => v.e.type = "unknown" /\ ~v.e.pending)
    BY <1>5, <1>8, <1>9, <2>2, <2>3 DEF Proved, Current
  <2>8. s \in Worlds /\ Sound(s) /\ Counted(s)
    BY <2>2, <2>3, <2>5, <2>6, <2>7, NewSocketSound
  <2> HIDE DEF s
  <2>9. g \in Worlds /\ Sound(g) /\ Counted(g)
    BY <2>8, RegisterSn1Is, RegisterSn1Keeps
  <2>10. Freeze(w) = f
    <3>1. Freeze(w) = [g EXCEPT !.e.wait = TRUE]
      BY <1>4, <1>11, <2>4 DEF s
    <3> HIDE DEF g
    <3> QED BY <2>9, <3>1 DEF Worlds
  <2> HIDE DEF g
  <2>11. g.e \in Evidence
    BY <2>9 DEF Worlds
  <2>12. z \in Evidence /\ Alike(z, g.e) /\ z.type = g.e.type
    BY <2>11 DEF Evidence, Alike
  <2> HIDE DEF z
  <2>13. f \in Worlds /\ f.e = z /\ f.gen = g.gen /\ f.sent = g.sent /\ f.rec = g.rec /\ f.net = g.net
    BY <2>9, <2>12, OtherEvidence
  <2> HIDE DEF f
  <2> QED BY <2>9, <2>10, <2>12, <2>13, SameWorld
<1> QED BY <1>10, <1>11

\* The end of an attempt: after the last one the verdict is final.
LEMMA GiveUpSound ==
    ASSUME Behind, NEW w \in Worlds, Sound(w), Counted(w), w.e.pending
    PROVE  LET v == [w EXCEPT !.e = GiveUp(w.e)] IN
           /\ v \in Worlds /\ Sound(v) /\ Counted(v)
           /\ v.e = GiveUp(w.e) /\ ~v.e.pending /\ v.e.s1 = w.e.s1
           /\ v.e.tries = w.e.tries /\ v.e.rebuilds = w.e.rebuilds
           /\ v.e.suppress = w.e.suppress
           /\ v.e.tries = MaxTries => v.e.final
<1> DEFINE x == GiveUp(w.e)
           v == [w EXCEPT !.e = x]
           last == w.e.tries >= MaxTries
<1>1. w.e \in Evidence /\ w.e.tries \in Nat /\ MaxTries \in Nat
  BY NatAssumption DEF Worlds, Evidence
<1>2. x = [w.e EXCEPT !.pending = FALSE, !.final = last]
  BY Zenon DEF GiveUp
<1>3. last \in BOOLEAN /\ (last <=> w.e.tries >= MaxTries)
  BY <1>1
<1> HIDE DEF x, last
<1>4. /\ x \in Evidence /\ x.s1 = w.e.s1 /\ x.s2 = w.e.s2 /\ x.alt = w.e.alt /\ x.cross = w.e.cross
      /\ x.type = w.e.type /\ x.bounce = w.e.bounce /\ x.fc = w.e.fc /\ x.window = w.e.window
      /\ x.tries = w.e.tries /\ x.final = last /\ x.pub = w.e.pub /\ x.pending = FALSE
      /\ x.suppress = w.e.suppress /\ x.revert = w.e.revert /\ x.rebuilds = w.e.rebuilds
  BY <1>1, <1>2, <1>3 DEF Evidence
<1>5. v \in Worlds /\ v.e = x /\ v.gen = w.gen /\ v.sent = w.sent /\ v.rec = w.rec /\ v.net = w.net
  BY <1>4, OtherEvidence
<1> HIDE DEF v
<1>6. NoneAhead(v) /\ NetOk(v) /\ Opened(v)
  BY <1>4, <1>5 DEF Sound, NoneAhead, UpTo, NetOk, Opened
<1>7. Counted(v)
  BY <1>1, <1>3, <1>4, <1>5 DEF Counted
<1>8. dropped = 0 => Proved(v) /\ Strange(v) /\ Suppressed(v)
  BY <1>4, <1>5 DEF Sound, Kept, Proved, Strange, Suppressed
<1>9. dropped = 0 => Current(v)
  BY <1>4, <1>5 DEF Sound, Kept, Current
<1> QED BY <1>1, <1>3, <1>4, <1>5, <1>6, <1>7, <1>8, <1>9 DEF Sound, Kept, v, x

\* A probe of sn2 that comes through in the stranger window was not let in because of
\* a packet of the edge: the NAT lets strangers in.
LEMMA FcAdmitted ==
    ASSUME NatInv, Behind, NEW m \in net, m.k = "fc", Admits(m), dropped = 0, e.window
    PROVE  nat.filter = "any"
<1> SUFFICES ASSUME nat.filter # "any" PROVE FALSE
  OBVIOUS
<1>1. Now.e = e /\ Now.gen = gen /\ Now.sent = sent /\ Now.net = net /\ Now \in Worlds
  BY DEF Now, NatInv
<1>2. gen \in Nat /\ sent \subseteq Dests /\ m \in Messages
  BY <1>1 DEF Worlds
<1>3. m.from \in {"main2", "helper2"}
  BY <1>2 DEF Messages, Acks, Bounces, Fcs
<1>4. m.to = Seen(gen, "main1") /\ Public(m.to)
  BY <1>1 DEF NatInv, Sound, NetOk, Fair
<1>5. ~nat.inside
  BY <1>2, <1>4, SeenIs
<1>6. PICK d \in sent : Seen(gen, d) = m.to /\ Ip(d) = Ip(m.from)
  BY <1>4 DEF Admits
<1>7. d = "main2"
  BY <1>2, <1>3, <1>6 DEF Ip, Dests
<1>8. nat.map = "any"
  BY <1>2, <1>4, <1>5, <1>6, <1>7, SeenIs DEF Behind
<1>9. Strange(Now)
  BY DEF NatInv, Sound, Kept
<1> QED BY <1>1, <1>5, <1>6, <1>7, <1>8, <1>9 DEF Strange

-----------------------------------------------------------------------------
(* The invariant *)

\* A step to a sound world keeps the invariant.
LEMMA ToSound ==
    ASSUME NatInv, NEW w \in Worlds, Sound(w), Counted(w), Become(w), nat' = nat, dropped' = dropped
    PROVE  NatInv'
<1>1. w = [gen |-> w.gen, sent |-> w.sent, rec |-> w.rec, e |-> w.e, net |-> w.net]
  BY DEF Worlds
<1>2. Now' = w
  BY <1>1 DEF Now, Become
<1>3. NoneAhead(Now)'
  BY <1>2 DEF Sound, NoneAhead, UpTo
<1>4. Opened(Now)' /\ Counted(Now)'
  BY <1>2 DEF Sound, Opened, Counted
<1>5. NetOk(Now)'
  BY <1>2 DEF Sound, NetOk, Fair, Seen
<1>6. (dropped = 0 => Proved(Now))'
  BY <1>2 DEF Sound, Kept, Proved
<1>7. (dropped = 0 => Current(Now))'
  BY <1>2 DEF Sound, Kept, Current, Seen
<1>8. (dropped = 0 => Suppressed(Now))'
  BY <1>2 DEF Sound, Kept, Suppressed, Seen
<1>9. (dropped = 0 => Strange(Now))'
  BY <1>2 DEF Sound, Kept, Strange
<1> QED BY <1>2, <1>3, <1>4, <1>5, <1>6, <1>7, <1>8, <1>9 DEF NatInv, Sound, Kept

\* The world of a state of the invariant, and the world after one message was taken.
LEMMA Worldly ==
    ASSUME NatInv
    PROVE  /\ Behind /\ Now \in Worlds /\ Sound(Now) /\ Counted(Now) /\ e \in Evidence
           /\ Now.e = e /\ Now.gen = gen /\ Now.sent = sent /\ Now.rec = rec /\ Now.net = net
           /\ \A m \in net : /\ m \in Messages /\ Fair(m, gen, sent)
                             /\ Take(m) \in Worlds /\ Sound(Take(m)) /\ Counted(Take(m))
                             /\ Take(m).e = e /\ Take(m).gen = gen /\ Take(m).sent = sent
<1>1. /\ Behind /\ Now \in Worlds /\ Sound(Now) /\ Counted(Now)
      /\ Now.e = e /\ Now.gen = gen /\ Now.sent = sent /\ Now.rec = rec /\ Now.net = net
  BY NatAssumption DEF NatInv, Behind, Now
<1>2. e \in Evidence /\ net \subseteq Messages
  BY <1>1 DEF Worlds
<1>3. ASSUME NEW m \in net
      PROVE  /\ m \in Messages /\ Fair(m, gen, sent)
             /\ Take(m) \in Worlds /\ Sound(Take(m)) /\ Counted(Take(m))
             /\ Take(m).e = e /\ Take(m).gen = gen /\ Take(m).sent = sent
  <2>1. Take(m) = [gen |-> gen, sent |-> sent, rec |-> rec, e |-> e, net |-> net \ {m}]
    BY DEF Take, Now
  <2>2. Take(m) \in Worlds
    BY <1>1, <2>1 DEF Worlds
  <2>3. Sound(Take(m)) /\ Counted(Take(m))
    BY <1>1, <2>1, <2>2, SameWorld DEF Alike
  <2> QED BY <1>1, <1>2, <2>1, <2>2, <2>3 DEF Sound, NetOk
<1> QED BY <1>1, <1>2, <1>3

\* An edge that has sent nothing knows nothing.
LEMMA InitSound == Init => NatInv
<1> SUFFICES ASSUME Init PROVE NatInv
  OBVIOUS
<1>1. /\ Now.gen = 0 /\ Now.sent = {} /\ Now.rec = None /\ Now.e = e /\ Now.net = {}
      /\ Now = [gen |-> 0, sent |-> {}, rec |-> None, e |-> e, net |-> {}]
  BY DEF Init, Now
<1>2. /\ e.type = "unknown" /\ e.s1 = None /\ e.s2 = None /\ e.alt = None /\ e.cross = None
      /\ e.bounce = FALSE /\ e.fc = FALSE /\ e.tries = 0 /\ e.final = FALSE /\ e.pub = None
      /\ e.pending = FALSE /\ e.suppress = FALSE /\ e.rebuilds = 0
  BY DEF Init
<1>3. e \in Evidence
  BY DEF Init, Evidence, Types, Seens, None
<1>4. Now \in Worlds
  BY <1>1, <1>3 DEF Worlds, Seens
<1>5. NoneAhead(Now) /\ NetOk(Now) /\ Opened(Now) /\ Proved(Now)
  BY <1>1, <1>2 DEF NoneAhead, UpTo, NetOk, Opened, Proved
<1>6. Current(Now) /\ Suppressed(Now) /\ Strange(Now)
  BY <1>1, <1>2 DEF Current, Suppressed, Strange
<1>7. Counted(Now)
  BY <1>1, <1>2, NatAssumption DEF Counted
<1> QED BY <1>4, <1>5, <1>6, <1>7 DEF Init, NatInv, Sound, Kept

\* The periodic registration (update_supernode_reg, Phase 5).
LEMMA KeepaliveSound == NatInv /\ Keepalive => NatInv'
<1> SUFFICES ASSUME NatInv, Keepalive PROVE NatInv'
  OBVIOUS
<1> DEFINE r == RegisterSn1(Now)
           x == [r.e EXCEPT !.wait = TRUE]
           v == [r EXCEPT !.e = x]
<1>1. Behind /\ Now \in Worlds /\ Sound(Now) /\ Counted(Now)
  BY Worldly
<1>2. r \in Worlds /\ Sound(r) /\ Counted(r) /\ r.e \in Evidence
  BY <1>1, RegisterSn1Is, RegisterSn1Keeps
<1>3. Become([r EXCEPT !.e.wait = TRUE]) /\ nat' = nat /\ dropped' = dropped
  BY DEF Keepalive
<1> HIDE DEF r
<1>4. x \in Evidence /\ Alike(x, r.e) /\ x.type = r.e.type
  BY <1>2 DEF Evidence, Alike
<1>5. [r EXCEPT !.e.wait = TRUE] = v
  BY <1>2 DEF Worlds
<1> HIDE DEF x
<1>6. v \in Worlds /\ v.e = x /\ v.gen = r.gen /\ v.sent = r.sent /\ v.rec = r.rec /\ v.net = r.net
  BY <1>2, <1>4, OtherEvidence
<1> HIDE DEF v
<1>7. Sound(v) /\ Counted(v)
  BY <1>2, <1>4, <1>6, SameWorld
<1> QED BY <1>3, <1>5, <1>6, <1>7, ToSound

\* The probes of Phase 2.5: an attempt is given up, and the next one begins.
LEMMA SymCheckSound ==
    ASSUME NatInv, NEW late \in BOOLEAN, NEW over \in BOOLEAN, SymCheck(late, over)
    PROVE  NatInv'
<1> DEFINE done == e.pending /\ late
           r == IF done THEN GiveUp(e) ELSE e
           w == [Now EXCEPT !.e = r]
           go == ~r.pending /\ over
<1>1. /\ Behind /\ Now \in Worlds /\ Sound(Now) /\ Counted(Now) /\ e \in Evidence
      /\ Now.e = e /\ Now.gen = gen /\ Now.sent = sent /\ Now.rec = rec /\ Now.net = net
  BY Worldly
<1>2. /\ e.s1 # None /\ ~e.final /\ nat' = nat /\ dropped' = dropped
      /\ Become(IF go THEN SendTwins(w) ELSE w)
  BY DEF SymCheck
<1>3. dropped = 0 => ~e.suppress
  BY <1>1, <1>2 DEF Sound, Kept, Suppressed
<1>4. e.tries <= MaxTries /\ (e.tries = MaxTries => e.pending) /\ e.rebuilds <= MaxRebuilds
  BY <1>1, <1>2 DEF Counted
<1>5. /\ w \in Worlds /\ Sound(w) /\ Counted(w) /\ w.e = r /\ r.s1 = e.s1 /\ r.tries = e.tries
      /\ r.rebuilds = e.rebuilds /\ r.suppress = e.suppress
      /\ r.tries = MaxTries => r.pending \/ r.final
  <2>1. CASE done
    <3>1. w = [Now EXCEPT !.e = GiveUp(Now.e)] /\ r = GiveUp(Now.e) /\ Now.e.pending
      BY <1>1, <2>1
    <3> HIDE DEF w, r
    <3> QED BY <1>1, <3>1, GiveUpSound
  <2>2. CASE ~done
    <3>1. w = Now /\ r = e
      BY <1>1, <2>2 DEF Worlds
    <3> HIDE DEF w, r
    <3> QED BY <1>1, <1>4, <3>1
  <2> QED BY <2>1, <2>2
<1> HIDE DEF r, w
<1>6. CASE go
  <2>1. SendTwins(w) \in Worlds /\ Sound(SendTwins(w)) /\ Counted(SendTwins(w))
    BY <1>1, <1>2, <1>3, <1>4, <1>5, <1>6, SendTwinsSound, NatAssumption
  <2> QED BY <1>2, <1>6, <2>1, ToSound
<1>7. CASE ~go
  BY <1>2, <1>5, <1>7, ToSound
<1> QED BY <1>6, <1>7

\* An answer of a supernode arrives: to a probe, to the registration, or late.
LEMMA RecvAckSound ==
    ASSUME NatInv, NEW m \in net, RecvAck(m)
    PROVE  NatInv'
<1> DEFINE t == Take(m)
<1>1. /\ Behind /\ m \in Messages /\ Fair(m, gen, sent) /\ t \in Worlds /\ Sound(t) /\ Counted(t)
      /\ t.e = e /\ t.gen = gen /\ t.sent = sent
  BY Worldly
<1>2. m.k = "ack" /\ nat' = nat /\ dropped' = dropped
  BY DEF RecvAck
<1>3. m \in Acks /\ m.to = Seen(gen, m.from)
  BY <1>1, <1>2 DEF Messages, Bounces, Fcs, Fair
<1>4. Become(IF m.cookie = "probe" /\ e.pending THEN ProbeEcho(t, m)
             ELSE IF m.cookie = "last" /\ ~e.acked /\ (e.wait \/ e.pending)
             THEN FirstAck(t, m) ELSE t)
  BY DEF RecvAck
<1> HIDE DEF t
<1>5. CASE m.cookie = "probe" /\ e.pending
  <2>1. ProbeEcho(t, m) \in Worlds /\ Sound(ProbeEcho(t, m)) /\ Counted(ProbeEcho(t, m))
    BY <1>1, <1>3, <1>5, ProbeEchoSound
  <2> QED BY <1>2, <1>4, <1>5, <2>1, ToSound
<1>6. CASE m.cookie = "last" /\ ~e.acked /\ (e.wait \/ e.pending)
  <2>1. FirstAck(t, m) \in Worlds /\ Sound(FirstAck(t, m)) /\ Counted(FirstAck(t, m))
    BY <1>1, <1>3, <1>6, FirstAckSound
  <2> QED BY <1>2, <1>4, <1>6, <2>1, ToSound
<1>7. CASE /\ ~(m.cookie = "probe" /\ e.pending)
           /\ ~(m.cookie = "last" /\ ~e.acked /\ (e.wait \/ e.pending))
  <2>1. Become(t)
    BY <1>4, <1>7
  <2> QED BY <1>1, <1>2, <2>1, ToSound
<1> QED BY <1>5, <1>6, <1>7

\* A helper's bounce arrives (handle_nat_bounce).
LEMMA RecvBounceSound ==
    ASSUME NatInv, NEW m \in net, RecvBounce(m)
    PROVE  NatInv'
<1> DEFINE t == Take(m)
<1>1. /\ Behind /\ Fair(m, gen, sent) /\ t \in Worlds /\ Sound(t) /\ Counted(t)
  BY Worldly
<1>2. m.k = "bounce" /\ nat' = nat /\ dropped' = dropped
  BY DEF RecvBounce
<1>3. nat.filter # "port"
  BY <1>1, <1>2 DEF Fair
<1>4. Become(IF nat.inside /\ Ip(m.from) = "sn1" THEN t ELSE nat_note_helper_port(t))
  BY DEF RecvBounce
<1> HIDE DEF t
<1>5. /\ nat_note_helper_port(t) \in Worlds /\ Sound(nat_note_helper_port(t))
      /\ Counted(nat_note_helper_port(t))
  BY <1>1, <1>3, HelperPortSound
<1> QED BY <1>1, <1>2, <1>4, <1>5, ToSound

\* A probe of sn2 arrives (handle_nat_fc).
LEMMA RecvFcSound ==
    ASSUME NatInv, NEW m \in net, RecvFc(m)
    PROVE  NatInv'
<1> DEFINE t == IF m.from = "main2" THEN Now ELSE Take(m)
<1>1. /\ Behind /\ m \in Messages /\ Fair(m, gen, sent) /\ t \in Worlds /\ Sound(t) /\ Counted(t)
      /\ t.e = e
  BY Worldly
<1>2. m.k = "fc" /\ Admits(m) /\ nat' = nat /\ dropped' = dropped /\ Become(handle_nat_fc(t, m))
  BY DEF RecvFc
<1>3. m \in Fcs /\ (m.from = "helper2" => nat.filter # "port")
  BY <1>1, <1>2 DEF Messages, Acks, Bounces, Fair
<1>4. dropped = 0 /\ t.e.window => nat.filter = "any"
  BY <1>1, <1>2, FcAdmitted
<1> HIDE DEF t
<1>5. /\ handle_nat_fc(t, m) \in Worlds /\ Sound(handle_nat_fc(t, m)) /\ Counted(handle_nat_fc(t, m))
  BY <1>1, <1>3, <1>4, FcSound
<1> QED BY <1>2, <1>5, ToSound

\* A user asks for a refresh (management command "n").
LEMMA RefreshSound ==
    ASSUME NatInv, NEW bound \in BOOLEAN, Refresh(bound)
    PROVE  NatInv'
<1> DEFINE x == [e EXCEPT !.rebuilds = 0]
           w == [Now EXCEPT !.e = x]
           c == nat_refresh_rebuild(w, bound)
<1>1. Behind /\ Now \in Worlds /\ Sound(Now) /\ e \in Evidence /\ Now.e = e
  BY Worldly
<1>2. /\ x \in Evidence /\ x.s1 = e.s1 /\ x.s2 = e.s2 /\ x.alt = e.alt /\ x.cross = e.cross
      /\ x.pub = e.pub /\ x.rebuilds = 0
  BY <1>1 DEF Evidence
<1>3. [Now EXCEPT !.e.rebuilds = 0] = w
  BY DEF Now
<1>4. Become(c) /\ nat' = nat /\ dropped' = dropped
  BY <1>3 DEF Refresh
<1> HIDE DEF x
<1>5. w \in Worlds /\ w.e = x /\ w.gen = Now.gen /\ w.rec = Now.rec
  BY <1>1, <1>2, OtherEvidence
<1> HIDE DEF w
<1>6. NoneAhead(w) /\ w.e.rebuilds <= MaxRebuilds
  BY <1>1, <1>2, <1>5, NatAssumption DEF Sound, NoneAhead, UpTo
<1>7. c \in Worlds /\ Sound(c) /\ Counted(c)
  BY <1>1, <1>5, <1>6, RebuildSound
<1> HIDE DEF c
<1> QED BY <1>4, <1>7, ToSound

\* The time to go back to the fixed port has come (run_loop): more evidence is waited for,
\* the socket is built again, or the verdict is kept.
LEMMA RevertSound ==
    ASSUME NatInv, NEW capped \in BOOLEAN, NEW bound \in BOOLEAN, Revert(capped, bound)
    PROVE  NatInv'
<1> DEFINE open == e.fc \/ e.window
           more == e.type = "unknown" /\ ~e.final /\ ~capped /\ (open \/ e.rebuilds < MaxRebuilds)
           x == [e EXCEPT !.rebuilds = e.rebuilds + 1]
           w == [Now EXCEPT !.e = x]
           c == nat_refresh_rebuild(w, bound)
<1>1. Behind /\ Now \in Worlds /\ Sound(Now) /\ Counted(Now) /\ e \in Evidence /\ Now.e = e
  BY Worldly
<1>2. e.revert /\ nat' = nat /\ dropped' = dropped
  BY DEF Revert
<1>3. /\ more /\ open => Become(Extend(Now))
      /\ more /\ ~open => Become(nat_refresh_rebuild([Now EXCEPT !.e.rebuilds = @ + 1], bound))
      /\ ~more /\ e.pending /\ ~capped => Become(Now)
      /\ ~more /\ ~(e.pending /\ ~capped) => Become(Freeze(Now))
  BY DEF Revert
<1>4. CASE more /\ open
  <2>1. Extend(Now) \in Worlds /\ Sound(Extend(Now)) /\ Counted(Extend(Now))
    BY <1>1, <1>4, ExtendSound
  <2> QED BY <1>2, <1>3, <1>4, <2>1, ToSound
<1>5. CASE more /\ ~open
  <2>1. e.rebuilds \in Nat /\ e.rebuilds < MaxRebuilds /\ MaxRebuilds \in Nat
    BY <1>1, <1>5, NatAssumption DEF Evidence
  <2>2. /\ x \in Evidence /\ x.s1 = e.s1 /\ x.s2 = e.s2 /\ x.alt = e.alt /\ x.cross = e.cross
        /\ x.pub = e.pub /\ x.rebuilds = e.rebuilds + 1
    BY <1>1, <2>1 DEF Evidence
  <2>3. [Now EXCEPT !.e.rebuilds = @ + 1] = w
    BY DEF Now
  <2>4. Become(c)
    BY <1>3, <1>5, <2>3
  <2> HIDE DEF x, more, open
  <2>5. w \in Worlds /\ w.e = x /\ w.gen = Now.gen /\ w.rec = Now.rec
    BY <1>1, <2>2, OtherEvidence
  <2> HIDE DEF w
  <2>6. NoneAhead(w) /\ w.e.rebuilds <= MaxRebuilds
    BY <1>1, <2>1, <2>2, <2>5 DEF Sound, NoneAhead, UpTo
  <2>7. c \in Worlds /\ Sound(c) /\ Counted(c)
    BY <1>1, <2>5, <2>6, RebuildSound
  <2> HIDE DEF c
  <2> QED BY <1>2, <2>4, <2>7, ToSound
<1>6. CASE ~more /\ e.pending /\ ~capped
  BY <1>1, <1>2, <1>3, <1>6, ToSound
<1>7. CASE ~more /\ ~(e.pending /\ ~capped)
  <2>1. Freeze(Now) \in Worlds /\ Sound(Freeze(Now)) /\ Counted(Freeze(Now))
    BY <1>1, <1>2, FreezeSound
  <2> QED BY <1>2, <1>3, <1>7, <2>1, ToSound
<1> QED BY <1>4, <1>5, <1>6, <1>7

\* The NAT loses its mapping: from then on only what a helper's packet showed counts.
LEMMA RemapSound == NatInv /\ Remap => NatInv'
<1> SUFFICES ASSUME NatInv, Remap PROVE NatInv'
  OBVIOUS
<1> DEFINE n == Now'
<1>1. /\ Now \in Worlds /\ Sound(Now) /\ Counted(Now) /\ dropped \in Nat
      /\ Now.e = e /\ Now.gen = gen /\ Now.rec = rec
  BY Worldly DEF NatInv
<1>2. /\ gen' = gen + 1 /\ sent' = {} /\ net' = {} /\ dropped' = dropped + 1
      /\ nat' = nat /\ rec' = rec /\ e' = e
  BY DEF Remap
<1>3. gen \in Nat /\ e \in Evidence /\ rec \in Seens
  BY <1>1 DEF Worlds
<1>4. /\ n.gen = gen + 1 /\ n.sent = {} /\ n.net = {} /\ n.rec = rec /\ n.e = e
      /\ n = [gen |-> n.gen, sent |-> n.sent, rec |-> n.rec, e |-> n.e, net |-> n.net]
  BY <1>2 DEF Now
<1>5. \A o \in Seens : UpTo(o, gen) => UpTo(o, gen + 1)
  <2> SUFFICES ASSUME NEW o \in Seens, UpTo(o, gen), o # None PROVE o[1] <= gen + 1
    BY DEF UpTo
  <2>1. o[1] \in Nat /\ o[1] <= gen
    BY SeensFacts DEF Seens, UpTo
  <2> QED BY <1>3, <2>1
<1> HIDE DEF n
<1>6. n \in Worlds
  BY <1>3, <1>4 DEF Worlds
<1>7. e.s1 \in Seens /\ e.s2 \in Seens /\ e.alt \in Seens /\ e.cross \in Seens /\ e.pub \in Seens
  BY <1>3 DEF Evidence
<1>8. NoneAhead(n)
  BY <1>1, <1>3, <1>4, <1>5, <1>7 DEF Sound, NoneAhead
<1>9. NoneAhead(Now)'
  BY <1>8 DEF NoneAhead, UpTo, n
<1>10. NetOk(Now)'
  BY <1>4 DEF NetOk, n
<1>11. (Opened(Now) /\ Counted(Now))'
  BY <1>1, <1>2, <1>4 DEF Sound, Opened, Counted, n
<1>12. dropped' \in Nat /\ dropped' # 0
  BY <1>1, <1>2
<1> QED BY <1>2, <1>6, <1>9, <1>10, <1>11, <1>12 DEF NatInv, Sound, n

\* Every step of the edge and of the NAT keeps the invariant.
LEMMA StepSound == NatInv /\ [Next]_vars => NatInv'
<1> SUFFICES ASSUME NatInv, [Next]_vars PROVE NatInv'
  OBVIOUS
<1>1. CASE Keepalive
  BY <1>1, KeepaliveSound
<1>2. ASSUME NEW late \in BOOLEAN, NEW over \in BOOLEAN, SymCheck(late, over) PROVE NatInv'
  BY <1>2, SymCheckSound
<1>3. ASSUME NEW m \in net, RecvAck(m) \/ RecvBounce(m) \/ RecvFc(m) PROVE NatInv'
  BY <1>3, RecvAckSound, RecvBounceSound, RecvFcSound
<1>4. ASSUME NEW bound \in BOOLEAN, Refresh(bound) PROVE NatInv'
  BY <1>4, RefreshSound
<1>5. ASSUME NEW capped \in BOOLEAN, NEW bound \in BOOLEAN, Revert(capped, bound) PROVE NatInv'
  BY <1>5, RevertSound
<1>6. CASE Remap
  BY <1>6, RemapSound
<1>7. CASE UNCHANGED vars
  <2>1. Behind /\ Now \in Worlds /\ Sound(Now) /\ Counted(Now)
    BY Worldly
  <2>2. Become(Now) /\ nat' = nat /\ dropped' = dropped
    BY <1>7 DEF vars, Become, Now
  <2> QED BY <2>1, <2>2, ToSound
<1> QED BY <1>1, <1>2, <1>3, <1>4, <1>5, <1>6, <1>7 DEF Next

\* The invariant says that the verdict is right, and that everything has its type.
LEMMA SoundVerdict == NatInv => VerdictHolds
<1> SUFFICES ASSUME NatInv PROVE VerdictHolds
  OBVIOUS
<1>1. /\ Behind /\ Now \in Worlds /\ Sound(Now) /\ Counted(Now) /\ e \in Evidence
      /\ Now.e = e /\ Now.gen = gen /\ Now.sent = sent /\ Now.rec = rec /\ Now.net = net
  BY Worldly
<1>2. /\ gen \in Nat /\ sent \subseteq Dests /\ rec \in Seens
      /\ e.s1 \in Seens /\ e.s2 \in Seens /\ e.alt \in Seens /\ e.cross \in Seens /\ e.pub \in Seens
      /\ e.type \in Types /\ e.tries \in Nat /\ e.rebuilds \in Nat
  BY <1>1 DEF Worlds, Evidence
<1>3. \A o \in Endpoints : o[1] <= gen => o \in Observations \ {None}
  <2> SUFFICES ASSUME NEW g \in Nat, NEW v \in Views, <<g, v>>[1] <= gen
               PROVE  <<g, v>> \in Observations \ {None}
    BY DEF Endpoints
  <2>1. g \in 0 .. gen /\ <<g, v>> # None
    BY <1>2, EndpointFacts
  <2>2. <<g, v>> \in Observations
    <3> DEFINE G == 0 .. gen
               V == {"", "private", "sn1", "sn2"} \cup Dests
    <3>1. Observations = {None} \cup {<<h, u>> : h \in G, u \in V}
      BY DEF Observations
    <3>2. g \in G /\ v \in V
      BY <2>1 DEF Views
    <3> HIDE DEF G, V
    <3> QED BY <3>1, <3>2
  <2> QED BY <2>1, <2>2
<1>4. \A o \in Seens : UpTo(o, gen) => o \in Observations
  <2>1. None \in Observations
    BY DEF Observations
  <2> QED BY <1>3, <2>1 DEF Seens, UpTo
<1>5. {e.s1, e.s2, e.alt, e.cross, e.pub, rec} \subseteq Observations
  BY <1>1, <1>2, <1>4 DEF Sound, NoneAhead
<1>6. e.tries \in 0 .. MaxTries + 1 /\ e.rebuilds \in 0 .. MaxRebuilds
  BY <1>1, <1>2, NatAssumption DEF Counted
<1>7. ASSUME NEW m \in net PROVE m.to \in Observations \ {None}
  <2>1. m \in Messages /\ Fair(m, gen, sent)
    BY Worldly
  <2>2. m.to \in Endpoints
    BY <2>1 DEF Messages, Acks, Bounces, Fcs
  <2>3. m.to[1] = gen
    <3>1. CASE m \in Acks
      BY <1>1, <1>2, <2>1, <3>1, SeenFacts DEF Acks, Fair
    <3>2. CASE m \in Bounces
      BY <2>1, <3>2 DEF Bounces, Fair
    <3>3. CASE m \in Fcs
      <4>1. m.to = Seen(gen, "main1") /\ "main1" \in Dests
        BY <2>1, <3>3 DEF Fcs, Fair, Dests
      <4> QED BY <1>1, <1>2, <4>1, SeenFacts
    <3> QED BY <2>1, <3>1, <3>2, <3>3 DEF Messages
  <2> QED BY <1>2, <1>3, <2>2, <2>3
<1>8. TypeOK
  BY <1>2, <1>5, <1>6, <1>7 DEF TypeOK
<1>9. VerdictSound
  BY <1>1 DEF Sound, Opened, Kept, Proved, VerdictSound
<1> QED BY <1>8, <1>9 DEF VerdictHolds

\* The verdict nat_classify comes to is never better than the NAT, whatever the NAT is
\* like, however many attempts there are, and in whatever order, how late and if at all
\* the answers, the helpers' bounces and sn2's probes come in.
THEOREM VerdictIsSound == Spec => []VerdictHolds
<1>1. Init => NatInv
  BY InitSound
<1>2. NatInv /\ [Next]_vars => NatInv'
  BY StepSound
<1>3. NatInv => VerdictHolds
  BY SoundVerdict
<1> QED BY <1>1, <1>2, <1>3, PTL DEF Spec
=============================================================================
