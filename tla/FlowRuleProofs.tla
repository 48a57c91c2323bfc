--------------------------- MODULE FlowRuleProofs ---------------------------
(***************************************************************************)
(* The translation of flower rules, for every match the parser accepts,    *)
(* every sequence of actions and every word, port and tag value: what the  *)
(* accepted match authorises, what the engine rewrites, what the           *)
(* descriptor keeps of the 5-tuple, and which tags the CoS spreading       *)
(* touches.                                                                *)
(*                                                                         *)
(* The rewrite is a statement about three folds over the same actions:     *)
(* the parser's two passes and pedit. FoldRuns unrolls a fold into a run   *)
(* of single steps, and UpTo carries a relation along the runs; both rest  *)
(* on the least element of a set of numbers, not on an induction rule.     *)
(***************************************************************************)
EXTENDS FlowRule, WellFoundedInduction, SequenceTheorems, TLAPS

(***************************************************************************)
(* Matching.                                                               *)
(***************************************************************************)

\* What an accepted match constrains, flower's and the engine's reading agree
\* on: packet by packet, whatever keys and masks the rule came with.
LEMMA ParserExact ==
  ASSUME NEW x, parse_match_ok(x), NEW p \in Packets, p.l4 = "tcp" \/ p.flags = {}
  PROVE  EngineForwards(parse_match(x), p) <=> RuleMatches(x, p)
<1>1. /\ "BASIC" \in x.keys /\ "PORTS" \in x.keys /\ "IP" \notin x.keys
      /\ x.extra = {} /\ x.loose = {}
      /\ x.l4 \in {"tcp", "udp"} /\ x.n_proto \in {"ip", "ipv6"}
      /\ AddrKey[x.n_proto] \in x.keys
      /\ IF x.l4 = "tcp" THEN "TCP" \in x.keys /\ x.flags = {"FIN", "RST"}
                         ELSE "TCP" \notin x.keys
  BY DEF parse_match_ok, Supported, Required, Exact, TcpFlagsOk
<1>2. EngineForwards(parse_match(x), p) <=>
        /\ p.n_proto = x.n_proto /\ p.l4 = x.l4
        /\ p.src = "rule" /\ p.dst = "rule" /\ p.sport = "rule" /\ p.dport = "rule"
        /\ p.l4 = "tcp" => p.flags \cap {"FIN", "RST"} = {}
  BY DEF EngineForwards, parse_match
<1>3. RuleMatches(x, p) <=>
        /\ p.n_proto = x.n_proto /\ p.l4 = x.l4
        /\ AddrKey[p.n_proto] \in x.keys => p.src = "rule" /\ p.dst = "rule"
        /\ p.sport = "rule" /\ p.dport = "rule"
        /\ "TCP" \in x.keys /\ p.l4 = "tcp" => x.flags \cap p.flags = {}
  BY <1>1 DEF RuleMatches
<1> QED
  BY <1>1, <1>2, <1>3

(***************************************************************************)
(* Tags.                                                                   *)
(***************************************************************************)

\* On PPEv1 only the driver's own tags carry priority 7.
LEMMA PriorityMarksInternal ==
  ASSUME NEW x, v1_resolve_output(x).tag.pcp = 7
  PROVE  Internal(x.out_dev)
<1>1. CASE x.push /\ x.push_proto # "8021Q"
  BY <1>1 DEF v1_resolve_output, Reject, NoTag, Tag
<1>2. CASE ~ (x.push /\ x.push_proto # "8021Q")
  <2> DEFINE keep == IF x.pop THEN "MODIFY" ELSE "INSERT"
             act == IF x.pop THEN "DELETE" ELSE "INSERT"
             bare == IF x.pop THEN "DELETE" ELSE "NONE"
  <2>1. CASE x.out_dev \in {"vlan bridged", "no pvid"} /\ x.push
    <3>1. v1_resolve_output(x) = Out(1, keep, "DELETE", v1_push_tag(x))
      BY <1>2, <2>1, Zenon DEF v1_resolve_output
    <3> QED
      BY <3>1 DEF Out, v1_push_tag, Tag
  <2>2. CASE x.out_dev = "vlan bridged" /\ ~ x.push
    <3>1. v1_resolve_output(x) = Out(1, act, "NONE", Tag(Pvid, 0))
      BY <1>2, <2>2, Zenon DEF v1_resolve_output
    <3> QED
      BY <3>1 DEF Out, Tag
  <2>3. CASE x.out_dev = "no pvid" /\ ~ x.push
    <3>1. v1_resolve_output(x) = Reject
      BY <1>2, <2>3, Zenon DEF v1_resolve_output
    <3> QED
      BY <3>1 DEF Reject, NoTag, Tag
  <2>4. CASE x.out_dev = "fe"
    <3>1. v1_resolve_output(x) = IF x.push THEN Out(1, keep, "NONE", v1_push_tag(x))
                                 ELSE Out(1, bare, "NONE", NoTag)
      BY <1>2, <2>4, Zenon DEF v1_resolve_output
    <3> QED
      BY <3>1 DEF Out, v1_push_tag, NoTag, Tag
  <2>5. CASE x.out_dev \notin {"vlan bridged", "no pvid", "bridged", "standalone", "high port", "fe"}
    <3>1. v1_resolve_output(x) = Reject
      BY <1>2, <2>5, Zenon DEF v1_resolve_output
    <3> QED
      BY <3>1 DEF Reject, NoTag, Tag
  <2>6. CASE x.out_dev \in {"bridged", "standalone", "high port"}
    BY <2>6 DEF Internal
  <2> QED
    BY <2>1, <2>2, <2>3, <2>4, <2>5, <2>6
<1> QED
  BY <1>1, <1>2

LEMMA SpreadInternal ==
  ASSUME NEW x, NEW slot, NEW dsa, prepare_ok(x),
         spread(template(x).c.tag, slot, dsa) # template(x).c.tag
  PROVE  Internal(x.out_dev)
<1>1. gen = "v1" /\ template(x).c.tag.pcp = 7
  BY DEF spread
<1>2. template(x).c.tag = IF resolve_output(x).act1 \in {"INSERT", "MODIFY"}
                          THEN resolve_output(x).tag ELSE NoTag
  BY DEF template, build_ipv4, build_ipv6_5t, Common
<1>3. resolve_output(x).tag.pcp = 7
  BY <1>1, <1>2 DEF NoTag, Tag
<1> QED
  BY <1>1, <1>3, PriorityMarksInternal DEF resolve_output

(***************************************************************************)
(* Words and addresses.                                                    *)
(***************************************************************************)

Half16 == {h \in Nat : h < 65536}
Words(n) == [1 .. n -> Half16]

LEMMA Bytes ==
  ASSUME NEW q \in 0 .. 255, NEW r \in 0 .. 255
  PROVE  (r * 256) + q \in Half16
  BY DEF Half16

LEMMA SwabInverse ==
  ASSUME NEW h \in Half16
  PROVE  swab16(h) \in Half16 /\ swab16(swab16(h)) = h
<1> DEFINE q == h \div 256
           r == h % 256
           v == (r * 256) + q
<1>1. q \in 0 .. 255 /\ r \in 0 .. 255 /\ h = (256 * q) + r
  BY DEF Half16
<1>2. swab16(h) = v
  BY DEF swab16
<1> HIDE DEF q, r
<1>3. v \in Half16
  BY <1>1, Bytes
<1>4. (v % 256) = q /\ (v \div 256) = r
  BY <1>1
<1> HIDE DEF v
<1>5. swab16(v) = (q * 256) + r
  BY <1>4 DEF swab16
<1> QED
  BY <1>1, <1>2, <1>3, <1>5

LEMMA Swab32Inverse ==
  ASSUME NEW w \in Words(2)
  PROVE  swab32(w) \in Words(2) /\ swab32(swab32(w)) = w
<1>1. w[1] \in Half16 /\ w[2] \in Half16 /\ w = <<w[1], w[2]>>
  BY DEF Words
<1>2. swab32(w) = <<swab16(w[2]), swab16(w[1])>>
  BY DEF swab32
<1>3. swab32(swab32(w)) = <<swab16(swab16(w[1])), swab16(swab16(w[2]))>>
  BY <1>2 DEF swab32
<1> QED
  BY <1>1, <1>2, <1>3, SwabInverse DEF Words

\* A 5-tuple as the parser leaves it.
KeyData(x) ==
  /\ x.n_proto \in {"ip", "ipv6"} /\ x.l4proto \in {"tcp", "udp"}
  /\ x.sport \in Half16 /\ x.dport \in Half16
  /\ x.src \in [1 .. 2 -> Words(2)] /\ x.dst \in [1 .. 2 -> Words(2)]
  /\ x.n_proto = "ip" => x.src[2] = ZeroWord /\ x.dst[2] = ZeroWord

\* The tuple survives both formats and their byte orders, for every address
\* and port.
LEMMA TemplateKeepsKey ==
  ASSUME NEW x, KeyData(x)
  PROVE  key_from_foe(template(x)) = key_from_data(x)
<1>1. /\ x.src[1] \in Words(2) /\ x.src[2] \in Words(2) /\ x.src = <<x.src[1], x.src[2]>>
      /\ x.dst[1] \in Words(2) /\ x.dst[2] \in Words(2) /\ x.dst = <<x.dst[1], x.dst[2]>>
  BY DEF KeyData
<1>2. htons(ntohs(x.sport)) = x.sport /\ htons(ntohs(x.dport)) = x.dport
  BY SwabInverse DEF KeyData, htons, ntohs
<1>3. (IF x.l4proto = "udp" THEN "udp" ELSE "tcp") = x.l4proto
  BY DEF KeyData
<1>4. CASE x.n_proto = "ip"
  <2> DEFINE f == build_ipv4(x, resolve_output(x))
  <2>1. template(x) = f /\ f.type = "HNAPT"
    BY <1>4 DEF template, build_ipv4
  <2>2. f.c.udp = (x.l4proto = "udp") /\ f.c.sport = ntohs(x.sport) /\ f.c.dport = ntohs(x.dport)
    BY DEF build_ipv4, Common
  <2>3. f.sip[1] = ntohl(x.src[1]) /\ f.dip[1] = ntohl(x.dst[1])
    BY DEF build_ipv4
  <2>4. <<htonl(f.sip[1]), ZeroWord>> = x.src /\ <<htonl(f.dip[1]), ZeroWord>> = x.dst
    <3>1. x.src[2] = ZeroWord /\ x.dst[2] = ZeroWord
      BY <1>4 DEF KeyData
    <3>2. htonl(f.sip[1]) = x.src[1] /\ htonl(f.dip[1]) = x.dst[1]
      BY <1>1, <2>3, Swab32Inverse DEF htonl, ntohl
    <3> QED
      BY <1>1, <3>1, <3>2
  <2> HIDE DEF f
  <2>5. key_from_foe(f) =
          [n_proto |-> "ip", ip_proto |-> IF x.l4proto = "udp" THEN "udp" ELSE "tcp",
           src_port |-> x.sport, dst_port |-> x.dport, src |-> x.src, dst |-> x.dst]
    BY <1>2, <2>1, <2>2, <2>4 DEF key_from_foe
  <2> QED
    BY <1>3, <1>4, <2>1, <2>5 DEF key_from_data
<1>5. CASE x.n_proto = "ipv6"
  <2> DEFINE f == build_ipv6_5t(x, resolve_output(x))
  <2>1. template(x) = f /\ f.type = "IPV6_5T"
    BY <1>5 DEF template, build_ipv6_5t
  <2>2. f.c.udp = (x.l4proto = "udp") /\ f.c.sport = ntohs(x.sport) /\ f.c.dport = ntohs(x.dport)
    BY DEF build_ipv6_5t, Common
  <2>3. f.sip = ipv6_to_foe(x.src) /\ f.dip = ipv6_to_foe(x.dst)
    BY DEF build_ipv6_5t
  <2>4. ipv6_from_foe(f.sip) = x.src /\ ipv6_from_foe(f.dip) = x.dst
    BY <1>1, <2>3, Swab32Inverse DEF ipv6_from_foe, ipv6_to_foe
  <2> HIDE DEF f
  <2>5. key_from_foe(f) =
          [n_proto |-> "ipv6", ip_proto |-> IF x.l4proto = "udp" THEN "udp" ELSE "tcp",
           src_port |-> x.sport, dst_port |-> x.dport, src |-> x.src, dst |-> x.dst]
    BY <1>2, <2>1, <2>2, <2>4 DEF key_from_foe
  <2> QED
    BY <1>3, <1>5, <2>1, <2>5 DEF key_from_data
<1> QED
  BY <1>4, <1>5 DEF KeyData

(***************************************************************************)
(* Folds over a sequence of actions.                                       *)
(***************************************************************************)

LEMMA LeastElement ==
  ASSUME NEW T \in SUBSET Nat, T # {}
  PROVE  \E n \in T : \A k \in T : n <= k
<1>1. PICK n \in T : \A k \in T : ~ (<<k, n>> \in OpToRel(<, Nat))
  BY NatLessThanWellFounded, WFMin
<1>2. \A k \in T : ~ (k < n)
  BY <1>1 DEF OpToRel
<1> QED
  BY <1>2

\* One action of a fold: of the parser's two passes, or of pedit.
Pass(k, x, a) ==
  IF k = "gather" THEN gather(x, a) ELSE IF k = "translate" THEN translate(x, a) ELSE Pedit(x, a)

\* A fold takes the last element off a prefix of the sequence's domain.
Top(s) == CHOOSE y \in s : \A z \in s : y >= z
IsFold(f, k, x, as, S) ==
  f = [s \in SUBSET S |->
         IF s = {} THEN x ELSE Pass(k, f[s \ {Top(s)}], as[Top(s)])]
FoldOf(k, x, as) == CHOOSE f : IsFold(f, k, x, as, DOMAIN as)

LEMMA FoldLeftOf ==
  ASSUME NEW x, NEW as
  PROVE  /\ FoldLeft(gather, x, as) = FoldOf("gather", x, as)[DOMAIN as]
         /\ FoldLeft(translate, x, as) = FoldOf("translate", x, as)[DOMAIN as]
         /\ FoldLeft(Pedit, x, as) = FoldOf("pedit", x, as)[DOMAIN as]
<1>1. FoldLeft(gather, x, as) = FoldOf("gather", x, as)[DOMAIN as]
  BY DEF FoldLeft, MapThenFoldSet, FoldOf, IsFold, Pass, Top, Max
<1>2. FoldLeft(translate, x, as) = FoldOf("translate", x, as)[DOMAIN as]
  BY DEF FoldLeft, MapThenFoldSet, FoldOf, IsFold, Pass, Top, Max
<1>3. FoldLeft(Pedit, x, as) = FoldOf("pedit", x, as)[DOMAIN as]
  BY DEF FoldLeft, MapThenFoldSet, FoldOf, IsFold, Pass, Top, Max
<1> QED
  BY <1>1, <1>2, <1>3

LEMMA TopOf ==
  ASSUME NEW n \in Nat, NEW s \in SUBSET (1 .. n), n \in s
  PROVE  Top(s) = n
<1>1. n \in s /\ \A z \in s : n >= z
  OBVIOUS
<1>2. Top(s) \in s /\ \A z \in s : Top(s) >= z
  BY <1>1 DEF Top
<1>3. Top(s) \in 1 .. n /\ Top(s) >= n /\ n >= Top(s)
  BY <1>1, <1>2
<1> HIDE DEF Top
<1> QED
  BY <1>3

LEMMA FoldExists ==
  ASSUME NEW k, NEW x, NEW as, NEW n \in Nat
  PROVE  \E f : IsFold(f, k, x, as, 1 .. n)
<1> DEFINE T == {i \in Nat : ~ \E f : IsFold(f, k, x, as, 1 .. i)}
<1> SUFFICES ASSUME T # {} PROVE FALSE
  OBVIOUS
<1>1. PICK i \in T : \A j \in T : i <= j
  <2>1. T \in SUBSET Nat
    OBVIOUS
  <2> HIDE DEF T
  <2> QED
    BY <2>1, LeastElement
<1>2. CASE i = 0
  <2> DEFINE f == [s \in SUBSET {} |-> x]
  <2>1. 1 .. i = {} 
    BY <1>2
  <2>2. IsFold(f, k, x, as, {})
    BY DEF IsFold
  <2> QED
    BY <2>1, <2>2
<1>3. CASE i # 0
  <2>1. i - 1 \in Nat /\ i - 1 \notin T /\ i \in Nat
    <3>1. i \in Nat /\ i - 1 \in Nat
      BY <1>3
    <3>2. ~ (i <= i - 1)
      BY <3>1
    <3> HIDE DEF T
    <3> QED
      BY <1>1, <3>1, <3>2
  <2>2. PICK g : IsFold(g, k, x, as, 1 .. i - 1)
    BY <2>1
  <2> HIDE DEF T
  <2> DEFINE f == [s \in SUBSET (1 .. i) |-> IF i \in s THEN Pass(k, g[s \ {i}], as[i]) ELSE g[s]]
  <2>3. ASSUME NEW s \in SUBSET (1 .. i)
        PROVE  f[s] = IF s = {} THEN x ELSE Pass(k, f[s \ {Top(s)}], as[Top(s)])
    <3>1. CASE i \in s
      <4>1. Top(s) = i
        BY <2>1, <3>1, TopOf
      <4>2. s \ {i} \in SUBSET (1 .. i) /\ i \notin s \ {i}
        OBVIOUS
      <4>3. f[s \ {i}] = g[s \ {i}]
        BY <4>2
      <4> QED
        BY <3>1, <4>1, <4>3
    <3>2. CASE i \notin s
      <4>1. s \in SUBSET (1 .. i - 1)
        BY <2>1, <3>2
      <4>2. f[s] = g[s]
        BY <3>2
      <4>3. g[s] = IF s = {} THEN x ELSE Pass(k, g[s \ {Top(s)}], as[Top(s)])
        BY <2>2, <4>1 DEF IsFold
      <4>4. s \ {Top(s)} \in SUBSET (1 .. i) /\ i \notin s \ {Top(s)}
        BY <3>2
      <4>5. f[s \ {Top(s)}] = g[s \ {Top(s)}]
        BY <4>4
      <4> HIDE DEF f
      <4> QED
        BY <4>2, <4>3, <4>5
    <3> QED
      BY <3>1, <3>2
  <2>4. f = [s \in SUBSET (1 .. i) |-> f[s]]
    OBVIOUS
  <2> HIDE DEF f
  <2>5. IsFold(f, k, x, as, 1 .. i)
    BY <2>3, <2>4 DEF IsFold
  <2> QED
    BY <2>5, <1>1 DEF T
<1> QED
  BY <1>2, <1>3

\* A fold goes over the sequence one action at a time.
Stepwise(k, x, as, n) ==
  \E g : /\ FoldOf(k, x, as)[DOMAIN as] = g[n]
        /\ g[0] = x
        /\ \A i \in 1 .. n : g[i] = Pass(k, g[i - 1], as[i])

LEMMA FoldRuns ==
  ASSUME NEW k, NEW x, NEW as, NEW n \in Nat, DOMAIN as = 1 .. n
  PROVE  Stepwise(k, x, as, n)
<1> DEFINE f == FoldOf(k, x, as)
           g == [i \in 0 .. n |-> f[1 .. i]]
<1>1. IsFold(f, k, x, as, 1 .. n)
  BY FoldExists DEF FoldOf
<1> HIDE DEF f
<1>2. \A s \in SUBSET (1 .. n) : f[s] = IF s = {} THEN x ELSE Pass(k, f[s \ {Top(s)}], as[Top(s)])
  BY <1>1 DEF IsFold
<1>3. f[{}] = x
  BY <1>2
<1>4. g[0] = x /\ g[n] = f[DOMAIN as]
  <2>1. 1 .. 0 = {}
    OBVIOUS
  <2> QED
    BY <1>3, <2>1
<1>5. ASSUME NEW i \in 1 .. n PROVE g[i] = Pass(k, g[i - 1], as[i])
  <2>1. 1 .. i \in SUBSET (1 .. n) /\ i \in 1 .. i /\ 1 .. i # {} /\ i \in Nat /\ i - 1 \in 0 .. n
    OBVIOUS
  <2>2. Top(1 .. i) = i
    BY <2>1, TopOf
  <2>3. (1 .. i) \ {i} = 1 .. i - 1
    OBVIOUS
  <2>4. f[1 .. i] = Pass(k, f[1 .. i - 1], as[i])
    BY <1>2, <2>1, <2>2, <2>3
  <2>5. g[i] = f[1 .. i] /\ g[i - 1] = f[1 .. i - 1]
    BY <2>1
  <2> HIDE DEF g
  <2> QED
    BY <2>4, <2>5
<1> QED
  BY <1>4, <1>5 DEF f, Stepwise

LEMMA UpTo ==
  ASSUME NEW n \in Nat, NEW S, 0 \in S, \A i \in 1 .. n : i - 1 \in S => i \in S
  PROVE  \A i \in 0 .. n : i \in S
<1> DEFINE T == (0 .. n) \ S
<1> SUFFICES ASSUME T # {} PROVE FALSE
  OBVIOUS
<1>1. T \in SUBSET Nat /\ T \in SUBSET (0 .. n)
  OBVIOUS
<1>2. PICK i \in T : \A j \in T : i <= j
  <2> HIDE DEF T
  <2> QED
    BY <1>1, LeastElement
<1>3. i \in 0 .. n /\ i # 0 /\ i \notin S
  OBVIOUS
<1>4. i \in 1 .. n /\ i - 1 \in 0 .. n /\ ~ (i <= i - 1)
  BY <1>3
<1>5. i - 1 \notin T
  <2> HIDE DEF T
  <2> QED
    BY <1>2, <1>4
<1> QED
  BY <1>3, <1>4, <1>5

(***************************************************************************)
(* One action of the parser's passes.                                      *)
(***************************************************************************)

\* What the flow API names in an action.
Names ==
  {"mangle", "redirect", "csum", "vlan push", "vlan pop", "pppoe push", "drop",
   "eth", "ip4", "ip6", "tcp", "udp", "null", "ip", "8021Q", "8021AD", "", "none"} \cup Devices

\* An action as the flow API hands it over, and the data it is gathered in.
AnyAct == [id : Names, sub : Names, off : Nat, half : {"both", "first", "second"}, val : Words(2)]
Data ==
  [err : BOOLEAN, n_proto : {"ip", "ipv6"}, l4proto : {"tcp", "udp"},
   src : [1 .. 2 -> Words(2)], dst : [1 .. 2 -> Words(2)], sport : Half16, dport : Half16,
   nsrc : [1 .. 2 -> Words(2)], ndst : [1 .. 2 -> Words(2)], nsport : Half16, ndport : Half16,
   h_dest : Words(3), h_source : Words(3), out_dev : Names, csum_seen : BOOLEAN,
   push : BOOLEAN, push_proto : Names, push_tag : [vid : Half16, pcp : Half16], pop : BOOLEAN,
   pppoe : BOOLEAN, sid : Half16]

KeyOf(x) == <<x.n_proto, x.l4proto, x.src, x.dst, x.sport, x.dport>>
NatOf(x) == <<x.nsrc, x.ndst, x.nsport, x.ndport>>
MacOf(x) == <<x.h_dest, x.h_source>>

\* The words of the two MAC addresses as they follow each other in a header,
\* and what an action makes of the word at an index.
MacWord(x, j) == IF j < 3 THEN x.h_dest[j + 1] ELSE x.h_source[j - 2]
Covers(a, j) == \/ j = a.off \div 2 /\ a.half # "second"
                \/ j = (a.off \div 2) + 1 /\ a.half # "first"
Word(a, j) == IF j = a.off \div 2 THEN a.val[1] ELSE a.val[2]

LEMMA MangleEthStep ==
  ASSUME NEW x \in Data, NEW a \in AnyAct, ~ mangle_eth(x, a).err
  PROVE  /\ mangle_eth(x, a) \in Data
         /\ KeyOf(mangle_eth(x, a)) = KeyOf(x) /\ NatOf(mangle_eth(x, a)) = NatOf(x)
         /\ \A j \in 0 .. 5 : MacWord(mangle_eth(x, a), j) =
                                IF Covers(a, j) THEN Word(a, j) ELSE MacWord(x, j)
<1>0. a.val[1] \in Half16 /\ a.val[2] \in Half16
  BY DEF AnyAct, Words
<1> HIDE DEF Half16
<1>1. CASE a.off = 0 /\ a.half = "both"
  <2> DEFINE u == [x EXCEPT !.h_dest[1] = a.val[1]]
             y == [u EXCEPT !.h_dest[2] = a.val[2]]
  <2>1. mangle_eth(x, a) = y
    <3>1. mangle_eth(x, a) = [x EXCEPT !.h_dest[1] = a.val[1], !.h_dest[2] = a.val[2]]
      BY <1>1, SMT DEF mangle_eth
    <3> QED
      BY <3>1 DEF Data, Words
  <2>2. u \in Data
    BY <1>0 DEF Data, Words
  <2>3. y \in Data
    <3> HIDE DEF u
    <3> QED
      BY <1>0, <2>2 DEF Data, Words
  <2>4. KeyOf(y) = KeyOf(x) /\ NatOf(y) = NatOf(x) /\ y.h_source = x.h_source
    BY DEF KeyOf, NatOf, Data
  <2>5. y.h_dest[1] = a.val[1] /\ y.h_dest[2] = a.val[2] /\ y.h_dest[3] = x.h_dest[3]
    BY DEF Data, Words
  <2> HIDE DEF y
  <2>6. a.off \div 2 = 0
    BY <1>1
  <2> QED
    BY <1>1, <2>1, <2>3, <2>4, <2>5, <2>6 DEF MacWord, Covers, Word
<1>2. CASE a.off = 4 /\ a.half = "first"
  <2> DEFINE y == [x EXCEPT !.h_dest[3] = a.val[1]]
  <2>1. mangle_eth(x, a) = y
    BY <1>2, Zenon DEF mangle_eth
  <2>3. y \in Data
    BY <1>0 DEF Data, Words
  <2>4. KeyOf(y) = KeyOf(x) /\ NatOf(y) = NatOf(x) /\ y.h_source = x.h_source
    BY DEF KeyOf, NatOf, Data
  <2>5. y.h_dest[1] = x.h_dest[1] /\ y.h_dest[2] = x.h_dest[2] /\ y.h_dest[3] = a.val[1]
    BY DEF Data, Words
  <2> HIDE DEF y
  <2>6. a.off \div 2 = 2
    BY <1>2
  <2> QED
    BY <1>2, <2>1, <2>3, <2>4, <2>5, <2>6 DEF MacWord, Covers, Word
<1>3. CASE a.off = 4 /\ a.half = "second"
  <2> DEFINE y == [x EXCEPT !.h_source[1] = a.val[2]]
  <2>1. mangle_eth(x, a) = y
    BY <1>3, Zenon DEF mangle_eth
  <2>3. y \in Data
    BY <1>0 DEF Data, Words
  <2>4. KeyOf(y) = KeyOf(x) /\ NatOf(y) = NatOf(x) /\ y.h_dest = x.h_dest
    BY DEF KeyOf, NatOf, Data
  <2>5. y.h_source[1] = a.val[2] /\ y.h_source[2] = x.h_source[2] /\ y.h_source[3] = x.h_source[3]
    BY DEF Data, Words
  <2> HIDE DEF y
  <2>6. a.off \div 2 = 2
    BY <1>3
  <2> QED
    BY <1>3, <2>1, <2>3, <2>4, <2>5, <2>6 DEF MacWord, Covers, Word
<1>4. CASE a.off = 8 /\ a.half = "both"
  <2> DEFINE u == [x EXCEPT !.h_source[2] = a.val[1]]
             y == [u EXCEPT !.h_source[3] = a.val[2]]
  <2>1. mangle_eth(x, a) = y
    <3>1. mangle_eth(x, a) = [x EXCEPT !.h_source[2] = a.val[1], !.h_source[3] = a.val[2]]
      BY <1>4, SMT DEF mangle_eth
    <3> QED
      BY <3>1 DEF Data, Words
  <2>2. u \in Data
    BY <1>0 DEF Data, Words
  <2>3. y \in Data
    <3> HIDE DEF u
    <3> QED
      BY <1>0, <2>2 DEF Data, Words
  <2>4. KeyOf(y) = KeyOf(x) /\ NatOf(y) = NatOf(x) /\ y.h_dest = x.h_dest
    BY DEF KeyOf, NatOf, Data
  <2>5. y.h_source[1] = x.h_source[1] /\ y.h_source[2] = a.val[1] /\ y.h_source[3] = a.val[2]
    BY DEF Data, Words
  <2> HIDE DEF y
  <2>6. a.off \div 2 = 4
    BY <1>4
  <2> QED
    BY <1>4, <2>1, <2>3, <2>4, <2>5, <2>6 DEF MacWord, Covers, Word
<1>5. CASE ~ \/ a.off = 0 /\ a.half = "both"
             \/ a.off = 4 /\ a.half = "first"
             \/ a.off = 4 /\ a.half = "second"
             \/ a.off = 8 /\ a.half = "both"
  <2>1. mangle_eth(x, a) = Failed(x)
    BY <1>5, Zenon DEF mangle_eth
  <2> QED
    BY <2>1 DEF Failed, Data
<1> QED
  BY <1>1, <1>2, <1>3, <1>4, <1>5

LEMMA GatherStep ==
  ASSUME NEW x \in Data, NEW a \in AnyAct, ~ gather(x, a).err
  PROVE  /\ ~ x.err /\ gather(x, a) \in Data
         /\ KeyOf(gather(x, a)) = KeyOf(x) /\ NatOf(gather(x, a)) = NatOf(x)
         /\ \A j \in 0 .. 5 : MacWord(gather(x, a), j) =
              IF a.id = "mangle" /\ a.sub = "eth" /\ Covers(a, j) THEN Word(a, j) ELSE MacWord(x, j)
<1> DEFINE y == gather(x, a)
           Same == /\ y \in Data
                   /\ KeyOf(y) = KeyOf(x) /\ NatOf(y) = NatOf(x) /\ MacOf(y) = MacOf(x)
<1>0. a.val[1] \in Half16 /\ a.val[2] \in Half16 /\ a.sub \in Names
  BY DEF AnyAct, Words
<1> HIDE DEF Half16
<1>1. ~ x.err
  <2>1. CASE x.err
    <3>1. y = x
      BY <2>1, Zenon DEF gather
    <3> QED
      BY <2>1, <3>1
  <2> QED
    BY <2>1
<1>2. y # Failed(x)
  BY DEF Failed, Data
<1>3. CASE a.id = "mangle" /\ a.sub = "eth"
  <2>1. y = mangle_eth(x, a)
    BY <1>1, <1>3, Zenon DEF gather
  <2> QED
    BY <1>1, <1>3, <2>1, MangleEthStep
<1>4. ASSUME Same, ~ (a.id = "mangle" /\ a.sub = "eth")
      PROVE  /\ y \in Data
             /\ KeyOf(y) = KeyOf(x) /\ NatOf(y) = NatOf(x)
             /\ \A j \in 0 .. 5 : MacWord(y, j) =
                  IF a.id = "mangle" /\ a.sub = "eth" /\ Covers(a, j) THEN Word(a, j)
                                                                      ELSE MacWord(x, j)
  <2>1. y.h_dest = x.h_dest /\ y.h_source = x.h_source
    BY <1>4 DEF MacOf
  <2>2. \A j \in 0 .. 5 : MacWord(y, j) = MacWord(x, j)
    BY <2>1 DEF MacWord
  <2> HIDE DEF y
  <2> QED
    BY <1>4, <2>2
<1>5. CASE a.id = "mangle" /\ a.sub # "eth"
  <2>1. y = x
    BY <1>1, <1>5, Zenon DEF gather
  <2> QED
    BY <1>1, <1>4, <1>5, <2>1
<1>6. CASE a.id = "redirect"
  <2>1. y = IF a.sub = "null" \/ x.out_dev # "none" THEN Failed(x) ELSE [x EXCEPT !.out_dev = a.sub]
    BY <1>1, <1>6, Zenon DEF gather
  <2>2. y = [x EXCEPT !.out_dev = a.sub]
    BY <1>2, <2>1
  <2>3. Same
    BY <1>0, <2>2 DEF Data, KeyOf, NatOf, MacOf
  <2> QED
    BY <1>1, <1>4, <1>6, <2>3
<1>7. CASE a.id = "csum"
  <2>1. y = IF x.csum_seen \/ ~ validate_csum(x, a) THEN Failed(x) ELSE [x EXCEPT !.csum_seen = TRUE]
    BY <1>1, <1>7, Zenon DEF gather
  <2>2. y = [x EXCEPT !.csum_seen = TRUE]
    BY <1>2, <2>1
  <2>3. Same
    BY <1>0, <2>2 DEF Data, KeyOf, NatOf, MacOf
  <2> QED
    BY <1>1, <1>4, <1>7, <2>3
<1>8. CASE a.id = "vlan push"
  <2> DEFINE w == Tag(a.val[1], a.val[2])
  <2>1. y = IF x.push THEN Failed(x)
            ELSE [x EXCEPT !.push = TRUE, !.push_proto = a.sub, !.push_tag = w]
    BY <1>1, <1>8, Zenon DEF gather
  <2>2. y = [x EXCEPT !.push = TRUE, !.push_proto = a.sub, !.push_tag = w]
    BY <1>2, <2>1
  <2>3. w \in [vid : Half16, pcp : Half16]
    BY <1>0 DEF Tag
  <2> HIDE DEF w
  <2>4. Same
    BY <1>0, <2>2, <2>3 DEF Data, KeyOf, NatOf, MacOf
  <2> QED
    BY <1>1, <1>4, <1>8, <2>4
<1>9. CASE a.id = "vlan pop"
  <2>1. y = IF x.pop THEN Failed(x) ELSE [x EXCEPT !.pop = TRUE]
    BY <1>1, <1>9, Zenon DEF gather
  <2>2. y = [x EXCEPT !.pop = TRUE]
    BY <1>2, <2>1
  <2>3. Same
    BY <1>0, <2>2 DEF Data, KeyOf, NatOf, MacOf
  <2> QED
    BY <1>1, <1>4, <1>9, <2>3
<1>10. CASE a.id = "pppoe push"
  <2>1. y = IF x.pppoe THEN Failed(x) ELSE [x EXCEPT !.pppoe = TRUE, !.sid = a.val[1]]
    BY <1>1, <1>10, Zenon DEF gather
  <2>2. y = [x EXCEPT !.pppoe = TRUE, !.sid = a.val[1]]
    BY <1>2, <2>1
  <2>3. Same
    BY <1>0, <2>2 DEF Data, KeyOf, NatOf, MacOf
  <2> QED
    BY <1>1, <1>4, <1>10, <2>3
<1>11. CASE a.id \notin {"mangle", "redirect", "csum", "vlan push", "vlan pop", "pppoe push"}
  <2>1. y = Failed(x)
    BY <1>1, <1>11, Zenon DEF gather
  <2> QED
    BY <1>2, <2>1
<1> QED
  BY <1>3, <1>5, <1>6, <1>7, <1>8, <1>9, <1>10, <1>11

LEMMA TranslateStep ==
  ASSUME NEW x \in Data, NEW a \in AnyAct, ~ translate(x, a).err
  PROVE  /\ ~ x.err /\ translate(x, a) \in Data
         /\ KeyOf(translate(x, a)) = KeyOf(x) /\ MacOf(translate(x, a)) = MacOf(x)
         /\ \/ (a.id # "mangle" \/ a.sub = "eth") /\ translate(x, a) = x
            \/ /\ a.id = "mangle" /\ a.sub = "ip4" /\ a.half = "both" /\ x.n_proto = "ip"
               /\ \/ a.off = 12 /\ translate(x, a) = [x EXCEPT !.nsrc[1] = a.val]
                  \/ a.off = 16 /\ translate(x, a) = [x EXCEPT !.ndst[1] = a.val]
            \/ /\ a.id = "mangle" /\ a.sub \in {"tcp", "udp"} /\ a.off = 0
               /\ \/ a.half = "first" /\ translate(x, a) = [x EXCEPT !.nsport = a.val[1]]
                  \/ a.half = "second" /\ translate(x, a) = [x EXCEPT !.ndport = a.val[2]]
<1> DEFINE y == translate(x, a)
           Typed == y \in Data /\ KeyOf(y) = KeyOf(x) /\ MacOf(y) = MacOf(x)
<1>0. a.val \in Words(2) /\ a.val[1] \in Half16 /\ a.val[2] \in Half16
  BY DEF AnyAct, Words
<1> HIDE DEF Half16
<1>1. ~ x.err
  <2>1. CASE x.err
    <3>1. y = x
      BY <2>1, Zenon DEF translate
    <3> QED
      BY <2>1, <3>1
  <2> QED
    BY <2>1
<1>2. y # Failed(x)
  BY DEF Failed, Data
<1>3. CASE a.id # "mangle" \/ a.sub = "eth"
  <2>1. y = x
    BY <1>3, Zenon DEF translate
  <2> QED
    BY <1>1, <1>3, <2>1
<1>4. CASE a.id = "mangle" /\ a.sub = "ip4"
  <2>1. y = mangle_ipv4(x, a)
    BY <1>1, <1>4, SMT DEF translate
  <2>2. x.n_proto = "ip" /\ a.half = "both"
    BY <1>2, <2>1 DEF mangle_ipv4
  <2>3. CASE a.off = 12
    <3>1. y = [x EXCEPT !.nsrc[1] = a.val]
      BY <2>1, <2>2, <2>3, SMT DEF mangle_ipv4
    <3>2. Typed
      BY <1>0, <3>1 DEF Data, KeyOf, MacOf
    <3> QED
      BY <1>1, <1>4, <2>2, <2>3, <3>1, <3>2
  <2>4. CASE a.off = 16
    <3>1. y = [x EXCEPT !.ndst[1] = a.val]
      BY <2>1, <2>2, <2>4, SMT DEF mangle_ipv4
    <3>2. Typed
      BY <1>0, <3>1 DEF Data, KeyOf, MacOf
    <3> QED
      BY <1>1, <1>4, <2>2, <2>4, <3>1, <3>2
  <2>5. CASE a.off \notin {12, 16}
    <3>1. y = Failed(x)
      BY <2>1, <2>2, <2>5, SMT DEF mangle_ipv4
    <3> QED
      BY <1>2, <3>1
  <2> QED
    BY <2>3, <2>4, <2>5
<1>5. CASE a.id = "mangle" /\ a.sub \in {"tcp", "udp"}
  <2>1. y = IF a.sub = x.l4proto THEN mangle_ports(x, a) ELSE Failed(x)
    BY <1>1, <1>5, SMT DEF translate
  <2>2. y = mangle_ports(x, a)
    BY <1>2, <2>1
  <2>3. CASE a.off = 0 /\ a.half = "first"
    <3>1. y = [x EXCEPT !.nsport = a.val[1]]
      BY <2>2, <2>3, SMT DEF mangle_ports
    <3>2. Typed
      BY <1>0, <3>1 DEF Data, KeyOf, MacOf
    <3> QED
      BY <1>1, <1>5, <2>3, <3>1, <3>2
  <2>4. CASE a.off = 0 /\ a.half = "second"
    <3>1. y = [x EXCEPT !.ndport = a.val[2]]
      BY <2>2, <2>4, SMT DEF mangle_ports
    <3>2. Typed
      BY <1>0, <3>1 DEF Data, KeyOf, MacOf
    <3> QED
      BY <1>1, <1>5, <2>4, <3>1, <3>2
  <2>5. CASE ~ (a.off = 0 /\ a.half \in {"first", "second"})
    <3>1. y = Failed(x)
      BY <2>2, <2>5, SMT DEF mangle_ports
    <3> QED
      BY <1>2, <3>1
  <2> QED
    BY <2>3, <2>4, <2>5
<1>6. CASE a.id = "mangle" /\ a.sub \notin {"eth", "ip4", "tcp", "udp"}
  <2>1. y = Failed(x)
    BY <1>1, <1>6, SMT DEF translate
  <2> QED
    BY <1>2, <2>1
<1> QED
  BY <1>3, <1>4, <1>5, <1>6

(***************************************************************************)
(* The headers, step by step.                                              *)
(***************************************************************************)

Headers == [eth : [0 .. 5 -> Half16], ip4 : [6 .. 9 -> Half16],
            ip6 : [4 .. 11 -> Half16], l4 : [0 .. 1 -> Half16]]

Rewrite(f, a) == [j \in DOMAIN f |-> IF Covers(a, j) THEN Word(a, j) ELSE f[j]]

LEMMA RewriteTyped ==
  ASSUME NEW S, NEW f \in [S -> Half16], NEW a \in AnyAct
  PROVE  /\ Rewrite(f, a) \in [S -> Half16]
         /\ \A j \in S : Rewrite(f, a)[j] = IF Covers(a, j) THEN Word(a, j) ELSE f[j]
<1>1. a.val[1] \in Half16 /\ a.val[2] \in Half16
  BY DEF AnyAct, Words
<1>2. \A j : Word(a, j) \in Half16
  BY <1>1 DEF Word
<1> HIDE DEF Half16
<1> QED
  BY <1>2 DEF Rewrite

LEMMA PeditStep ==
  ASSUME NEW h \in Headers, NEW a \in AnyAct
  PROVE  /\ a.id # "mangle" => Pedit(h, a) = h
         /\ a.id = "mangle" /\ a.sub = "eth" => Pedit(h, a) = [h EXCEPT !.eth = Rewrite(h.eth, a)]
         /\ a.id = "mangle" /\ a.sub = "ip4" => Pedit(h, a) = [h EXCEPT !.ip4 = Rewrite(h.ip4, a)]
         /\ a.id = "mangle" /\ a.sub \in {"tcp", "udp"}
              => Pedit(h, a) = [h EXCEPT !.l4 = Rewrite(h.l4, a)]
<1> DEFINE Cell(f, j) ==
             IF j = a.off \div 2 /\ a.half # "second" THEN a.val[1]
             ELSE IF j = (a.off \div 2) + 1 /\ a.half # "first" THEN a.val[2]
             ELSE f[j]
<1>1. ASSUME NEW f PROVE [j \in DOMAIN f |-> Cell(f, j)] = Rewrite(f, a)
  <2>1. a.off \in Nat /\ a.off \div 2 \in Int
    BY DEF AnyAct
  <2>2. \A j : Cell(f, j) = IF Covers(a, j) THEN Word(a, j) ELSE f[j]
    BY <2>1 DEF Covers, Word
  <2> HIDE DEF Cell
  <2> QED
    BY <2>2 DEF Rewrite
<1>2. CASE a.id # "mangle"
  BY <1>2 DEF Pedit
<1>3. CASE a.id = "mangle" /\ a.sub = "eth"
  <2>1. Pedit(h, a) = [h EXCEPT !.eth = [j \in DOMAIN h.eth |-> Cell(h.eth, j)]]
    BY <1>3 DEF Pedit
  <2> HIDE DEF Cell
  <2> QED
    BY <1>1, <1>3, <2>1
<1>4. CASE a.id = "mangle" /\ a.sub = "ip4"
  <2>1. Pedit(h, a) = [h EXCEPT !.ip4 = [j \in DOMAIN h.ip4 |-> Cell(h.ip4, j)]]
    BY <1>4 DEF Pedit
  <2> HIDE DEF Cell
  <2> QED
    BY <1>1, <1>4, <2>1
<1>5. CASE a.id = "mangle" /\ a.sub \in {"tcp", "udp"}
  <2>1. Pedit(h, a) = [h EXCEPT !.l4 = [j \in DOMAIN h.l4 |-> Cell(h.l4, j)]]
    BY <1>5 DEF Pedit
  <2> HIDE DEF Cell
  <2> QED
    BY <1>1, <1>5, <2>1
<1>6. CASE a.id = "mangle" /\ a.sub \notin {"eth", "ip4", "tcp", "udp"}
  BY <1>6
<1> QED
  BY <1>2, <1>3, <1>4, <1>5, <1>6

\* The address and port words the parser has gathered are those in the header.
NatHeader(x, h) ==
  /\ h.ip4 = [i \in 6 .. 9 |-> IF i < 8 THEN x.nsrc[1][i - 5] ELSE x.ndst[1][i - 7]]
  /\ h.ip6 = [i \in 4 .. 11 |-> 1]
  /\ h.l4 = [i \in 0 .. 1 |-> IF i = 0 THEN x.nsport ELSE x.ndport]

LEMMA NatStep ==
  ASSUME NEW x \in Data, NEW h \in Headers, NEW a \in AnyAct,
         NatHeader(x, h), ~ translate(x, a).err
  PROVE  Pedit(h, a) \in Headers /\ NatHeader(translate(x, a), Pedit(h, a))
<1> DEFINE y == translate(x, a)
           k == Pedit(h, a)
<1>0. /\ a.val \in Words(2) /\ a.val[1] \in Half16 /\ a.val[2] \in Half16
      /\ x.nsrc[1] \in Words(2) /\ x.ndst[1] \in Words(2)
  BY DEF AnyAct, Words, Data
<1>t. /\ Rewrite(h.eth, a) \in [0 .. 5 -> Half16]
      /\ Rewrite(h.ip4, a) \in [6 .. 9 -> Half16]
      /\ \A j \in 6 .. 9 : Rewrite(h.ip4, a)[j] = IF Covers(a, j) THEN Word(a, j) ELSE h.ip4[j]
      /\ Rewrite(h.l4, a) \in [0 .. 1 -> Half16]
      /\ \A j \in 0 .. 1 : Rewrite(h.l4, a)[j] = IF Covers(a, j) THEN Word(a, j) ELSE h.l4[j]
  <2>1. h.eth \in [0 .. 5 -> Half16] /\ h.ip4 \in [6 .. 9 -> Half16] /\ h.l4 \in [0 .. 1 -> Half16]
    BY DEF Headers
  <2> HIDE DEF Half16
  <2> QED
    BY <2>1, RewriteTyped
<1> HIDE DEF Half16, y, k
<1>c. /\ \/ (a.id # "mangle" \/ a.sub = "eth") /\ y = x
         \/ /\ a.id = "mangle" /\ a.sub = "ip4" /\ a.half = "both"
            /\ \/ a.off = 12 /\ y = [x EXCEPT !.nsrc[1] = a.val]
               \/ a.off = 16 /\ y = [x EXCEPT !.ndst[1] = a.val]
         \/ /\ a.id = "mangle" /\ a.sub \in {"tcp", "udp"} /\ a.off = 0
            /\ \/ a.half = "first" /\ y = [x EXCEPT !.nsport = a.val[1]]
               \/ a.half = "second" /\ y = [x EXCEPT !.ndport = a.val[2]]
  BY TranslateStep DEF y
<1>p. /\ a.id # "mangle" => k = h
      /\ a.id = "mangle" /\ a.sub = "eth" => k = [h EXCEPT !.eth = Rewrite(h.eth, a)]
      /\ a.id = "mangle" /\ a.sub = "ip4" => k = [h EXCEPT !.ip4 = Rewrite(h.ip4, a)]
      /\ a.id = "mangle" /\ a.sub \in {"tcp", "udp"} => k = [h EXCEPT !.l4 = Rewrite(h.l4, a)]
  BY PeditStep DEF k
<1>1. k \in Headers
  BY <1>c, <1>p, <1>t DEF Headers
<1>2. CASE a.id # "mangle" \/ a.sub = "eth"
  <2>1. y = x
    BY <1>2, <1>c
  <2>2. k.ip4 = h.ip4 /\ k.ip6 = h.ip6 /\ k.l4 = h.l4
    BY <1>2, <1>p DEF Headers
  <2> QED
    BY <1>1, <2>1, <2>2 DEF NatHeader, y, k
<1>3. CASE a.id = "mangle" /\ a.sub = "ip4"
  <2>1. k.ip4 = Rewrite(h.ip4, a) /\ k.ip6 = h.ip6 /\ k.l4 = h.l4
    BY <1>3, <1>p DEF Headers
  <2>2. y.nsport = x.nsport /\ y.ndport = x.ndport
    BY <1>3, <1>c DEF Data
  <2>3. k.ip4 = [i \in 6 .. 9 |-> IF i < 8 THEN y.nsrc[1][i - 5] ELSE y.ndst[1][i - 7]]
    <3>1. \A i \in 6 .. 9 : h.ip4[i] = IF i < 8 THEN x.nsrc[1][i - 5] ELSE x.ndst[1][i - 7]
      BY DEF NatHeader
    <3>2. CASE a.off = 12
      <4>1. y.nsrc[1] = a.val /\ y.ndst = x.ndst
        BY <1>3, <1>c, <3>2 DEF Data
      <4>2. a.off \div 2 = 6 /\ a.half = "both"
        BY <1>3, <1>c, <3>2
      <4>3. \A i \in 6 .. 9 : Rewrite(h.ip4, a)[i] = IF i < 8 THEN a.val[i - 5] ELSE x.ndst[1][i - 7]
        BY <1>t, <3>1, <4>2 DEF Covers, Word
      <4> QED
        BY <1>t, <2>1, <4>1, <4>3
    <3>3. CASE a.off = 16
      <4>1. y.ndst[1] = a.val /\ y.nsrc = x.nsrc
        BY <1>3, <1>c, <3>3 DEF Data
      <4>2. a.off \div 2 = 8 /\ a.half = "both"
        BY <1>3, <1>c, <3>3
      <4>3. \A i \in 6 .. 9 : Rewrite(h.ip4, a)[i] = IF i < 8 THEN x.nsrc[1][i - 5] ELSE a.val[i - 7]
        BY <1>t, <3>1, <4>2 DEF Covers, Word
      <4> QED
        BY <1>t, <2>1, <4>1, <4>3
    <3> QED
      BY <1>3, <1>c, <3>2, <3>3
  <2> QED
    BY <1>1, <2>1, <2>2, <2>3 DEF NatHeader, y, k
<1>4. CASE a.id = "mangle" /\ a.sub \in {"tcp", "udp"}
  <2>1. k.l4 = Rewrite(h.l4, a) /\ k.ip6 = h.ip6 /\ k.ip4 = h.ip4
    BY <1>4, <1>p DEF Headers
  <2>2. y.nsrc = x.nsrc /\ y.ndst = x.ndst
    BY <1>4, <1>c DEF Data
  <2>3. a.off = 0 /\ a.off \div 2 = 0 /\ a.half \in {"first", "second"}
    BY <1>4, <1>c
  <2>4. k.l4 = [i \in 0 .. 1 |-> IF i = 0 THEN y.nsport ELSE y.ndport]
    <3>1. h.l4[0] = x.nsport /\ h.l4[1] = x.ndport
      BY DEF NatHeader
    <3>2. CASE a.half = "first"
      <4>1. y.nsport = a.val[1] /\ y.ndport = x.ndport
        BY <1>4, <1>c, <3>2 DEF Data
      <4>2. Rewrite(h.l4, a)[0] = a.val[1] /\ Rewrite(h.l4, a)[1] = x.ndport
        BY <1>t, <2>3, <3>1, <3>2 DEF Covers, Word
      <4> QED
        BY <1>t, <2>1, <4>1, <4>2
    <3>3. CASE a.half = "second"
      <4>1. y.nsport = x.nsport /\ y.ndport = a.val[2]
        BY <1>4, <1>c, <3>3 DEF Data
      <4>2. Rewrite(h.l4, a)[0] = x.nsport /\ Rewrite(h.l4, a)[1] = a.val[2]
        BY <1>t, <2>3, <3>1, <3>3 DEF Covers, Word
      <4> QED
        BY <1>t, <2>1, <4>1, <4>2
    <3> QED
      BY <2>3, <3>2, <3>3
  <2> QED
    BY <1>1, <2>1, <2>2, <2>4 DEF NatHeader, y, k
<1> QED
  BY <1>c, <1>2, <1>3, <1>4

LEMMA EthStep ==
  ASSUME NEW z \in Data, NEW h \in Headers, NEW a \in AnyAct, ~ translate(z, a).err
  PROVE  \A j \in 0 .. 5 : Pedit(h, a).eth[j] =
           IF a.id = "mangle" /\ a.sub = "eth" /\ Covers(a, j) THEN Word(a, j) ELSE h.eth[j]
<1>1. a.id = "mangle" => a.sub \in {"eth", "ip4", "tcp", "udp"}
  BY TranslateStep
<1>2. CASE a.id = "mangle" /\ a.sub = "eth"
  <2>1. Pedit(h, a) = [h EXCEPT !.eth = Rewrite(h.eth, a)]
    BY <1>2, PeditStep
  <2>2. Pedit(h, a).eth = Rewrite(h.eth, a)
    BY <2>1 DEF Headers
  <2>3. h.eth \in [0 .. 5 -> Half16]
    BY DEF Headers
  <2> HIDE DEF Half16
  <2> QED
    BY <1>2, <2>2, <2>3, RewriteTyped
<1>3. CASE ~ (a.id = "mangle" /\ a.sub = "eth")
  <2>1. Pedit(h, a).eth = h.eth
    <3>1. CASE a.id # "mangle"
      BY <3>1, PeditStep
    <3>2. CASE a.id = "mangle" /\ a.sub = "ip4"
      <4>1. Pedit(h, a) = [h EXCEPT !.ip4 = Rewrite(h.ip4, a)]
        BY <3>2, PeditStep
      <4> QED
        BY <4>1 DEF Headers
    <3>3. CASE a.id = "mangle" /\ a.sub \in {"tcp", "udp"}
      <4>1. Pedit(h, a) = [h EXCEPT !.l4 = Rewrite(h.l4, a)]
        BY <3>3, PeditStep
      <4> QED
        BY <4>1 DEF Headers
    <3> QED
      BY <1>1, <1>3, <3>1, <3>2, <3>3
  <2> QED
    BY <1>3, <2>1
<1> QED
  BY <1>2, <1>3

(***************************************************************************)
(* Whole passes over the actions.                                          *)
(***************************************************************************)

\* A pass, as FoldRuns gives it, over well-formed actions.
Run(k, g, as, n) ==
  /\ \A i \in 1 .. n : as[i] \in AnyAct
  /\ \A i \in 1 .. n : g[i] = Pass(k, g[i - 1], as[i])

\* A pass that ends without an error had none at any step, and kept what it
\* is not there to change.
LEMMA PassKeeps ==
  ASSUME NEW k \in {"gather", "translate"}, NEW n \in Nat, NEW g, NEW as,
         Run(k, g, as, n), g[0] \in Data, ~ g[n].err
  PROVE  \A i \in 0 .. n : /\ g[i] \in Data /\ ~ g[i].err /\ KeyOf(g[i]) = KeyOf(g[0])
                           /\ k = "gather" => NatOf(g[i]) = NatOf(g[0])
                           /\ k = "translate" => MacOf(g[i]) = MacOf(g[0])
<1>1. ASSUME NEW i \in 1 .. n, g[i - 1].err PROVE g[i].err
  <2>1. k = "gather" => g[i] = gather(g[i - 1], as[i])
    BY DEF Run, Pass
  <2>2. k = "translate" => g[i] = translate(g[i - 1], as[i])
    BY DEF Run, Pass
  <2>3. gather(g[i - 1], as[i]) = g[i - 1] /\ translate(g[i - 1], as[i]) = g[i - 1]
    BY <1>1, Zenon DEF gather, translate
  <2> QED
    BY <1>1, <2>1, <2>2, <2>3
<1>2. \A i \in 0 .. n : ~ g[i].err
  <2> DEFINE S == {j \in 0 .. n : ~ g[n - j].err}
  <2>1. 0 \in S
    OBVIOUS
  <2>2. ASSUME NEW j \in 1 .. n, j - 1 \in S PROVE j \in S
    <3>1. ~ g[n - (j - 1)].err
      BY <2>2
    <3>2. n - (j - 1) \in 1 .. n /\ (n - (j - 1)) - 1 = n - j /\ j \in 0 .. n
      OBVIOUS
    <3>3. ~ g[n - j].err
      BY <1>1, <3>1, <3>2
    <3> QED
      BY <3>2, <3>3
  <2> HIDE DEF S
  <2>3. \A j \in 0 .. n : j \in S
    BY <2>1, <2>2, UpTo
  <2>4. ASSUME NEW i \in 0 .. n PROVE ~ g[i].err
    <3>1. n - i \in 0 .. n /\ n - (n - i) = i
      OBVIOUS
    <3> QED
      BY <2>3, <3>1 DEF S
  <2> QED
    BY <2>4
<1> DEFINE S == {i \in 0 .. n : /\ g[i] \in Data /\ KeyOf(g[i]) = KeyOf(g[0])
                                /\ k = "gather" => NatOf(g[i]) = NatOf(g[0])
                                /\ k = "translate" => MacOf(g[i]) = MacOf(g[0])}
<1>3. 0 \in S
  OBVIOUS
<1>4. ASSUME NEW i \in 1 .. n, i - 1 \in S PROVE i \in S
  <2>0. g[i - 1] \in Data /\ i \in 0 .. n
    BY <1>4
  <2>1. i \in 0 .. n /\ ~ g[i].err /\ as[i] \in AnyAct /\ g[i - 1] \in Data
    BY <1>2, <2>0 DEF Run
  <2>2. CASE k = "gather"
    <3>1. g[i] = gather(g[i - 1], as[i])
      BY <2>2 DEF Run, Pass
    <3>2. g[i] \in Data /\ KeyOf(g[i]) = KeyOf(g[i - 1]) /\ NatOf(g[i]) = NatOf(g[i - 1])
      BY <2>1, <3>1, GatherStep
    <3> QED
      BY <1>4, <2>1, <2>2, <3>2
  <2>3. CASE k = "translate"
    <3>1. g[i] = translate(g[i - 1], as[i])
      BY <2>3 DEF Run, Pass
    <3>2. g[i] \in Data /\ KeyOf(g[i]) = KeyOf(g[i - 1]) /\ MacOf(g[i]) = MacOf(g[i - 1])
      <4>1. ~ translate(g[i - 1], as[i]).err
        BY <2>1, <3>1
      <4>2. /\ translate(g[i - 1], as[i]) \in Data
            /\ KeyOf(translate(g[i - 1], as[i])) = KeyOf(g[i - 1])
            /\ MacOf(translate(g[i - 1], as[i])) = MacOf(g[i - 1])
        BY <2>1, <4>1, TranslateStep
      <4> QED
        BY <3>1, <4>2
    <3> QED
      BY <1>4, <2>1, <2>3, <3>2
  <2> QED
    BY <2>2, <2>3
<1> HIDE DEF S
<1>5. \A i \in 0 .. n : i \in S
  BY <1>3, <1>4, UpTo
<1> QED
  BY <1>2, <1>5 DEF S

\* The parser's two passes and pedit, side by side over the same actions: at
\* the end the gathered addresses and ports are the header's, and the MAC
\* addresses are once both were rewritten as a whole.
LEMMA PassesRewrite ==
  ASSUME NEW n \in Nat, NEW as, NEW G, NEW T, NEW P,
         Run("gather", G, as, n), Run("translate", T, as, n), Run("pedit", P, as, n),
         G[0] \in Data, ~ G[n].err, T[0] = G[n], ~ T[n].err,
         P[0] \in Headers, NatHeader(G[0], P[0])
  PROVE  /\ P[n] \in Headers /\ NatHeader(T[n], P[n])
         /\ n >= 4 /\ (\A i \in 1 .. 4 : as[i] = EthRewrite[i])
              => \A j \in 0 .. 5 : P[n].eth[j] = MacWord(T[n], j)
<1>1. \A i \in 0 .. n : G[i] \in Data /\ ~ G[i].err /\ NatOf(G[i]) = NatOf(G[0])
  BY PassKeeps
<1>2. T[0] \in Data
  BY <1>1
<1>3. \A i \in 0 .. n : T[i] \in Data /\ ~ T[i].err /\ MacOf(T[i]) = MacOf(G[n])
  BY <1>2, PassKeeps
<1>4. NatHeader(T[0], P[0])
  <2>1. NatOf(T[0]) = NatOf(G[0])
    BY <1>1
  <2>2. /\ T[0].nsrc = G[0].nsrc /\ T[0].ndst = G[0].ndst
        /\ T[0].nsport = G[0].nsport /\ T[0].ndport = G[0].ndport
    BY <2>1 DEF NatOf
  <2> QED
    BY <2>2 DEF NatHeader
<1>5. ASSUME NEW i \in 1 .. n
      PROVE  /\ i \in 0 .. n /\ i - 1 \in 0 .. n /\ as[i] \in AnyAct
             /\ G[i] = gather(G[i - 1], as[i]) /\ T[i] = translate(T[i - 1], as[i])
             /\ P[i] = Pedit(P[i - 1], as[i])
  <2>1. i \in 0 .. n /\ i - 1 \in 0 .. n
    OBVIOUS
  <2>2. /\ as[i] \in AnyAct /\ G[i] = Pass("gather", G[i - 1], as[i])
        /\ T[i] = Pass("translate", T[i - 1], as[i]) /\ P[i] = Pass("pedit", P[i - 1], as[i])
    BY Zenon DEF Run
  <2>3. \A x, a : /\ Pass("gather", x, a) = gather(x, a)
                 /\ Pass("translate", x, a) = translate(x, a)
                 /\ Pass("pedit", x, a) = Pedit(x, a)
    BY DEF Pass
  <2> QED
    BY <2>1, <2>2, <2>3
<1> DEFINE S == {i \in 0 .. n : P[i] \in Headers /\ NatHeader(T[i], P[i])}
<1>6. 0 \in S
  BY <1>4
<1>7. ASSUME NEW i \in 1 .. n, i - 1 \in S PROVE i \in S
  <2>1. P[i - 1] \in Headers /\ NatHeader(T[i - 1], P[i - 1])
    BY <1>7
  <2>2. T[i - 1] \in Data /\ ~ translate(T[i - 1], as[i]).err /\ as[i] \in AnyAct
    BY <1>3, <1>5
  <2>3. /\ Pedit(P[i - 1], as[i]) \in Headers
        /\ NatHeader(translate(T[i - 1], as[i]), Pedit(P[i - 1], as[i]))
    BY <2>1, <2>2, NatStep
  <2>4. P[i] \in Headers /\ NatHeader(T[i], P[i])
    BY <1>5, <2>3
  <2> QED
    BY <1>5, <2>4
<1>8. \A i \in 0 .. n : P[i] \in Headers /\ NatHeader(T[i], P[i])
  <2> HIDE DEF S
  <2>1. \A i \in 0 .. n : i \in S
    BY <1>6, <1>7, UpTo
  <2> QED
    BY <2>1 DEF S
<1>9. ASSUME n >= 4, \A i \in 1 .. 4 : as[i] = EthRewrite[i]
      PROVE  \A j \in 0 .. 5 : P[n].eth[j] = MacWord(T[n], j)
  <2> DEFINE Covered(i, j) == as[i].id = "mangle" /\ as[i].sub = "eth" /\ Covers(as[i], j)
             U(j) == {i \in 0 .. n : (\E l \in 1 .. i : Covered(l, j))
                                        => P[i].eth[j] = MacWord(G[i], j)}
  <2>1. ASSUME NEW j \in 0 .. 5, NEW i \in 1 .. n, i - 1 \in U(j) PROVE i \in U(j)
    <3>1. /\ MacWord(G[i], j) = IF Covered(i, j) THEN Word(as[i], j) ELSE MacWord(G[i - 1], j)
          /\ P[i].eth[j] = IF Covered(i, j) THEN Word(as[i], j) ELSE P[i - 1].eth[j]
      <4>1. G[i - 1] \in Data /\ ~ gather(G[i - 1], as[i]).err /\ as[i] \in AnyAct
        BY <1>1, <1>5
      <4>2. /\ T[i - 1] \in Data /\ ~ translate(T[i - 1], as[i]).err /\ as[i] \in AnyAct
            /\ P[i - 1] \in Headers
        BY <1>3, <1>5, <1>8
      <4>3. MacWord(gather(G[i - 1], as[i]), j) =
              IF Covered(i, j) THEN Word(as[i], j) ELSE MacWord(G[i - 1], j)
        BY <4>1, GatherStep
      <4>4. Pedit(P[i - 1], as[i]).eth[j] =
              IF Covered(i, j) THEN Word(as[i], j) ELSE P[i - 1].eth[j]
        BY <4>2, EthStep
      <4> QED
        BY <1>5, <4>3, <4>4
    <3>2. ASSUME \E l \in 1 .. i : Covered(l, j) PROVE P[i].eth[j] = MacWord(G[i], j)
      <4>1. CASE Covered(i, j)
        BY <3>1, <4>1
      <4>2. CASE ~ Covered(i, j)
        <5>1. \E l \in 1 .. i - 1 : Covered(l, j)
          <6>1. PICK l \in 1 .. i : Covered(l, j)
            BY <3>2
          <6>2. l # i
            BY <4>2, <6>1
          <6> HIDE DEF Covered
          <6> QED
            BY <6>1, <6>2
        <5>2. P[i - 1].eth[j] = MacWord(G[i - 1], j)
          BY <2>1, <5>1
        <5> HIDE DEF Covered
        <5> QED
          BY <3>1, <4>2, <5>2
      <4> QED
        BY <4>1, <4>2
    <3> HIDE DEF Covered
    <3> QED
      BY <3>2
  <2>2. ASSUME NEW j \in 0 .. 5 PROVE \E l \in 1 .. n : Covered(l, j)
    <3>1. /\ as[1] = Mangle("eth", 0, "both") /\ as[2] = Mangle("eth", 4, "first")
          /\ as[3] = Mangle("eth", 4, "second") /\ as[4] = Mangle("eth", 8, "both")
      <4>1. 1 \in 1 .. 4 /\ 2 \in 1 .. 4 /\ 3 \in 1 .. 4 /\ 4 \in 1 .. 4
        OBVIOUS
      <4> QED
        BY <1>9, <4>1 DEF EthRewrite
    <3>2. 1 \in 1 .. n /\ 2 \in 1 .. n /\ 3 \in 1 .. n /\ 4 \in 1 .. n
      BY <1>9
    <3>3. Covered(1, 0) /\ Covered(1, 1)
      BY <3>1 DEF Covers, Mangle, Act
    <3>4. Covered(2, 2)
      BY <3>1 DEF Covers, Mangle, Act
    <3>5. Covered(3, 3)
      BY <3>1 DEF Covers, Mangle, Act
    <3>6. Covered(4, 4) /\ Covered(4, 5)
      BY <3>1 DEF Covers, Mangle, Act
    <3>7. j = 0 \/ j = 1 \/ j = 2 \/ j = 3 \/ j = 4 \/ j = 5
      OBVIOUS
    <3> HIDE DEF Covered
    <3> QED
      BY <3>2, <3>3, <3>4, <3>5, <3>6, <3>7
  <2>3. ASSUME NEW j \in 0 .. 5 PROVE P[n].eth[j] = MacWord(T[n], j)
    <3>1. 0 \in U(j)
      <4>1. 0 \in 0 .. n /\ ~ \E l \in 1 .. 0 : Covered(l, j)
        OBVIOUS
      <4> HIDE DEF Covered
      <4> QED
        BY <4>1
    <3> DEFINE V == U(j)
    <3>2. 0 \in V /\ \A i \in 1 .. n : i - 1 \in V => i \in V
      BY <2>1, <3>1
    <3>3. n \in V
      <4> HIDE DEF V
      <4>1. \A i \in 0 .. n : i \in V
        BY <3>2, UpTo
      <4> QED
        BY <4>1
    <3>4. P[n].eth[j] = MacWord(G[n], j)
      BY <2>2, <3>3
    <3>5. T[n].h_dest = G[n].h_dest /\ T[n].h_source = G[n].h_source
      <4>1. MacOf(T[n]) = MacOf(G[n])
        BY <1>3
      <4> QED
        BY <4>1 DEF MacOf
    <3> QED
      BY <3>4, <3>5 DEF MacWord
  <2> QED
    BY <2>3
<1> QED
  <2>1. P[n] \in Headers /\ NatHeader(T[n], P[n])
    BY <1>8
  <2> QED
    BY <1>9, <2>1

(***************************************************************************)
(* A rule from its match to its descriptor.                                *)
(***************************************************************************)

LEMMA ActsTyped ==
  /\ Acts \subseteq AnyAct
  /\ EthActs \subseteq Seq(AnyAct)
  /\ \A i \in 1 .. 4 : EthRewrite[i] \in AnyAct
  /\ Len(EthRewrite) = 4
<1>0. /\ {"mangle", "redirect", "csum", "vlan push", "vlan pop", "pppoe push", "drop"} \subseteq Names
      /\ {"eth", "ip4", "ip6", "tcp", "udp", "null", "ip", "8021Q", "8021AD", ""} \subseteq Names
      /\ Devices \subseteq Names
  BY DEF Names
<1> HIDE DEF Names
<1>1. ASSUME NEW id \in Names, NEW sub \in Names, NEW off \in Nat,
             NEW half \in {"both", "first", "second"}, NEW w \in Words(2)
      PROVE  Act(id, sub, off, half, w) \in AnyAct
  BY DEF Act, AnyAct
<1>2. /\ <<0, 0>> \in Words(2) /\ <<10, 7>> \in Words(2) /\ <<10, 0>> \in Words(2)
      /\ <<99, 0>> \in Words(2) /\ <<5171, 5685>> \in Words(2)
  <2>1. /\ 0 \in Half16 /\ 7 \in Half16 /\ 10 \in Half16 /\ 99 \in Half16
        /\ 5171 \in Half16 /\ 5685 \in Half16
    BY DEF Half16
  <2> HIDE DEF Half16
  <2> QED
    BY <2>1 DEF Words
<1>3. ASSUME NEW sub \in Names, NEW off \in Nat, NEW half \in {"both", "first", "second"}
      PROVE  Mangle(sub, off, half) \in AnyAct
  <2> DEFINE w == <<5171, 5685>>
  <2>1. w \in Words(2)
    BY <1>2
  <2>2. Mangle(sub, off, half) = Act("mangle", sub, off, half, w)
    BY DEF Mangle
  <2> HIDE DEF w
  <2> QED
    <3>1. "mangle" \in Names
      BY <1>0
    <3> QED
      BY <2>1, <2>2, <3>1 DEF Act, AnyAct
<1>4. ASSUME NEW id \in Names, NEW sub \in Names, NEW w \in Words(2)
      PROVE  Plain(id, sub, w) \in AnyAct
  <2>1. Act(id, sub, 0, "both", w) \in AnyAct
    BY <1>1
  <2> QED
    BY <2>1 DEF Plain
<1>5. Acts \subseteq AnyAct
  <2> DEFINE w0 == <<0, 0>>
             w1 == <<10, 7>>
             w2 == <<10, 0>>
             w3 == <<99, 0>>
  <2>0. w0 \in Words(2) /\ w1 \in Words(2) /\ w2 \in Words(2) /\ w3 \in Words(2)
    BY <1>2
  <2> HIDE DEF w0, w1, w2, w3
  <2>1. /\ Mangle("ip4", 12, "both") \in AnyAct /\ Mangle("ip4", 16, "both") \in AnyAct
        /\ Mangle("ip4", 12, "first") \in AnyAct /\ Mangle("ip6", 8, "both") \in AnyAct
        /\ Mangle("eth", 4, "both") \in AnyAct /\ Mangle("tcp", 0, "first") \in AnyAct
        /\ Mangle("tcp", 0, "second") \in AnyAct /\ Mangle("udp", 0, "second") \in AnyAct
        /\ Mangle("tcp", 0, "both") \in AnyAct
    BY <1>0, <1>3
  <2>2. /\ Plain("redirect", "null", w0) \in AnyAct /\ Plain("csum", "ip", w0) \in AnyAct
        /\ Plain("csum", "udp", w0) \in AnyAct
        /\ Plain("vlan push", "8021Q", w1) \in AnyAct
        /\ Plain("vlan push", "8021AD", w2) \in AnyAct
        /\ Plain("vlan pop", "", w0) \in AnyAct
        /\ Plain("pppoe push", "", w3) \in AnyAct /\ Plain("drop", "", w0) \in AnyAct
    BY <1>0, <1>4, <2>0
  <2>3. \A dev \in Devices : Plain("redirect", dev, w0) \in AnyAct
    BY <1>0, <1>4, <2>0
  <2> QED
    BY <2>1, <2>2, <2>3 DEF Acts, w0, w1, w2, w3
<1>6. EthRewrite \in Seq(AnyAct) /\ Len(EthRewrite) = 4
  <2>1. /\ Mangle("eth", 0, "both") \in AnyAct /\ Mangle("eth", 4, "first") \in AnyAct
        /\ Mangle("eth", 4, "second") \in AnyAct /\ Mangle("eth", 8, "both") \in AnyAct
    BY <1>0, <1>3
  <2> HIDE DEF AnyAct
  <2> QED
    BY <2>1 DEF EthRewrite
<1>7. \A i \in 1 .. 4 : EthRewrite[i] \in AnyAct
  BY <1>6
<1>8. SubSeq(EthRewrite, 3, 4) \in Seq(AnyAct)
  BY <1>7, SubSeqProperties
<1> QED
  BY <1>5, <1>6, <1>7, <1>8 DEF EthActs

LEMMA SeqShape ==
  ASSUME NEW S, NEW s \in Seq(S)
  PROVE  Len(s) \in Nat /\ DOMAIN s = 1 .. Len(s) /\ \A i \in 1 .. Len(s) : s[i] \in S
OBVIOUS

\* What the actions of an accepted rule leave: both passes ran through.
LEMMA ActionsTranslated ==
  ASSUME NEW x \in Data, NEW as \in Seq(AnyAct), ~ parse_actions(x, as).err
  PROVE  \E G, T : /\ Run("gather", G, as, Len(as)) /\ G[0] = x /\ ~ G[Len(as)].err
                   /\ Run("translate", T, as, Len(as)) /\ T[0] = G[Len(as)]
                   /\ T[Len(as)] = parse_actions(x, as)
<1> DEFINE n == Len(as)
           y == FoldLeft(gather, x, as)
<1> HIDE DEF y
<1>1. n \in Nat /\ DOMAIN as = 1 .. n /\ \A i \in 1 .. n : as[i] \in AnyAct
  BY SeqShape
<1> HIDE DEF n
<1>2. Stepwise("gather", x, as, n)
  BY <1>1, FoldRuns
<1>3. Stepwise("translate", y, as, n)
  BY <1>1, FoldRuns
<1>a. PICK G : /\ FoldOf("gather", x, as)[DOMAIN as] = G[n] /\ G[0] = x
               /\ \A i \in 1 .. n : G[i] = Pass("gather", G[i - 1], as[i])
  BY <1>2 DEF Stepwise
<1>b. PICK T : /\ FoldOf("translate", y, as)[DOMAIN as] = T[n] /\ T[0] = y
               /\ \A i \in 1 .. n : T[i] = Pass("translate", T[i - 1], as[i])
  BY <1>3 DEF Stepwise
<1>4. y = G[n] /\ FoldLeft(translate, y, as) = T[n]
  <2>1. FoldLeft(gather, x, as) = FoldOf("gather", x, as)[DOMAIN as]
    BY FoldLeftOf
  <2>2. FoldLeft(translate, y, as) = FoldOf("translate", y, as)[DOMAIN as]
    BY FoldLeftOf
  <2> QED
    BY <1>a, <1>b, <2>1, <2>2 DEF y
<1>5. Failed(x).err
  BY DEF Failed, Data
<1>6. /\ parse_actions(x, as) = FoldLeft(translate, y, as)
      /\ ~ y.err
  BY <1>5 DEF parse_actions, y
<1> QED
  BY <1>1, <1>a, <1>b, <1>4, <1>6 DEF Run, n

LEMMA MatchData ==
  ASSUME NEW x, parse_match_ok(x)
  PROVE  /\ parse_match(x) \in Data
         /\ KeyData(parse_match(x))
<1>1. x.l4 \in {"tcp", "udp"} /\ x.n_proto \in {"ip", "ipv6"}
  BY DEF parse_match_ok
<1>2. /\ 0 \in Half16 /\ 258 \in Half16 /\ 772 \in Half16 /\ 259 \in Half16 /\ 773 \in Half16
      /\ 1286 \in Half16 /\ 1800 \in Half16 /\ 1287 \in Half16 /\ 1801 \in Half16
      /\ SPort \in Half16 /\ DPort \in Half16
  BY DEF Half16, SPort, DPort
<1> HIDE DEF Half16
<1>3. \A p, q \in Half16 : <<p, q>> \in Words(2)
  BY DEF Words
<1>4. \A u, v \in Words(2) : <<u, v>> \in [1 .. 2 -> Words(2)]
  OBVIOUS
<1>5. ZeroWord \in Words(2)
  BY <1>2, <1>3 DEF ZeroWord
<1>6. Src[x.n_proto] \in [1 .. 2 -> Words(2)] /\ Dst[x.n_proto] \in [1 .. 2 -> Words(2)]
  <2>1. Src["ip"] \in [1 .. 2 -> Words(2)] /\ Dst["ip"] \in [1 .. 2 -> Words(2)]
    BY <1>2, <1>3, <1>4, <1>5 DEF Src, Dst
  <2>2. Src["ipv6"] \in [1 .. 2 -> Words(2)] /\ Dst["ipv6"] \in [1 .. 2 -> Words(2)]
    BY <1>2, <1>3, <1>4 DEF Src, Dst
  <2> QED
    BY <1>1, <2>1, <2>2
<1>7. x.n_proto = "ip" => Src[x.n_proto][2] = ZeroWord /\ Dst[x.n_proto][2] = ZeroWord
  BY DEF Src, Dst
<1>8. <<0, 0, 0>> \in Words(3) /\ NoTag \in [vid : Half16, pcp : Half16]
  BY <1>2 DEF Words, NoTag, Tag
<1> DEFINE y == parse_match(x)
<1>9. /\ y.src = Src[x.n_proto] /\ y.dst = Dst[x.n_proto] /\ y.sport = SPort /\ y.dport = DPort
      /\ y.n_proto = x.n_proto /\ y.l4proto = x.l4
  BY DEF parse_match
<1>10. KeyData(y)
  <2> HIDE DEF y
  <2> QED
    BY <1>1, <1>2, <1>6, <1>7, <1>9 DEF KeyData
<1>11. y \in Data
  <2> DEFINE src == Src[x.n_proto]
             dst == Dst[x.n_proto]
             zero == <<0, 0, 0>>
  <2>1. src \in [1 .. 2 -> Words(2)] /\ dst \in [1 .. 2 -> Words(2)] /\ zero \in Words(3)
    BY <1>6, <1>8
  <2>2. y = [err |-> FALSE, n_proto |-> x.n_proto, l4proto |-> x.l4,
             src |-> src, dst |-> dst, sport |-> SPort, dport |-> DPort,
             nsrc |-> src, ndst |-> dst, nsport |-> SPort, ndport |-> DPort,
             h_dest |-> zero, h_source |-> zero, out_dev |-> "none", csum_seen |-> FALSE,
             push |-> FALSE, push_proto |-> "none", push_tag |-> NoTag, pop |-> FALSE,
             pppoe |-> FALSE, sid |-> 0]
    BY DEF parse_match
  <2> HIDE DEF src, dst, zero, y
  <2> QED
    BY <1>1, <1>2, <1>8, <2>1, <2>2 DEF Data, Names
<1> QED
  BY <1>10, <1>11

(***************************************************************************)
(* The inductive invariant: what each stage of a rule still knows of the   *)
(* stages before it.                                                       *)
(***************************************************************************)

MatchedInv == pc = "matched" => m \in Matches /\ parse_match_ok(m) /\ d = parse_match(m)

ParsedInv ==
  pc \in {"parsed", "prepared", "bound"} =>
    /\ acts \in Seq(AnyAct) /\ ~ d.err
    /\ \E x \in Matches : parse_match_ok(x) /\ d = parse_actions(parse_match(x), acts)

PreparedInv == pc \in {"prepared", "bound"} => prepare_ok(d) /\ t = template(d)

BoundInv ==
  pc = "bound" => \E slot \in 0 .. 3, dsa \in BOOLEAN : b = [t EXCEPT !.c.tag = spread(@, slot, dsa)]

RuleIInv == MatchedInv /\ ParsedInv /\ PreparedInv /\ BoundInv

LEMMA RuleInit == Init => RuleIInv
  BY DEF Init, RuleIInv, MatchedInv, ParsedInv, PreparedInv, BoundInv

LEMMA FunIsSeq ==
  ASSUME NEW S, NEW n \in Nat, NEW s \in [1 .. n -> S]
  PROVE  s \in Seq(S)
OBVIOUS

LEMMA RuleActs ==
  ASSUME NEW eth \in EthActs, NEW n \in 0 .. MaxActs, NEW as \in [1 .. n -> Acts]
  PROVE  eth \o as \in Seq(AnyAct)
<1>1. eth \in Seq(AnyAct)
  BY ActsTyped
<1>2. as \in Seq(AnyAct)
  <2>1. n \in Nat
    BY RuleAssumption
  <2>2. as \in [1 .. n -> AnyAct]
    BY ActsTyped
  <2> HIDE DEF AnyAct
  <2> QED
    BY <2>1, <2>2, FunIsSeq
<1> QED
  BY <1>1, <1>2, ConcatProperties

LEMMA RuleStep ==
  ASSUME RuleIInv, [Next]_vars
  PROVE  RuleIInv'
<1> USE DEF RuleIInv, MatchedInv, ParsedInv, PreparedInv, BoundInv
<1>1. ASSUME NEW x \in Matches, replace_match(x) PROVE RuleIInv'
  BY <1>1 DEF replace_match
<1>2. ASSUME NEW eth \in EthActs, NEW n \in 0 .. MaxActs, NEW as \in [1 .. n -> Acts],
             replace_actions(eth \o as)
      PROVE  RuleIInv'
  <2> DEFINE al == eth \o as
             x == parse_actions(d, al)
  <2>1. al \in Seq(AnyAct)
    BY RuleActs
  <2> HIDE DEF al
  <2>2. pc = "matched" /\ m \in Matches /\ parse_match_ok(m) /\ d = parse_match(m)
    BY <1>2 DEF replace_actions
  <2>3. \/ ~ x.err /\ pc' = "parsed" /\ d' = x /\ acts' = al
        \/ pc' = "idle"
    BY <1>2 DEF replace_actions, al
  <2>4. CASE ~ x.err /\ pc' = "parsed" /\ d' = x /\ acts' = al
    <3>1. parse_match_ok(m) /\ d' = parse_actions(parse_match(m), acts')
      BY <2>2, <2>4
    <3>2. ParsedInv'
      BY <2>1, <2>2, <2>4, <3>1
    <3> QED
      BY <2>4, <3>2
  <2>5. CASE pc' = "idle"
    BY <2>5
  <2> QED
    BY <2>3, <2>4, <2>5
<1>3. ASSUME NEW alloc_ok \in BOOLEAN, prepare(alloc_ok) PROVE RuleIInv'
  <2>1. CASE pc' = "idle"
    BY <2>1
  <2>2. CASE pc' = "prepared"
    <3>1. gen' = gen /\ d' = d /\ acts' = acts /\ prepare_ok(d) /\ t' = template(d)
      BY <1>3, <2>2 DEF prepare
    <3>2. prepare_ok(d)' /\ template(d)' = template(d)
      BY <3>1 DEF prepare_ok, v2_untranslated, resolve_output, template, build_ipv4,
                  build_ipv6_5t, Common, set_mac
    <3> QED
      BY <1>3, <2>2, <3>1, <3>2 DEF prepare
  <2> QED
    BY <1>3, <2>1, <2>2 DEF prepare
<1>4. ASSUME NEW slot \in 0 .. 3, NEW dsa \in BOOLEAN, offload_check(slot, dsa) PROVE RuleIInv'
  <2>1. /\ pc = "prepared" /\ pc' = "bound" /\ b' = [t EXCEPT !.c.tag = spread(@, slot, dsa)]
        /\ UNCHANGED <<gen, m, acts, d, t>>
    BY <1>4 DEF offload_check
  <2>2. prepare_ok(d)' = prepare_ok(d) /\ template(d)' = template(d)
    BY <2>1 DEF prepare_ok, v2_untranslated, resolve_output, template, build_ipv4,
                build_ipv6_5t, Common, set_mac
  <2>3. BoundInv'
    BY <2>1 DEF spread
  <2> QED
    BY <2>1, <2>2, <2>3
<1>5. ASSUME destroy PROVE RuleIInv'
  BY <1>5 DEF destroy
<1>6. ASSUME UNCHANGED vars PROVE RuleIInv'
  <2>1. UNCHANGED <<gen, pc, m, acts, d, t, b>>
    BY <1>6 DEF vars
  <2>2. prepare_ok(d)' = prepare_ok(d) /\ template(d)' = template(d)
    BY <2>1 DEF prepare_ok, v2_untranslated, resolve_output, template, build_ipv4,
                build_ipv6_5t, Common, set_mac
  <2>3. BoundInv'
    BY <2>1 DEF spread
  <2> QED
    BY <2>1, <2>2, <2>3
<1> QED
  BY <1>1, <1>2, <1>3, <1>4, <1>5, <1>6 DEF Next

\* Whatever rules come and go, each stage of a rule is the translation of the
\* match and the actions it came with.
THEOREM RuleInvariance == Spec => []RuleIInv
<1>1. Init => RuleIInv
  BY RuleInit
<1>2. RuleIInv /\ [Next]_vars => RuleIInv'
  BY RuleStep
<1> QED
  BY <1>1, <1>2, PTL DEF Spec

(***************************************************************************)
(* What follows.                                                           *)
(***************************************************************************)

\* An accepted match authorises exactly what the engine will forward.
THEOREM AuthorisesExactlyAlways == Spec => []AuthorisesExactly
<1>1. RuleIInv => AuthorisesExactly
  BY ParserExact DEF RuleIInv, MatchedInv, AuthorisesExactly
<1> QED
  BY <1>1, RuleInvariance, PTL

\* Only the driver's own tags change their priority with the slot.
THEOREM UserTagsUntouchedAlways == Spec => []UserTagsUntouched
<1>1. ASSUME RuleIInv, pc = "bound", b.c.tag # t.c.tag PROVE Internal(d.out_dev)
  <2>1. PICK slot \in 0 .. 3, dsa \in BOOLEAN : b = [t EXCEPT !.c.tag = spread(@, slot, dsa)]
    BY <1>1 DEF RuleIInv, BoundInv
  <2>2. prepare_ok(d) /\ t = template(d)
    BY <1>1 DEF RuleIInv, PreparedInv
  <2>3. "c" \in DOMAIN t /\ "tag" \in DOMAIN t.c
    BY <2>2 DEF template, build_ipv4, build_ipv6_5t, Common
  <2>4. b.c.tag = spread(t.c.tag, slot, dsa)
    BY <2>1, <2>3
  <2> QED
    BY <1>1, <2>2, <2>4, SpreadInternal
<1>2. RuleIInv => UserTagsUntouched
  BY <1>1 DEF UserTagsUntouched
<1> QED
  BY <1>2, RuleInvariance, PTL

\* The data of a parsed rule: well-formed, with the 5-tuple of its match, both
\* passes run through.
LEMMA ParsedData ==
  ASSUME RuleIInv, pc \in {"parsed", "prepared", "bound"}
  PROVE  /\ d \in Data /\ KeyData(d) /\ acts \in Seq(AnyAct)
         /\ \E x, G, T :
              /\ parse_match_ok(x) /\ KeyOf(d) = KeyOf(parse_match(x))
              /\ Run("gather", G, acts, Len(acts)) /\ G[0] = parse_match(x) /\ ~ G[Len(acts)].err
              /\ Run("translate", T, acts, Len(acts)) /\ T[0] = G[Len(acts)]
              /\ T[Len(acts)] = d /\ ~ d.err
<1>1. PICK x \in Matches : parse_match_ok(x) /\ d = parse_actions(parse_match(x), acts)
  BY DEF RuleIInv, ParsedInv
<1>2. acts \in Seq(AnyAct) /\ ~ d.err
  BY DEF RuleIInv, ParsedInv
<1> DEFINE y == parse_match(x)
           n == Len(acts)
<1>3. y \in Data /\ KeyData(y)
  BY <1>1, MatchData
<1> HIDE DEF y
<1>4. PICK G, T : /\ Run("gather", G, acts, n) /\ G[0] = y /\ ~ G[n].err
                  /\ Run("translate", T, acts, n) /\ T[0] = G[n]
                  /\ T[n] = parse_actions(y, acts)
  BY <1>1, <1>2, <1>3, ActionsTranslated DEF y
<1>5. n \in Nat
  BY <1>2, SeqShape
<1>6. T[n] = d
  BY <1>1, <1>4 DEF y
<1> HIDE DEF n
<1>7. G[n] \in Data /\ KeyOf(G[n]) = KeyOf(y)
  BY <1>3, <1>4, <1>5, PassKeeps
<1>8. d \in Data /\ KeyOf(d) = KeyOf(y)
  BY <1>2, <1>4, <1>5, <1>6, <1>7, PassKeeps
<1>9. KeyData(d)
  <2>1. /\ d.n_proto = y.n_proto /\ d.l4proto = y.l4proto /\ d.src = y.src /\ d.dst = y.dst
        /\ d.sport = y.sport /\ d.dport = y.dport
    BY <1>8 DEF KeyOf
  <2> QED
    BY <1>3, <2>1 DEF KeyData
<1> QED
  BY <1>1, <1>2, <1>4, <1>6, <1>8, <1>9 DEF y, n

\* The key read back from a flow's own descriptor is the key of the flow.
THEOREM KeyRoundTripAlways == Spec => []KeyRoundTrip
<1>1. RuleIInv => KeyRoundTrip
  <2> SUFFICES ASSUME RuleIInv, pc \in {"prepared", "bound"}
               PROVE  key_from_foe(t) = key_from_data(d)
    BY DEF KeyRoundTrip
  <2>1. t = template(d)
    BY DEF RuleIInv, PreparedInv
  <2>2. KeyData(d)
    BY ParsedData
  <2> QED
    BY <2>1, <2>2, TemplateKeepsKey
<1> QED
  BY <1>1, RuleInvariance, PTL

(***************************************************************************)
(* The rewrite.                                                            *)
(***************************************************************************)

LEMMA MacRoundTrip ==
  ASSUME NEW mac \in Words(3)
  PROVE  get_mac(set_mac(mac)) = mac
<1>1. /\ mac[1] \in Half16 /\ mac[2] \in Half16 /\ mac[3] \in Half16
      /\ mac = <<mac[1], mac[2], mac[3]>>
  BY DEF Words
<1>2. \A i \in 1 .. 3 : swab16(swab16(mac[i])) = mac[i]
  BY SwabInverse DEF Words
<1>3. v1_foe_get_mac(v1_foe_set_mac(mac)) = mac
  BY <1>1, <1>2 DEF v1_foe_get_mac, v1_foe_set_mac
<1>4. v2_foe_get_mac(v2_foe_set_mac(mac)) = mac
  BY <1>1, <1>2 DEF v2_foe_get_mac, v2_foe_set_mac
<1> QED
  BY <1>3, <1>4 DEF get_mac, set_mac

\* What a descriptor's fields say once read as the engine does.
LEMMA TemplateRewrites ==
  ASSUME NEW x \in Data
  PROVE  /\ get_mac(template(x).c.dmac) = x.h_dest /\ get_mac(template(x).c.smac) = x.h_source
         /\ x.n_proto = "ip" =>
              /\ template(x).type = "HNAPT"
              /\ htonl(template(x).new_sip) = x.nsrc[1] /\ htonl(template(x).new_dip) = x.ndst[1]
              /\ htons(template(x).new_sport) = x.nsport
              /\ htons(template(x).new_dport) = x.ndport
         /\ x.n_proto # "ip" => template(x).type # "HNAPT"
<1>1. x.h_dest \in Words(3) /\ x.h_source \in Words(3) /\ x.nsport \in Half16 /\ x.ndport \in Half16
  BY DEF Data
<1>2. x.nsrc[1] \in Words(2) /\ x.ndst[1] \in Words(2)
  BY DEF Data
<1>3. template(x).c.dmac = set_mac(x.h_dest) /\ template(x).c.smac = set_mac(x.h_source)
  BY DEF template, build_ipv4, build_ipv6_5t, Common
<1>4. get_mac(template(x).c.dmac) = x.h_dest /\ get_mac(template(x).c.smac) = x.h_source
  BY <1>1, <1>3, MacRoundTrip
<1>5. x.n_proto # "ip" => template(x).type # "HNAPT"
  BY DEF template, build_ipv6_5t
<1>6. CASE x.n_proto = "ip"
  <2>1. /\ template(x).type = "HNAPT"
        /\ template(x).new_sip = ntohl(x.nsrc[1]) /\ template(x).new_dip = ntohl(x.ndst[1])
        /\ template(x).new_sport = ntohs(x.nsport) /\ template(x).new_dport = ntohs(x.ndport)
    BY <1>6 DEF template, build_ipv4
  <2>2. htonl(ntohl(x.nsrc[1])) = x.nsrc[1] /\ htonl(ntohl(x.ndst[1])) = x.ndst[1]
    BY <1>2, Swab32Inverse DEF htonl, ntohl
  <2>3. htons(ntohs(x.nsport)) = x.nsport /\ htons(ntohs(x.ndport)) = x.ndport
    BY <1>1, SwabInverse DEF htons, ntohs
  <2> QED
    BY <1>4, <1>6, <2>1, <2>2, <2>3
<1> QED
  BY <1>4, <1>5, <1>6

LEMMA JoinWords ==
  ASSUME NEW n \in {2, 3}, NEW u \in Words(n), NEW v \in Words(n)
  PROVE  \A i \in 1 .. n : (u \o v)[i] = u[i] /\ (u \o v)[n + i] = v[i]
<1>1. u \in Seq(Half16) /\ v \in Seq(Half16) /\ Len(u) = n /\ Len(v) = n
  <2>1. n \in Nat
    OBVIOUS
  <2>2. u \in Seq(Half16) /\ v \in Seq(Half16)
    BY <2>1, FunIsSeq DEF Words
  <2>3. DOMAIN u = 1 .. n /\ DOMAIN v = 1 .. n
    BY DEF Words
  <2>4. Len(u) = n /\ Len(v) = n
    BY <2>1, <2>2, <2>3, SeqShape
  <2> QED
    BY <2>2, <2>4
<1>2. \A i \in 1 .. Len(u) + Len(v) : (u \o v)[i] = IF i <= Len(u) THEN u[i] ELSE v[i - Len(u)]
  BY <1>1, ConcatProperties
<1>3. ASSUME NEW i \in 1 .. n PROVE (u \o v)[i] = u[i] /\ (u \o v)[n + i] = v[i]
  <2>1. i \in 1 .. n + n /\ n + i \in 1 .. n + n /\ i <= n /\ ~ (n + i <= n) /\ (n + i) - n = i
    OBVIOUS
  <2>2. (u \o v)[i] = u[i]
    BY <1>1, <1>2, <2>1
  <2>3. (u \o v)[n + i] = v[(n + i) - n]
    BY <1>1, <1>2, <2>1
  <2> QED
    BY <2>1, <2>2, <2>3
<1> QED
  BY <1>3

LEMMA EthPrefix ==
  ASSUME NEW as \in Seq(AnyAct), IsPrefix(EthRewrite, as)
  PROVE  Len(as) >= 4 /\ \A i \in 1 .. 4 : as[i] = EthRewrite[i]
<1>1. Len(EthRewrite) = 4 /\ Len(as) >= 4 /\ Len(as) \in Nat
      /\ SubSeq(EthRewrite, 1, 4) = SubSeq(as, 1, 4)
  BY ActsTyped, SeqShape DEF IsPrefix
<1>2. ASSUME NEW s, \A i \in 1 .. 4 : s[i] \in AnyAct
      PROVE  \A i \in 1 .. 4 : SubSeq(s, 1, 4)[i] = s[i]
  <2>1. \A i \in 1 .. (4 - 1) + 1 : SubSeq(s, 1, 4)[i] = s[(1 + i) - 1]
    BY <1>2, SubSeqProperties
  <2>2. ASSUME NEW i \in 1 .. 4 PROVE SubSeq(s, 1, 4)[i] = s[i]
    <3>1. i \in 1 .. (4 - 1) + 1 /\ (1 + i) - 1 = i
      OBVIOUS
    <3> QED
      BY <2>1, <3>1
  <2> QED
    BY <2>2
<1>3. \A i \in 1 .. 4 : SubSeq(EthRewrite, 1, 4)[i] = EthRewrite[i]
  BY <1>2, ActsTyped
<1>4. \A i \in 1 .. 4 : SubSeq(as, 1, 4)[i] = as[i]
  <2>1. \A i \in 1 .. Len(as) : as[i] \in AnyAct
    BY SeqShape
  <2>2. ASSUME NEW i \in 1 .. 4 PROVE as[i] \in AnyAct
    <3> DEFINE n == Len(as)
    <3>1. n \in Nat /\ n >= 4
      BY <1>1
    <3> HIDE DEF n
    <3>2. i \in 1 .. n
      BY <3>1
    <3> QED
      BY <2>1, <3>2 DEF n
  <2> QED
    BY <1>2, <2>2
<1> QED
  BY <1>1, <1>3, <1>4

LEMMA HeaderFields ==
  ASSUME NEW h \in Headers, NEW e, NEW i, NEW l
  PROVE  [h EXCEPT !.eth = e, !.ip4 = i, !.l4 = l] = [eth |-> e, ip4 |-> i, ip6 |-> h.ip6, l4 |-> l]
<1> DEFINE k == [h EXCEPT !.eth = e, !.ip4 = i, !.l4 = l]
<1>1. k \in [eth : {e}, ip4 : {i}, ip6 : {h.ip6}, l4 : {l}]
  BY DEF Headers
<1> HIDE DEF k
<1>2. k = [eth |-> e, ip4 |-> i, ip6 |-> h.ip6, l4 |-> l]
  BY <1>1
<1> QED
  BY <1>2 DEF k

\* The engine rewrites a packet as pedit would: for every accepted match, every
\* sequence of actions that rewrites both MAC addresses, and every value in them.
LEMMA RewriteState ==
  ASSUME RuleIInv, pc = "prepared", IsPrefix(EthRewrite, acts)
  PROVE  HeaderOut = FoldLeft(Pedit, HeaderIn, acts)
<1> DEFINE n == Len(acts)
<1>1. d \in Data /\ acts \in Seq(AnyAct)
  BY ParsedData
<1>2. PICK x, G, T :
        /\ parse_match_ok(x) /\ KeyOf(d) = KeyOf(parse_match(x))
        /\ Run("gather", G, acts, n) /\ G[0] = parse_match(x) /\ ~ G[n].err
        /\ Run("translate", T, acts, n) /\ T[0] = G[n] /\ T[n] = d /\ ~ d.err
  BY ParsedData
<1>3. n \in Nat /\ DOMAIN acts = 1 .. n /\ \A i \in 1 .. n : acts[i] \in AnyAct
  BY <1>1, SeqShape
<1>4. n >= 4 /\ \A i \in 1 .. 4 : acts[i] = EthRewrite[i]
  BY <1>1, EthPrefix
<1> HIDE DEF n
<1> DEFINE h == HeaderIn
           y == parse_match(x)
<1>5. Stepwise("pedit", h, acts, n)
  BY <1>3, FoldRuns
<1>6. PICK P : /\ FoldOf("pedit", h, acts)[DOMAIN acts] = P[n] /\ P[0] = h
               /\ \A i \in 1 .. n : P[i] = Pass("pedit", P[i - 1], acts[i])
  BY <1>5 DEF Stepwise
<1>7. FoldLeft(Pedit, HeaderIn, acts) = P[n]
  BY <1>6, FoldLeftOf
<1>8. Run("pedit", P, acts, n)
  BY <1>3, <1>6 DEF Run
<1>9. /\ y \in Data /\ d.src = y.nsrc /\ d.dst = y.ndst /\ d.sport = y.nsport /\ d.dport = y.ndport
  <2>1. y \in Data
    BY <1>2, MatchData
  <2>2. d.src = y.src /\ d.dst = y.dst /\ d.sport = y.sport /\ d.dport = y.dport
    BY <1>2 DEF KeyOf
  <2>3. y.nsrc = y.src /\ y.ndst = y.dst /\ y.nsport = y.sport /\ y.ndport = y.dport
    BY DEF parse_match
  <2> QED
    BY <2>1, <2>2, <2>3
<1>10. h \in Headers /\ NatHeader(y, h)
  <2>1. d.src[1] \in Words(2) /\ d.dst[1] \in Words(2) /\ d.sport \in Half16 /\ d.dport \in Half16
    BY <1>1 DEF Data
  <2>2. \A i \in 1 .. 2 : d.src[1][i] \in Half16 /\ d.dst[1][i] \in Half16
    BY <2>1 DEF Words
  <2>3. 1 \in Half16
    BY DEF Half16
  <2>4. /\ [i \in 0 .. 5 |-> 1] \in [0 .. 5 -> Half16]
        /\ [i \in 6 .. 9 |-> IF i < 8 THEN d.src[1][i - 5] ELSE d.dst[1][i - 7]] \in [6 .. 9 -> Half16]
        /\ [i \in 4 .. 11 |-> 1] \in [4 .. 11 -> Half16]
        /\ [i \in 0 .. 1 |-> IF i = 0 THEN d.sport ELSE d.dport] \in [0 .. 1 -> Half16]
    <3> HIDE DEF Half16
    <3> QED
      BY <2>1, <2>2, <2>3
  <2>5. h \in Headers
    BY <2>4 DEF Headers, HeaderIn
  <2>6. NatHeader(y, h)
    BY <1>9 DEF NatHeader, HeaderIn
  <2> QED
    BY <2>5, <2>6
<1> HIDE DEF h, y
<1>11. /\ P[n] \in Headers /\ NatHeader(d, P[n])
       /\ \A j \in 0 .. 5 : P[n].eth[j] = MacWord(d, j)
  <2>1. G[0] \in Data /\ P[0] \in Headers /\ NatHeader(G[0], P[0])
    BY <1>2, <1>6, <1>9, <1>10 DEF y
  <2>2. /\ P[n] \in Headers /\ NatHeader(T[n], P[n])
        /\ \A j \in 0 .. 5 : P[n].eth[j] = MacWord(T[n], j)
    BY <1>2, <1>3, <1>4, <1>8, <2>1, PassesRewrite
  <2> QED
    BY <1>2, <2>2
<1>12. prepare_ok(d) /\ t = template(d)
  BY DEF RuleIInv, PreparedInv
<1> DEFINE mac == get_mac(t.c.dmac) \o get_mac(t.c.smac)
           ip == htonl(t.new_sip) \o htonl(t.new_dip)
           eth == [i \in 0 .. 5 |-> mac[i + 1]]
           ip4 == IF t.type = "HNAPT" THEN [i \in 6 .. 9 |-> ip[i - 5]] ELSE HeaderIn.ip4
           l4 == IF t.type = "HNAPT"
                   THEN [i \in 0 .. 1 |-> IF i = 0 THEN htons(t.new_sport) ELSE htons(t.new_dport)]
                   ELSE HeaderIn.l4
<1>13. HeaderOut = [eth |-> eth, ip4 |-> ip4, ip6 |-> HeaderIn.ip6, l4 |-> l4]
  <2> DEFINE sip == [i \in 6 .. 9 |-> ip[i - 5]]
             ports == [i \in 0 .. 1 |-> IF i = 0 THEN htons(t.new_sport) ELSE htons(t.new_dport)]
  <2>1. HeaderOut = [h EXCEPT !.eth = eth,
                              !.ip4 = IF t.type = "HNAPT" THEN sip ELSE @,
                              !.l4 = IF t.type = "HNAPT" THEN ports ELSE @]
    BY Zenon DEF HeaderOut, h
  <2>2. ip4 = IF t.type = "HNAPT" THEN sip ELSE h.ip4
    BY Zenon DEF h
  <2>3. l4 = IF t.type = "HNAPT" THEN ports ELSE h.l4
    BY Zenon DEF h
  <2> HIDE DEF eth, sip, ports, ip4, l4
  <2>4. [h EXCEPT !.eth = eth,
                  !.ip4 = IF t.type = "HNAPT" THEN sip ELSE @,
                  !.l4 = IF t.type = "HNAPT" THEN ports ELSE @]
        = [eth |-> eth, ip4 |-> ip4, ip6 |-> h.ip6, l4 |-> l4]
    <3>1. [h EXCEPT !.eth = eth, !.ip4 = ip4, !.l4 = l4]
          = [eth |-> eth, ip4 |-> ip4, ip6 |-> h.ip6, l4 |-> l4]
      BY <1>10, HeaderFields
    <3> QED
      BY <2>2, <2>3, <3>1, Zenon
  <2> QED
    BY <2>1, <2>4 DEF h
<1>14. P[n].eth = eth
  <2>1. mac = d.h_dest \o d.h_source
    BY <1>1, <1>12, TemplateRewrites
  <2>2. d.h_dest \in Words(3) /\ d.h_source \in Words(3)
    BY <1>1 DEF Data
  <2> HIDE DEF mac
  <2>3. \A i \in 1 .. 3 : mac[i] = d.h_dest[i] /\ mac[3 + i] = d.h_source[i]
    BY <2>1, <2>2, JoinWords
  <2>4. ASSUME NEW j \in 0 .. 5 PROVE mac[j + 1] = MacWord(d, j)
    <3>1. CASE j < 3
      <4>1. j + 1 \in 1 .. 3
        BY <3>1
      <4> QED
        BY <2>3, <3>1, <4>1 DEF MacWord
    <3>2. CASE ~ (j < 3)
      <4>1. j - 2 \in 1 .. 3 /\ 3 + (j - 2) = j + 1
        BY <3>2
      <4> QED
        BY <2>3, <3>2, <4>1 DEF MacWord
    <3> QED
      BY <3>1, <3>2
  <2>5. P[n].eth = [j \in 0 .. 5 |-> P[n].eth[j]]
    BY <1>11 DEF Headers
  <2> QED
    BY <1>11, <2>4, <2>5
<1>15. P[n].ip4 = ip4 /\ P[n].l4 = l4
  <2>1. CASE d.n_proto = "ip"
    <3>1. /\ t.type = "HNAPT" /\ htonl(t.new_sip) = d.nsrc[1] /\ htonl(t.new_dip) = d.ndst[1]
          /\ htons(t.new_sport) = d.nsport /\ htons(t.new_dport) = d.ndport
      BY <1>1, <1>12, <2>1, TemplateRewrites
    <3>2. d.nsrc[1] \in Words(2) /\ d.ndst[1] \in Words(2)
      BY <1>1 DEF Data
    <3>3. ip = d.nsrc[1] \o d.ndst[1]
      BY <3>1
    <3> HIDE DEF ip
    <3>4. \A i \in 1 .. 2 : ip[i] = d.nsrc[1][i] /\ ip[2 + i] = d.ndst[1][i]
      BY <3>2, <3>3, JoinWords
    <3>5. ASSUME NEW i \in 6 .. 9
          PROVE  ip[i - 5] = IF i < 8 THEN d.nsrc[1][i - 5] ELSE d.ndst[1][i - 7]
      <4>1. CASE i < 8
        <5>1. i - 5 \in 1 .. 2
          BY <4>1
        <5> QED
          BY <3>4, <4>1, <5>1
      <4>2. CASE ~ (i < 8)
        <5>1. i - 7 \in 1 .. 2 /\ 2 + (i - 7) = i - 5
          BY <4>2
        <5> QED
          BY <3>4, <4>2, <5>1
      <4> QED
        BY <4>1, <4>2
    <3> QED
      BY <1>11, <3>1, <3>5 DEF NatHeader
  <2>2. CASE d.n_proto # "ip"
    <3>1. t.type # "HNAPT"
      BY <1>1, <1>12, <2>2, TemplateRewrites
    <3>2. d.src = d.nsrc /\ d.dst = d.ndst /\ d.sport = d.nsport /\ d.dport = d.ndport
      BY <1>12, <2>2 DEF prepare_ok, v2_untranslated
    <3> QED
      BY <1>11, <3>1, <3>2 DEF NatHeader, HeaderIn
  <2> QED
    BY <2>1, <2>2
<1>16. P[n].ip6 = HeaderIn.ip6
  BY <1>11 DEF NatHeader, HeaderIn
<1> HIDE DEF eth, ip4, l4
<1>17. P[n] = [eth |-> P[n].eth, ip4 |-> P[n].ip4, ip6 |-> P[n].ip6, l4 |-> P[n].l4]
  BY <1>11 DEF Headers
<1> QED
  BY <1>7, <1>13, <1>14, <1>15, <1>16, <1>17

\* The engine rewrites a packet exactly as the rule's actions would, executed
\* one after the other.
THEOREM RewriteExactAlways == Spec => []RewriteExact
<1>1. RuleIInv => RewriteExact
  BY RewriteState DEF RewriteExact
<1> QED
  BY <1>1, RuleInvariance, PTL

(***************************************************************************)
(* How far the known loss of a VLAN push goes.                             *)
(***************************************************************************)

LEMMA PushResolved ==
  ASSUME NEW x, x.push, ~ resolve_output(x).err, ~ Internal(x.out_dev)
  PROVE  /\ resolve_output(x).act1 \in {"INSERT", "MODIFY"}
         /\ resolve_output(x).tag.vid = x.push_tag.vid
<1> DEFINE keep == IF x.pop THEN "MODIFY" ELSE "INSERT"
<1>1. x.out_dev \notin {"standalone", "bridged", "high port"}
  BY DEF Internal
<1>2. CASE gen = "v1"
  <2>1. resolve_output(x) = v1_resolve_output(x)
    BY <1>2 DEF resolve_output
  <2>2. x.push_proto = "8021Q"
    <3>1. CASE x.push_proto # "8021Q"
      <4>1. v1_resolve_output(x) = Reject
        BY <3>1, Zenon DEF v1_resolve_output
      <4> QED
        BY <2>1, <4>1 DEF Reject
    <3> QED
      BY <3>1
  <2>3. CASE x.out_dev \in {"vlan bridged", "no pvid"}
    <3>1. v1_resolve_output(x) = Out(1, keep, "DELETE", v1_push_tag(x))
      BY <2>2, <2>3, Zenon DEF v1_resolve_output
    <3> QED
      BY <2>1, <3>1 DEF Out, v1_push_tag, Tag
  <2>4. CASE x.out_dev = "fe"
    <3>1. v1_resolve_output(x) = Out(1, keep, "NONE", v1_push_tag(x))
      BY <2>2, <2>4, SMT DEF v1_resolve_output
    <3> QED
      BY <2>1, <3>1 DEF Out, v1_push_tag, Tag
  <2>5. CASE x.out_dev \notin {"vlan bridged", "no pvid", "fe"}
    <3>1. v1_resolve_output(x) = Reject
      BY <1>1, <2>2, <2>5, Zenon DEF v1_resolve_output
    <3> QED
      BY <2>1, <3>1 DEF Reject
  <2> QED
    BY <2>3, <2>4, <2>5
<1>3. CASE gen # "v1"
  <2>1. resolve_output(x) = v2_resolve_output(x)
    BY <1>3 DEF resolve_output
  <2>2. x.push_proto = "8021Q"
    <3>1. CASE x.push_proto # "8021Q"
      <4>1. v2_resolve_output(x) = Reject
        BY <3>1, Zenon DEF v2_resolve_output
      <4> QED
        BY <2>1, <4>1 DEF Reject
    <3> QED
      BY <3>1
  <2>3. CASE x.out_dev \in {"vlan bridged", "no pvid"}
    <3>1. v2_resolve_output(x) = Out(3, "INSERT", "NONE", x.push_tag)
      BY <2>2, <2>3, Zenon DEF v2_resolve_output
    <3> QED
      BY <2>1, <3>1 DEF Out
  <2>4. CASE x.out_dev = "fe"
    <3>1. v2_resolve_output(x) = Out(8, "INSERT", "NONE", x.push_tag)
      BY <2>2, <2>4, SMT DEF v2_resolve_output
    <3> QED
      BY <2>1, <3>1 DEF Out
  <2>5. CASE x.out_dev \notin {"vlan bridged", "no pvid", "fe"}
    <3>1. v2_resolve_output(x) = Reject
      BY <1>1, <2>2, <2>5, Zenon DEF v2_resolve_output
    <3> QED
      BY <2>1, <3>1 DEF Reject
  <2> QED
    BY <2>3, <2>4, <2>5
<1> QED
  BY <1>2, <1>3

\* An accepted push that the descriptor does not carry goes to a port the
\* driver itself tags: VlanPushCarried fails for those and for no other.
PushLostInternallyOnly ==
  pc = "prepared" /\ d.push /\ t.c.tag.vid # d.push_tag.vid => Internal(d.out_dev)

THEOREM PushLostInternallyOnlyAlways == Spec => []PushLostInternallyOnly
<1>1. ASSUME RuleIInv, pc = "prepared", d.push, ~ Internal(d.out_dev)
      PROVE  t.c.tag.vid = d.push_tag.vid
  <2>1. prepare_ok(d) /\ t = template(d) /\ ~ resolve_output(d).err
    BY <1>1 DEF RuleIInv, PreparedInv, prepare_ok
  <2>2. t.c.tag = IF resolve_output(d).act1 \in {"INSERT", "MODIFY"}
                    THEN resolve_output(d).tag ELSE NoTag
    BY <2>1 DEF template, build_ipv4, build_ipv6_5t, Common
  <2> QED
    BY <1>1, <2>1, <2>2, PushResolved
<1>2. RuleIInv => PushLostInternallyOnly
  BY <1>1 DEF PushLostInternallyOnly
<1> QED
  BY <1>2, RuleInvariance, PTL
=============================================================================
