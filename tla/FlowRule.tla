------------------------------ MODULE FlowRule ------------------------------
(***************************************************************************)
(* From a flower rule to a FOE descriptor: the match and action parser     *)
(* (ra_ppe_offload.c), the output resolution and descriptor construction   *)
(* of both PPE generations, and what a promotion does with the descriptor. *)
(*                                                                         *)
(* Headers are arrays of 16-bit words in memory order; a 32-bit word is a  *)
(* pair of them. The SoCs are little endian: FOE words are byte-swapped.   *)
(* An IPv6 address is shortened to two 32-bit words; an IPv4 address fills *)
(* the first and leaves the second of the union zero.                      *)
(***************************************************************************)
EXTENDS Naturals, Sequences, SequencesExt

CONSTANTS Gens,     \* PPE generations: "v1", "v2" or both
          MaxActs   \* bound: actions of a rule besides the Ethernet rewrite

ASSUME RuleAssumption == Gens \subseteq {"v1", "v2"} /\ MaxActs \in Nat

VARIABLES
  gen,   \* the generation of this device
  pc,    \* "idle", "matched", "parsed", "prepared" or "bound"
  m,     \* the rule's match while it is looked at
  acts,  \* the rule's actions
  d,     \* struct ra_flow_data
  t,     \* the BIND template
  b      \* the descriptor a promotion wrote

vars == <<gen, pc, m, acts, d, t, b>>

-----------------------------------------------------------------------------
(* Words, addresses, tags.                                                 *)

swab16(h) == (h % 256) * 256 + h \div 256
swab32(w) == <<swab16(w[2]), swab16(w[1])>>
ZeroWord == <<0, 0>>

ntohs(h) == swab16(h)
ntohl(w) == swab32(w)
htons(h) == swab16(h)
htonl(w) == swab32(w)

\* Fault: the two words are swapped.
ipv6_to_foe_reversed(a) == <<swab32(a[2]), swab32(a[1])>>

ipv6_to_foe(a) == <<swab32(a[1]), swab32(a[2])>>
ipv6_from_foe(a) == <<swab32(a[1]), swab32(a[2])>>

\* A MAC address is three 16-bit words; the descriptors store it reversed.
v1_foe_set_mac(mac) == [hi |-> swab16(mac[1]), lo |-> <<swab16(mac[3]), swab16(mac[2])>>]
v1_foe_get_mac(f) == <<swab16(f.hi), swab16(f.lo[2]), swab16(f.lo[1])>>
v2_foe_set_mac(mac) == [hi |-> <<swab16(mac[2]), swab16(mac[1])>>, lo |-> swab16(mac[3])]
v2_foe_get_mac(f) == <<swab16(f.hi[2]), swab16(f.hi[1]), swab16(f.lo)>>

is_valid_ether_addr(mac) == mac # <<0, 0, 0>> /\ (mac[1] \div 256) % 2 = 0

Tag(vid, pcp) == [vid |-> vid, pcp |-> pcp]
NoTag == Tag(0, 0)

-----------------------------------------------------------------------------
(* Matching: ra_flow_parse_match.                                          *)

Supported == {"META", "CONTROL", "BASIC", "IPV4", "IPV6", "PORTS", "TCP"}
Required == {"META", "CONTROL", "BASIC", "PORTS"}
AddrKey == [ip |-> "IPV4", ipv6 |-> "IPV6"]

\* A match: its dissector keys, the fields it does not match exactly, the
\* fields outside the 5-tuple it constrains, protocols, address type and TCP
\* flags (the mask; the key is zero unless "set").
Src == [ip |-> <<<<258, 772>>, ZeroWord>>, ipv6 |-> <<<<258, 772>>, <<259, 773>>>>]
Dst == [ip |-> <<<<1286, 1800>>, ZeroWord>>, ipv6 |-> <<<<1286, 1800>>, <<1287, 1801>>>>]
SPort == 2314
DPort == 2828

\* Fault: inexact ports are accepted.
ExactOnlyAddrs(x) == x.loose \subseteq {"sport", "dport"}

Exact(x) == x.loose = {}

TcpFlagsOk(x) ==
  IF x.l4 = "tcp"
    THEN "TCP" \in x.keys /\ x.flags = {"FIN", "RST"}
    ELSE "TCP" \notin x.keys

parse_match_ok(x) ==
  /\ x.keys \subseteq Supported
  /\ Required \subseteq x.keys
  /\ x.extra = {}
  /\ x.l4 \in {"tcp", "udp"}
  /\ x.n_proto \in {"ip", "ipv6"}
  /\ x.addr_type = AddrKey[x.n_proto]
  /\ AddrKey[x.n_proto] \in x.keys
  /\ Exact(x)
  /\ TcpFlagsOk(x)

\* What ra_flow_parse_match and ra_flow_init_nat_defaults leave in the data.
parse_match(x) ==
  [err |-> FALSE, n_proto |-> x.n_proto, l4proto |-> x.l4,
   src |-> Src[x.n_proto], dst |-> Dst[x.n_proto], sport |-> SPort, dport |-> DPort,
   nsrc |-> Src[x.n_proto], ndst |-> Dst[x.n_proto], nsport |-> SPort, ndport |-> DPort,
   h_dest |-> <<0, 0, 0>>, h_source |-> <<0, 0, 0>>,
   out_dev |-> "none", csum_seen |-> FALSE,
   push |-> FALSE, push_proto |-> "none", push_tag |-> NoTag, pop |-> FALSE,
   pppoe |-> FALSE, sid |-> 0]

-----------------------------------------------------------------------------
(* Actions: ra_flow_parse_actions and its helpers. A mangle replaces both  *)
(* 16-bit halves of the 32-bit word at a byte offset, or one of them.      *)

Failed(x) == [x EXCEPT !.err = TRUE]

\* Fault: the halves at offset 4 are taken for each other.
mangle_eth_swapped(x, a) ==
  CASE a.off = 0 /\ a.half = "both" -> [x EXCEPT !.h_dest[1] = a.val[1], !.h_dest[2] = a.val[2]]
    [] a.off = 4 /\ a.half = "first" -> [x EXCEPT !.h_source[1] = a.val[1]]
    [] a.off = 4 /\ a.half = "second" -> [x EXCEPT !.h_dest[3] = a.val[2]]
    [] a.off = 8 /\ a.half = "both" -> [x EXCEPT !.h_source[2] = a.val[1], !.h_source[3] = a.val[2]]
    [] OTHER -> Failed(x)

mangle_eth(x, a) ==
  CASE a.off = 0 /\ a.half = "both" -> [x EXCEPT !.h_dest[1] = a.val[1], !.h_dest[2] = a.val[2]]
    [] a.off = 4 /\ a.half = "first" -> [x EXCEPT !.h_dest[3] = a.val[1]]
    [] a.off = 4 /\ a.half = "second" -> [x EXCEPT !.h_source[1] = a.val[2]]
    [] a.off = 8 /\ a.half = "both" -> [x EXCEPT !.h_source[2] = a.val[1], !.h_source[3] = a.val[2]]
    [] OTHER -> Failed(x)

mangle_ipv4(x, a) ==
  IF x.n_proto # "ip" \/ a.half # "both" THEN Failed(x)
  ELSE CASE a.off = 12 -> [x EXCEPT !.nsrc[1] = a.val]
         [] a.off = 16 -> [x EXCEPT !.ndst[1] = a.val]
         [] OTHER -> Failed(x)

mangle_ports(x, a) ==
  CASE a.off = 0 /\ a.half = "first" -> [x EXCEPT !.nsport = a.val[1]]
    [] a.off = 0 /\ a.half = "second" -> [x EXCEPT !.ndport = a.val[2]]
    [] OTHER -> Failed(x)

\* One checksum flag per action: the header's or a transport protocol's.
validate_csum(x, a) ==
  a.sub \in (IF x.n_proto = "ip" THEN {"ip"} ELSE {}) \cup {x.l4proto}

\* The first pass: topology, encapsulation and Ethernet rewrites.
gather(x, a) ==
  IF x.err THEN x ELSE
  CASE a.id = "mangle" -> IF a.sub = "eth" THEN mangle_eth(x, a) ELSE x
    [] a.id = "redirect" ->
         IF a.sub = "null" \/ x.out_dev # "none" THEN Failed(x) ELSE [x EXCEPT !.out_dev = a.sub]
    [] a.id = "csum" ->
         IF x.csum_seen \/ ~ validate_csum(x, a) THEN Failed(x) ELSE [x EXCEPT !.csum_seen = TRUE]
    [] a.id = "vlan push" ->
         IF x.push THEN Failed(x)
         ELSE [x EXCEPT !.push = TRUE, !.push_proto = a.sub, !.push_tag = Tag(a.val[1], a.val[2])]
    [] a.id = "vlan pop" -> IF x.pop THEN Failed(x) ELSE [x EXCEPT !.pop = TRUE]
    [] a.id = "pppoe push" ->
         IF x.pppoe THEN Failed(x) ELSE [x EXCEPT !.pppoe = TRUE, !.sid = a.val[1]]
    [] OTHER -> Failed(x)

\* The second pass: address and port rewrites, once the tuple is complete.
translate(x, a) ==
  IF x.err \/ a.id # "mangle" \/ a.sub = "eth" THEN x ELSE
  CASE a.sub = "ip4" -> mangle_ipv4(x, a)
    [] a.sub \in {"tcp", "udp"} -> IF a.sub = x.l4proto THEN mangle_ports(x, a) ELSE Failed(x)
    [] OTHER -> Failed(x)

parse_actions(x, as) ==
  LET y == FoldLeft(gather, x, as) IN
  IF as = <<>> \/ y.err \/ y.out_dev = "none" THEN Failed(x) ELSE FoldLeft(translate, y, as)

\* ra_ppe_flow_replace asks for both MAC rewrites.
mac_ok(x) == is_valid_ether_addr(x.h_source) /\ is_valid_ether_addr(x.h_dest)

-----------------------------------------------------------------------------
(* Output resolution. Devices by what the driver asks about them: the FE's *)
(* own, a DSA port outside a bridge, in one without and in one with VLAN   *)
(* filtering (whose PVID lookup may fail), a port beyond the PPEv2 index   *)
(* range, a port of another tagger, any other device.                      *)

Ports == {"standalone", "bridged", "vlan bridged", "no pvid", "high port"}
Devices == Ports \cup {"fe", "other tagger", "foreign"}

Pvid == 1
InternalVid(dev) == IF dev = "bridged" THEN 3000 ELSE 3001
Internal(dev) == dev \in {"standalone", "bridged", "high port"}

Reject == [err |-> TRUE, dp |-> 0, act1 |-> "NONE", act2 |-> "NONE", tag |-> NoTag]
\* dp: the PPEv1 destination port or the PPEv2 force-port index.
Out(dp, act1, act2, tag) == [err |-> FALSE, dp |-> dp, act1 |-> act1, act2 |-> act2, tag |-> tag]

\* Fault: the requested priority is written, as PPEv2 does.
v1_push_tag_prio(x) == x.push_tag

\* PPEv1 writes the VLAN id of a push, not its priority.
v1_push_tag(x) == Tag(x.push_tag.vid, 0)

v1_resolve_output(x) ==
  LET keep == IF x.pop THEN "MODIFY" ELSE "INSERT" IN
  IF x.push /\ x.push_proto # "8021Q" THEN Reject ELSE
  CASE x.out_dev \in {"vlan bridged", "no pvid"} /\ x.push ->
         Out(1, keep, "DELETE", v1_push_tag(x))
    [] x.out_dev = "vlan bridged" /\ ~ x.push ->
         Out(1, IF x.pop THEN "DELETE" ELSE "INSERT", "NONE", Tag(Pvid, 0))
    [] x.out_dev = "bridged" -> Out(1, "INSERT", "NONE", Tag(InternalVid(x.out_dev), 7))
    [] x.out_dev \in {"standalone", "high port"} ->
         Out(2, "INSERT", "NONE", Tag(InternalVid(x.out_dev), 7))
    [] x.out_dev = "fe" ->
         IF x.push THEN Out(1, keep, "NONE", v1_push_tag(x))
         ELSE Out(1, IF x.pop THEN "DELETE" ELSE "NONE", "NONE", NoTag)
    [] OTHER -> Reject

\* PPEv2 describes the resulting VLAN stack: act1 is INSERT for one layer.
v2_resolve_output(x) ==
  IF x.push /\ x.push_proto # "8021Q" THEN Reject ELSE
  CASE x.out_dev \in {"vlan bridged", "no pvid"} /\ x.push -> Out(3, "INSERT", "NONE", x.push_tag)
    [] x.out_dev \in {"vlan bridged", "no pvid"} /\ ~ x.push /\ x.pop -> Out(3, "NONE", "NONE", NoTag)
    [] x.out_dev = "vlan bridged" /\ ~ x.push /\ ~ x.pop -> Out(3, "INSERT", "NONE", Tag(Pvid, 0))
    [] x.out_dev \in {"standalone", "bridged"} ->
         Out(4, "INSERT", "NONE", Tag(InternalVid(x.out_dev), 0))
    [] x.out_dev = "fe" ->
         IF x.push THEN Out(8, "INSERT", "NONE", x.push_tag) ELSE Out(8, "NONE", "NONE", NoTag)
    [] OTHER -> Reject

resolve_output(x) == IF gen = "v1" THEN v1_resolve_output(x) ELSE v2_resolve_output(x)

-----------------------------------------------------------------------------
(* The descriptor.                                                         *)

set_mac(mac) == IF gen = "v1" THEN v1_foe_set_mac(mac) ELSE v2_foe_set_mac(mac)
get_mac(f) == IF gen = "v1" THEN v1_foe_get_mac(f) ELSE v2_foe_get_mac(f)

\* Information blocks, encapsulation and MAC addresses.
Common(x, o) ==
  [udp |-> x.l4proto = "udp", sport |-> ntohs(x.sport), dport |-> ntohs(x.dport),
   act1 |-> o.act1, act2 |-> o.act2, dp |-> o.dp,
   tag |-> IF o.act1 \in {"INSERT", "MODIFY"} THEN o.tag ELSE NoTag,
   pppoe |-> x.pppoe, sid |-> x.sid,
   dmac |-> set_mac(x.h_dest), smac |-> set_mac(x.h_source)]

\* ra_ppe_v1_build_foe and ra_ppe_v2_build_ipv4.
build_ipv4(x, o) ==
  [type |-> "HNAPT", c |-> Common(x, o),
   sip |-> <<ntohl(x.src[1]), ZeroWord>>, dip |-> <<ntohl(x.dst[1]), ZeroWord>>,
   new_sip |-> ntohl(x.nsrc[1]), new_dip |-> ntohl(x.ndst[1]),
   new_sport |-> ntohs(x.nsport), new_dport |-> ntohs(x.ndport)]

\* The IPv6 route entry has no room for a translated tuple.
build_ipv6_5t(x, o) ==
  [type |-> "IPV6_5T", c |-> Common(x, o),
   sip |-> ipv6_to_foe(x.src), dip |-> ipv6_to_foe(x.dst),
   new_sip |-> ZeroWord, new_dip |-> ZeroWord, new_sport |-> 0, new_dport |-> 0]

\* PPEv2 rejects any IPv6 translation.
v2_untranslated(x) ==
  x.src = x.nsrc /\ x.dst = x.ndst /\ x.sport = x.nsport /\ x.dport = x.ndport

prepare_ok(x) ==
  /\ \/ x.n_proto = "ip"
     \/ gen = "v2" /\ x.n_proto = "ipv6" /\ v2_untranslated(x)
  /\ ~ resolve_output(x).err

template(x) ==
  IF x.n_proto = "ip" THEN build_ipv4(x, resolve_output(x))
                      ELSE build_ipv6_5t(x, resolve_output(x))

key_from_data(x) ==
  [n_proto |-> x.n_proto, ip_proto |-> x.l4proto, src_port |-> x.sport, dst_port |-> x.dport,
   src |-> x.src, dst |-> x.dst]

key_from_foe(f) ==
  [n_proto |-> IF f.type = "HNAPT" THEN "ip" ELSE "ipv6",
   ip_proto |-> IF f.c.udp THEN "udp" ELSE "tcp",
   src_port |-> htons(f.c.sport), dst_port |-> htons(f.c.dport),
   src |-> IF f.type = "HNAPT" THEN <<htonl(f.sip[1]), ZeroWord>> ELSE ipv6_from_foe(f.sip),
   dst |-> IF f.type = "HNAPT" THEN <<htonl(f.dip[1]), ZeroWord>> ELSE ipv6_from_foe(f.dip)]

\* PPEv1 spreads internal tags, marked with PCP 7, over the CoS classes.
spread(tag, slot, ralink_dsa) ==
  IF gen = "v1" /\ ralink_dsa /\ tag.pcp = 7 THEN Tag(tag.vid, (slot % 4) * 2) ELSE tag

-----------------------------------------------------------------------------
(* The rules: every combination of protocols with at most one key too much *)
(* or too little, one inexact field and one foreign constraint, and every  *)
(* sequence of up to MaxActs actions after a complete or incomplete        *)
(* Ethernet rewrite.                                                       *)

AtMostOne(S) == {{}} \cup {{x} : x \in S}
Toggle(S, T) == (S \ T) \cup (T \ S)
NaturalKeys(n, l) ==
  Required \cup (IF n = "ipv6" THEN {"IPV6"} ELSE {"IPV4"}) \cup (IF l = "tcp" THEN {"TCP"} ELSE {})

MatchesOf(n, l) ==
  [keys : {Toggle(NaturalKeys(n, l), T) : T \in AtMostOne(Supported \cup {"IP"})},
   loose : AtMostOne({"addr_type", "n_proto", "ip_proto", "src", "dst", "sport", "dport"}),
   extra : AtMostOne({"iftype", "l2_miss", "thoff", "frag"}),
   n_proto : {n}, l4 : {l}, addr_type : {"IPV4", "IPV6"},
   flags : {{"FIN", "RST"}, {"FIN"}, {}, {"set"}}]

Matches == UNION {MatchesOf(n, l) : n \in {"ip", "ipv6", "arp"}, l \in {"tcp", "udp", "icmp"}}

Act(id, sub, off, half, val) == [id |-> id, sub |-> sub, off |-> off, half |-> half, val |-> val]
Mangle(sub, off, half) == Act("mangle", sub, off, half, <<5171, 5685>>)
Plain(id, sub, val) == Act(id, sub, 0, "both", val)

EthRewrite == <<Mangle("eth", 0, "both"), Mangle("eth", 4, "first"),
                Mangle("eth", 4, "second"), Mangle("eth", 8, "both")>>
\* Complete, without the destination, without anything.
EthActs == {EthRewrite, SubSeq(EthRewrite, 3, 4), <<>>}

Acts ==
  {Mangle("ip4", 12, "both"), Mangle("ip4", 16, "both"), Mangle("ip4", 12, "first"),
   Mangle("ip6", 8, "both"), Mangle("eth", 4, "both"),
   Mangle("tcp", 0, "first"), Mangle("tcp", 0, "second"), Mangle("udp", 0, "second"),
   Mangle("tcp", 0, "both"), Plain("redirect", "null", <<0, 0>>),
   Plain("csum", "ip", <<0, 0>>), Plain("csum", "udp", <<0, 0>>),
   Plain("vlan push", "8021Q", <<10, 7>>), Plain("vlan push", "8021AD", <<10, 0>>),
   Plain("vlan pop", "", <<0, 0>>), Plain("pppoe push", "", <<99, 0>>),
   Plain("drop", "", <<0, 0>>)}
  \cup {Plain("redirect", dev, <<0, 0>>) : dev \in Devices}

NoMatch == [keys |-> {}, loose |-> {}, extra |-> {}, n_proto |-> "arp", l4 |-> "icmp",
            addr_type |-> "IPV4", flags |-> {}]
NoData == Failed(parse_match([NoMatch EXCEPT !.n_proto = "ip"]))
NoFoe == build_ipv6_5t(NoData, Reject)

Init ==
  /\ gen \in Gens
  /\ pc = "idle" /\ m = NoMatch /\ acts = <<>> /\ d = NoData /\ t = NoFoe /\ b = NoFoe

\* FLOW_CLS_REPLACE: the match is parsed ...
replace_match(x) ==
  /\ pc = "idle" /\ parse_match_ok(x)
  /\ m' = x
  /\ d' = parse_match(x)
  /\ pc' = "matched"
  /\ UNCHANGED <<gen, acts, t, b>>

\* ... the actions are, and the MAC rewrite is asked for ...
replace_actions(as) ==
  /\ pc = "matched"
  /\ m' = NoMatch
  /\ LET x == parse_actions(d, as) IN
     IF ~ x.err /\ mac_ok(x)
       THEN pc' = "parsed" /\ d' = x /\ acts' = as
       ELSE pc' = "idle" /\ d' = NoData /\ acts' = <<>>
  /\ UNCHANGED <<gen, t, b>>

\* ... and ops->prepare builds the template, rejects the rule or finds no
\* memory for the entry.
prepare(alloc_ok) ==
  /\ pc = "parsed"
  /\ IF prepare_ok(d) /\ alloc_ok
       THEN pc' = "prepared" /\ t' = template(d) /\ UNCHANGED <<d, acts>>
       ELSE pc' = "idle" /\ d' = NoData /\ acts' = <<>> /\ UNCHANGED t
  /\ UNCHANGED <<gen, m, b>>

\* A promotion into a slot: the template with the tuple the engine learned,
\* which equals the key that was looked up.
offload_check(slot, ralink_dsa) ==
  /\ pc = "prepared"
  /\ b' = [t EXCEPT !.c.tag = spread(@, slot, ralink_dsa)]
  /\ pc' = "bound"
  /\ UNCHANGED <<gen, m, acts, d, t>>

\* The flow is destroyed.
destroy ==
  /\ pc \in {"prepared", "bound"}
  /\ pc' = "idle" /\ d' = NoData /\ acts' = <<>> /\ t' = NoFoe /\ b' = NoFoe
  /\ UNCHANGED <<gen, m>>

Next ==
  \/ \E x \in Matches : replace_match(x)
  \/ \E eth \in EthActs, n \in 0 .. MaxActs :
       \E as \in [1 .. n -> Acts] : replace_actions(eth \o as)
  \/ \E alloc_ok \in BOOLEAN : prepare(alloc_ok)
  \/ \E slot \in 0 .. 3, dsa \in BOOLEAN : offload_check(slot, dsa)
  \/ destroy

Spec == Init /\ [][Next]_vars

-----------------------------------------------------------------------------
(* Properties.                                                             *)

\* A packet as flower sees it. The foreign fields a rule may constrain are
\* represented by the one that differs from what the rule asks, if any.
Packets ==
  [n_proto : {"ip", "ipv6"}, l4 : {"tcp", "udp"}, src : {"rule", "other"}, dst : {"rule", "other"},
   sport : {"rule", "other"}, dport : {"rule", "other"}, flags : {{}, {"FIN"}, {"RST"}, {"SYN"}},
   odd : {"none", "iftype", "l2_miss", "thoff", "frag", "IP"}]

\* flower's meaning of a match.
RuleMatches(x, p) ==
  /\ "BASIC" \in x.keys => /\ "n_proto" \in x.loose \/ p.n_proto = x.n_proto
                           /\ "ip_proto" \in x.loose \/ p.l4 = x.l4
  /\ AddrKey[p.n_proto] \in x.keys => /\ "src" \in x.loose \/ p.src = "rule"
                                      /\ "dst" \in x.loose \/ p.dst = "rule"
  /\ "PORTS" \in x.keys => /\ "sport" \in x.loose \/ p.sport = "rule"
                           /\ "dport" \in x.loose \/ p.dport = "rule"
  /\ "TCP" \in x.keys /\ p.l4 = "tcp" => x.flags \cap p.flags = {}
  /\ p.odd \notin x.extra \cup (x.keys \cap {"IP"})

\* What the engine forwards by a bound descriptor: the tuple decides, and TCP
\* packets that end the connection go to the CPU.
EngineForwards(x, p) ==
  /\ p.n_proto = x.n_proto /\ p.l4 = x.l4proto
  /\ p.src = "rule" /\ p.dst = "rule" /\ p.sport = "rule" /\ p.dport = "rule"
  /\ p.l4 = "tcp" => p.flags \cap {"FIN", "RST"} = {}

\* A rule is accepted only if the engine, which knows the 5-tuple and nothing
\* else, forwards exactly the packets the rule matches: no match key, mask,
\* metadata or TCP flag that the parser lets through widens or narrows it.
\* (Except the ingress interface, which the parser ignores on purpose and
\* packets and rules here do not have.)
AuthorisesExactly ==
  pc = "matched" =>
    \A p \in Packets :
      (p.l4 = "tcp" \/ p.flags = {}) => (EngineForwards(d, p) <=> RuleMatches(m, p))

\* pedit's meaning of a mangle: the halves of the word at the offset.
Pedit(h, a) ==
  IF a.id # "mangle" THEN h
  ELSE LET hdr == IF a.sub \in {"tcp", "udp"} THEN "l4" ELSE a.sub
           i == a.off \div 2
           New(j) == IF j = i /\ a.half # "second" THEN a.val[1]
                     ELSE IF j = i + 1 /\ a.half # "first" THEN a.val[2]
                     ELSE h[hdr][j]
       IN  [h EXCEPT ![hdr] = [j \in DOMAIN h[hdr] |-> New(j)]]

\* The headers before the rewrite, and what the engine makes of them.
HeaderIn ==
  [eth |-> [i \in 0 .. 5 |-> 1],
   ip4 |-> [i \in 6 .. 9 |-> IF i < 8 THEN d.src[1][i - 5] ELSE d.dst[1][i - 7]],
   ip6 |-> [i \in 4 .. 11 |-> 1],
   l4 |-> [i \in 0 .. 1 |-> IF i = 0 THEN d.sport ELSE d.dport]]

HeaderOut ==
  LET mac == get_mac(t.c.dmac) \o get_mac(t.c.smac)
      ip == htonl(t.new_sip) \o htonl(t.new_dip)
  IN  [HeaderIn EXCEPT
        !.eth = [i \in 0 .. 5 |-> mac[i + 1]],
        !.ip4 = IF t.type = "HNAPT" THEN [i \in 6 .. 9 |-> ip[i - 5]] ELSE @,
        !.l4 = IF t.type = "HNAPT"
                 THEN [i \in 0 .. 1 |-> IF i = 0 THEN htons(t.new_sport) ELSE htons(t.new_dport)]
                 ELSE @]

\* The engine rewrites addresses, ports and MAC addresses exactly as the
\* rule's actions, executed one after the other, would: the two passes of the
\* parser, the split of MAC addresses over 32-bit mangles, byte order and the
\* formats without room for a translation lose and add nothing. (For rules
\* that rewrite both MAC addresses completely, as nf_flow_table's do.)
RewriteExact ==
  pc = "prepared" /\ IsPrefix(EthRewrite, acts) =>
    HeaderOut = FoldLeft(Pedit, HeaderIn, acts)

\* The tuple read back from a flow's own descriptor is the key of the flow, so
\* that ops->remove and offload_check recognise it.
KeyRoundTrip == pc \in {"prepared", "bound"} => key_from_foe(t) = key_from_data(d)

\* Spreading over CoS classes touches the driver's internal tags alone: a tag
\* of Linux's own leaves with the priority the template has, whatever priority
\* the rule asked for.
UserTagsUntouched == pc = "bound" /\ b.c.tag # t.c.tag => Internal(d.out_dev)

\* A VLAN push that is accepted is translated into the descriptor.
VlanPushCarried == pc = "prepared" /\ d.push => t.c.tag.vid = d.push_tag.vid
=============================================================================
