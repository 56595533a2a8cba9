----------------------------- MODULE MCNetConfig -----------------------------
(***************************************************************************)
(* Instances of NetConfig for TLC: requests about the references between   *)
(* devices, requests about settings in each of the three formats, and      *)
(* requests whose script is run, cut, corrected and run again.             *)
(***************************************************************************)
EXTENDS NetConfig

L3 == [mode |-> "static", ip |-> FALSE, cidr |-> -1, netmask |-> -1, gateway |-> -1,
       ip6 |-> FALSE, more6 |-> FALSE, gateway6 |-> FALSE, mode6 |-> "static", dns |-> FALSE,
       routes |-> {}]

Dhcp == [L3 EXCEPT !.mode = "dhcp"]
Static == [L3 EXCEPT !.ip = TRUE]
Gated == [Static EXCEPT !.gateway = 24]
ToNet == [to |-> "net", via |-> "v4", metric |-> -1]

\* Addresses that contradict themselves are among them.
IfaceL3 ==
  {Dhcp, L3, Static, Gated,
   [Dhcp EXCEPT !.ip = TRUE], [Dhcp EXCEPT !.dns = TRUE, !.routes = {ToNet}],
   [Dhcp EXCEPT !.ip6 = TRUE, !.gateway6 = TRUE], [Dhcp EXCEPT !.gateway6 = TRUE],
   [Dhcp EXCEPT !.mode6 = "slaac"], [Dhcp EXCEPT !.mode6 = "dhcp6", !.ip6 = TRUE],
   [Static EXCEPT !.gateway = 20], [Gated EXCEPT !.cidr = 16], [Gated EXCEPT !.cidr = 25],
   [Static EXCEPT !.gateway = 9, !.cidr = 0], [Gated EXCEPT !.cidr = 16, !.netmask = 24],
   [Gated EXCEPT !.netmask = 16, !.dns = TRUE],
   [Gated EXCEPT !.ip6 = TRUE, !.more6 = TRUE, !.gateway6 = TRUE, !.routes = {ToNet}],
   [L3 EXCEPT !.ip6 = TRUE], [L3 EXCEPT !.more6 = TRUE],
   [Static EXCEPT !.routes = {[ToNet EXCEPT !.via = "v6"]}],
   [Static EXCEPT !.routes = {[to |-> "::/0", via |-> "v6", metric |-> 50], ToNet}]}

\* Of a bond, and of a bridge with no mode.
NoMode(o) == [o EXCEPT !.mode = ""]

BondL3 ==
  {NoMode(o) : o \in {L3, Static, Gated, [L3 EXCEPT !.ip6 = TRUE, !.dns = TRUE],
                      [Gated EXCEPT !.mode6 = "disabled"], [L3 EXCEPT !.gateway = 24],
                      [Gated EXCEPT !.ip6 = TRUE, !.more6 = TRUE, !.dns = TRUE]}}

VlanL3 == {Dhcp, Gated, [Dhcp EXCEPT !.dns = TRUE], [Gated EXCEPT !.ip6 = TRUE, !.routes = {ToNet}]}

BridgeL3 == {NoMode(L3), Dhcp, Gated, NoMode([L3 EXCEPT !.routes = {ToNet}])}

Os(format) == IF format = "ifcfg" THEN "rhel" ELSE "ubuntu"

I(n, o) == [name |-> n, l3 |-> o]
B(n, ports, level, o) == [name |-> n, ports |-> ports, level |-> level, primary |-> "", l3 |-> o]
V(p, o) == [parent |-> p, id |-> "7", l3 |-> o]
R(n, ports, o) == [name |-> n, ports |-> ports, l3 |-> o]

R0 == [os |-> "ubuntu", format |-> "netplan", interfaces |-> <<>>, bonds |-> <<>>,
       vlans |-> <<>>, bridges |-> <<>>]

\* Settings: e1, a bond over e2, a VLAN on e1, a bridge over e3 that is declared too.
SettingRequests ==
  {[R0 EXCEPT !.os = Os(f), !.format = f, !.interfaces = <<I("e1", a), I("e3", Gated)>>,
              !.bonds = <<B("b1", <<"e2">>, l, b)>>, !.vlans = <<V("e1", c)>>,
              !.bridges = <<R("br", <<"e3">>, d)>>] :
     f \in {"netplan", "ifcfg"}, a \in IfaceL3, b \in BondL3, c \in VlanL3, d \in BridgeL3,
     l \in {0, 4}}

\* References: names that are declared twice, ports of two masters, rings.
PortLists == {<<"e1">>, <<"e2", "e1">>, <<"b1">>, <<"b2">>, <<"br">>, <<"e1.7">>}

ReferenceRequests ==
  {[R0 EXCEPT !.interfaces = [k \in DOMAIN is |-> I(is[k], Dhcp)],
              !.bonds = [k \in DOMAIN bs |-> B(<<"b1", "b2">>[k], bs[k], 1, NoMode(L3))],
              !.vlans = [k \in DOMAIN vs |-> V(vs[k], Dhcp)],
              !.bridges = [k \in DOMAIN rs |-> R("br", rs[k], NoMode(L3))]] :
     is \in {<<>>, <<"e1">>, <<"e1", "e2">>, <<"e1", "e1">>, <<"b1">>, <<"e1.7">>},
     bs \in UNION {[1..n -> PortLists] : n \in 0..2},
     vs \in {<<>>, <<"e1">>, <<"b1">>, <<"e1", "e1">>},
     rs \in UNION {[1..n -> PortLists] : n \in 0..1}}
  \cup {[R0 EXCEPT !.bonds = <<[B("b1", <<"e1">>, 1, NoMode(L3)) EXCEPT !.primary = p]>>] :
          p \in {"", "e1", "e2"}}
  \cup {[R0 EXCEPT !.os = os, !.format = f, !.interfaces = <<I("e1", Dhcp)>>] :
          os \in {"ubuntu", "rhel"}, f \in {"netplan", "ifcfg"}}

\* Scripts.
ScriptL3 ==
  {Dhcp, Gated, [Dhcp EXCEPT !.ip = TRUE], [Dhcp EXCEPT !.mode6 = "slaac"],
   [L3 EXCEPT !.ip6 = TRUE, !.routes = {ToNet}], [Gated EXCEPT !.cidr = 25],
   [Gated EXCEPT !.netmask = 16, !.ip6 = TRUE, !.more6 = TRUE, !.gateway6 = TRUE, !.dns = TRUE]}

ScriptRequests ==
  {[R0 EXCEPT !.format = "nmcli", !.interfaces = <<I("e1", a)>>,
              !.bonds = <<B("b1", <<"e2">>, 1, b)>>, !.vlans = vs, !.bridges = rs] :
     a \in ScriptL3, b \in {NoMode(o) : o \in {L3, Gated, [L3 EXCEPT !.ip6 = TRUE, !.dns = TRUE]}}, vs \in {<<>>, <<V("b1", Gated)>>},
     rs \in {<<>>, <<R("br", <<"e3">>, Dhcp)>>}}

\* The port e2 of b1 and an interface have connections of the same name.
NameTwice ==
  [R0 EXCEPT !.format = "nmcli", !.interfaces = <<I("e1", Gated), I("b1-slave-e2", Dhcp)>>,
             !.bonds = <<B("b1", <<"e2">>, 1, NoMode(L3))>>]

AllRequests == <<SettingRequests, ReferenceRequests, ScriptRequests, {NameTwice}>>

\* Other settings, also of the bond.
AllFixes ==
  {[q EXCEPT !.bonds[1].level = l] :
     q \in {r \in ScriptRequests : /\ r.interfaces[1].l3 \in {Dhcp, Gated, [Dhcp EXCEPT !.mode6 = "slaac"]}
                                  /\ r.bonds[1].l3 \in {NoMode(Gated), NoMode(L3)}},
     l \in {1, 4}}
  \cup {[NameTwice EXCEPT !.interfaces[2].l3 = Gated]}
=============================================================================
