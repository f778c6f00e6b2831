---------------------------- MODULE MCGnmiPaths ----------------------------
(***************************************************************************)
(* A list "if" with the key "name", in its entry e1 a leaf "mtu" and a     *)
(* list "addr" with two keys, "ip" and "len", and a leaf "scope"; and a    *)
(* top-level leaf "sys".                                                   *)
(***************************************************************************)
EXTENDS GnmiPaths

If1   == Elem("if", {<<"name", "e1">>})
Addr1 == Elem("addr", {<<"ip", "a1">>, <<"len", "31">>})
Plain(name) == Elem(name, {})

Name  == <<If1, Plain("name")>>
Mtu   == <<If1, Plain("mtu")>>
Ip    == <<If1, Addr1, Plain("ip")>>
Plen  == <<If1, Addr1, Plain("len")>>
Scope == <<If1, Addr1, Plain("scope")>>
Sys   == <<Plain("sys")>>

MCLeaf    == {Name, Mtu, Ip, Plen, Scope, Sys}
MCKeyLeaf == {Name, Ip, Plen}
MCValue   == {"e1", "a1", "31", "v1", "v2"}

(* All configurations with keys: an interface or none, an address in it or *)
(* none, and any other leaves.                                             *)
Cfg(if, addr, mtu, scope, sys) ==
  [p \in MCLeaf |->
     CASE p = Name -> IF if THEN "e1" ELSE Absent
       [] p = Mtu -> IF if THEN mtu ELSE Absent
       [] p = Ip -> IF if /\ addr THEN "a1" ELSE Absent
       [] p = Plen -> IF if /\ addr THEN "31" ELSE Absent
       [] p = Scope -> IF if /\ addr THEN scope ELSE Absent
       [] p = Sys -> sys]

MCCfg(values, sysValues) ==
  {Cfg(if, addr, mtu, scope, sys) :
     if \in BOOLEAN, addr \in BOOLEAN, mtu \in values, scope \in values, sys \in sysValues}

MCSpecCfg == MCCfg({Absent, "v1", "v2"}, {Absent, "v1"})

MCDeviceCfg == MCCfg({Absent, "v1", "v2"}, {"v2"})
=============================================================================
