----------------------------- MODULE MCClientFiles -----------------------------
(***************************************************************************)
(* Two kinds of sessions: many configurations with one command and no      *)
(* faults, which is about what the files say, and one configuration with   *)
(* two commands that race, fail and crash.                                 *)
(***************************************************************************)
EXTENDS ClientFiles

CONSTANTS c1, c2

MCExtraContents ==
    ("games" :> {"google", "elsewhere"}) @@ ("bank" :> {"cn_site", "wiki_mirror"})
    @@ ("geosite-ads" :> {"ad", "small_ad"})

Everything == {"vless", "hysteria2", "anytls"}
Extra(name, client, to) == [name |-> name, client |-> client, to |-> to]

MCConfig(template, rules, fakeIp, protocols, hopping, extras) ==
    [mode |-> IF fakeIp THEN "direct" ELSE "external", template |-> template, rules |-> rules,
     fakeIp |-> fakeIp, protocols |-> protocols, hopping |-> hopping, ipv4Only |-> hopping,
     extras |-> extras]

SomeExtras == <<Extra("games", "sing-box", "reject"), Extra("bank", "mihomo", "direct")>>

Edit(target, items, add) == [op |-> "edit", target |-> target, items |-> items, add |-> add]
List(kind, items, add) == [op |-> "list", kind |-> kind, items |-> items, add |-> add]
Register(entry, add) == [op |-> "extras", entry |-> entry, add |-> add]
Switch(template) == [op |-> "template", to |-> template]
Protocols(set) == [op |-> "wizard", topic |-> "protocols", answer |-> set]
Mode(mode) == [op |-> "wizard", topic |-> "mode", answer |-> mode]
Clear == [op |-> "clear", targets |-> {"singBox", "clash"}]
Regenerate == [op |-> "regenerate"]

WideJobs ==
    {List("reject", {"chatgpt", "router"}, TRUE), List("proxy", {"cn_site"}, TRUE),
     List("direct", {"netflix", "elsewhere"}, TRUE), List("fakeip", {"google", "cn_site"}, TRUE),
     Edit("singBox", {Pin("chatgpt", "Ai")}, TRUE),
     Edit("singBox", {Pin("google", "Direct")}, TRUE),
     Edit("clash", {Pin("google", "Direct")}, TRUE),
     Edit("server", Misspelt, TRUE),
     Register(Extra("games", "sing-box", "direct"), TRUE),
     Register(Extra("games", "sing-box", "reject"), FALSE),
     Register(Extra("geosite-ads", "mihomo", "reject"), TRUE),
     Protocols({"anytls"}), Protocols(Everything), Mode("ip"), Mode("direct")}
    \cup {Switch(t) : t \in Templates}

WideStarts ==
    {<<MCConfig(t, r, f, Everything, TRUE, SomeExtras), 14>> :
        t \in Templates, r \in {"standard", "minimal"}, f \in BOOLEAN}
    \cup {<<MCConfig(t, "standard", TRUE, {"vless", "hysteria2"}, TRUE, SomeExtras), k>> :
        t \in Templates, k \in 10 .. 13}
    \cup {<<MCConfig(t, "minimal", TRUE, {"vless", "hysteria2"}, TRUE, SomeExtras), 10>> :
        t \in Templates}
    \cup {<<MCConfig(t, "standard", TRUE, {"anytls"}, FALSE, <<>>), 12>> : t \in Templates}

Wide(start) ==
    [config |-> start[1], kernel |-> start[2], jobs |-> WideJobs, commands |-> {c1}, faults |-> 0]

NarrowJobs ==
    {List("direct", {"google"}, TRUE), List("reject", {"google", "cn_site"}, TRUE),
     Edit("singBox", {Pin("google", "Direct")}, TRUE),
     Edit("singBox", {Pin("x", "Ai")}, TRUE), Edit("singBox", {Unreadable}, TRUE),
     Edit("clash", {Pin("google", "Direct")}, TRUE),
     Clear, Switch("split"), Protocols({"anytls"}), Regenerate}

Narrow ==
    [config |-> MCConfig("standard", "standard", TRUE, {"vless", "anytls"}, FALSE, <<>>),
     kernel |-> 12, jobs |-> NarrowJobs, commands |-> {c1, c2}, faults |-> 2]

MCSessions == {Wide(start) : start \in WideStarts} \cup {Narrow}

(* Every session starts from a configuration that is valid and published.  *)
ASSUME \A s \in MCSessions :
    Valid(s.config) /\ Generates(s.config, NoSources, s.kernel)
    /\ ServerAccepted(s.config, NoSources, s.kernel)
    /\ FullAccepted(s.config, NoSources, s.kernel)
================================================================================
