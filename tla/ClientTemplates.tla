---------------------------- MODULE ClientTemplates ----------------------------
(***************************************************************************)
(* The client templates of src/src/subscription/template.rs: the groups,   *)
(* rule sets and routing verdicts both kinds of client files are rendered  *)
(* from.                                                                   *)
(*                                                                         *)
(* A destination is a class of traffic, known by its traits: the rule sets *)
(* that list it, the compiled-in lists that name it and what the core      *)
(* knows by itself.  A matcher is tried against the traits, so the model   *)
(* needs neither host names nor addresses.                                 *)
(***************************************************************************)
EXTENDS Sequences

Templates == {"standard", "compact", "global", "split"}

(* The verdict vocabulary: the groups a rule may name, and the built-in    *)
(* block policy.                                                           *)
Groups == {"Selector", "Auto", "Direct", "Fallback", "Proxy", "Ai", "Stream", "Telegram"}
Verdicts == Groups \cup {"Reject"}

(***************************************************************************)
(* Matchers                                                                *)
(***************************************************************************)
Private == [kind |-> "private"]
AiDomains == [kind |-> "ai"]
Cn == [kind |-> "cn"]
RuleSet(tags) == [kind |-> "sets", tags |-> tags]
NameList(list) == [kind |-> "list", list |-> list]
NoTwin == [kind |-> "none"]

(* An inline rule: what it matches, what takes its place when no rule CDN  *)
(* may be contacted, where it sends, and who renders it.                   *)
Rule(matcher, twin, to, on) == [matcher |-> matcher, twin |-> twin, to |-> to, on |-> on]
Both == {"sing-box", "mihomo"}
DirectRule(matcher, twin, on) == Rule(matcher, twin, "Direct", on)

(* A rule set, and the renderers that have a URL for it. *)
SetFor(tag, on) == [tag |-> tag, on |-> on]
BothSet(tag) == SetFor(tag, Both)
ClashOnly(tag) == SetFor(tag, {"mihomo"})

(***************************************************************************)
(* Groups: the mechanism, the renderers that declare it, and its members.  *)
(***************************************************************************)
AllNodes == "all nodes"
BuiltinDirect == "built-in direct"
Group(tag, role, on, members) == [tag |-> tag, role |-> role, on |-> on, members |-> members]
Manual == {"Auto", BuiltinDirect, AllNodes}
Pinnable == {"Auto", AllNodes}

StandardGroups == {Group("Selector", "selector", Both, Manual),
                   Group("Auto", "urltest", Both, {AllNodes}),
                   Group("Direct", "direct", Both, {})}

CompactGroups == {Group("Selector", "selector", Both, {AllNodes, BuiltinDirect})}

PurposeGroups == StandardGroups
    \cup {Group("Fallback", "fallback", {"mihomo"}, {AllNodes}),
          Group("Proxy", "selector", Both, Manual)}
    \cup {Group(g, "selector", Both, Pinnable) : g \in {"Ai", "Stream", "Telegram"}}

(***************************************************************************)
(* The four templates                                                      *)
(***************************************************************************)
(* Only the private addresses are asked from the core; the rest names rule *)
(* sets, each with the list that takes its place.                          *)
LanRules(twin) ==
    <<DirectRule(Private, NoTwin, {"sing-box"}),
      DirectRule(RuleSet({"geosite-private", "geoip-private"}), twin, Both)>>

ChinaDirect == DirectRule(RuleSet({"geosite-cn", "geoip-cn"}), Cn, Both)

StandardSpec ==
    [groups |-> StandardGroups,
     sets |-> {BothSet(t) : t \in {"geosite-private", "geoip-private",
                                   "geosite-cn", "geoip-cn"}},
     rules |-> <<LanRules(Private)[1],
                 Rule(AiDomains, NoTwin, "Selector", Both),
                 LanRules(Private)[2],
                 ChinaDirect>>,
     dnsDirectSet |-> {"geosite-cn"},
     final |-> "Selector"]

CompactSpec == [StandardSpec EXCEPT !.groups = CompactGroups]

(* Ads die first, then the purpose groups, then the broad proxy list.      *)
PurposeRules ==
    <<Rule(RuleSet({"geosite-ads"}), NameList("ads-names"), "Reject", Both),
      Rule(AiDomains, NoTwin, "Ai", Both),
      Rule(RuleSet({"geosite-openai"}), NameList("openai-names"), "Ai", Both),
      Rule(RuleSet({"geosite-netflix"}), NameList("netflix-names"), "Stream", Both),
      Rule(RuleSet({"geosite-telegram"}), NameList("telegram-names"), "Telegram", Both),
      Rule(RuleSet({"geosite-proxy"}), NameList("proxy-names"), "Proxy", Both)>>

PurposeSets == {ClashOnly(t) : t \in {"geosite-private", "geoip-private"}}
    \cup {BothSet(t) : t \in {"geosite-ads", "geosite-proxy", "geosite-openai",
                              "geosite-netflix", "geosite-telegram", "geosite-cn"}}

GlobalSpec ==
    [groups |-> PurposeGroups,
     sets |-> PurposeSets,
     rules |-> LanRules(NameList("private-names")) \o PurposeRules
               \o <<Rule(RuleSet({"geosite-cn"}), NameList("cn-names"), "Proxy", Both)>>,
     dnsDirectSet |-> {},
     final |-> "Selector"]

SplitSpec ==
    [groups |-> PurposeGroups,
     sets |-> PurposeSets \cup {BothSet("geoip-cn")},
     rules |-> LanRules(Private) \o PurposeRules \o <<ChinaDirect>>,
     dnsDirectSet |-> {"geosite-cn"},
     final |-> "Selector"]

TemplateSpec(template) ==
    CASE template = "standard" -> StandardSpec
      [] template = "compact" -> CompactSpec
      [] template = "global" -> GlobalSpec
      [] template = "split" -> SplitSpec

TemplateTags(template) == {s.tag : s \in TemplateSpec(template).sets}

(***************************************************************************)
(* Traffic.  The traits are the lists a class is on; a compiled list is a  *)
(* choice from the rule set of the same subject, so for several subjects   *)
(* there is a class the rule set knows and the compiled list does not.     *)
(***************************************************************************)
Foreign == "geosite-proxy"

Traits ==
    [chatgpt |-> {"ai-names", "geosite-openai", "openai-names", Foreign},
     sora |-> {"geosite-openai", "openai-names", Foreign},
     x |-> {"ai-names", Foreign, "proxy-names"},
     netflix |-> {"geosite-netflix", "netflix-names", Foreign},
     telegram |-> {"geosite-telegram", "telegram-names", Foreign},
     google |-> {Foreign, "proxy-names"},
     wiki_mirror |-> {Foreign},
     ad |-> {"geosite-ads", "ads-names", Foreign},
     small_ad |-> {"geosite-ads", "geosite-cn"},
     cn_site |-> {"geosite-cn", "cn-names"},
     small_cn_site |-> {"geosite-cn"},
     cn_address |-> {"geoip-cn", "cn-cidrs"},
     lan_address |-> {"private-address", "geoip-private", "private-cidrs"},
     lan_name |-> {"home-names", "geosite-private", "private-names"},
     router |-> {"geosite-private", "private-names"},
     portal |-> {"portal-names", Foreign},
     play |-> {"play-name", "geosite-cn"},
     elsewhere |-> {}]

Classes == DOMAIN Traits

(* Addresses reach the rules without a name to resolve. *)
Addresses == {"cn_address", "lan_address"}
================================================================================
