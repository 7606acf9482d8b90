---------------------------- MODULE ClientProfiles ----------------------------
(***************************************************************************)
(* What one configuration and its sources generate: the server file, the   *)
(* sing-box profile of every minor, the two Mihomo files and the node      *)
(* lists (src/src/subscription/render, artifacts.rs, profile.rs,           *)
(* rule_list.rs).  A file is reduced to the nodes, groups, rule sets,      *)
(* rules and resolvers it declares, and to the features it needs from the  *)
(* core that is to load it.                                                *)
(***************************************************************************)
EXTENDS ClientTemplates, Integers, FiniteSets, SequencesExt

CONSTANT ExtraContents     \* what each registrable rule set lists: a set of classes

Minors == 10 .. 14
Latest == 14

TypedDns(v)     == v >= 12
RouteActions(v) == v >= 11
CarriesAnytls(v) == v >= 12
StoreDns(v)     == v >= 14

(* The minors of sing-box that take each feature (external: the core). *)
Since11 == {"rule actions", "server_ports"}
Since12 == {"typed dns", "anytls"}
Until12 == {"block outbound", "dns outbound", "inbound sniff", "inbound domain_strategy"}
Until13 == {"legacy dns", "dns rule outbound"}

Taking ==
    [f \in Since11 \cup Since12 \cup Until12 \cup Until13 \cup {"store_dns", "misspelt"} |->
        CASE f \in Since11 -> 11 .. 14
          [] f \in Since12 -> 12 .. 14
          [] f \in Until12 -> 10 .. 12
          [] f \in Until13 -> 10 .. 13
          [] f = "store_dns" -> {14}
          [] f = "misspelt" -> {}]

CoreAccepts(v, features) == \A f \in features : v \in Taking[f]

-----------------------------------------------------------------------------
(***************************************************************************)
(* Nodes.  With port hopping a client is given the range, which only cores *)
(* from 1.11 on understand.                                                *)
(***************************************************************************)
Node(c, p) ==
    [protocol |-> p, at |-> IF p = "hysteria2" /\ c.hopping THEN "range" ELSE "port"]
ClientNodes(c) == {Node(c, p) : p \in c.protocols}

(* Mutant: every core is given every protocol. *)
ProfileNodesUnfiltered(c, v) ==
    {IF v < 11 THEN [n EXCEPT !.at = "port"] ELSE n : n \in ClientNodes(c)}

ProfileNodes(c, v) ==
    {IF v < 11 THEN [n EXCEPT !.at = "port"] ELSE n :
        n \in {m \in ClientNodes(c) : m.protocol = "anytls" => CarriesAnytls(v)}}

NodeFeatures(nodes) ==
    {"anytls" : n \in {m \in nodes : m.protocol = "anytls"}}
        \cup {"server_ports" : n \in {m \in nodes : m.at = "range"}}

Members(group, nodes) ==
    UNION {CASE m = AllNodes -> {n.protocol : n \in nodes}
             [] m = BuiltinDirect -> {"Direct"}
             [] OTHER -> {m} : m \in group.members}

-----------------------------------------------------------------------------
(***************************************************************************)
(* Route rules: what is matched, the rule sets needed for it, and the      *)
(* outbound or action.  Rules that only sniff or hijack DNS settle no      *)
(* destination and are left out.                                           *)
(***************************************************************************)
RouteRule(match, to) == [match |-> match, needs |-> {}, to |-> to]
SetRule(tags, to) == [match |-> tags, needs |-> tags, to |-> to]

Tags(sequence) == {sequence[i] : i \in DOMAIN sequence}

Remote(c) == c.rules = "standard"
ExtrasFor(c, client) == SelectSeq(c.extras, LAMBDA e : e.client = client)

(* Blocking: an action from 1.11 on, an outbound that must exist before.   *)
SingBoxVerdict(to, v) ==
    IF to # "Reject" THEN to
    ELSE IF RouteActions(v) THEN "reject action" ELSE "block-out"

ExtraVerdict(to, v) ==
    CASE to = "direct" -> "Direct"
      [] to = "proxy" -> "Selector"
      [] to = "reject" -> SingBoxVerdict("Reject", v)
      [] OTHER -> to

SingBoxExtraRules(c, v) ==
    LET extras == ExtrasFor(c, "sing-box") IN
    [i \in DOMAIN extras |-> SetRule({extras[i].name}, ExtraVerdict(extras[i].to, v))]

(* The matches a matcher without rule sets expands into: two for China,    *)
(* because sing-box refuses a rule with names and addresses.               *)
Inline(matcher) ==
    CASE matcher.kind = "private" -> <<{"private-address"}>>
      [] matcher.kind = "ai" -> <<{"ai-names"}>>
      [] matcher.kind = "cn" -> <<{"cn-names"}, {"cn-cidrs"}>>
      [] matcher.kind = "list" -> <<{matcher.list}>>
      [] matcher.kind = "none" -> <<>>

Visible(spec, tags) == {t \in tags : SetFor(t, Both) \in spec.sets}

SingBoxMatchers(spec, rule, remote, to) ==
    LET inline(matcher) == [i \in DOMAIN Inline(matcher) |->
                               RouteRule(Inline(matcher)[i], to)]
    IN  IF rule.matcher.kind # "sets" THEN inline(rule.matcher)
        ELSE LET visible == Visible(spec, rule.matcher.tags)
             IN  CASE visible = {} -> <<>>
                   [] visible # {} /\ remote -> <<SetRule(visible, to)>>
                   [] OTHER -> inline(rule.twin)

(* Rules the generated profiles place before those of the template. *)
PlayRule == RouteRule({"play-name"}, "Selector")
PortalRule == RouteRule({"portal-names"}, "Direct")
AiRule == RouteRule({"ai-names"}, "Selector")

PurposeRouteRules(c, v) ==
    LET spec == TemplateSpec(c.template)
        own == SelectSeq(spec.rules, LAMBDA r : "sing-box" \in r.on)
    IN  <<PlayRule, PortalRule, RouteRule({"private-names"}, "Direct")>>
        \o FlattenSeq([i \in DOMAIN own |->
               SingBoxMatchers(spec, own[i], Remote(c), SingBoxVerdict(own[i].to, v))])

(* The vendored baseline of the standard and compact profiles, its rule    *)
(* sets replaced one by one where no CDN may be contacted.                 *)
InlineTwin == [t \in {"geosite-private", "geosite-cn", "geoip-private", "geoip-cn"} |->
    CASE t = "geosite-private" -> "private-names" [] t = "geosite-cn" -> "cn-names"
      [] t = "geoip-private" -> "private-address" [] t = "geoip-cn" -> "cn-cidrs"]

BaselineRouteRules(c) ==
    <<PlayRule, PortalRule, AiRule, RouteRule({"home-names"}, "Direct")>>
    \o [i \in 1 .. 4 |->
          LET tag == <<"geosite-private", "geosite-cn", "geoip-private", "geoip-cn">>[i]
          IN  IF Remote(c) THEN SetRule({tag}, "Direct")
              ELSE RouteRule({InlineTwin[tag]}, "Direct")]

-----------------------------------------------------------------------------
(***************************************************************************)
(* Resolvers of a sing-box profile: the rules that choose one by name, the *)
(* fake-ip answer for what is left, and the final server.                  *)
(***************************************************************************)
DnsRule(match, server) == [match |-> match, needs |-> {}, server |-> server]
DnsSetRule(tags, server) == [match |-> tags, needs |-> tags, server |-> server]

StandardDns(c) ==
    [servers |-> {"dns-local", "dns-cn", "dns-cn-doh", "dns-remote"}
                     \cup (IF c.fakeIp THEN {"dns-fakeip"} ELSE {}),
     rules |-> <<DnsRule({"home-names"}, "dns-local"),
                 IF Remote(c) THEN DnsSetRule({"geosite-private"}, "dns-local")
                 ELSE DnsRule({"private-names"}, "dns-local"),
                 DnsRule({"portal-names"}, "dns-cn"),
                 IF Remote(c) THEN DnsSetRule({"geosite-cn"}, "dns-cn")
                 ELSE DnsRule({"cn-names"}, "dns-cn")>>,
     final |-> IF c.fakeIp THEN "dns-fakeip" ELSE "dns-remote",
     fakes |-> FALSE,
     real |-> {}]

PurposeDns(c) ==
    LET spec == TemplateSpec(c.template)
        direct == spec.dnsDirectSet \cup Visible(spec, {"geosite-private"})
    IN  [servers |-> {"dns-direct", "dns-proxy", "dns-local"}
                        \cup (IF c.fakeIp THEN {"dns-fakeip"} ELSE {}),
         rules |-> <<DnsRule({"private-names"}, "dns-local"),
                     DnsRule({"portal-names"}, "dns-direct")>>
                   \o (IF spec.dnsDirectSet = {} THEN <<>>
                       ELSE IF Remote(c) THEN <<DnsSetRule(direct, "dns-direct")>>
                       ELSE <<DnsRule({"cn-names"}, "dns-direct")>>)
                   \o <<DnsRule({"home-names"}, "dns-direct")>>,
         final |-> IF c.fakeIp THEN "dns-fakeip" ELSE "dns-proxy",
         fakes |-> FALSE,
         real |-> {}]

-----------------------------------------------------------------------------
(***************************************************************************)
(* sing_box_full: the profile of one minor.                                *)
(***************************************************************************)
Baseline(c) == c.template \in {"standard", "compact"}

SingBoxGroups(c, nodes) ==
    LET spec == TemplateSpec(c.template) IN
    [g \in {h.tag : h \in {k \in spec.groups : "sing-box" \in k.on /\ k.role # "direct"}} |->
        Members(CHOOSE h \in spec.groups : h.tag = g, nodes)]

BlocksBeforeActions(c, v) ==
    ~RouteActions(v)
    /\ \/ /\ ~Baseline(c)
          /\ \E i \in DOMAIN TemplateSpec(c.template).rules :
                TemplateSpec(c.template).rules[i].to = "Reject"
       \/ /\ Baseline(c) \/ Remote(c)
          /\ \E i \in DOMAIN c.extras :
                c.extras[i].client = "sing-box" /\ c.extras[i].to = "reject"

(* The rule sets a file declares, and how many declarations it takes. *)
Names(extras) == {extras[i].name : i \in DOMAIN extras}
DeclaredSets(remote, tags, extras) ==
    IF remote THEN [tags |-> tags \cup Names(extras), entries |-> Cardinality(tags) + Len(extras)]
    ELSE [tags |-> {}, entries |-> 0]

SingBoxSets(c) ==
    DeclaredSets(Remote(c), Visible(TemplateSpec(c.template), TemplateTags(c.template)),
                 ExtrasFor(c, "sing-box"))

VersionFeatures(v) ==
    (IF TypedDns(v) THEN {"typed dns"} ELSE {"legacy dns", "dns rule outbound"})
    \cup (IF RouteActions(v) THEN {"rule actions"} ELSE {"dns outbound", "inbound sniff"})
    \cup (IF StoreDns(v) THEN {"store_dns"} ELSE {})

ProfileFeatures(c, v) ==
    VersionFeatures(v) \cup NodeFeatures(ProfileNodes(c, v))
        \cup (IF BlocksBeforeActions(c, v) THEN {"block outbound"} ELSE {})

SingBoxFull(c, v) ==
    LET nodes == ProfileNodes(c, v)
    IN  [nodes |-> nodes,
         groups |-> SingBoxGroups(c, nodes),
         special |-> {"Direct"} \cup (IF RouteActions(v) THEN {} ELSE {"dns-out"})
                        \cup (IF BlocksBeforeActions(c, v) THEN {"block-out"} ELSE {}),
         sets |-> SingBoxSets(c),
         rules |-> (IF Remote(c) THEN SingBoxExtraRules(c, v) ELSE <<>>)
                   \o (IF Baseline(c) THEN BaselineRouteRules(c) ELSE PurposeRouteRules(c, v)),
         final |-> TemplateSpec(c.template).final,
         dns |-> IF Baseline(c) THEN StandardDns(c) ELSE PurposeDns(c),
         features |-> ProfileFeatures(c, v)]

(***************************************************************************)
(* select_full_profile: the newest described profile the installed kernel  *)
(* accepts, and the newest one when there is none.                         *)
(***************************************************************************)
SelectFullProfile(c, kernel) ==
    LET accepted == {v \in Minors : /\ ProfileNodes(c, v) # {}
                                    /\ CoreAccepts(kernel, ProfileFeatures(c, v))}
    IN  IF accepted = {} THEN Latest ELSE Max(accepted)

(* sing_box_server: every protocol listens, pinned to IPv4 the way the     *)
(* profile of the full file has it; the override document is merged in.    *)
SingBoxServer(c, v, document) ==
    [protocols |-> c.protocols,
     features |-> ({"anytls"} \cap c.protocols) \cup document
         \cup (IF ~c.ipv4Only THEN {}
               ELSE IF RouteActions(v) THEN {"rule actions"}
               ELSE {"inbound domain_strategy"})]

-----------------------------------------------------------------------------
(***************************************************************************)
(* The Mihomo files.  Both render the vendored rules; the one for 1.18     *)
(* downloads nothing and carries no AnyTLS.                                *)
(***************************************************************************)
MihomoTemplate(c) == IF c.template = "compact" THEN "compact" ELSE "standard"

MihomoExtraTarget(to) ==
    CASE to = "direct" -> "Direct" [] to = "reject" -> "REJECT" [] OTHER -> "Selector"

MihomoExtraRules(c) ==
    LET extras == ExtrasFor(c, "mihomo") IN
    [i \in DOMAIN extras |-> SetRule({extras[i].name}, MihomoExtraTarget(extras[i].to))]

ReviewSets == <<"review-private-domain", "review-cn-domain", "review-private-ip", "review-cn-ip">>
ReviewTraits == <<"geosite-private", "geosite-cn", "geoip-private", "geoip-cn">>
ReviewTwins == <<"private-names", "cn-names", "private-cidrs", "cn-cidrs">>

MihomoRules(c, remote) ==
    (IF remote THEN MihomoExtraRules(c) ELSE <<>>)
    \o <<PlayRule, PortalRule, AiRule, RouteRule({"home-names"}, "Direct")>>
    \o [i \in 1 .. 4 |->
          IF remote THEN [match |-> {ReviewTraits[i]}, needs |-> {ReviewSets[i]}, to |-> "Direct"]
          ELSE RouteRule({ReviewTwins[i]}, "Direct")]

(* Names on the filter, or all where nothing is faked, are asked by their  *)
(* policy or else through the proxy.                                       *)
MihomoListed(i, remote, server) ==
    IF remote THEN [match |-> {ReviewTraits[i]}, needs |-> {ReviewSets[i]}, server |-> server]
    ELSE DnsRule({ReviewTwins[i]}, server)

MihomoDns(c, remote) ==
    [servers |-> {"system", "domestic", "nameserver"},
     rules |-> <<DnsRule({"home-names"}, "system"), MihomoListed(1, remote, "system"),
                 DnsRule({"portal-names"}, "domestic"), MihomoListed(2, remote, "domestic")>>,
     final |-> "nameserver",
     fakes |-> c.fakeIp,
     real |-> {"home-names", "portal-names", IF remote THEN ReviewTraits[1] ELSE ReviewTwins[1]}]

MihomoFile(c, nodes, remote) ==
    LET spec == TemplateSpec(MihomoTemplate(c))
        extras == ExtrasFor(c, "mihomo")
    IN  [nodes |-> nodes,
         groups |-> [g \in {h.tag : h \in spec.groups} \cap {"Selector", "Auto"} |->
                       Members(CHOOSE h \in spec.groups : h.tag = g, nodes)],
         special |-> {"Direct", "REJECT"},
         sets |-> DeclaredSets(remote, Tags(ReviewSets) \ Names(extras), extras),
         rules |-> MihomoRules(c, remote),
         final |-> "Selector",
         dns |-> MihomoDns(c, remote),
         features |-> {}]

Clash(c) == MihomoFile(c, ClientNodes(c), Remote(c))
ClashLegacy(c) ==
    MihomoFile(c, {n \in ClientNodes(c) : n.protocol # "anytls"}, FALSE)


-----------------------------------------------------------------------------
(***************************************************************************)
(* The operator's sources.  An override document is a set of pins, rules   *)
(* that send one class to a group or node, or holds the unreadable token;  *)
(* a rule list is a set of classes.                                        *)
(***************************************************************************)
Unreadable == [class |-> "none", to |-> "unreadable"]
Pin(class, to) == [class |-> class, to |-> to]
Misspelt == {"misspelt"}

NoSources == [singBox |-> {}, clash |-> {}, server |-> {},
              direct |-> {}, proxy |-> {}, reject |-> {}, fakeip |-> {}]
RuleKinds == {"direct", "proxy", "reject", "fakeip"}

Readable(src) == Unreadable \notin src.singBox \cup src.clash

PinRules(document) ==
    LET pins == SetToSeq(document)
    IN  [i \in DOMAIN pins |-> RouteRule({pins[i].class}, pins[i].to)]

(* Mutant: the documents' rules are appended. *)
WithOverrideAppended(file, document) == [file EXCEPT !.rules = @ \o PinRules(document)]

(* The documents' rules go before what is generated. *)
WithOverride(file, document) == [file EXCEPT !.rules = PinRules(document) \o @]

(* The lists' rules go before both: blocking wins over proxying, and that  *)
(* over direct.                                                            *)
ListRules(src, blocked) ==
    SelectSeq(<<RouteRule(src.reject, blocked), RouteRule(src.proxy, "Selector"),
                RouteRule(src.direct, "Direct")>>,
              LAMBDA r : r.match # {})

(* Mutant: the exceptions join the rules that ask the domestic resolver. *)
WithFakeIpExceptionsAtHome(rules, classes) ==
    [i \in DOMAIN rules |->
        IF rules[i].server \in {"dns-cn", "dns-direct"}
        THEN [rules[i] EXCEPT !.match = @ \cup classes]
        ELSE rules[i]]

(* The exceptions join the rule that asks the local resolver. *)
WithFakeIpExceptions(rules, classes) ==
    [i \in DOMAIN rules |->
        IF rules[i].server = "dns-local" /\ rules[i].needs = {}
           /\ \A j \in 1 .. i - 1 : rules[j].server # "dns-local"
        THEN [rules[i] EXCEPT !.match = @ \cup classes]
        ELSE rules[i]]

SingBoxWithLists(file, src, legacyBlock) ==
    LET blocked == IF legacyBlock THEN "block-out" ELSE "reject action"
        blocks == legacyBlock /\ src.reject # {}
    IN  [file EXCEPT !.rules = ListRules(src, blocked) \o @,
                     !.special = @ \cup (IF blocks THEN {"block-out"} ELSE {}),
                     !.features = @ \cup (IF blocks THEN {"block outbound"} ELSE {}),
                     !.dns.rules = WithFakeIpExceptions(@, src.fakeip)]

MihomoWithLists(file, src) ==
    [file EXCEPT !.rules = ListRules(src, "REJECT") \o @,
                 !.dns.real = @ \cup src.fakeip]

-----------------------------------------------------------------------------
(***************************************************************************)
(* The formats of the subscription, each a published file; the profiles of *)
(* sing-box are those of the registry, the minors and one patch release.   *)
(***************************************************************************)
Format(kind, version) == [kind |-> kind, version |-> version]
Plain(kind) == Format(kind, <<>>)

SingBoxVersions == <<<<1, 10>>, <<1, 11>>, <<1, 12>>, <<1, 13>>, <<1, 14>>, <<1, 14, 4>>>>
ClashLegacyVersion == <<1, 18>>
MinorOf(version) == version[2]

Full == Plain("sing-box-full")
SingBoxFile(version) == Format("sing-box-version", version)
ClashFile == Plain("clash")
ClashLegacyFile == Format("clash-legacy", ClashLegacyVersion)

VersionFiles == {SingBoxFile(v) : v \in ToSet(SingBoxVersions)}
SingBoxNames == {Full} \cup VersionFiles
ClientNames == SingBoxNames \cup {ClashFile, ClashLegacyFile}
NodeLists == {Plain("sing-box"), Plain("uri"), Plain("base64-uri"), Plain("shadowrocket")}

(* has_compatible_nodes: what pages and commands offer and the daemon      *)
(* serves.                                                                 *)
SupportsAnytls(format) ==
    IF format.kind = "sing-box-version" THEN CarriesAnytls(MinorOf(format.version))
    ELSE format # ClashLegacyFile

HasCompatibleNodes(format, c) ==
    \E p \in c.protocols : SupportsAnytls(format) \/ p # "anytls"

AnytlsOnly(c) == c.protocols = {"anytls"}

(* What is generated: the versions and the old Mihomo file are left out    *)
(* when they would have no node.                                           *)
GeneratedNames(c) ==
    NodeLists \cup {Full, ClashFile}
    \cup {f \in VersionFiles : CarriesAnytls(MinorOf(f.version)) \/ ~AnytlsOnly(c)}
    \cup {f \in {ClashLegacyFile} : HasCompatibleNodes(f, c)}

ProfileOf(name, full) == IF name = Full THEN full ELSE MinorOf(name.version)

ClientFile(name, c, src, full) ==
    IF name \in SingBoxNames
    THEN LET v == ProfileOf(name, full)
         IN  SingBoxWithLists(WithOverride(SingBoxFull(c, v), src.singBox), src,
                              ~RouteActions(v))
    ELSE MihomoWithLists(WithOverride(IF name = ClashFile THEN Clash(c) ELSE ClashLegacy(c),
                                      src.clash), src)

Generated(name, c, src, kernel) == ClientFile(name, c, src, SelectFullProfile(c, kernel))

ServerFile(c, src, kernel) ==
    SingBoxServer(c, SelectFullProfile(c, kernel), src.server)

(***************************************************************************)
(* validate_client_references: rules, members and resolvers name what the  *)
(* same file declares.                                                     *)
(***************************************************************************)
Outbounds(file) ==
    {n.protocol : n \in file.nodes} \cup DOMAIN file.groups \cup file.special

ClosedRoutes(file) ==
    \A i \in DOMAIN file.rules :
        /\ file.rules[i].to \in Outbounds(file) \cup {"reject action"}
        /\ file.rules[i].needs \subseteq file.sets.tags

ClosedGroups(file) ==
    /\ file.final \in Outbounds(file)
    /\ \A g \in DOMAIN file.groups : file.groups[g] \subseteq Outbounds(file)

ClosedDns(file) ==
    /\ file.dns.final \in file.dns.servers
    /\ \A i \in DOMAIN file.dns.rules :
          /\ file.dns.rules[i].server \in file.dns.servers
          /\ file.dns.rules[i].needs \subseteq file.sets.tags

Closed(file) == ClosedRoutes(file) /\ ClosedGroups(file) /\ ClosedDns(file)

(* generated_artifacts_for_kernel succeeds. *)
Generates(c, src, kernel) ==
    /\ c.protocols # {}
    /\ Readable(src)
    /\ LET full == SelectFullProfile(c, kernel)
       IN  \A name \in GeneratedNames(c) \cap ClientNames :
              LET file == ClientFile(name, c, src, full) IN Closed(file)

(* The checks of the real kernel before anything is published: the server  *)
(* always, the merged full profile when the operator added to it.          *)
Customised(c, src) ==
    \/ src.singBox # {}
    \/ c.extras # <<>>
    \/ \E kind \in RuleKinds : src[kind] # {}

ServerAccepted(c, src, kernel) ==
    CoreAccepts(kernel, ServerFile(c, src, kernel).features)

FullAccepted(c, src, kernel) ==
    CoreAccepts(kernel, Generated(Full, c, src, kernel).features)

-----------------------------------------------------------------------------
(***************************************************************************)
(* What a file does with a class of traffic: the first rule that matches.  *)
(***************************************************************************)
Lists(class) ==
    Traits[class] \cup {class} \cup {n \in DOMAIN ExtraContents : class \in ExtraContents[n]}

FirstMatch(rules, class) ==
    {i \in DOMAIN rules : /\ rules[i].match \cap Lists(class) # {}
                          /\ \A j \in 1 .. i - 1 : rules[j].match \cap Lists(class) = {}}

(* Blocked traffic is blocked however the file says it. *)
Verdict(file, class) ==
    LET first == FirstMatch(file.rules, class)
        to == IF first = {} THEN file.final ELSE file.rules[CHOOSE i \in first : TRUE].to
    IN  IF to \in {"block-out", "reject action", "REJECT"} THEN "Reject" ELSE to

Resolver(file, class) ==
    LET first == FirstMatch(file.dns.rules, class)
    IN  IF file.dns.fakes /\ file.dns.real \cap Lists(class) = {} THEN "dns-fakeip"
        ELSE IF first = {} THEN file.dns.final
        ELSE file.dns.rules[CHOOSE i \in first : TRUE].server
================================================================================
