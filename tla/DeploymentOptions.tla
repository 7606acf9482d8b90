------------------------- MODULE DeploymentOptions -------------------------
(***************************************************************************)
(* What an administrator chooses, and the configuration made of it.        *)
(*                                                                         *)
(* A dialogue asks questions whose default is the current value: an answer *)
(* is a partial function from questions, and what it leaves out is Enter.  *)
(* The configuration is then rebuilt from all the answers, old and new;    *)
(* only the credentials, the hopping range, the observation endpoint and   *)
(* the client's preferences are carried over.                              *)
(*                                                                         *)
(* Fields no condition reads (traffic limit, display zone, the hopping     *)
(* interval) are left out; proxyHost stands for them.                      *)
(***************************************************************************)
EXTENDS BillingCalendar, SequencesExt

CONSTANTS
  None,
  Domains, Addresses,   \* hosts: names and IP addresses
  DefaultSni,           \* DEFAULT_PROTOCOL_SNI
  Anchors,              \* civil times an anchored month may start at
  Ports,                \* 10000-65535, for the protocols
  HighPorts,            \* other ports above 1024
  DefaultPort,          \* 2080
  ApiPorts,             \* 20000-39999, for the observation endpoint
  Interfaces,           \* of the network
  Ranges                \* [low, high] of hopping

ASSUME OptionsAssumption ==
  /\ Domains \cap Addresses = {}
  /\ Ports \cup HighPorts \cup ApiPorts \subseteq Nat
  /\ Ports \cap HighPorts = {} /\ ApiPorts \subseteq Ports
  /\ DefaultPort \in HighPorts
  /\ \A r \in Ranges : r.low < r.high
  /\ None \notin Ports /\ None \notin [interface : Interfaces, range : Ranges, to : Ports]

Canonical == <<"vless-reality", "vmess-websocket", "hysteria2", "tuic", "anytls">>
Protocols == ToSet(Canonical)
OverTls   == Protocols \ {"vless-reality"}

Modes == {"direct", "external-proxy", "ip-fallback"}

-----------------------------------------------------------------------------
(***************************************************************************)
(* A configuration as validation sees it                                   *)
(***************************************************************************)
Enabled(c) == ToSet(c.enabled)

NodePorts(c) == {c.nodes[p].port : p \in Enabled(c)}

(* The port of the subscription daemon; the socket unit has 80 and 443. *)
DaemonPort(c) == IF c.mode = "external-proxy" THEN c.listenPort ELSE c.httpPort

ServerName(c) ==
  IF c.sni # None THEN c.sni
  ELSE IF c.host \in Addresses THEN DefaultSni ELSE c.host

InRange(n, r) == n \in r.low..r.high

(* No other listener in the range, of either transport. *)
HoppingValid(c) ==
  c.hopping # None =>
    /\ "hysteria2" \in Enabled(c)
    /\ {c.hopping.low, c.hopping.high} \subseteq Ports
    /\ \A p \in Enabled(c) \ {"hysteria2"} : ~InRange(c.nodes[p].port, c.hopping)
    /\ \A n \in {c.httpPort, c.listenPort, c.api} \ {None} : ~InRange(n, c.hopping)

ProtocolsValid(c) ==
  /\ c.enabled # <<>>
  /\ \A p \in Enabled(c) : p \in Protocols /\ c.nodes[p] # None
  /\ NodePorts(c) \subseteq Ports
  /\ Cardinality(NodePorts(c)) = Len(c.enabled)
  /\ "vless-reality" \in Enabled(c) => c.realitySni # None
  /\ c.certificate = "domain" /\ c.mode # "ip-fallback" => ServerName(c) = c.host

AccountingValid(c) ==
  (c.schedule.anchor = None) = (c.schedule.policy = "natural-month")
    /\ AnchorIsDefinite(c.schedule)

ModeValid(c) ==
  CASE c.mode = "ip-fallback" ->
         /\ c.host \in Addresses /\ c.listenPort = None
         /\ c.httpPort # None /\ c.httpPort \notin NodePorts(c)
         /\ Enabled(c) \cap OverTls # {} => c.certificate = "self-signed"
    [] c.mode = "direct" ->
         c.host \in Domains /\ c.httpPort = None /\ c.listenPort = None
    [] c.mode = "external-proxy" ->
         /\ c.host \in Domains /\ c.httpPort = None
         /\ c.listenPort # None /\ c.listenPort \notin NodePorts(c)

Valid(c) == HoppingValid(c) /\ ProtocolsValid(c) /\ AccountingValid(c) /\ ModeValid(c)

(* What can be read from config.toml, valid or not. *)
Fields ==
  {"mode", "host", "proxyHost", "email", "httpPort", "listenPort", "certificate", "interface",
   "enabled", "realitySni", "sni", "schedule", "nodes", "hopping", "api", "template", "client"}

Policies == {"natural-month", "anchored-month"}

Readable(c) ==
  /\ c = [f \in Fields |-> c[f]]
  /\ c.mode \in Modes /\ c.certificate \in {"domain", "self-signed"}
  /\ c.enabled \in Seq(Protocols)
  /\ c.hopping \in Ranges \cup {None} /\ c.interface \in Interfaces
  /\ c.schedule \in [policy : Policies, zone : Zones, anchor : Anchors \cup {None}]

-----------------------------------------------------------------------------
(***************************************************************************)
(* Questions and answers                                                   *)
(***************************************************************************)
About(subject)    == <<subject, None>>
EnableQuestion(p) == <<"enable", p>>
PortQuestion(p)   == <<"port", p>>

(* A dialogue takes only answers it can make sense of. *)
Understood(a) ==
  LET within(subject, S) == About(subject) \in DOMAIN a => a[About(subject)] \in S
  IN  /\ within("mode", Modes) /\ within("certificate", {"domain", "self-signed"})
      /\ within("hopping", Ranges \cup {None}) /\ within("interface", Interfaces)
      /\ within("policy", Policies) /\ within("zone", Zones) /\ within("anchor", Anchors)

Topics == {"subscription", "protocols", "traffic", "wizard"}

Dialogues == Topics \cup {"hopping", "client", "api", "switch-mode"}

Ask(a, question, current) == IF question \in DOMAIN a THEN a[question] ELSE current

AskIf(condition, a, question, current) ==
  IF condition THEN Ask(a, question, current) ELSE None

(* The members of S, in the order of s. *)
Picked(s, S) ==
  LET upTo[i \in 0..Len(s)] ==
        IF i = 0 THEN <<>>
        ELSE IF s[i] \in S THEN Append(upTo[i - 1], s[i]) ELSE upTo[i - 1]
  IN  upTo[Len(s)]

(* Every edit puts the list in canonical order. *)
MergedOrderCanonical(old, selected) == Picked(Canonical, selected)

(* Protocols that stay keep their place, new ones follow in canonical order. *)
MergedOrder(old, selected) ==
  Picked(old, selected) \o Picked(Canonical, selected \ ToSet(old))

PortOf(c, p) == IF c.nodes[p] = None THEN None ELSE c.nodes[p].port

(* What every topic starts from. *)
Carried(c) ==
  [mode |-> c.mode, host |-> c.host, proxyHost |-> c.proxyHost, email |-> c.email,
   httpPort |-> c.httpPort, listenPort |-> c.listenPort,
   certificate |-> c.certificate, interface |-> c.interface, enabled |-> c.enabled,
   realitySni |-> c.realitySni, sni |-> c.sni, schedule |-> c.schedule,
   ports |-> [p \in Protocols |-> PortOf(c, p)]]

Or(value, default) == IF value = None THEN default ELSE value

(* The topic suggests a port where there is none; the wizard asks again    *)
(* until one is given.                                                     *)
AskSubscription(c, o, a, suggested) ==
  LET mode == Ask(a, About("mode"), c.mode) IN
  [o EXCEPT
    !.mode = mode,
    !.host = Ask(a, About("host"), c.host),
    !.proxyHost = Ask(a, About("proxyHost"), c.proxyHost),
    !.email = AskIf(mode = "direct", a, About("email"), c.email),
    !.httpPort = AskIf(mode = "ip-fallback", a, About("httpPort"), Or(c.httpPort, suggested)),
    !.listenPort = AskIf(mode = "external-proxy", a, About("listenPort"),
                         Or(c.listenPort, suggested))]

AskProtocols(c, o, a) ==
  LET selected == {p \in Protocols : Ask(a, EnableQuestion(p), p \in Enabled(c))}
      nameTls  == selected \cap OverTls # {}
  IN  [o EXCEPT
        !.enabled = MergedOrder(c.enabled, selected),
        !.certificate = Ask(a, About("certificate"), c.certificate),
        !.ports = [p \in Protocols |->
                     AskIf(p \in selected, a, PortQuestion(p), PortOf(c, p))],
        !.realitySni = AskIf("vless-reality" \in selected, a, About("realitySni"), c.realitySni),
        !.sni = AskIf(nameTls, a, About("sni"), c.sni)]

AskSchedule(c, o, a) ==
  LET policy == Ask(a, About("policy"), c.schedule.policy) IN
  [o EXCEPT
    !.interface = Ask(a, About("interface"), c.interface),
    !.schedule = [policy |-> policy,
                  zone |-> Ask(a, About("zone"), c.schedule.zone),
                  anchor |-> AskIf(policy = "anchored-month", a, About("anchor"),
                                   c.schedule.anchor)]]

Options(topic, c, a) ==
  CASE topic = "subscription" -> AskSubscription(c, Carried(c), a, DefaultPort)
    [] topic = "protocols"    -> AskProtocols(c, Carried(c), a)
    [] topic = "traffic"      -> AskSchedule(c, Carried(c), a)
    [] topic = "wizard" ->
         AskSchedule(c, AskProtocols(c, AskSubscription(c, Carried(c), a, None), a), a)

-----------------------------------------------------------------------------
(***************************************************************************)
(* The configuration rebuilt                                               *)
(***************************************************************************)

(* A port that is not the node's own must be free on the host; a new node  *)
(* nothing was said about gets a random one that is.                       *)
Random(c, o) == {p \in ToSet(o.enabled) : Or(o.ports[p], PortOf(c, p)) = None}

Assignments(c, o, taken) ==
  LET asked == [p \in ToSet(o.enabled) |-> Or(o.ports[p], PortOf(c, p))]
  IN  {[p \in DOMAIN asked |-> IF asked[p] = None THEN f[p] ELSE asked[p]] :
         f \in {f \in [Random(c, o) -> Ports \ taken] :
                  \A p \in DOMAIN asked : asked[p] \in taken => asked[p] = PortOf(c, p)}}

Credential(c, p, secret) == IF c.nodes[p] = None THEN secret ELSE c.nodes[p].secret

WithPorts(c, o, ports, secret) ==
  [mode |-> o.mode, host |-> o.host, proxyHost |-> o.proxyHost, email |-> o.email,
   httpPort |-> o.httpPort, listenPort |-> o.listenPort,
   certificate |-> o.certificate, interface |-> o.interface, enabled |-> o.enabled,
   realitySni |-> o.realitySni, sni |-> o.sni, schedule |-> o.schedule,
   nodes |-> [p \in Protocols |->
                IF p \in DOMAIN ports
                THEN [port |-> ports[p], secret |-> Credential(c, p, secret)] ELSE None],
   hopping |-> IF "hysteria2" \in DOMAIN ports THEN c.hopping ELSE None,
   api |-> c.api, template |-> c.template, client |-> c.client]

Rebuilt(c, o, taken, secret) ==
  {new \in {WithPorts(c, o, f, secret) : f \in Assignments(c, o, taken)} : Valid(new)}

(* Hopping, the client's preferences and the observation endpoint are      *)
(* edited in place.                                                        *)
Hopped(c, a) ==
  {new \in {[c EXCEPT !.hopping = Ask(a, About("hopping"), c.hopping)]} :
     "hysteria2" \in Enabled(c) /\ Valid(new)}

Preferred(c, a) ==
  {[c EXCEPT !.template = Ask(a, About("template"), c.template),
             !.client = Ask(a, About("client"), c.client)]}

(* Without a port a random one is taken, and nothing but hopping minds it. *)
Observed(c, a) ==
  {new \in {[c EXCEPT !.api = port] :
              port \in IF About("api") \in DOMAIN a THEN {a[About("api")]} ELSE ApiPorts} :
     Valid(new)}

(* switch-mode: what is not given stays, but for the ports of other modes; *)
(* entering IP fallback with a domain certificate has to be asked for.     *)
Desired(c, a) ==
  LET mode == Ask(a, About("mode"), c.mode)
      kept(field) == IF c.mode = mode THEN c[field] ELSE None
      given(subject) == About(subject) \in DOMAIN a
      new == [c EXCEPT
               !.mode = mode,
               !.host = Ask(a, About("host"), c.host),
               !.certificate = IF mode = "ip-fallback" THEN "self-signed"
                               ELSE Ask(a, About("certificate"), c.certificate),
               !.sni = Ask(a, About("sni"), c.sni),
               !.email = Ask(a, About("email"), c.email),
               !.httpPort = AskIf(mode = "ip-fallback", a, About("httpPort"), kept("httpPort")),
               !.listenPort = AskIf(mode = "external-proxy", a, About("listenPort"),
                                    kept("listenPort"))]
  IN  {n \in {new} :
         /\ given("httpPort") => mode = "ip-fallback"
         /\ given("listenPort") => mode = "external-proxy"
         /\ mode = "ip-fallback" /\ c.certificate = "domain" =>
              given("certificate") /\ a[About("certificate")] = "self-signed"
         /\ Valid(n)}

(* What a dialogue may end in, given its answers. *)
Outcomes(dialogue, c, a, taken, secret) ==
  CASE dialogue = "hopping"     -> Hopped(c, a)
    [] dialogue = "client"      -> Preferred(c, a)
    [] dialogue = "api"         -> Observed(c, a)
    [] dialogue = "switch-mode" -> Desired(c, a)
    [] OTHER -> Rebuilt(c, Options(dialogue, c, a), taken, secret)
=============================================================================
