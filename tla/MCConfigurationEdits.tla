----------------------- MODULE MCConfigurationEdits -----------------------
EXTENDS ConfigurationEdits, TLC

MCMonths == [m \in 0..6 |-> <<3, 2, 4, 3, 3, 4, 3>>[m + 1]]

(* The clock skips the hour from midnight of month 2, and repeats the one  *)
(* from one o'clock of month 3.                                            *)
Moved == {[at |-> -1000, offset |-> -16], [at |-> MonthStart(2) + 16, offset |-> -14],
          [at |-> MonthStart(3) + 2 + 14 + 2, offset |-> -16]}
Fixed == {[at |-> -1000, offset |-> 16]}

MCZones == {Moved, Fixed}

MCAnchors == [month : {2}, day : {1, 4}, time : {0, Hour}] \cup {[month |-> 3, day |-> 1, time |-> Hour]}

MCMoments == UNION {(t - Day)..(t + Day) : t \in {MonthStart(m) : m \in 2..3}}

(* Hop ranges leave out a protocol's port, the ports the daemon has are    *)
(* below them.                                                             *)
Low  == [low |-> 11, high |-> 12]
High == [low |-> 13, high |-> 14]

Node(port) == [port |-> port, secret |-> 0]

NaturalMonth == [policy |-> "natural-month", zone |-> Moved, anchor |-> None]

Base ==
  [mode |-> "direct", host |-> "d1", proxyHost |-> None, email |-> "e1",
   httpPort |-> None, listenPort |-> None, certificate |-> "self-signed",
   interface |-> "i1", enabled |-> <<"tuic", "hysteria2">>,
   realitySni |-> None, sni |-> None, schedule |-> NaturalMonth,
   nodes |-> [p \in Protocols |-> IF p = "hysteria2" THEN Node(10)
                                  ELSE IF p = "tuic" THEN Node(13) ELSE None],
   hopping |-> None, api |-> None, template |-> "compact", client |-> "c0"]

Hopping == [Base EXCEPT !.hopping = Low]

Behind ==
  [Base EXCEPT !.mode = "external-proxy", !.listenPort = 2, !.certificate = "domain",
               !.api = 12, !.enabled = <<"tuic", "vless-reality">>, !.realitySni = "s1",
               !.nodes = [p \in Protocols |-> IF p = "tuic" THEN Node(13)
                                              ELSE IF p = "vless-reality" THEN Node(10) ELSE None]]

Bare ==
  [Hopping EXCEPT !.mode = "ip-fallback", !.host = "a1", !.httpPort = 3, !.sni = "s1",
                  !.client = "c1"]

Singles(offers) == UNION {{About(q) :> v : v \in offers[q]} : q \in DOMAIN offers}

Subscription ==
  [mode |-> Modes, host |-> {"d1", "d2", "a1"}, proxyHost |-> {"d2"}, email |-> {"e1", "e2"},
   httpPort |-> {3}, listenPort |-> {3}]

Tls == [certificate |-> {"domain", "self-signed"}, sni |-> {None, "s1"}, realitySni |-> {"s1", "s2"}]

ProtocolAnswers ==
  {EnableQuestion(p) :> yes : p \in Protocols, yes \in BOOLEAN} \cup
  {PortQuestion(p) :> n : p \in Protocols, n \in {11, 13}} \cup Singles(Tls)

Traffic ==
  [policy |-> {"natural-month", "anchored-month"}, zone |-> Zones, anchor |-> Anchors,
   interface |-> {"i1", "i2"}]

Offers(name) ==
  CASE name = "subscription" -> Singles(Subscription)
    [] name = "protocols"    -> ProtocolAnswers
    [] name = "traffic"      -> Singles(Traffic)
    [] name = "wizard"       -> Singles(Subscription) \cup ProtocolAnswers \cup Singles(Traffic)
    [] name = "hopping"      -> Singles([hopping |-> Ranges \cup {None}])
    [] name = "client"       -> Singles([template |-> {"compact", "standard"}, client |-> {"c0", "c1"}])
    [] name = "api"          -> Singles([api |-> {None, 2}])
    [] name = "switch-mode"  ->
         Singles(Subscription) \cup Singles([certificate |-> {"domain", "self-signed"}, sni |-> {"s1"}])

MCRanges == {Low, High}

NoAnswer == [q \in {} |-> None]

(* Up to n answers beside Enter. *)
Answered(name, n) ==
  {[name |-> name, answers |-> a] :
     a \in {NoAnswer} \cup
           IF n = 1 THEN Offers(name) ELSE {f @@ g : f, g \in Offers(name)}}

Names == {"subscription", "protocols", "traffic", "wizard", "hopping", "client", "api", "switch-mode"}

SessionTable ==
  [pairs |-> [configs |-> {Base, Hopping, Behind, Bare}, edits |-> 1, faults |-> 0,
              dialogues |-> UNION {Answered(n, 2) : n \in Names}],
   series |-> [configs |-> {Hopping, Behind, Bare}, edits |-> 2, faults |-> 0,
               dialogues |-> UNION {Answered(n, 1) : n \in Names}],
   faulty |-> [configs |-> {Base, Hopping}, edits |-> 3, faults |-> 2,
               dialogues |-> UNION {Answered(n, 1) : n \in {"hopping", "api", "traffic", "switch-mode"}}]]

(* Evaluated once. *)
MCSessions == SessionTable
=============================================================================
