------------------------- MODULE SubscriptionService -------------------------
(***************************************************************************)
(* What the sbctl daemon answers under /sub/<credential>/, and the         *)
(* addresses shown to the operator and on the overview page                *)
(* (src/src/subscription/{profile,serve,artifacts}.rs, index_page.rs,      *)
(* cli/commands/serve.rs).  The daemon answers by the configuration it was *)
(* started with, from the files that are on disk.  The budget of an        *)
(* address is RequestBudget's, the life of a credential Credentials'.      *)
(***************************************************************************)
EXTENDS ClientProfiles

CONSTANTS Credentials,   \* path secrets a request may carry
          Accepted,      \* those the configuration accepts now
          Default        \* the credential of the deployment itself

ASSUME CredentialAssumption == Accepted \subseteq Credentials /\ Default \in Accepted

Formats == NodeLists \cup ClientNames

-----------------------------------------------------------------------------
(***************************************************************************)
(* A segment of a path is its stem, the numbers of its version and its     *)
(* extension, a route a page and the format it is about.                   *)
(***************************************************************************)
Segment(stem, version, ext) == [stem |-> stem, version |-> version, ext |-> ext]

PathName == [f \in Formats |->
    CASE f.kind \in {"sing-box", "sing-box-full"} -> Segment(f.kind, <<>>, "json")
      [] f.kind = "sing-box-version" -> Segment("sing-box", f.version, "json")
      [] f.kind \in {"clash", "clash-legacy"} -> Segment("clash", f.version, "yaml")
      [] f.kind = "uri" -> Segment("uri", <<>>, "")
      [] f.kind = "base64-uri" -> Segment("uri", <<>>, "txt")
      [] f.kind = "shadowrocket" -> Segment("shadowrocket", <<>>, "txt")]

(* The artifact is named after the path, but for the URI lists. *)
ArtifactName == [f \in Formats |->
    CASE f.kind = "uri" -> Segment(<<"subscription", "uri">>, <<>>, "txt")
      [] f.kind = "base64-uri" -> Segment(<<"subscription", "base64-uri">>, <<>>, "txt")
      [] OTHER -> [PathName[f] EXCEPT !.stem = <<"subscription", @>>]]

Route(page, formats) == [page |-> page, formats |-> formats]
Artifact(f) == Route("format", {f})
Qr(f) == Route("qr", {f})
Index == Route("index", {})

Bare(word) == Segment(word, <<>>, "")
PathOf(route) ==
    CASE route.page = "index" -> <<Bare("index")>>
      [] route.page = "qr" -> <<Bare("qr"), PathName[CHOOSE f \in route.formats : TRUE]>>
      [] route.page = "format" -> <<PathName[CHOOSE f \in route.formats : TRUE]>>

(* Two or three numbers of eight bits; a patch of zero is not the minor.   *)
ParseClientVersion(version) ==
    {v \in {version} : Len(v) \in {2, 3} /\ \A i \in DOMAIN v : v[i] \in 0 .. 255}

(* Versions that are not in the registry name nothing. *)
ParseFormatPath(segment) ==
    LET versions == ParseClientVersion(segment.version)
    IN  {f \in Formats : f.version = <<>> /\ PathName[f] = segment}
        \cup {SingBoxFile(v) : v \in {w \in versions \cap ToSet(SingBoxVersions) :
                                        segment.stem = "sing-box" /\ segment.ext = "json"}}
        \cup {ClashLegacyFile : v \in {w \in versions \cap {ClashLegacyVersion} :
                                        segment.stem = "clash" /\ segment.ext = "yaml"}}

(* The segments after the credential; nothing may follow. *)
ParseRoute(path) ==
    CASE path = <<>> -> {}
      [] path # <<>> /\ Head(path) = Bare("index") -> {r \in {Index} : Len(path) = 1}
      [] path # <<>> /\ Head(path) = Bare("qr") ->
            IF Len(path) = 2 THEN {Qr(f) : f \in ParseFormatPath(path[2])} ELSE {}
      [] OTHER -> IF Len(path) = 1 THEN {Artifact(f) : f \in ParseFormatPath(path[1])} ELSE {}

-----------------------------------------------------------------------------
(***************************************************************************)
(* What is offered: the matrix of all formats, in it the versions before   *)
(* the full profile, and the quick pick by client.                         *)
(***************************************************************************)
StaticMatrixRows ==
    <<Plain("sing-box"), Full, ClashFile, ClashLegacyFile,
      Plain("uri"), Plain("base64-uri"), Plain("shadowrocket")>>

VersionRows == [i \in DOMAIN SingBoxVersions |-> SingBoxFile(SingBoxVersions[i])]

SubscriptionMatrix ==
    FlattenSeq([i \in DOMAIN StaticMatrixRows |->
        (IF StaticMatrixRows[i] = Full THEN VersionRows ELSE <<>>) \o <<StaticMatrixRows[i]>>])

ClientSubscriptionMatrix ==
    ("Clash Party" :> <<ClashFile>>) @@ ("Clash Verge" :> <<ClashFile>>)
    @@ ("sing-box" :> <<Full>> \o VersionRows)
    @@ ("V2rayN" :> <<Plain("base64-uri"), Full>>)
    @@ ("Shadowrocket" :> <<Plain("shadowrocket")>>)

Compatible(formats, c) == SelectSeq(formats, LAMBDA f : HasCompatibleNodes(f, c))

AvailableSubscriptionMatrix(c) == ToSet(Compatible(SubscriptionMatrix, c))
AvailableClientMatrix(c) ==
    LET rows == [k \in DOMAIN ClientSubscriptionMatrix |->
                    Compatible(ClientSubscriptionMatrix[k], c)]
    IN  [k \in {j \in DOMAIN rows : rows[j] # <<>>} |-> ToSet(rows[k])]

-----------------------------------------------------------------------------
(***************************************************************************)
(* Addresses.  The import link of a sing-box profile, and what its QR code *)
(* holds, name the profile; other clients scan the address itself.         *)
(***************************************************************************)
Refused(c, route) == \E f \in route.formats : ~HasCompatibleNodes(f, c)

(* Where the addresses of a mode lead; the ports of a plain listener are    *)
(* the operator's choice. *)
Origin(mode) ==
    IF mode = "ip" THEN [scheme |-> "http", port |-> "http port"]
    ELSE [scheme |-> "https", port |-> "443"]

RouteUrl(c, credential, route) ==
    [origin |-> Origin(c.mode), credential |-> credential, path |-> PathOf(route)]

SingBoxDocuments == SingBoxNames \cup {Plain("sing-box")}
MihomoDocuments == {ClashFile, ClashLegacyFile}

Import(scheme, url, name) == [scheme |-> scheme, url |-> url, name |-> name]

QrPayload(f, url) ==
    IF f \in SingBoxDocuments
    THEN Import("sing-box", url, [PathName[f] EXCEPT !.ext = ""])
    ELSE Import("none", url, Bare(""))

ImportLink(f, url) ==
    Import(CASE f \in SingBoxDocuments -> "sing-box"
             [] f \in MihomoDocuments -> "clash"
             [] OTHER -> "sub", url, Bare(""))

(* The rows of the overview page carry the credential that asked for it,   *)
(* those of `sbctl sub` the deployment's.                                  *)
Row(c, f, credential) ==
    LET url == RouteUrl(c, credential, Artifact(f))
    IN  [format |-> f, url |-> url, qr |-> RouteUrl(c, credential, Qr(f)),
         payload |-> QrPayload(f, url), import |-> ImportLink(f, url)]

Rows(c, credential) == {Row(c, f, credential) : f \in AvailableSubscriptionMatrix(c)}
ClientRows(c, credential) ==
    LET rows == AvailableClientMatrix(c)
    IN  [k \in DOMAIN rows |-> {Row(c, f, credential) : f \in rows[k]}]

(* `sbctl qr`: one format, the full profile when none is named, or all. *)
Printed(c, named, all) ==
    {Row(c, f, Default) : f \in {g \in IF all THEN AvailableSubscriptionMatrix(c)
                                       ELSE IF named = {} THEN {Full} ELSE named :
                                    ~Refused(c, Artifact(g))}}

(* An address that would be refused fails the whole page. *)
CanRender(c) ==
    /\ c.protocols # {}
    /\ \A f \in AvailableSubscriptionMatrix(c) \cup UNION Range(AvailableClientMatrix(c)) :
          ~Refused(c, Artifact(f)) /\ ~Refused(c, Qr(f))

-----------------------------------------------------------------------------
(***************************************************************************)
(* The answer to a request, by the configuration the daemon runs with and  *)
(* the artifacts on disk.                                                  *)
(***************************************************************************)
Reply(status, kind, body) == [status |-> status, kind |-> kind, body |-> body]
Bodiless(status) == Reply(status, "none", {})

Delivered(f) == Reply(200, "artifact", {ArtifactName[f]})
Pictured(payload) == Reply(200, "picture", {payload})
Overview(c, credential) == Reply(200, "page", Rows(c, credential))

(* The route of a request the daemon goes into: a known address, a         *)
(* credential that is accepted, a format with nodes.                       *)
RoutesGranted(request, c) ==
    {route \in ParseRoute(request.path) :
        /\ request.under = "sub" /\ ~request.query
        /\ request.credential \in Accepted
        /\ ~Refused(c, route)}

Page(route, request, c, disk) ==
    LET f == CHOOSE f \in route.formats : TRUE
    IN  CASE route.page = "index" ->
               IF CanRender(c) THEN Overview(c, request.credential) ELSE Bodiless(503)
          [] route.page = "qr" ->
               Pictured(QrPayload(f, RouteUrl(c, request.credential, Artifact(f))))
          [] route.page = "format" ->
               IF ArtifactName[f] \in disk THEN Delivered(f) ELSE Bodiless(503)

Answer(request, c, disk) ==
    LET granted == RoutesGranted(request, c)
    IN  IF request.method \notin {"GET", "HEAD"} THEN Bodiless(405)
        ELSE IF granted = {} THEN Bodiless(404)
        ELSE Page(CHOOSE r \in granted : TRUE, request, c, disk)

(* The plain listener of Direct mode answers Certbot's challenges alone. *)
AcmeAnswer(request, challenges) ==
    IF request.method \notin {"GET", "HEAD"} THEN Bodiless(405)
    ELSE IF request.under = "challenges" /\ Len(request.path) = 1
            /\ request.path[1] \in challenges
    THEN Reply(200, "challenge", {request.path[1]})
    ELSE Bodiless(404)

(***************************************************************************)
(* The listeners by port: what is spoken, and what is served.              *)
(***************************************************************************)
Listener(scheme, serves) == [scheme |-> scheme, serves |-> serves]

(* Direct mode is handed its two sockets, and tells them by their ports.    *)
DirectListenerRole ==
    ("80" :> Listener("http", "challenges")) @@ ("443" :> Listener("https", "subscription"))

(* The other modes bind one port of their own, and speak plain HTTP there. *)
Bind == ("external" :> "loopback port") @@ ("ip" :> "http port")

Listeners(mode) ==
    IF mode = "direct" THEN DirectListenerRole
    ELSE Bind[mode] :> Listener("http", "subscription")

(* The operator's proxy takes HTTPS and forwards to the loopback port      *)
(* (external). *)
Forwarded(mode, origin) ==
    IF mode = "external" /\ origin = Origin("external")
    THEN [scheme |-> "http", port |-> "loopback port"] ELSE origin

(* A connection is served where a listener has its port and both sides     *)
(* speak the same: a handshake with anything else fails.                   *)
Connects(at, mode) ==
    at.port \in DOMAIN Listeners(mode) /\ Listeners(mode)[at.port].scheme = at.scheme

AnswerAt(origin, request, c, disk, challenges) ==
    LET at == Forwarded(c.mode, origin)
    IN  IF ~Connects(at, c.mode) THEN Bodiless(0)
        ELSE IF Listeners(c.mode)[at.port].serves = "challenges"
        THEN AcmeAnswer(request, challenges)
        ELSE Answer(request, c, disk)

Get(credential, path) ==
    [method |-> "GET", under |-> "sub", query |-> FALSE, credential |-> credential, path |-> path]
Challenge(token) == [Get(Default, <<token>>) EXCEPT !.under = "challenges"]

(* Addresses no link leads to. *)
OddSegments ==
    {Segment("sing-box", v, "json") : v \in {<<1, 9>>, <<1, 15>>, <<1, 14, 0>>, <<1, 14, 4, 0>>,
                                              <<1>>, <<1, 270>>}}
    \cup {Segment("clash", v, "yaml") : v \in {<<1, 17>>, <<1, 18, 0>>}}
    \cup {Segment("sing-box", <<>>, "yaml"), Bare("shadowrocket"), Bare("")}

OddPaths ==
    {<<s>> : s \in OddSegments} \cup {<<Bare("qr"), s>> : s \in OddSegments}
    \cup {<<>>, <<Bare("qr")>>, <<Bare("index"), Bare("")>>}
    \cup {Append(PathOf(Artifact(f)), Bare("")) : f \in Formats}
KnownPaths == {PathOf(Index)} \cup {PathOf(r) : r \in {Artifact(f) : f \in Formats}
                                                        \cup {Qr(f) : f \in Formats}}
================================================================================
