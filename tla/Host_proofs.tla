------------------------------ MODULE Host_proofs ------------------------------
(***************************************************************************)
(* Proofs about a whole host: who may open what a command leaves in the    *)
(* managed directories (ServiceAccess), what a command that fails leaves   *)
(* of the deployment it found, and what one that succeeds has built        *)
(* (HostLifecycle).  The two models share no state: one follows owners and *)
(* modes through one command after another, the other follows whole files  *)
(* and units through commands that run beside each other.                  *)
(***************************************************************************)
EXTENDS HostLifecycle, ServiceAccess, SequenceTheorems, TLAPS

-----------------------------------------------------------------------------
(***************************************************************************)
(* Owners and modes.  Every operation on the tree keeps each path within   *)
(* what its place allows (Fits), whatever the command, wherever it fails   *)
(* and is restored; what a private file, or a directory above it, may look *)
(* like already shuts out everybody but its owners.                        *)
(***************************************************************************)
LEMMA AppendTuples ==
  /\ \A a, b : Append(<<a>>, b) = <<a, b>>
  /\ \A a, b, c : Append(<<a, b>>, c) = <<a, b, c>>
  /\ \A a, b, c, d : Append(<<a, b, c>>, d) = <<a, b, c, d>>
<1>1. ASSUME NEW a, NEW b PROVE Append(<<a>>, b) = <<a, b>>
  <2>1. <<a>> \in Seq({a, b}) /\ <<a, b>> \in Seq({a, b})
    OBVIOUS
  <2>2. /\ Append(<<a>>, b) \in Seq({a, b}) /\ Len(Append(<<a>>, b)) = 2
        /\ \A i \in 1..2 : Append(<<a>>, b)[i] = <<a, b>>[i]
    BY <2>1, AppendProperties
  <2> QED
    BY <2>1, <2>2, SeqEqual
<1>2. ASSUME NEW a, NEW b, NEW c PROVE Append(<<a, b>>, c) = <<a, b, c>>
  <2>1. <<a, b>> \in Seq({a, b, c}) /\ <<a, b, c>> \in Seq({a, b, c})
    OBVIOUS
  <2>2. /\ Append(<<a, b>>, c) \in Seq({a, b, c}) /\ Len(Append(<<a, b>>, c)) = 3
        /\ \A i \in 1..3 : Append(<<a, b>>, c)[i] = <<a, b, c>>[i]
    BY <2>1, AppendProperties
  <2> QED
    BY <2>1, <2>2, SeqEqual
<1>3. ASSUME NEW a, NEW b, NEW c, NEW d PROVE Append(<<a, b, c>>, d) = <<a, b, c, d>>
  <2>1. <<a, b, c>> \in Seq({a, b, c, d}) /\ <<a, b, c, d>> \in Seq({a, b, c, d})
    OBVIOUS
  <2>2. /\ Append(<<a, b, c>>, d) \in Seq({a, b, c, d}) /\ Len(Append(<<a, b, c>>, d)) = 4
        /\ \A i \in 1..4 : Append(<<a, b, c>>, d)[i] = <<a, b, c, d>>[i]
    BY <2>1, AppendProperties
  <2> QED
    BY <2>1, <2>2, SeqEqual
<1> QED
  BY <1>1, <1>2, <1>3

LEMMA Prefix ==
  ASSUME NEW s, NEW n \in Nat
  PROVE  SubSeq(s, 1, n) = [k \in 1..n |-> s[k]]
  OBVIOUS

(* What is above a path. *)
LEMMA AboveTuples ==
  /\ \A a : Above(<<a>>) = {}
  /\ \A a, b : Above(<<a, b>>) = {<<a>>}
  /\ \A a, b, c : Above(<<a, b, c>>) = {<<a>>, <<a, b>>}
  /\ \A a, b, c, d : Above(<<a, b, c, d>>) = {<<a>>, <<a, b>>, <<a, b, c>>}
<1>1. \A a : Above(<<a>>) = {}
  BY DEF Above
<1>2. ASSUME NEW a, NEW b PROVE Above(<<a, b>>) = {<<a>>}
  <2>1. 1..(Len(<<a, b>>) - 1) = {1} /\ SubSeq(<<a, b>>, 1, 1) = [k \in 1..1 |-> <<a, b>>[k]]
    BY Prefix
  <2>2. [k \in 1..1 |-> <<a, b>>[k]] = <<a>>
    OBVIOUS
  <2> QED
    BY <2>1, <2>2 DEF Above
<1>3. ASSUME NEW a, NEW b, NEW c PROVE Above(<<a, b, c>>) = {<<a>>, <<a, b>>}
  <2>1. 1..(Len(<<a, b, c>>) - 1) = {1, 2}
    OBVIOUS
  <2>2. /\ SubSeq(<<a, b, c>>, 1, 1) = [k \in 1..1 |-> <<a, b, c>>[k]]
        /\ SubSeq(<<a, b, c>>, 1, 2) = [k \in 1..2 |-> <<a, b, c>>[k]]
    BY Prefix
  <2>3. /\ [k \in 1..1 |-> <<a, b, c>>[k]] = <<a>>
        /\ [k \in 1..2 |-> <<a, b, c>>[k]] = <<a, b>>
    OBVIOUS
  <2> QED
    BY <2>1, <2>2, <2>3 DEF Above
<1>4. ASSUME NEW a, NEW b, NEW c, NEW d
      PROVE  Above(<<a, b, c, d>>) = {<<a>>, <<a, b>>, <<a, b, c>>}
  <2>1. 1..(Len(<<a, b, c, d>>) - 1) = {1, 2, 3}
    OBVIOUS
  <2>2. /\ SubSeq(<<a, b, c, d>>, 1, 1) = [k \in 1..1 |-> <<a, b, c, d>>[k]]
        /\ SubSeq(<<a, b, c, d>>, 1, 2) = [k \in 1..2 |-> <<a, b, c, d>>[k]]
        /\ SubSeq(<<a, b, c, d>>, 1, 3) = [k \in 1..3 |-> <<a, b, c, d>>[k]]
    BY Prefix
  <2>3. /\ [k \in 1..1 |-> <<a, b, c, d>>[k]] = <<a>>
        /\ [k \in 1..2 |-> <<a, b, c, d>>[k]] = <<a, b>>
        /\ [k \in 1..3 |-> <<a, b, c, d>>[k]] = <<a, b, c>>
    OBVIOUS
  <2> QED
    BY <2>1, <2>2, <2>3 DEF Above
<1> QED
  BY <1>1, <1>2, <1>3, <1>4

(* The paths, written out. *)
LEMMA PathTuples ==
  /\ Etc = <<"etc-sbctl">> /\ KernelDir = <<"etc-sing-box">> /\ Data = <<"data">>
  /\ Artifacts = <<"data", "artifacts">> /\ Webroot = <<"data", "acme-webroot">>
  /\ Certs = <<"data", "certificates">>
  /\ ConfigToml = <<"etc-sbctl", "config.toml">> /\ EmailToml = <<"etc-sbctl", "email.toml">>
  /\ Active = <<"etc-sing-box", "config.json">>
  /\ Artifact = <<"data", "artifacts", "artifact">>
  /\ StateJson = <<"data", "state.json">> /\ Ownership = <<"data", "ownership">>
  /\ Lock = <<"data", ".operation.lock">>
  /\ CertsLock = <<"data", "certificates", ".operation.lock">>
  /\ Backups = <<"backups", "point">> /\ Binary = <<"usr-local-bin">>
  /\ Temp = <<"data", "certificates", ".sbctl-generation">>
  /\ TempPair = <<"data", "certificates", ".sbctl-generation", "pair">>
<1>1. /\ Etc = <<"etc-sbctl">> /\ KernelDir = <<"etc-sing-box">> /\ Data = <<"data">>
      /\ Backups = <<"backups", "point">> /\ Binary = <<"usr-local-bin">>
  BY DEF Etc, KernelDir, Data, Backups, Binary
<1>3. /\ Artifacts = <<"data", "artifacts">> /\ Webroot = <<"data", "acme-webroot">>
      /\ Certs = <<"data", "certificates">>
      /\ ConfigToml = <<"etc-sbctl", "config.toml">> /\ EmailToml = <<"etc-sbctl", "email.toml">>
      /\ Active = <<"etc-sing-box", "config.json">>
      /\ StateJson = <<"data", "state.json">> /\ Ownership = <<"data", "ownership">>
      /\ Lock = <<"data", ".operation.lock">>
  BY <1>1, AppendTuples
     DEF Artifacts, Webroot, Certs, ConfigToml, EmailToml, Active, StateJson, Ownership, Lock
<1>5. /\ Artifact = <<"data", "artifacts", "artifact">>
      /\ CertsLock = <<"data", "certificates", ".operation.lock">>
      /\ Temp = <<"data", "certificates", ".sbctl-generation">>
  BY <1>3, AppendTuples DEF Artifact, CertsLock, Temp
<1>6. TempPair = <<"data", "certificates", ".sbctl-generation", "pair">>
  BY <1>5, AppendTuples DEF TempPair
<1> QED
  BY <1>1, <1>3, <1>5, <1>6

LEMMA PairTuples ==
  ASSUME NEW n
  PROVE  /\ PairDir(n) = <<"data", "certificates", n>>
         /\ Marker(n) = <<"data", "certificates", n, "refresh-pending">>
         /\ \A w : Pair(n, w) = <<"data", "certificates", n, w>>
<1>1. PairDir(n) = <<"data", "certificates", n>>
  BY AppendTuples, PathTuples DEF PairDir
<1> QED
  BY AppendTuples, <1>1 DEF Marker, Pair

(* The paths a command writes, and what is above them. *)
LEMMA AbovePaths ==
  /\ Above(ConfigToml) = {Etc} /\ Above(EmailToml) = {Etc} /\ Above(Active) = {KernelDir}
  /\ Above(Artifact) = {Data, Artifacts}
  /\ Above(StateJson) = {Data} /\ Above(Ownership) = {Data} /\ Above(Lock) = {Data}
  /\ Above(CertsLock) = {Data, Certs} /\ Above(Certs) = {Data} /\ Above(Temp) = {Data, Certs}
  /\ Above(TempPair) = {Data, Certs, Temp}
  /\ Above(Backups) = {<<"backups">>} /\ Above(Binary) = {}
  /\ Above(Etc) = {} /\ Above(Data) = {} /\ Above(KernelDir) = {}
  /\ Above(Append(Webroot, "challenge")) = {Data, Webroot}
<1>1. /\ Above(Etc) = {} /\ Above(Data) = {} /\ Above(KernelDir) = {} /\ Above(Binary) = {}
  BY AboveTuples, PathTuples
<1>2. /\ Above(ConfigToml) = {Etc} /\ Above(EmailToml) = {Etc} /\ Above(Active) = {KernelDir}
      /\ Above(StateJson) = {Data} /\ Above(Ownership) = {Data} /\ Above(Lock) = {Data}
      /\ Above(Certs) = {Data} /\ Above(Backups) = {<<"backups">>}
  BY AboveTuples, PathTuples
<1>3. /\ Above(Artifact) = {Data, Artifacts} /\ Above(CertsLock) = {Data, Certs}
      /\ Above(Temp) = {Data, Certs}
  BY AboveTuples, PathTuples
<1>4. Append(Webroot, "challenge") = <<"data", "acme-webroot", "challenge">>
  BY AppendTuples, PathTuples
<1>5. Above(Append(Webroot, "challenge")) = {Data, Webroot}
  <2>1. Above(<<"data", "acme-webroot", "challenge">>) = {<<"data">>, <<"data", "acme-webroot">>}
    BY AboveTuples
  <2> QED
    BY <1>4, <2>1, PathTuples
<1>6. Above(TempPair) = {Data, Certs, Temp}
  BY AboveTuples, PathTuples
<1> QED
  BY <1>1, <1>2, <1>3, <1>5, <1>6

LEMMA AbovePairs ==
  ASSUME NEW n
  PROVE  /\ Above(PairDir(n)) = {Data, Certs}
         /\ Above(Marker(n)) = {Data, Certs, PairDir(n)}
         /\ \A w : Above(Pair(n, w)) = {Data, Certs, PairDir(n)}
  BY AboveTuples, PairTuples, PathTuples

LEMMA TuplesApart ==
  /\ \A a, b, c : <<a>> # <<b, c>>
  /\ \A a, b, c, d : <<a>> # <<b, c, d>>
  /\ \A a, b, c, d, e : <<a>> # <<b, c, d, e>>
  /\ \A a, b, c, d, e : <<a, b>> # <<c, d, e>>
  /\ \A a, b, c, d, e, f : <<a, b>> # <<c, d, e, f>>
  /\ \A a, b, c, d, e, f, g : <<a, b, c>> # <<d, e, f, g>>
  OBVIOUS

LEMMA TuplesSame ==
  /\ \A a, b : <<a>> = <<b>> => a = b
  /\ \A a, b, c, d : <<a, b>> = <<c, d>> => a = c /\ b = d
  /\ \A a, b, c, d, e, f : <<a, b, c>> = <<d, e, f>> => a = d /\ b = e /\ c = f
  /\ \A a, b, c, d, e, f, g, h :
       <<a, b, c, d>> = <<e, f, g, h>> => a = e /\ b = f /\ c = g /\ d = h
  OBVIOUS

LEMMA TuplesNotEmpty ==
  /\ \A a : <<a>> # <<>>
  /\ \A a, b : <<a, b>> # <<>>
  /\ \A a, b, c : <<a, b, c>> # <<>>
  /\ \A a, b, c, d : <<a, b, c, d>> # <<>>
  OBVIOUS

(* Which attributes a path may have. *)
PrivateFiles == {CertsLock} \cup {Marker(n) : n \in PairNames}
Daemons == {ConfigToml, Artifact, StateJson, Lock}
Private == Attr("root", "root", 600)

Fits(path, attr) ==
  /\ attr \in Attributes
  /\ path \in {EmailToml, Backups} => attr = Private
  /\ path \in PrivateFiles => attr.user = "root" /\ attr.mode = 600
  /\ path = Active => attr \in {Private} \cup {Attr("sing-box", "sing-box", mode) : mode \in {600, 640}}
  /\ path \in Daemons => attr \in {Private, Attr("sbctl", "sbctl", 600)}
  /\ path \in Pairs \cup {TempPair} => attr.user = "root" /\ attr.mode = 640
  /\ path \in Folders => attr.user = "root" /\ attr.mode \in {700, 750, 755}
  /\ path = Etc => attr.user = "root" /\ attr.mode \in {700, 750}
  /\ path = Data => attr \in {Attr("root", "root", 700), Attr("root", "sbctl", 1771)}

TreeOK(t) ==
  /\ t = [path \in DOMAIN t |-> t[path]]
  /\ <<>> \notin DOMAIN t
  /\ Temp \in DOMAIN t => TempPair \in DOMAIN t
  /\ \A path \in DOMAIN t : Fits(path, t[path])

Tops == {Etc, KernelDir, Data, Artifacts, Webroot, <<"backups">>}
Directories == Tops \cup {Certs} \cup {PairDir(n) : n \in PairNames}

LEMMA AttrFields ==
  ASSUME NEW user, NEW group, NEW mode
  PROVE  LET attr == Attr(user, group, mode)
         IN attr.user = user /\ attr.group = group /\ attr.mode = mode
  BY DEF Attr

LEMMA AttrTypes ==
  ASSUME NEW user \in Services \cup {"root"}, NEW group \in Services \cup {"root", "sbctl-cert"},
         NEW mode \in {600, 640, 700, 750, 755, 1771}
  PROVE  Attr(user, group, mode) \in Attributes
  BY DEF Attr, Attributes

(* Paths as tuples: which are files of the pairs, which are directories.   *)
LEMMA Shapes ==
  ASSUME NEW path
  PROVE  /\ path \in Folders => path = Certs \/ path = Temp \/ \E n \in PairNames : path = <<"data", "certificates", n>>
         /\ path \in PrivateFiles =>
              path = CertsLock \/ \E n : path = <<"data", "certificates", n, "refresh-pending">>
         /\ path \in Pairs =>
              \E n : \E w \in {"own", "pinned"} : path = <<"data", "certificates", n, w>>
  BY PairTuples DEF Folders, PrivateFiles, Pairs

(* The classes of paths are disjoint. *)
LEMMA TopsApart ==
  ASSUME NEW path \in Tops
  PROVE  /\ path \notin {EmailToml, Backups, Active, TempPair, Temp, CertsLock, <<>>}
         /\ path \notin PrivateFiles /\ path \notin Daemons /\ path \notin Pairs /\ path \notin Folders
<1>1. path \in {<<"etc-sbctl">>, <<"etc-sing-box">>, <<"data">>, <<"backups">>,
                <<"data", "artifacts">>, <<"data", "acme-webroot">>}
  BY PathTuples DEF Tops
<1>2. path \notin {EmailToml, Backups, Active, TempPair, Temp, CertsLock, <<>>} \cup Daemons
  <2>1. path \notin {<<"etc-sbctl", "email.toml">>, <<"backups", "point">>, <<"etc-sing-box", "config.json">>,
                     <<"etc-sbctl", "config.toml">>, <<"data", "state.json">>, <<"data", ".operation.lock">>}
    BY <1>1, TuplesApart, TuplesSame
  <2>2. path \notin {TempPair, Temp, CertsLock, Artifact}
    BY <1>1, PathTuples, TuplesApart
  <2>3. path # <<>>
    BY <1>1, TuplesNotEmpty
  <2> QED
    BY <2>1, <2>2, <2>3, PathTuples DEF Daemons
<1>3. path \notin PrivateFiles /\ path \notin Pairs
  BY <1>1, <1>2, Shapes, TuplesApart
<1>4. path \notin Folders
  BY <1>1, <1>2, Shapes, TuplesApart, TuplesSame, PathTuples
<1> QED
  BY <1>2, <1>3, <1>4

LEMMA FoldersApart ==
  ASSUME NEW path \in Folders
  PROVE  /\ path \notin {EmailToml, Backups, Active, TempPair, CertsLock, Etc, Data, <<>>}
         /\ path \notin PrivateFiles /\ path \notin Daemons /\ path \notin Pairs
         /\ path # Temp => path = Certs \/ \E n \in PairNames : path = PairDir(n)
<1>1. \/ path = <<"data", "certificates">> \/ path = <<"data", "certificates", ".sbctl-generation">>
      \/ \E n \in PairNames : path = <<"data", "certificates", n>>
  BY Shapes, PathTuples
<1>2. \A n \in PairNames : n # ".operation.lock"
  BY AccessAssumption DEF PairNames
<1>3. path # CertsLock
  BY <1>1, <1>2, PathTuples, TuplesApart, TuplesSame
<1>4. path \notin {EmailToml, Backups, Active, TempPair, Etc, Data, <<>>}
  <2>1. path \notin {Etc, Data, TempPair, <<>>}
    BY <1>1, PathTuples, TuplesApart, TuplesNotEmpty
  <2>2. path \notin {EmailToml, Backups, Active}
    BY <1>1, PathTuples, TuplesApart, TuplesSame
  <2> QED
    BY <2>1, <2>2
<1>5. path \notin Daemons
  <2>1. path \notin {ConfigToml, StateJson, Lock}
    BY <1>1, PathTuples, TuplesApart, TuplesSame
  <2>2. path # Artifact
    BY <1>1, PathTuples, TuplesApart, TuplesSame
  <2> QED
    BY <2>1, <2>2 DEF Daemons
<1>6. path \notin PrivateFiles /\ path \notin Pairs
  BY <1>1, <1>3, Shapes, TuplesApart
<1>7. path # Temp => path = Certs \/ \E n \in PairNames : path = PairDir(n)
  BY DEF Folders
<1> QED
  BY <1>3, <1>4, <1>5, <1>6, <1>7

(* The files the commands write one by one. *)
Plain == {Artifact, ConfigToml, StateJson, Ownership, Lock, Active, Binary, EmailToml, Backups}

LEMMA PlainTuples ==
  ASSUME NEW path \in Plain
  PROVE  \/ path = <<"data", "artifacts", "artifact">> \/ path = <<"usr-local-bin">>
         \/ \E a, b : path = <<a, b>> /\ b \notin {"artifacts", "certificates", "acme-webroot"}
  BY PathTuples DEF Plain

LEMMA PlainApart ==
  ASSUME NEW path \in Plain
  PROVE  path \notin Pairs \cup {TempPair, CertsLock, Etc, Data, Temp, <<>>} \cup Folders \cup PrivateFiles
<1>1. path \notin {TempPair, CertsLock, Temp, Etc, Data, <<>>}
  BY PlainTuples, PathTuples, TuplesApart, TuplesSame, TuplesNotEmpty
<1>2. path \notin Pairs /\ path \notin PrivateFiles
  BY <1>1, PlainTuples, Shapes, TuplesApart
<1>3. path \notin Folders
  BY <1>1, PlainTuples, Shapes, PathTuples, TuplesApart, TuplesSame
<1> QED
  BY <1>1, <1>2, <1>3

LEMMA PrivateApart ==
  ASSUME NEW path \in PrivateFiles
  PROVE  path \notin Pairs \cup {TempPair, Etc, Data, Temp, <<>>, EmailToml, Backups, Active}
                       \cup Folders \cup Daemons
<1>1. path \notin Folders
  BY FoldersApart
<1>2. path \notin {EmailToml, Backups, Active} \cup Daemons
  BY PlainApart DEF Plain, Daemons
<1>3. \/ path = <<"data", "certificates", ".operation.lock">>
      \/ \E n : path = <<"data", "certificates", n, "refresh-pending">>
  BY Shapes, PathTuples
<1>4. path \notin {TempPair, Etc, Data, <<>>}
  BY <1>3, PathTuples, TuplesApart, TuplesSame, TuplesNotEmpty
<1>5. path # Temp
  BY <1>1 DEF Folders
<1>6. path \notin Pairs
  BY <1>3, Shapes, TuplesApart, TuplesSame
<1> QED
  BY <1>1, <1>2, <1>4, <1>5, <1>6

LEMMA PairsApart ==
  ASSUME NEW path \in Pairs \cup {TempPair}
  PROVE  path \notin PrivateFiles \cup {Etc, Data, Temp, <<>>, EmailToml, Backups, Active}
                       \cup Folders \cup Daemons
<1>1. path \notin Folders
  BY FoldersApart
<1>2. path \notin {EmailToml, Backups, Active} \cup Daemons
  BY PlainApart DEF Plain, Daemons
<1>3. path \notin PrivateFiles
  BY PrivateApart
<1>4. \/ path = <<"data", "certificates", ".sbctl-generation", "pair">>
      \/ \E n, w : path = <<"data", "certificates", n, w>>
  BY Shapes, PathTuples
<1>5. path \notin {Etc, Data, <<>>}
  BY <1>4, PathTuples, TuplesApart, TuplesNotEmpty
<1> QED
  BY <1>1, <1>2, <1>3, <1>5 DEF Folders

LEMMA EtcDataApart ==
  Etc # Data /\ Etc \in Tops /\ Data \in Tops
  BY PathTuples, TuplesSame DEF Tops

LEMMA PlainDiffer ==
  /\ Active \notin {EmailToml, Backups, Binary} \cup Daemons
  /\ EmailToml \notin {Backups, Binary, Active} \cup Daemons
  /\ Backups \notin {EmailToml, Active, Binary} \cup Daemons
  /\ Binary \notin {EmailToml, Backups, Active} \cup Daemons
  /\ Ownership \notin {EmailToml, Backups, Active, Binary} \cup Daemons
<1>1. Binary \notin {EmailToml, Backups, Active, Artifact} \cup {ConfigToml, StateJson, Lock, Ownership}
  BY PathTuples, TuplesApart
<1>2. Artifact \notin {EmailToml, Backups, Active, Ownership}
  BY PathTuples, TuplesApart
<1>3. Active \notin {EmailToml, Backups, ConfigToml, StateJson, Lock}
  BY PathTuples, TuplesSame
<1>4. EmailToml \notin {Backups, ConfigToml, StateJson, Lock}
  BY PathTuples, TuplesSame
<1>5. Backups \notin {ConfigToml, StateJson, Lock}
  BY PathTuples, TuplesSame
<1>6. Ownership \notin {EmailToml, Backups, Active, ConfigToml, StateJson, Lock}
  BY PathTuples, TuplesSame
<1> QED
  BY <1>1, <1>2, <1>3, <1>4, <1>5, <1>6 DEF Daemons

(* What is in the certificate directory is none of the others. *)
LEMMA InsideApart ==
  ASSUME NEW path, Certs \in Above(path)
  PROVE  path \notin {Etc, Data, EmailToml, Backups, Active, Certs} \cup Daemons
<1>1. Certs \notin {Etc, Data, KernelDir, Artifacts, <<"backups">>}
  BY PathTuples, TuplesSame, TuplesApart
<1> QED
  BY <1>1, AbovePaths DEF Daemons

-----------------------------------------------------------------------------
(* Which writes fit. *)
LEMMA PrivateFits ==
  ASSUME NEW path \in Plain \cup PrivateFiles
  PROVE  Fits(path, Private)
<1>1. path \notin Pairs \cup {TempPair, Etc, Data} \cup Folders
  BY PlainApart, PrivateApart
<1>2. Private \in Attributes /\ Private.user = "root" /\ Private.mode = 600
  BY AttrFields, AttrTypes DEF Private, Services
<1> QED
  BY <1>1, <1>2 DEF Fits

LEMMA DirectoryFits ==
  ASSUME NEW path \in Directories
  PROVE  Fits(path, Attr("root", "root", 700)) /\ path # <<>> /\ path # Temp
<1> DEFINE attr == Attr("root", "root", 700)
<1>1. attr \in Attributes /\ attr.user = "root" /\ attr.mode = 700
  BY AttrFields, AttrTypes DEF Services
<1>2. CASE path \in Tops
  BY <1>1, <1>2, TopsApart DEF Fits
<1>3. CASE path \notin Tops
  <2>1. path \in Folders /\ path # Temp
    <3>1. \A n \in PairNames : n # ".sbctl-generation"
      BY AccessAssumption DEF PairNames
    <3> QED
      BY <1>3, <3>1, PathTuples, PairTuples, TuplesApart, TuplesSame DEF Directories, Folders
  <2> QED
    BY <1>1, <2>1, FoldersApart DEF Fits
<1> QED
  BY <1>2, <1>3

LEMMA FolderFits ==
  ASSUME NEW path \in Folders, NEW group \in Services \cup {"root", "sbctl-cert"},
         NEW mode \in {700, 750, 755}
  PROVE  Fits(path, Attr("root", group, mode))
<1> DEFINE attr == Attr("root", group, mode)
<1>1. attr \in Attributes /\ attr.user = "root" /\ attr.mode = mode
  BY AttrFields, AttrTypes
<1> QED
  BY <1>1, FoldersApart DEF Fits

LEMMA PairFits ==
  ASSUME NEW path \in Pairs \cup {TempPair}, NEW group \in Services \cup {"root", "sbctl-cert"}
  PROVE  Fits(path, Attr("root", group, 640))
<1> DEFINE attr == Attr("root", group, 640)
<1>1. attr \in Attributes /\ attr.user = "root" /\ attr.mode = 640
  BY AttrFields, AttrTypes
<1> QED
  BY <1>1, PairsApart DEF Fits

LEMMA DaemonFits ==
  ASSUME NEW path \in Daemons \cup {Ownership}
  PROVE  Fits(path, Attr("sbctl", "sbctl", 600)) /\ Policy(path) = Attr("sbctl", "sbctl", 600)
<1> DEFINE attr == Attr("sbctl", "sbctl", 600)
<1>1. attr \in Attributes
  BY AttrTypes DEF Services
<1>2. path \in Plain
  BY DEF Daemons, Plain
<1>3. path \notin Pairs \cup {TempPair, Etc, Data} \cup Folders \cup PrivateFiles
  BY <1>2, PlainApart
<1>4. path \notin {EmailToml, Backups, Active, Binary}
  BY PlainDiffer
<1>5. Fits(path, attr)
  BY <1>1, <1>3, <1>4 DEF Fits
<1>6. path \notin RootOnly
  BY <1>3, <1>4 DEF RootOnly, PrivateFiles
<1> QED
  BY <1>3, <1>4, <1>5, <1>6 DEF Policy

LEMMA OtherPolicies ==
  /\ Policy(Active) = Attr("sing-box", "sing-box", 640)
  /\ Policy(Binary) = Attr("root", "root", 755)
  /\ Policy(EmailToml) = Private
  /\ Fits(Active, Policy(Active)) /\ Fits(Binary, Policy(Binary)) /\ Fits(EmailToml, Private)
<1>1. Active \in Plain /\ Binary \in Plain /\ EmailToml \in Plain
  BY DEF Plain
<1>2. \A path \in {Active, Binary} : path \notin RootOnly
  BY <1>1, PlainApart, PlainDiffer DEF RootOnly, PrivateFiles
<1>3. EmailToml \in RootOnly
  BY DEF RootOnly
<1>4. Policy(Active) = Attr("sing-box", "sing-box", 640) /\ Policy(EmailToml) = Private
  BY <1>1, <1>2, <1>3, PlainApart, PlainDiffer DEF Policy, Private
<1>5. Policy(Binary) = Attr("root", "root", 755)
  BY <1>1, <1>2, PlainApart, PlainDiffer DEF Policy
<1>6. Attr("sing-box", "sing-box", 640) \in Attributes /\ Attr("root", "root", 755) \in Attributes
  BY AttrTypes DEF Services
<1>7. Fits(Active, Attr("sing-box", "sing-box", 640))
  BY <1>1, <1>6, PlainApart, PlainDiffer DEF Fits
<1>8. Fits(Binary, Attr("root", "root", 755))
  BY <1>1, <1>6, PlainApart, PlainDiffer DEF Fits
<1> QED
  BY <1>1, <1>4, <1>5, <1>7, <1>8, PrivateFits

-----------------------------------------------------------------------------
(* Operations on the tree. *)
MachineOK(h) ==
  /\ h = [tree |-> h.tree, accounts |-> h.accounts, grouped |-> h.grouped,
          members |-> h.members, config |-> h.config, named |-> h.named,
          issued |-> h.issued, runs |-> h.runs]
  /\ TreeOK(h.tree)

LEMMA WithTree ==
  ASSUME NEW h, MachineOK(h), NEW t, TreeOK(t)
  PROVE  /\ MachineOK([h EXCEPT !.tree = t])
         /\ [h EXCEPT !.tree = t].tree = t
         /\ [h EXCEPT !.tree = t].grouped = h.grouped
  BY DEF MachineOK

(* The other fields do not matter. *)
LEMMA OtherFields ==
  ASSUME NEW h, MachineOK(h), NEW x
  PROVE  /\ MachineOK([h EXCEPT !.accounts = x]) /\ MachineOK([h EXCEPT !.grouped = x])
         /\ MachineOK([h EXCEPT !.members = x]) /\ MachineOK([h EXCEPT !.config = x])
         /\ MachineOK([h EXCEPT !.named = x]) /\ MachineOK([h EXCEPT !.issued = x])
         /\ MachineOK([h EXCEPT !.runs = x])
<1>1. MachineOK([h EXCEPT !.accounts = x]) /\ MachineOK([h EXCEPT !.grouped = x])
  BY DEF MachineOK
<1>2. MachineOK([h EXCEPT !.members = x]) /\ MachineOK([h EXCEPT !.config = x])
  BY DEF MachineOK
<1>3. MachineOK([h EXCEPT !.named = x]) /\ MachineOK([h EXCEPT !.issued = x])
  BY DEF MachineOK
<1>4. MachineOK([h EXCEPT !.runs = x])
  BY DEF MachineOK
<1> QED
  BY <1>1, <1>2, <1>3, <1>4

LEMMA TwoFields ==
  ASSUME NEW h, MachineOK(h), NEW x, NEW y
  PROVE  MachineOK([h EXCEPT !.config = x, !.named = y])
<1> DEFINE g == [h EXCEPT !.config = x]
<1>1. MachineOK(g)
  BY OtherFields
<1>2. [h EXCEPT !.config = x, !.named = y] = [g EXCEPT !.named = y]
  BY DEF MachineOK
<1> HIDE DEF g
<1>3. MachineOK([g EXCEPT !.named = y])
  BY <1>1, OtherFields
<1> QED
  BY <1>2, <1>3

FitsAll(t) == <<>> \notin DOMAIN t /\ \A path \in DOMAIN t : Fits(path, t[path])

LEMMA OverOK ==
  ASSUME NEW f, NEW g, FitsAll(f), FitsAll(g),
         Temp \in DOMAIN f \cup DOMAIN g => TempPair \in DOMAIN f \cup DOMAIN g
  PROVE  /\ TreeOK(Over(f, g))
         /\ DOMAIN Over(f, g) = DOMAIN f \cup DOMAIN g
         /\ \A path \in DOMAIN f : Over(f, g)[path] = f[path]
<1>1. /\ DOMAIN Over(f, g) = DOMAIN f \cup DOMAIN g
      /\ Over(f, g) = [path \in DOMAIN Over(f, g) |-> Over(f, g)[path]]
      /\ \A path \in DOMAIN Over(f, g) :
           Over(f, g)[path] = IF path \in DOMAIN f THEN f[path] ELSE g[path]
  BY DEF Over
<1>2. FitsAll(Over(f, g))
  BY <1>1 DEF FitsAll
<1> QED
  BY <1>1, <1>2 DEF TreeOK, FitsAll

LEMMA TreeFits ==
  ASSUME NEW t, TreeOK(t) PROVE FitsAll(t)
  BY DEF TreeOK, FitsAll

LEMMA AtFits ==
  ASSUME NEW path, NEW attr, Fits(path, attr), path # <<>>
  PROVE  FitsAll(At(path, attr)) /\ DOMAIN At(path, attr) = {path}
  BY DEF At, FitsAll

LEMMA CreatedOK ==
  ASSUME NEW t, TreeOK(t), NEW dirs, dirs \subseteq Directories
  PROVE  LET made == Over(t, [dir \in dirs |-> Attr("root", "root", 700)])
         IN  TreeOK(made) /\ DOMAIN made = DOMAIN t \cup dirs
<1> DEFINE new == [dir \in dirs |-> Attr("root", "root", 700)]
<1>1. FitsAll(new) /\ DOMAIN new = dirs /\ Temp \notin dirs
  BY DirectoryFits DEF FitsAll
<1>2. Temp \in DOMAIN t => TempPair \in DOMAIN t
  BY DEF TreeOK
<1> HIDE DEF new
<1>3. FitsAll(t) /\ (Temp \in DOMAIN t \cup DOMAIN new => TempPair \in DOMAIN t \cup DOMAIN new)
  BY <1>1, <1>2, TreeFits
<1>4. TreeOK(Over(t, new)) /\ DOMAIN Over(t, new) = DOMAIN t \cup dirs
  BY <1>1, <1>3, OverOK
<1> QED
  BY <1>4 DEF new

LEMMA PutOK ==
  ASSUME NEW t, TreeOK(t), NEW path, NEW attr, Fits(path, attr), path \notin {<<>>, Temp}
  PROVE  TreeOK(Over(At(path, attr), t)) /\ DOMAIN Over(At(path, attr), t) = DOMAIN t \cup {path}
<1> DEFINE new == At(path, attr)
<1>1. FitsAll(new) /\ DOMAIN new = {path}
  BY AtFits
<1>2. FitsAll(t) /\ (Temp \in DOMAIN t => TempPair \in DOMAIN t)
  BY TreeFits DEF TreeOK
<1> HIDE DEF new
<1>3. Temp \in DOMAIN new \cup DOMAIN t => TempPair \in DOMAIN new \cup DOMAIN t
  BY <1>1, <1>2
<1>4. TreeOK(Over(new, t)) /\ DOMAIN Over(new, t) = DOMAIN new \cup DOMAIN t
  BY <1>1, <1>2, <1>3, OverOK
<1> QED
  BY <1>1, <1>4 DEF new

LEMMA RenamedOK ==
  ASSUME NEW t, TreeOK(t), NEW path, NEW attr, Fits(path, attr), path \notin {<<>>, Temp},
         Above(path) \subseteq Directories
  PROVE  TreeOK(Renamed(t, path, attr))
  BY CreatedOK, PutOK DEF Renamed, Created

LEMMA AboveDirectories ==
  /\ \A path \in Plain \cup {CertsLock, Append(Webroot, "challenge")} : Above(path) \subseteq Directories
  /\ \A n \in PairNames : \A w : Above(Pair(n, w)) \subseteq Directories
<1>1. \A path \in Plain \cup {CertsLock, Append(Webroot, "challenge")} : Above(path) \subseteq Directories
  <2>1. {Etc, KernelDir, Data, Artifacts, Webroot, Certs, <<"backups">>} \subseteq Directories
    BY DEF Directories, Tops
  <2>2. \A path \in {ConfigToml, EmailToml, Active, StateJson, Ownership, Lock, Binary, Backups} :
          Above(path) \subseteq Directories
    BY <2>1, AbovePaths
  <2>3. \A path \in {Artifact, CertsLock, Append(Webroot, "challenge")} :
          Above(path) \subseteq Directories
    BY <2>1, AbovePaths
  <2> QED
    BY <2>2, <2>3 DEF Plain
<1>2. \A n \in PairNames : \A w : Above(Pair(n, w)) \subseteq Directories
  BY AbovePairs DEF Directories, Tops
<1> QED
  BY <1>1, <1>2

LEMMA OpenedOK ==
  ASSUME NEW h, MachineOK(h), NEW lock \in {Lock, CertsLock}
  PROVE  MachineOK(Opened(h, lock)) /\ Opened(h, lock).grouped = h.grouped
<1>1. lock \in Plain \cup PrivateFiles
  BY DEF Plain, PrivateFiles
<1>2. lock \notin {<<>>, Temp} /\ Above(lock) \subseteq Directories /\ Fits(lock, Private)
  BY <1>1, PlainApart, PrivateApart, AboveDirectories, PrivateFits DEF Plain
<1>3. TreeOK(Renamed(h.tree, lock, Private))
  BY <1>2, RenamedOK DEF MachineOK
<1> QED
  BY <1>3, WithTree DEF Opened, Private

LEMMA WriteRootOnlyOK ==
  ASSUME NEW h, MachineOK(h), NEW path \in {EmailToml, Backups}
  PROVE  MachineOK(WriteRootOnly(h, path))
<1>1. path \in Plain
  BY DEF Plain
<1>2. path \notin {<<>>, Temp} /\ Above(path) \subseteq Directories /\ Fits(path, Private)
  BY <1>1, PlainApart, AboveDirectories, PrivateFits
<1>3. TreeOK(Renamed(h.tree, path, Private))
  BY <1>2, RenamedOK DEF MachineOK
<1> QED
  BY <1>3, WithTree DEF WriteRootOnly, Private

Writable == {Artifact, ConfigToml, Active, Binary, StateJson, Ownership}

LEMMA WriteAllOK ==
  ASSUME NEW h, MachineOK(h), NEW paths, paths \subseteq Writable
  PROVE  MachineOK(WriteAll(h, paths)) /\ WriteAll(h, paths).grouped = h.grouped
<1> DEFINE dirs == UNION {Above(path) : path \in paths}
           made == Over(h.tree, [dir \in dirs |-> Attr("root", "root", 700)])
           new == [path \in paths |-> Written(h, path)]
<1>1. paths \subseteq Plain
  BY DEF Writable, Plain
<1>2. dirs \subseteq Directories
  BY <1>1, AboveDirectories
<1>3. TreeOK(made)
  BY <1>2, CreatedOK DEF MachineOK
<1>4. ASSUME NEW path \in paths PROVE Fits(path, Written(h, path)) /\ path # <<>> /\ path # Temp
  <2>1. Fits(path, Private) /\ path # <<>> /\ path # Temp
    BY <1>1, PrivateFits, PlainApart
  <2>2. Fits(path, Policy(path))
    <3>1. path \in Daemons \cup {Ownership} \/ path = Active \/ path = Binary
      BY DEF Writable, Daemons
    <3> QED
      BY <3>1, DaemonFits, OtherPolicies
  <2> QED
    BY <2>1, <2>2 DEF Written, Private
<1>5. FitsAll(new) /\ DOMAIN new = paths
  BY <1>4 DEF FitsAll
<1>6. Temp \in DOMAIN made => TempPair \in DOMAIN made
  BY <1>3 DEF TreeOK
<1> HIDE DEF made, new
<1>7. TreeOK(Over(new, made))
  BY <1>3, <1>4, <1>5, <1>6, TreeFits, OverOK
<1> QED
  BY <1>7, WithTree DEF WriteAll, new, made

(* Attributes that change where they are. *)
LEMMA RemapOK ==
  ASSUME NEW h, MachineOK(h), NEW t, t = [path \in DOMAIN h.tree |-> t[path]],
         \A path \in DOMAIN h.tree : Fits(path, t[path])
  PROVE  TreeOK(t)
<1>1. DOMAIN t = DOMAIN h.tree
  OBVIOUS
<1> QED
  BY <1>1 DEF MachineOK, TreeOK

LEMMA Fitting ==
  ASSUME NEW h, MachineOK(h), NEW path \in DOMAIN h.tree
  PROVE  /\ Fits(path, h.tree[path]) /\ path # <<>>
         /\ h.tree[path] = Attr(h.tree[path].user, h.tree[path].group, h.tree[path].mode)
         /\ h.tree[path].user \in Services \cup {"root"}
         /\ h.tree[path].group \in Services \cup {"root", "sbctl-cert"}
         /\ h.tree[path].mode \in {600, 640, 700, 750, 755, 1771}
  BY DEF MachineOK, TreeOK, Fits, Attributes, Attr

LEMMA SetAttrOK ==
  ASSUME NEW h, MachineOK(h), NEW paths, NEW attr,
         \A path \in paths \cap DOMAIN h.tree : Fits(path, attr)
  PROVE  MachineOK(SetAttr(h, paths, attr)) /\ SetAttr(h, paths, attr).grouped = h.grouped
<1> DEFINE t == [path \in DOMAIN h.tree |-> IF path \in paths THEN attr ELSE h.tree[path]]
<1>1. t = [path \in DOMAIN h.tree |-> t[path]] /\ \A path \in DOMAIN h.tree : Fits(path, t[path])
  BY Fitting
<1> HIDE DEF t
<1>2. TreeOK(t)
  BY <1>1, RemapOK
<1> QED
  BY <1>2, WithTree DEF SetAttr, t

LEMMA ChownOK ==
  ASSUME NEW h, MachineOK(h), NEW paths, NEW user, NEW group,
         \A path \in paths \cap DOMAIN h.tree : Fits(path, Attr(user, group, h.tree[path].mode))
  PROVE  /\ MachineOK(Chown(h, paths, user, group))
         /\ DOMAIN Chown(h, paths, user, group).tree = DOMAIN h.tree
         /\ \A path \in paths \cap DOMAIN h.tree :
              Chown(h, paths, user, group).tree[path] = Attr(user, group, h.tree[path].mode)
<1> DEFINE t == [path \in DOMAIN h.tree |->
                   IF path \in paths THEN Attr(user, group, h.tree[path].mode) ELSE h.tree[path]]
<1>1. t = [path \in DOMAIN h.tree |-> t[path]] /\ \A path \in DOMAIN h.tree : Fits(path, t[path])
  BY Fitting
<1>2. \A path \in paths \cap DOMAIN h.tree : t[path] = Attr(user, group, h.tree[path].mode)
  OBVIOUS
<1> HIDE DEF t
<1>3. TreeOK(t)
  BY <1>1, RemapOK
<1>4. Chown(h, paths, user, group) = [h EXCEPT !.tree = t]
  BY DEF Chown, t
<1> QED
  BY <1>1, <1>2, <1>3, <1>4, WithTree

LEMMA ChmodOK ==
  ASSUME NEW h, MachineOK(h), NEW paths, NEW mode,
         \A path \in paths \cap DOMAIN h.tree :
           Fits(path, Attr(h.tree[path].user, h.tree[path].group, mode))
  PROVE  MachineOK(Chmod(h, paths, mode)) /\ Chmod(h, paths, mode).grouped = h.grouped
<1> DEFINE t == [path \in DOMAIN h.tree |->
                   IF path \in paths THEN [h.tree[path] EXCEPT !.mode = mode] ELSE h.tree[path]]
<1>1. \A path \in paths \cap DOMAIN h.tree :
        t[path] = Attr(h.tree[path].user, h.tree[path].group, mode)
  <2>1. \A u, g, m : [Attr(u, g, m) EXCEPT !.mode = mode] = Attr(u, g, mode)
    BY DEF Attr
  <2>2. \A path \in DOMAIN h.tree :
          h.tree[path] = Attr(h.tree[path].user, h.tree[path].group, h.tree[path].mode)
    BY Fitting
  <2>3. \A path \in DOMAIN h.tree : [h.tree[path] EXCEPT !.mode = mode]
                                       = Attr(h.tree[path].user, h.tree[path].group, mode)
    BY <2>1, <2>2
  <2> QED
    BY <2>3
<1>2. t = [path \in DOMAIN h.tree |-> t[path]] /\ \A path \in DOMAIN h.tree : Fits(path, t[path])
  BY SMTT(30), <1>1, Fitting
<1> HIDE DEF t
<1>3. TreeOK(t)
  BY <1>2, RemapOK
<1>4. Chmod(h, paths, mode) = [h EXCEPT !.tree = t]
  BY DEF Chmod, t
<1> QED
  BY <1>3, <1>4, WithTree

(* prepare_daemon_storage. *)
LEMMA EtcFits == Fits(Etc, Attr("root", "sbctl", 750)) /\ Fits(Data, Attr("root", "sbctl", 1771))
<1>1. /\ Attr("root", "sbctl", 750) \in Attributes /\ Attr("root", "sbctl", 1771) \in Attributes
      /\ Attr("root", "sbctl", 750).user = "root" /\ Attr("root", "sbctl", 750).mode = 750
  BY AttrTypes, AttrFields DEF Services
<1> QED
  BY <1>1, EtcDataApart, TopsApart DEF Fits

LEMMA FreeTopFits ==
  ASSUME NEW path \in Tops \ {Etc, Data}, NEW attr \in Attributes
  PROVE  Fits(path, attr)
  BY TopsApart DEF Fits

LEMMA OtherTops ==
  /\ Artifacts \in Tops \ {Etc, Data} /\ Webroot \in Tops \ {Etc, Data}
  /\ KernelDir \in Tops \ {Etc, Data}
  BY PathTuples, TuplesApart, TuplesSame DEF Tops

LEMMA DelegateOK ==
  ASSUME NEW h, MachineOK(h) PROVE MachineOK(Delegate(h))
<1> DEFINE h1 == SetAttr(h, {Etc}, Attr("root", "sbctl", 750))
           h2 == SetAttr(h1, {Data}, Attr("root", "sbctl", 1771))
           h3 == SetAttr(h2, {Artifacts}, Attr("sbctl", "sbctl", 700))
<1>1. MachineOK(h1)
  BY EtcFits, SetAttrOK
<1>2. MachineOK(h2)
  <2> HIDE DEF h1
  <2> QED
    BY <1>1, EtcFits, SetAttrOK
<1>3. Fits(Artifacts, Attr("sbctl", "sbctl", 700)) /\ Fits(Webroot, Attr("sbctl", "sbctl", 755))
  BY AttrTypes, FreeTopFits, OtherTops DEF Services
<1>4. MachineOK(h3)
  <2> HIDE DEF h2
  <2> QED
    BY <1>2, <1>3, SetAttrOK
<1>5. MachineOK(SetAttr(h3, {Webroot}, Attr("sbctl", "sbctl", 755)))
  <2> HIDE DEF h3
  <2> QED
    BY <1>3, <1>4, SetAttrOK
<1> QED
  BY <1>5 DEF Delegate

LEMMA EnforceLiveOK ==
  ASSUME NEW h, MachineOK(h) PROVE MachineOK(EnforceLive(h))
<1> DEFINE t == [path \in DOMAIN h.tree |->
                   IF path \in LiveFiles /\ Enforced(h, path) THEN Policy(path) ELSE h.tree[path]]
<1>1. \A path \in LiveFiles : Fits(path, Policy(path))
  BY DaemonFits, OtherPolicies DEF LiveFiles, Daemons
<1>2. t = [path \in DOMAIN h.tree |-> t[path]] /\ \A path \in DOMAIN h.tree : Fits(path, t[path])
  BY <1>1, Fitting
<1> HIDE DEF t
<1>3. TreeOK(t)
  BY <1>2, RemapOK
<1> QED
  BY <1>3, WithTree DEF EnforceLive, t

LEMMA KernelDirectoryOK ==
  ASSUME NEW h, MachineOK(h) PROVE MachineOK(Storage(h, "kernel directory"))
<1> DEFINE g == Chown(h, {KernelDir}, "root", "sing-box")
<1>1. \A path \in {KernelDir} \cap DOMAIN h.tree :
        Fits(path, Attr("root", "sing-box", h.tree[path].mode))
  BY Fitting, AttrTypes, FreeTopFits, OtherTops DEF Services
<1>2. MachineOK(g)
  BY <1>1, ChownOK
<1> HIDE DEF g
<1>3. \A path \in {KernelDir} \cap DOMAIN g.tree :
        Fits(path, Attr(g.tree[path].user, g.tree[path].group, 750))
  BY <1>2, Fitting, AttrTypes, FreeTopFits, OtherTops DEF Services
<1>4. MachineOK(Chmod(g, {KernelDir}, 750))
  BY <1>2, <1>3, ChmodOK
<1> QED
  BY <1>4 DEF Storage, g

LEMMA KernelFileOK ==
  ASSUME NEW h, MachineOK(h) PROVE MachineOK(Storage(h, "kernel file"))
<1> DEFINE g == Chown(h, {Active}, "sing-box", "sing-box")
<1>1. \A mode \in {600, 640} : Fits(Active, Attr("sing-box", "sing-box", mode))
  <2>1. \A mode \in {600, 640} : Attr("sing-box", "sing-box", mode) \in Attributes
    BY AttrTypes DEF Services
  <2>2. Active \in Plain
    BY DEF Plain
  <2> QED
    BY <2>1, <2>2, PlainApart, PlainDiffer DEF Fits
<1>2. Active \in DOMAIN h.tree => h.tree[Active].mode \in {600, 640}
  BY Fitting, AttrFields DEF Fits, Private
<1>3. MachineOK(g)
  BY <1>1, <1>2, ChownOK
<1>4. Active \in DOMAIN g.tree => g.tree[Active].user = "sing-box" /\ g.tree[Active].group = "sing-box"
  BY <1>1, <1>2, ChownOK, AttrFields
<1> HIDE DEF g
<1>5. MachineOK(Chmod(g, {Active}, 640))
  BY <1>1, <1>3, <1>4, ChmodOK
<1> QED
  BY <1>5 DEF Storage, g

(* Everything in the certificate directory, and the directory. *)
LEMMA AllPairsApart ==
  ASSUME NEW h, NEW path \in AllPairs(h)
  PROVE  /\ path \notin {Etc, Data, EmailToml, Backups, Active} \cup Daemons
         /\ path \notin Folders => Certs \in Above(path)
<1>1. Certs \in Folders
  BY DEF Folders
<1> QED
  BY <1>1, FoldersApart, InsideApart DEF AllPairs, Inside

LEMMA ChownPairsOK ==
  ASSUME NEW h, MachineOK(h), NEW group \in {"sbctl-cert", "sing-box"}
  PROVE  MachineOK(Chown(h, AllPairs(h), "root", group))
<1>1. ASSUME NEW path \in AllPairs(h) \cap DOMAIN h.tree
      PROVE  Fits(path, Attr("root", group, h.tree[path].mode))
  <2> DEFINE attr == Attr("root", group, h.tree[path].mode)
  <2>1. attr \in Attributes /\ attr.user = "root" /\ attr.mode = h.tree[path].mode
    <3>1. h.tree[path].mode \in {600, 640, 700, 750, 755, 1771}
      BY Fitting
    <3>2. group \in Services \cup {"root", "sbctl-cert"}
      BY DEF Services
    <3> QED
      BY <3>1, <3>2, AttrTypes, AttrFields
  <2>2. Fits(path, h.tree[path])
    BY Fitting
  <2> HIDE DEF attr
  <2>3. Fits(path, attr)
    BY <2>1, <2>2, AllPairsApart DEF Fits
  <2> QED
    BY <2>3 DEF attr
<1> QED
  BY <1>1, ChownOK

LEMMA OpenFoldersOK ==
  ASSUME NEW h, MachineOK(h) PROVE MachineOK(Chmod(h, Folders, 755))
<1>1. ASSUME NEW path \in Folders \cap DOMAIN h.tree
      PROVE  Fits(path, Attr(h.tree[path].user, h.tree[path].group, 755))
  <2>1. h.tree[path].user = "root" /\ h.tree[path].group \in Services \cup {"root", "sbctl-cert"}
    BY Fitting DEF Fits
  <2> QED
    BY <2>1, FolderFits
<1> QED
  BY <1>1, ChmodOK

LEMMA ReadablePairsOK ==
  ASSUME NEW h, MachineOK(h) PROVE MachineOK(Chmod(h, Readable(h), 640))
<1>1. ASSUME NEW path \in Readable(h) \cap DOMAIN h.tree
      PROVE  Fits(path, Attr(h.tree[path].user, h.tree[path].group, 640))
  <2> DEFINE attr == Attr(h.tree[path].user, h.tree[path].group, 640)
  <2>1. attr \in Attributes /\ attr.user = h.tree[path].user /\ attr.mode = 640
    BY Fitting, AttrTypes, AttrFields
  <2>2. Fits(path, h.tree[path])
    BY Fitting
  <2>3. path \in AllPairs(h) /\ path \notin Folders /\ path \notin PrivateFiles
    BY DEF Readable, PrivateFiles
  <2> HIDE DEF attr
  <2>4. Fits(path, attr)
    BY <2>1, <2>2, <2>3, AllPairsApart DEF Fits
  <2> QED
    BY <2>4 DEF attr
<1> QED
  BY <1>1, ChmodOK

StorageParts == {"directories", "live files", "kernel directory", "kernel file", "shared pairs",
                 "kernel pairs", "open folders", "readable pairs"}

LEMMA StorageOK ==
  ASSUME NEW h, MachineOK(h), NEW part \in StorageParts
  PROVE  MachineOK(Storage(h, part))
<1>1. CASE part = "directories"
  BY <1>1, DelegateOK DEF Storage
<1>2. CASE part = "live files"
  BY <1>2, EnforceLiveOK DEF Storage
<1>3. CASE part = "kernel directory"
  BY ZenonT(40), <1>3, KernelDirectoryOK
<1>4. CASE part = "kernel file"
  BY ZenonT(40), <1>4, KernelFileOK
<1>5. CASE part = "shared pairs"
  BY ZenonT(40), <1>5, ChownPairsOK DEF Storage
<1>6. CASE part = "kernel pairs"
  BY ZenonT(40), <1>6, ChownPairsOK DEF Storage
<1>7. CASE part = "open folders"
  BY ZenonT(40), <1>7, OpenFoldersOK DEF Storage
<1>8. CASE part = "readable pairs"
  BY ZenonT(40), <1>8, ReadablePairsOK DEF Storage
<1> QED
  BY <1>1, <1>2, <1>3, <1>4, <1>5, <1>6, <1>7, <1>8 DEF StorageParts

-----------------------------------------------------------------------------
(* Pairs. *)
LEMMA StagedIs ==
  ASSUME NEW h, NEW mode
  PROVE  \E group \in Services \cup {"root", "sbctl-cert"} : Staged(h, mode) = Attr("root", group, mode)
  BY DEF Staged

LEMMA NamesFit ==
  ASSUME NEW n \in PairNames, NEW which \in {"own", "pinned"}
  PROVE  /\ PairDir(n) \in Folders /\ PairDir(n) \notin {<<>>, Temp}
         /\ Pair(n, which) \in Pairs /\ Pair(n, which) \notin {<<>>, Temp}
         /\ Marker(n) \in PrivateFiles /\ Marker(n) \notin {<<>>, Temp}
<1>1. PairDir(n) \in Folders /\ Pair(n, which) \in Pairs /\ Marker(n) \in PrivateFiles
  BY DEF Folders, Pairs, PrivateFiles
<1>2. PairDir(n) # Temp
  BY PathTuples, PairTuples, TuplesSame, AccessAssumption DEF PairNames
<1> QED
  BY <1>1, <1>2, FoldersApart, PairsApart, PrivateApart

LEMMA PrepareOK ==
  ASSUME NEW h, MachineOK(h), NEW n \in PairNames
  PROVE  MachineOK(Prepare(h, n)) /\ Prepare(h, n).grouped = h.grouped
<1> DEFINE made == [h EXCEPT !.tree = Created(@, Pair(n, "own"))]
           open == {Certs, PairDir(n)}
<1>1. TreeOK(Created(h.tree, Pair(n, "own")))
  BY AboveDirectories, CreatedOK DEF MachineOK, Created
<1>2. MachineOK(made) /\ made.grouped = h.grouped
  BY <1>1, WithTree
<1>3. open \subseteq Folders
  BY NamesFit DEF Folders
<1> HIDE DEF made, open
<1>4. MachineOK(SetAttr(made, open, Attr("root", "sbctl-cert", 750)))
      /\ SetAttr(made, open, Attr("root", "sbctl-cert", 750)).grouped = h.grouped
  BY <1>2, <1>3, FolderFits, SetAttrOK
<1>5. MachineOK(Chmod(made, open, 750)) /\ Chmod(made, open, 750).grouped = h.grouped
  <2>1. ASSUME NEW path \in open \cap DOMAIN made.tree
        PROVE  Fits(path, Attr(made.tree[path].user, made.tree[path].group, 750))
    <3>1. path \in Folders /\ Fits(path, made.tree[path])
          /\ made.tree[path].group \in Services \cup {"root", "sbctl-cert"}
      BY <1>2, <1>3, Fitting
    <3> QED
      BY <3>1, FolderFits DEF Fits
  <2> QED
    BY <1>2, <2>1, ChmodOK
<1> QED
  BY <1>4, <1>5 DEF Prepare, made, open

LEMMA ExchangeOK ==
  ASSUME NEW h, MachineOK(h), NEW n \in PairNames, NEW which \in {"own", "pinned"},
         NEW dir, Fits(PairDir(n), dir), NEW pair, Fits(Pair(n, which), pair), NEW marked
  PROVE  MachineOK(Exchange(h, n, which, dir, pair, marked))
<1> DEFINE t1 == Over(At(Pair(n, which), pair), h.tree)
           t2 == Over(At(PairDir(n), dir), t1)
           t3 == Over(At(Marker(n), Private), t2)
<1>1. TreeOK(t1)
  BY NamesFit, PutOK DEF MachineOK
<1>2. TreeOK(t2)
  <2> HIDE DEF t1
  <2> QED
    BY <1>1, NamesFit, PutOK
<1>3. Fits(Marker(n), Private)
  BY NamesFit, PrivateFits
<1>4. TreeOK(t3)
  <2> HIDE DEF t2
  <2> QED
    BY <1>2, <1>3, NamesFit, PutOK
<1>5. Exchange(h, n, which, dir, pair, marked) = [h EXCEPT !.tree = IF marked THEN t3 ELSE t2]
  BY DEF Exchange, Private
<1> HIDE DEF t2, t3
<1> QED
  BY <1>2, <1>4, <1>5, WithTree

LEMMA WritePairOK ==
  ASSUME NEW h, MachineOK(h), NEW n \in PairNames, NEW which \in {"own", "pinned"},
         NEW marked, NEW renewed
  PROVE  MachineOK(WritePair(h, n, which, marked, renewed))
<1> DEFINE prepared == Prepare(h, n)
           ready == Opened(prepared, CertsLock)
<1>1. MachineOK(prepared)
  BY PrepareOK
<1>2. MachineOK(ready)
  <2> HIDE DEF prepared
  <2> QED
    BY <1>1, OpenedOK
<1> HIDE DEF ready
<1>3. Fits(PairDir(n), Staged(h, 750))
  BY StagedIs, NamesFit, FolderFits
<1>4. Fits(Pair(n, which), Staged(h, 640))
  BY StagedIs, NamesFit, PairFits
<1>5. MachineOK(Exchange(ready, n, which, Staged(h, 750), Staged(h, 640), marked))
  BY <1>2, <1>3, <1>4, ExchangeOK
<1> QED
  BY <1>2, <1>5 DEF WritePair, ready

LEMMA EnsureOwnOK ==
  ASSUME NEW h, MachineOK(h), NEW n \in PairNames
  PROVE  MachineOK(EnsureOwn(h, n))
  BY WritePairOK DEF EnsureOwn

LEMMA PinOK ==
  ASSUME NEW h, MachineOK(h), NEW renewed
  PROVE  MachineOK(Pin(h, renewed))
<1>1. Host \in PairNames
  BY DEF PairNames
<1> QED
  BY <1>1, WritePairOK DEF Pin

LEMMA ObtainOK ==
  ASSUME NEW h, MachineOK(h), NEW renewed
  PROVE  MachineOK(Obtain(h, renewed))
<1> DEFINE served == IF Exists(h, Webroot) THEN h
                     ELSE [h EXCEPT !.tree = Over(At(Webroot, Attr("root", "root", 755)), @)]
<1>1. Fits(Webroot, Attr("root", "root", 755)) /\ Webroot \notin {<<>>, Temp}
  BY AttrTypes, FreeTopFits, OtherTops, TopsApart DEF Services
<1>2. TreeOK(Over(At(Webroot, Attr("root", "root", 755)), h.tree))
  <2> DEFINE attr == Attr("root", "root", 755)
  <2>1. TreeOK(h.tree) /\ Fits(Webroot, attr)
    BY <1>1 DEF MachineOK
  <2> HIDE DEF attr
  <2>2. TreeOK(Over(At(Webroot, attr), h.tree))
    BY <1>1, <2>1, PutOK
  <2> QED
    BY <2>2 DEF attr
<1>3. MachineOK(served)
  BY <1>2, WithTree
<1> HIDE DEF served
<1>4. MachineOK(Pin(served, renewed))
  BY <1>3, PinOK
<1>5. MachineOK([Pin(served, renewed) EXCEPT !.issued = TRUE])
  BY <1>4, OtherFields
<1> QED
  BY <1>5 DEF Obtain, served

-----------------------------------------------------------------------------
(* Steps. *)
LEMMA PublishOK ==
  ASSUME NEW h, MachineOK(h), NEW c, NEW server
  PROVE  MachineOK(Publish(h, c, server))
<1> DEFINE g == WriteAll(h, {Artifact, ConfigToml, Active})
<1>1. MachineOK(g)
  BY WriteAllOK DEF Writable
<1> HIDE DEF g
<1>2. \A x, y : MachineOK([g EXCEPT !.config = x, !.named = y])
  BY <1>1, TwoFields
<1> QED
  BY <1>2 DEF Publish, g

LEMMA InitializeOK ==
  ASSUME NEW h, MachineOK(h), NEW c
  PROVE  MachineOK(Initialize(h, c))
<1> DEFINE g == WriteAll(h, {Artifact, ConfigToml})
           t == IF c.direct THEN Created(g.tree, Append(Webroot, "challenge")) ELSE g.tree
<1>1. MachineOK(g)
  BY WriteAllOK DEF Writable
<1> HIDE DEF g
<1>2. TreeOK(Created(g.tree, Append(Webroot, "challenge")))
  BY <1>1, AboveDirectories, CreatedOK DEF MachineOK, Created
<1>3. TreeOK(t)
  BY <1>1, <1>2 DEF MachineOK
<1> HIDE DEF t
<1>4. MachineOK([g EXCEPT !.config = c])
  BY <1>1, OtherFields
<1>5. [g EXCEPT !.config = c, !.tree = t] = [[g EXCEPT !.config = c] EXCEPT !.tree = t]
  BY <1>1 DEF MachineOK
<1>6. MachineOK([g EXCEPT !.config = c, !.tree = t])
  BY <1>3, <1>4, <1>5, WithTree
<1> QED
  BY <1>6 DEF Initialize, g, t

LEMMA ActivateOK ==
  ASSUME NEW h, MachineOK(h), NEW server
  PROVE  MachineOK(Activate(h, server))
<1>1. MachineOK(Write(h, Active))
  BY WriteAllOK DEF Write, Writable
<1>2. \A x : MachineOK([Write(h, Active) EXCEPT !.named = x])
  BY <1>1, OtherFields
<1> QED
  BY <1>2 DEF Activate

LEMMA WriteOK ==
  ASSUME NEW h, MachineOK(h), NEW path \in Writable
  PROVE  MachineOK(Write(h, path))
  BY WriteAllOK DEF Write

LEMMA RestartOK ==
  ASSUME NEW h, MachineOK(h), NEW services
  PROVE  MachineOK(Restart(h, services))
<1>1. \A x : MachineOK([h EXCEPT !.runs = x])
  BY OtherFields
<1> QED
  BY <1>1 DEF Restart

LEMMA RestoreFilesOK ==
  ASSUME NEW h, MachineOK(h), NEW saved
  PROVE  MachineOK(RestoreFiles(h, saved))
<1> DEFINE g == WriteAll(h, {Artifact, ConfigToml, Active})
<1>1. MachineOK(g)
  BY WriteAllOK DEF Writable
<1> HIDE DEF g
<1>2. \A x, y : MachineOK([g EXCEPT !.config = x, !.named = y])
  BY <1>1, TwoFields
<1> QED
  BY <1>2 DEF RestoreFiles, g

(* Removing paths fits, as long as the hook's pair goes last. *)
LEMMA KeptOK ==
  ASSUME NEW t, TreeOK(t), NEW kept, kept \subseteq DOMAIN t,
         NEW u, u = [path \in kept |-> u[path]], \A path \in kept : Fits(path, u[path]),
         Temp \in kept => TempPair \in kept
  PROVE  TreeOK(u)
<1>1. DOMAIN u = kept
  OBVIOUS
<1> QED
  BY <1>1 DEF TreeOK

LEMMA RestoreAttributesOK ==
  ASSUME NEW h, MachineOK(h), NEW saved, MachineOK(saved)
  PROVE  MachineOK(RestoreAttributes(h, saved))
<1> DEFINE gone == {path \in Captured \cap DOMAIN h.tree :
                      /\ path \notin DOMAIN saved.tree
                      /\ \A other \in DOMAIN h.tree :
                           path \in Above(other) => other \in Pairs \ DOMAIN saved.tree}
           kept == DOMAIN h.tree \ gone
           u == [path \in kept |-> IF path \in Captured \cap DOMAIN saved.tree
                                   THEN saved.tree[path] ELSE h.tree[path]]
<1>1. TempPair \notin Captured
  <2>1. TempPair \notin Folders \cup {Etc, Data, Active, ConfigToml, Artifact}
    BY PairsApart DEF Daemons
  <2>2. TempPair \notin {KernelDir, Artifacts, Webroot}
    BY TopsApart DEF Tops
  <2>3. TempPair \notin Pairs
    BY Shapes, PathTuples, TuplesSame
  <2> QED
    BY <2>1, <2>2, <2>3 DEF Captured
<1>2. Temp \in kept => TempPair \in kept
  BY <1>1 DEF MachineOK, TreeOK
<1>3. u = [path \in kept |-> u[path]]
  OBVIOUS
<1>4. \A path \in kept : Fits(path, u[path])
  BY Fitting
<1>5. kept \subseteq DOMAIN h.tree /\ TreeOK(h.tree)
  BY DEF MachineOK
<1> HIDE DEF u, kept
<1>6. TreeOK(u)
  BY <1>2, <1>3, <1>4, <1>5, KeptOK
<1>7. MachineOK([h EXCEPT !.tree = u])
  BY <1>6, WithTree
<1>8. MachineOK([[h EXCEPT !.tree = u] EXCEPT !.config = saved.config, !.named = saved.named])
  BY <1>7, TwoFields
<1>9. RestoreAttributes(h, saved)
        = [h EXCEPT !.tree = u, !.config = saved.config, !.named = saved.named]
  BY DEF RestoreAttributes, u, kept
<1>10. [h EXCEPT !.tree = u, !.config = saved.config, !.named = saved.named]
         = [[h EXCEPT !.tree = u] EXCEPT !.config = saved.config, !.named = saved.named]
  BY DEF MachineOK
<1> QED
  BY <1>8, <1>9, <1>10

LEMMA RestoreReleaseOK ==
  ASSUME NEW h, MachineOK(h), NEW saved, MachineOK(saved)
  PROVE  MachineOK(RestoreRelease(h, saved))
<1> DEFINE pinned == Pair(Host, "pinned")
           files == WriteAll(h, {Binary, ConfigToml, StateJson, Active, Artifact} \cap DOMAIN saved.tree)
           back == WritePair(files, Host, "pinned", FALSE, TRUE)
           u == [path \in DOMAIN files.tree \ {pinned} |-> files.tree[path]]
<1>1. MachineOK(files)
  BY WriteAllOK DEF Writable
<1>2. Host \in PairNames
  BY DEF PairNames
<1> HIDE DEF files
<1>3. MachineOK(back)
  BY <1>1, <1>2, WritePairOK
<1>4. MachineOK(Chown(back, AllPairs(back), "root", "sbctl-cert"))
  <2> HIDE DEF back
  <2> QED
    BY <1>3, ChownPairsOK
<1>5. MachineOK([files EXCEPT !.tree = u])
  <2>1. pinned # TempPair
    <3>1. TempPair = <<"data", "certificates", ".sbctl-generation", "pair">>
          /\ pinned = <<"data", "certificates", Host, "pinned">>
      BY PathTuples, PairTuples
    <3> QED
      BY <3>1, TuplesSame
  <2>2. u = [path \in DOMAIN files.tree \ {pinned} |-> u[path]]
    OBVIOUS
  <2>3. \A path \in DOMAIN files.tree \ {pinned} : Fits(path, u[path])
    BY <1>1, Fitting
  <2>4. TreeOK(files.tree) /\ (Temp \in DOMAIN files.tree => TempPair \in DOMAIN files.tree)
    BY <1>1 DEF MachineOK, TreeOK
  <2> HIDE DEF u
  <2>5. TreeOK(u)
    BY <2>1, <2>2, <2>3, <2>4, KeptOK
  <2> QED
    BY <1>1, <2>5, WithTree
<1> QED
  BY <1>1, <1>4, <1>5 DEF RestoreRelease, files, back

LEMMA RollBackInstallOK ==
  ASSUME NEW h, MachineOK(h)
  PROVE  MachineOK(RollBackInstall(h))
<1> DEFINE kept == {Etc, Data, Lock} \cap DOMAIN h.tree
           u == [path \in kept |-> h.tree[path]]
<1>1. Temp \notin kept
  BY TopsApart, EtcDataApart, PlainApart DEF Plain
<1>2. u = [path \in kept |-> u[path]] /\ \A path \in kept : Fits(path, u[path])
  BY Fitting
<1>3. TreeOK(h.tree) /\ kept \subseteq DOMAIN h.tree
  BY DEF MachineOK
<1> HIDE DEF u, kept
<1>4. TreeOK(u)
  BY <1>1, <1>2, <1>3, KeptOK
<1>5. ASSUME NEW x, NEW y, NEW z
      PROVE  MachineOK([h EXCEPT !.tree = u, !.config = x, !.named = y, !.runs = z])
  <2> DEFINE g == [h EXCEPT !.tree = u]
             f == [g EXCEPT !.config = x, !.named = y]
  <2>1. MachineOK(g)
    BY <1>4, WithTree
  <2>2. MachineOK(f)
    <3> HIDE DEF g
    <3> QED
      BY <2>1, TwoFields
  <2>3. MachineOK([f EXCEPT !.runs = z])
    <3> HIDE DEF f
    <3> QED
      BY <2>2, OtherFields
  <2>4. [h EXCEPT !.tree = u, !.config = x, !.named = y, !.runs = z] = [f EXCEPT !.runs = z]
    BY DEF MachineOK
  <2> QED
    BY <2>3, <2>4
<1> QED
  BY <1>5 DEF RollBackInstall, u, kept

(* The steps a command may have left, and what each does. *)
NoArgument ==
  {"binary", "pin if issued", "state", "restart", "obtain", "try obtain", "ownership",
   "back up", "email", "group", "restore files", "restore attributes", "restore release",
   "roll back"}

Steps ==
  {<<name, Nothing>> : name \in NoArgument}
    \cup {<<"account", s>> : s \in Services} \cup {<<"member", s>> : s \in Services}
    \cup {<<"storage", part>> : part \in StorageParts} \cup {<<"own", n>> : n \in PairNames}
    \cup {<<"initialize", c>> : c \in Configs} \cup {<<"activate", c>> : c \in Configs}
    \cup {<<"publish", [config |-> c, server |-> d]>> : c \in Configs, d \in Configs}

LEMMA StepParts ==
  \A a, b : <<a, b>>[1] = a /\ <<a, b>>[2] = b
  OBVIOUS

LEMMA DoOK ==
  ASSUME NEW h, MachineOK(h), MachineOK(cmd.saved), NEW step \in Steps, NEW renewed
  PROVE  MachineOK(Do(h, step, renewed))
<1>1. CASE \E s \in Services : step = <<"account", s>>
  <2>1. step[1] = "account"
    BY <1>1, StepParts
  <2>2. Do(h, step, renewed) = [h EXCEPT !.accounts = @ \cup {step[2]}]
    BY <2>1 DEF Do
  <2>3. \A x : MachineOK([h EXCEPT !.accounts = x])
    BY OtherFields
  <2> QED
    BY <2>2, <2>3
<1>2. CASE step[1] = "group"
  <2>1. Do(h, step, renewed) = [h EXCEPT !.grouped = TRUE]
    BY <1>2 DEF Do
  <2>2. \A x : MachineOK([h EXCEPT !.grouped = x])
    BY OtherFields
  <2> QED
    BY <2>1, <2>2
<1>3. CASE \E s \in Services : step = <<"member", s>>
  <2>1. step[1] = "member"
    BY <1>3, StepParts
  <2>2. Do(h, step, renewed) = [h EXCEPT !.members = @ \cup {step[2]}]
    BY <2>1 DEF Do
  <2>3. \A x : MachineOK([h EXCEPT !.members = x])
    BY OtherFields
  <2> QED
    BY <2>2, <2>3
<1>4. CASE \E part \in StorageParts : step = <<"storage", part>>
  <2>1. step[1] = "storage" /\ step[2] \in StorageParts
    BY <1>4, StepParts
  <2>2. Do(h, step, renewed) = Storage(h, step[2])
    BY <2>1 DEF Do
  <2> QED
    BY <2>1, <2>2, StorageOK
<1>5. CASE \E n \in PairNames : step = <<"own", n>>
  <2>1. step[1] = "own" /\ step[2] \in PairNames
    BY <1>5, StepParts
  <2>2. Do(h, step, renewed) = EnsureOwn(h, step[2])
    BY <2>1 DEF Do
  <2> QED
    BY <2>1, <2>2, EnsureOwnOK
<1>6. CASE step[1] = "initialize"
  <2>1. Do(h, step, renewed) = Initialize(h, step[2])
    BY <1>6 DEF Do
  <2> QED
    BY <2>1, InitializeOK
<1>7. CASE step[1] = "publish"
  <2>1. Do(h, step, renewed) = Publish(h, step[2].config, step[2].server)
    BY <1>7 DEF Do
  <2> QED
    BY <2>1, PublishOK
<1>8. CASE step[1] = "activate"
  <2>1. Do(h, step, renewed) = Activate(h, step[2])
    BY <1>8 DEF Do
  <2> QED
    BY <2>1, ActivateOK
<1>9. CASE step[1] = "pin if issued"
  <2>1. Do(h, step, renewed) = IF h.issued THEN Pin(h, renewed) ELSE h
    BY <1>9 DEF Do
  <2> QED
    BY <2>1, PinOK
<1>10. CASE step[1] \in {"obtain", "try obtain"}
  <2>1. Do(h, step, renewed) = Obtain(h, renewed)
    BY <1>10 DEF Do
  <2> QED
    BY <2>1, ObtainOK
<1>11. CASE step[1] \in {"state", "ownership", "binary"}
  <2>1. \E path \in Writable : Do(h, step, renewed) = Write(h, path)
    BY <1>11 DEF Do, Writable
  <2> QED
    BY <2>1, WriteOK
<1>12. CASE step[1] \in {"back up", "email"}
  <2>1. \E path \in {EmailToml, Backups} : Do(h, step, renewed) = WriteRootOnly(h, path)
    BY <1>12 DEF Do
  <2> QED
    BY <2>1, WriteRootOnlyOK
<1>13. CASE step[1] = "restart"
  <2>1. Do(h, step, renewed) = Restart(h, Services)
    BY <1>13 DEF Do
  <2> QED
    BY <2>1, RestartOK
<1>14. CASE step[1] = "restore files"
  <2>1. Do(h, step, renewed) = RestoreFiles(h, cmd.saved)
    BY <1>14 DEF Do
  <2> QED
    BY <2>1, RestoreFilesOK
<1>15. CASE step[1] = "restore attributes"
  <2>1. Do(h, step, renewed) = RestoreAttributes(h, cmd.saved)
    BY <1>15 DEF Do
  <2> QED
    BY <2>1, RestoreAttributesOK
<1>16. CASE step[1] = "restore release"
  <2>1. Do(h, step, renewed) = RestoreRelease(h, cmd.saved)
    BY <1>16 DEF Do
  <2> QED
    BY <2>1, RestoreReleaseOK
<1>17. CASE step[1] = "roll back"
  <2>1. Do(h, step, renewed) = RollBackInstall(h)
    BY <1>17 DEF Do
  <2> QED
    BY <2>1, RollBackInstallOK
<1>18. step[1] \in NoArgument \cup {"initialize", "activate", "publish"}
         \/ (\E s \in Services : step = <<"account", s>>)
         \/ (\E s \in Services : step = <<"member", s>>)
         \/ (\E part \in StorageParts : step = <<"storage", part>>)
         \/ (\E n \in PairNames : step = <<"own", n>>)
  <2>1. CASE \E name \in NoArgument : step = <<name, Nothing>>
    BY <2>1, StepParts
  <2>2. CASE \E c \in Configs : step = <<"initialize", c>> \/ step = <<"activate", c>>
    BY <2>2, StepParts
  <2>3. CASE \E c, d \in Configs : step = <<"publish", [config |-> c, server |-> d]>>
    BY <2>3, StepParts
  <2> QED
    BY <2>1, <2>2, <2>3 DEF Steps
<1> QED
  BY <1>1, <1>2, <1>3, <1>4, <1>5, <1>6, <1>7, <1>8, <1>9, <1>10, <1>11, <1>12, <1>13, <1>14,
     <1>15, <1>16, <1>17, <1>18 DEF NoArgument

-----------------------------------------------------------------------------
(* The commands' steps are steps. *)
LEMMA ConfigTypes ==
  ASSUME NEW c \in Configs, NEW bootstrap
  PROVE  c.sni \in PairNames /\ Presented(c, bootstrap) \in Configs
<1>1. c.sni \in PairNames /\ [c EXCEPT !.cert = "self"] \in Configs
  BY DEF Configs, PairNames
<1> QED
  BY <1>1 DEF Presented

LEMMA Single ==
  ASSUME NEW step \in Steps PROVE <<step>> \in Seq(Steps)
  OBVIOUS

LEMMA Joined ==
  ASSUME NEW s \in Seq(Steps), NEW t \in Seq(Steps) PROVE s \o t \in Seq(Steps)
  OBVIOUS

LEMMA Chosen ==
  ASSUME NEW s \in Seq(Steps), NEW condition PROVE If(condition, s) \in Seq(Steps)
<1>1. <<>> \in Seq(Steps)
  OBVIOUS
<1> QED
  BY <1>1 DEF If

LEMMA BareStep ==
  ASSUME NEW name \in NoArgument PROVE <<name, Nothing>> \in Steps
  BY DEF Steps

LEMMA StorageOfOK ==
  ASSUME NEW direct PROVE StorageOf(direct) \in Seq(Steps) /\ Len(StorageOf(direct)) \in Nat \ {0}
<1>1. StorageSteps(direct) \in Seq(StorageParts) /\ Len(StorageSteps(direct)) \in Nat \ {0}
  <2> DEFINE first == <<"directories", "live files", "kernel directory", "kernel file">>
             last == IF direct THEN <<"shared pairs">>
                     ELSE <<"kernel pairs", "open folders", "readable pairs">>
  <2>1. first \in Seq(StorageParts) /\ Len(first) = 4
    BY DEF StorageParts
  <2>2. last \in Seq(StorageParts)
    <3>1. <<"shared pairs">> \in Seq(StorageParts)
      BY DEF StorageParts
    <3>2. <<"kernel pairs", "open folders", "readable pairs">> \in Seq(StorageParts)
      BY DEF StorageParts
    <3> QED
      BY <3>1, <3>2
  <2>3. StorageSteps(direct) = first \o last
    BY DEF StorageSteps
  <2> HIDE DEF first, last
  <2>4. \A s, t \in Seq(StorageParts) :
          s \o t \in Seq(StorageParts) /\ Len(s \o t) = Len(s) + Len(t) /\ Len(t) \in Nat
    BY ConcatProperties
  <2>5. first \o last \in Seq(StorageParts) /\ Len(first \o last) \in Nat \ {0}
    BY <2>1, <2>2, <2>4
  <2> QED
    BY <2>3, <2>5
<1>2. \A i \in 1..Len(StorageSteps(direct)) : <<"storage", StorageSteps(direct)[i]>> \in Steps
  BY <1>1 DEF Steps
<1> HIDE DEF Steps
<1> QED
  BY <1>1, <1>2 DEF StorageOf

LEMMA PrerequisitesOK ==
  ASSUME NEW direct PROVE Prerequisites(direct) \in Seq(Steps)
<1>1. {<<"account", "sbctl">>, <<"account", "sing-box">>, <<"member", "sbctl">>,
       <<"member", "sing-box">>, <<"group", Nothing>>} \subseteq Steps
  <2>1. \A s \in Services : <<"account", s>> \in Steps /\ <<"member", s>> \in Steps
    BY DEF Steps
  <2>2. <<"group", Nothing>> \in Steps
    BY BareStep DEF NoArgument
  <2>3. "sbctl" \in Services /\ "sing-box" \in Services
    BY DEF Services
  <2> QED
    BY <2>1, <2>2, <2>3
<1>2. <<<<"account", "sbctl">>, <<"account", "sing-box">>>> \in Seq(Steps)
  BY <1>1
<1>3. <<<<"group", Nothing>>, <<"member", "sbctl">>, <<"member", "sing-box">>>> \in Seq(Steps)
  BY <1>1
<1> QED
  BY <1>2, <1>3, Joined DEF Prerequisites

LEMMA GrantedOK ==
  ASSUME NEW direct PROVE Granted(direct) \in Seq(Steps)
  BY StorageOfOK, PrerequisitesOK, Joined DEF Granted

LEMMA GeneratedOK ==
  ASSUME NEW c \in Configs PROVE Generated(c) \in Seq(Steps)
<1>1. <<"own", c.sni>> \in Steps
  BY ConfigTypes DEF Steps
<1> QED
  BY <1>1, Single, Chosen DEF Generated

LEMMA PublishedOK ==
  ASSUME NEW c \in Configs, NEW d \in Configs PROVE Published(c, d) \in Steps
  BY DEF Published, Steps

LEMMA BareSequences ==
  /\ \A a \in NoArgument : <<<<a, Nothing>>>> \in Seq(Steps)
  /\ \A a, b \in NoArgument : <<<<a, Nothing>>, <<b, Nothing>>>> \in Seq(Steps)
<1>1. \A a \in NoArgument : <<a, Nothing>> \in Steps
  BY BareStep
<1> HIDE DEF Steps
<1>2. \A a \in NoArgument : <<<<a, Nothing>>>> \in Seq(Steps)
  BY <1>1
<1>3. \A a, b \in NoArgument : <<<<a, Nothing>>, <<b, Nothing>>>> \in Seq(Steps)
  BY <1>1
<1> QED
  BY <1>2, <1>3

LEMMA LonePublish ==
  ASSUME NEW c \in Configs, NEW d \in Configs
  PROVE  /\ <<Published(c, d)>> \in Seq(Steps)
         /\ \A a \in NoArgument : <<<<a, Nothing>>, Published(c, d), <<a, Nothing>>>> \in Seq(Steps)
         /\ \A a \in NoArgument : <<<<a, Nothing>>, Published(c, d)>> \in Seq(Steps)
         /\ \A a, b \in NoArgument :
              <<<<a, Nothing>>, Published(c, d), <<b, Nothing>>>> \in Seq(Steps)
<1>1. Published(c, d) \in Steps /\ \A a \in NoArgument : <<a, Nothing>> \in Steps
  BY PublishedOK, BareStep
<1> QED
  BY <1>1

LEMMA NotEmptied ==
  ASSUME NEW s \in Seq(Steps), NEW t \in Seq(Steps), s # <<>> \/ t # <<>>
  PROVE  s \o t # <<>>
  BY ConcatEqualIffEmpty

LEMMA InstallOK ==
  ASSUME NEW c \in Configs, NEW start \in BOOLEAN
  PROVE  Install(c, start) \in Seq(Steps) /\ Install(c, start) # <<>>
<1> DEFINE bootstrap == start /\ c.direct /\ c.cert = "domain"
           server == Presented(c, bootstrap)
           s1 == Generated(server)
           s2 == <<<<"initialize", c>>, <<"binary", Nothing>>>>
           s3 == Prerequisites(c.direct) \o If(c.direct, <<<<"pin if issued", Nothing>>>>)
                   \o <<<<"state", Nothing>>>>
           s4 == <<<<"activate", server>>>>
           s5 == IF bootstrap THEN <<<<"obtain", Nothing>>, Published(c, c), <<"restart", Nothing>>>>
                 ELSE <<<<"try obtain", Nothing>>>>
           s6 == Granted(c.direct) \o <<<<"restart", Nothing>>>> \o If(c.direct, s5)
                   \o <<<<"ownership", Nothing>>>>
<1>1. server \in Configs
  BY ConfigTypes
<1>2. s1 \in Seq(Steps) /\ s4 \in Seq(Steps)
  <2>1. <<"activate", server>> \in Steps
    BY <1>1 DEF Steps
  <2> QED
    BY <1>1, <2>1, GeneratedOK, Single
<1>3. s2 \in Seq(Steps) /\ s2 # <<>>
  <2>1. <<"initialize", c>> \in Steps /\ <<"binary", Nothing>> \in Steps
    BY BareStep DEF Steps, NoArgument
  <2> QED
    BY <2>1
<1>4. s3 \in Seq(Steps)
  <2>1. <<<<"pin if issued", Nothing>>>> \in Seq(Steps) /\ <<<<"state", Nothing>>>> \in Seq(Steps)
    BY BareSequences DEF NoArgument
  <2>2. Prerequisites(c.direct) \in Seq(Steps)
        /\ If(c.direct, <<<<"pin if issued", Nothing>>>>) \in Seq(Steps)
    BY <2>1, PrerequisitesOK, Chosen
  <2> QED
    BY <2>1, <2>2, Joined
<1>5. s5 \in Seq(Steps)
  <2>1. {"obtain", "restart", "try obtain"} \subseteq NoArgument
    BY DEF NoArgument
  <2>2. <<<<"obtain", Nothing>>, Published(c, c), <<"restart", Nothing>>>> \in Seq(Steps)
    BY <2>1, LonePublish
  <2>3. <<<<"try obtain", Nothing>>>> \in Seq(Steps)
    BY <2>1, BareSequences
  <2> QED
    BY <2>2, <2>3
<1>6. s6 \in Seq(Steps)
  <2>1. <<<<"restart", Nothing>>>> \in Seq(Steps) /\ <<<<"ownership", Nothing>>>> \in Seq(Steps)
    BY BareSequences DEF NoArgument
  <2> HIDE DEF s5
  <2>2. Granted(c.direct) \in Seq(Steps) /\ If(c.direct, s5) \in Seq(Steps)
    BY <1>5, GrantedOK, Chosen
  <2> QED
    BY <2>1, <2>2, Joined
<1>7. Install(c, start) = s1 \o s2 \o If(start, s3) \o s4 \o If(start, s6)
  BY DEF Install
<1> HIDE DEF s1, s2, s3, s4, s6
<1>8. If(start, s3) \in Seq(Steps) /\ If(start, s6) \in Seq(Steps)
  BY <1>4, <1>6, Chosen
<1>9. s1 \o s2 \in Seq(Steps) /\ s1 \o s2 # <<>>
  BY <1>2, <1>3, Joined, NotEmptied
<1>10. s1 \o s2 \o If(start, s3) \in Seq(Steps) /\ s1 \o s2 \o If(start, s3) # <<>>
  BY <1>8, <1>9, Joined, NotEmptied
<1>11. /\ s1 \o s2 \o If(start, s3) \o s4 \in Seq(Steps)
       /\ s1 \o s2 \o If(start, s3) \o s4 # <<>>
  BY <1>2, <1>10, Joined, NotEmptied
<1>12. /\ s1 \o s2 \o If(start, s3) \o s4 \o If(start, s6) \in Seq(Steps)
       /\ s1 \o s2 \o If(start, s3) \o s4 \o If(start, s6) # <<>>
  BY <1>8, <1>11, Joined, NotEmptied
<1> QED
  BY <1>7, <1>12

LEMMA EditOK ==
  ASSUME NEW c \in Configs, NEW h
  PROVE  Edit(h, c) \in Seq(Steps) /\ Edit(h, c) # <<>>
<1> DEFINE s1 == If(c.direct /\ h.issued, <<<<"pin if issued", Nothing>>>>)
           s2 == Generated(c)
           s3 == <<Published(c, c)>>
           s4 == Granted(c.direct)
           s5 == <<<<"restart", Nothing>>>>
<1>1. <<<<"pin if issued", Nothing>>>> \in Seq(Steps) /\ s5 \in Seq(Steps) /\ s5 # <<>>
  BY BareSequences DEF NoArgument
<1>2. s1 \in Seq(Steps) /\ s2 \in Seq(Steps) /\ s3 \in Seq(Steps) /\ s4 \in Seq(Steps)
  BY <1>1, Chosen, GeneratedOK, LonePublish, GrantedOK
<1>3. Edit(h, c) = s1 \o s2 \o s3 \o s4 \o s5
  BY DEF Edit
<1> HIDE DEF s1, s2, s3, s4, s5
<1>4. s1 \o s2 \o s3 \o s4 \in Seq(Steps)
  BY <1>2, Joined
<1> QED
  BY <1>1, <1>3, <1>4, Joined, NotEmptied

LEMMA RegenerateOK ==
  ASSUME NEW c \in Configs
  PROVE  Regenerate(c) \in Seq(Steps) /\ Regenerate(c) # <<>>
<1>1. /\ Generated(c) \in Seq(Steps) /\ <<Published(c, c)>> \in Seq(Steps)
      /\ StorageOf(c.direct) \in Seq(Steps) /\ StorageOf(c.direct) # <<>>
  BY GeneratedOK, LonePublish, StorageOfOK
<1>2. Generated(c) \o <<Published(c, c)>> \in Seq(Steps)
  BY <1>1, Joined
<1> QED
  BY <1>1, <1>2, Joined, NotEmptied DEF Regenerate

LEMMA SwitchOK ==
  ASSUME NEW c \in Configs, NEW h
  PROVE  Switch(h, c) \in Seq(Steps) /\ Switch(h, c) # <<>>
<1> DEFINE obtain == c.direct /\ ~Exists(h, Pair(Host, "pinned")) /\ ~h.issued
           bootstrap == obtain /\ c.cert = "domain"
           s1 == Prerequisites(TRUE)
           s2 == If(h.issued /\ (c.direct \/ c.cert = "domain"), <<<<"pin if issued", Nothing>>>>)
           s3 == Generated(Presented(c, bootstrap))
           s4 == <<Published(c, Presented(c, bootstrap))>>
           s5 == StorageOf(c.direct)
           s6 == <<<<"restart", Nothing>>>>
           s7 == <<<<"obtain", Nothing>>, Published(c, c)>> \o StorageOf(c.direct)
                   \o <<<<"restart", Nothing>>>>
<1>1. /\ <<<<"pin if issued", Nothing>>>> \in Seq(Steps)
      /\ s6 \in Seq(Steps) /\ <<<<"restart", Nothing>>>> \in Seq(Steps)
  BY BareSequences DEF NoArgument
<1>2. Presented(c, bootstrap) \in Configs
  BY ConfigTypes
<1>3. /\ s1 \in Seq(Steps) /\ s2 \in Seq(Steps) /\ s3 \in Seq(Steps) /\ s4 \in Seq(Steps)
      /\ s5 \in Seq(Steps) /\ s5 # <<>>
  <2>1. s1 \in Seq(Steps)
    BY PrerequisitesOK
  <2>2. \A x : If(x, <<<<"pin if issued", Nothing>>>>) \in Seq(Steps)
    BY <1>1, Chosen
  <2>3. s3 \in Seq(Steps) /\ s4 \in Seq(Steps)
    BY <1>2, GeneratedOK, LonePublish
  <2>4. s5 \in Seq(Steps) /\ Len(s5) \in Nat \ {0}
    BY StorageOfOK
  <2> HIDE DEF s1, s3, s4, s5
  <2>5. s2 \in Seq(Steps)
    BY <2>2
  <2>6. s5 # <<>>
    BY <2>4
  <2> QED
    BY <2>1, <2>3, <2>4, <2>5, <2>6
<1>4. s7 \in Seq(Steps)
  <2>1. <<<<"obtain", Nothing>>, Published(c, c)>> \in Seq(Steps)
    BY LonePublish DEF NoArgument
  <2>2. <<<<"obtain", Nothing>>, Published(c, c)>> \o StorageOf(c.direct) \in Seq(Steps)
    BY <2>1, StorageOfOK, Joined
  <2> QED
    BY <1>1, <2>2, Joined
<1>5. Switch(h, c) = s1 \o s2 \o s3 \o s4 \o s5 \o s6 \o If(obtain, s7)
  BY DEF Switch
<1> HIDE DEF s1, s2, s3, s4, s5, s6, s7
<1>6. If(obtain, s7) \in Seq(Steps)
  BY <1>4, Chosen
<1> HIDE DEF obtain
<1>7. s1 \o s2 \o s3 \o s4 \in Seq(Steps)
  BY <1>3, Joined
<1>8. s1 \o s2 \o s3 \o s4 \o s5 \in Seq(Steps) /\ s1 \o s2 \o s3 \o s4 \o s5 # <<>>
  BY <1>3, <1>7, Joined, NotEmptied
<1>9. s1 \o s2 \o s3 \o s4 \o s5 \o s6 \in Seq(Steps) /\ s1 \o s2 \o s3 \o s4 \o s5 \o s6 # <<>>
  BY <1>1, <1>8, Joined, NotEmptied
<1> QED
  BY <1>5, <1>6, <1>9, Joined, NotEmptied

LEMMA UpdateOK ==
  ASSUME NEW c
  PROVE  Update(c) \in Seq(Steps) /\ Update(c) # <<>>
<1>1. /\ <<<<"back up", Nothing>>, <<"binary", Nothing>>>> \in Seq(Steps)
      /\ <<<<"restart", Nothing>>>> \in Seq(Steps)
  BY BareSequences DEF NoArgument
<1>2. StorageOf(c.direct) \in Seq(Steps) /\ StorageOf(c.direct) # <<>>
  BY StorageOfOK
<1>3. /\ <<<<"back up", Nothing>>, <<"binary", Nothing>>>> \o StorageOf(c.direct) \in Seq(Steps)
      /\ <<<<"back up", Nothing>>, <<"binary", Nothing>>>> \o StorageOf(c.direct) # <<>>
  BY <1>1, <1>2, Joined, NotEmptied
<1> QED
  BY <1>1, <1>3, Joined, NotEmptied DEF Update

LEMMA PlanOK ==
  ASSUME NEW c \in Configs, NEW h, NEW name \in CommandKinds
  PROVE  Plan(h, name, c) \in Seq(Steps) /\ Plan(h, name, c) # <<>>
<1>1. <<<<"email", Nothing>>>> \in Seq(Steps) /\ <<<<"email", Nothing>>>> # <<>>
  BY BareSequences DEF NoArgument
<1> QED
  BY <1>1, InstallOK, EditOK, RegenerateOK, SwitchOK, UpdateOK DEF Plan, CommandKinds

LEMMA RestoreOK == Restore \in Seq(Steps)
<1>1. /\ <<<<"roll back", Nothing>>>> \in Seq(Steps) /\ <<<<"restore attributes", Nothing>>>> \in Seq(Steps)
      /\ <<<<"restart", Nothing>>>> \in Seq(Steps) /\ <<<<"restore files", Nothing>>>> \in Seq(Steps)
      /\ <<<<"restore release", Nothing>>, <<"restart", Nothing>>>> \in Seq(Steps)
  BY BareSequences DEF NoArgument
<1>2. \A x : If(x, <<<<"restart", Nothing>>>>) \in Seq(Steps)
  BY <1>1, Chosen
<1>3. \A x : <<<<"restore attributes", Nothing>>>> \o If(x, <<<<"restart", Nothing>>>>) \in Seq(Steps)
  BY <1>1, <1>2, Joined
<1>4. \A x : <<<<"restore files", Nothing>>>> \o Granted(x) \o <<<<"restart", Nothing>>>> \in Seq(Steps)
  <2>1. \A x : <<<<"restore files", Nothing>>>> \o Granted(x) \in Seq(Steps)
    BY <1>1, GrantedOK, Joined
  <2> QED
    BY <1>1, <2>1, Joined
<1>5. <<>> \in Seq(Steps)
  OBVIOUS
<1> QED
  BY <1>1, <1>3, <1>4, <1>5 DEF Restore
-----------------------------------------------------------------------------
(* The invariant: every path's attributes fit it, also in what a command   *)
(* saved, and a command's remaining steps are steps.                       *)
AccessInv ==
  /\ MachineOK(machine) /\ commands \in Nat
  /\ cmd # Nothing =>
       /\ cmd = [kind |-> cmd.kind, restarts |-> cmd.restarts, saved |-> cmd.saved,
                 recovering |-> cmd.recovering]
       /\ MachineOK(cmd.saved)
       /\ todo \in Seq(Steps) /\ todo # <<>>

LEMMA HeadTail ==
  ASSUME NEW s \in Seq(Steps), s # <<>>
  PROVE  Head(s) \in Steps /\ (Len(s) > 1 => Tail(s) \in Seq(Steps) /\ Tail(s) # <<>>)
<1>1. Head(s) \in Steps /\ Tail(s) \in Seq(Steps) /\ Len(Tail(s)) = Len(s) - 1
  BY HeadTailProperties
<1>2. Len(<<>>) = 0
  BY EmptySeq
<1>3. Len(s) > 1 => Len(Tail(s)) # 0
  BY <1>1, LenProperties
<1>4. Len(s) > 1 => Tail(s) # <<>>
  BY <1>2, <1>3
<1> QED
  BY <1>1, <1>4

LEMMA AccessInvInit == InitAccess => AccessInv
<1> SUFFICES ASSUME InitAccess PROVE AccessInv
  OBVIOUS
<1>1. PICK issued \in BOOLEAN : machine = [Blank EXCEPT !.issued = issued]
  BY DEF InitAccess
<1>2. Blank = [tree |-> Empty, accounts |-> {}, grouped |-> FALSE, members |-> {},
               config |-> Nothing, named |-> Nothing, issued |-> FALSE,
               runs |-> [s \in Services |-> Nothing]]
  BY DEF Blank
<1>3. TreeOK(Empty)
  BY DEF TreeOK, Empty
<1>4. MachineOK(Blank)
  BY <1>2, <1>3 DEF MachineOK
<1>5. MachineOK(machine)
  BY <1>1, <1>4, OtherFields
<1> QED
  BY <1>5 DEF InitAccess, AccessInv

LEMMA BeginInv ==
  ASSUME AccessInv, NEW c \in Configs, NEW name \in CommandKinds, Begin(name, c)
  PROVE  AccessInv'
<1> DEFINE ready == Opened(machine, Lock)
           plan   == Plan(ready, name, c)
<1>1. MachineOK(ready)
  BY OpenedOK DEF AccessInv
<1>2. plan \in Seq(Steps) /\ plan # <<>>
  BY PlanOK
<1>3. /\ machine' = ready /\ todo' = plan
      /\ cmd' = [kind |-> name, restarts |-> Restarts(plan), saved |-> ready, recovering |-> FALSE]
  BY DEF Begin
<1> HIDE DEF ready, plan
<1>4. MachineOK(machine)'
  BY <1>1, <1>3 DEF MachineOK, TreeOK
<1>5. /\ cmd'.kind = name /\ cmd'.restarts = Restarts(plan) /\ cmd'.saved = ready
      /\ cmd'.recovering = FALSE
  BY <1>3
<1>6. MachineOK(cmd.saved)'
  BY <1>1, <1>5 DEF MachineOK, TreeOK
<1>7. commands' \in Nat
  BY DEF AccessInv, Begin
<1> QED
  BY <1>2, <1>3, <1>4, <1>5, <1>6, <1>7 DEF AccessInv

(* A step that leaves the command's record, and of the steps the rest. *)
LEMMA AdvanceInv ==
  ASSUME AccessInv, cmd # Nothing, Advance, MachineOK(machine'), commands' = commands
  PROVE  AccessInv'
<1>1. MachineOK(machine)'
  BY DEF MachineOK, TreeOK
<1>2. CASE Len(todo) > 1
  <2>1. todo' = Tail(todo) /\ cmd' = cmd
    BY <1>2 DEF Advance
  <2>2. MachineOK(cmd.saved)'
    BY <2>1 DEF AccessInv, MachineOK, TreeOK
  <2>3. Tail(todo) \in Seq(Steps) /\ Tail(todo) # <<>>
    BY <1>2, HeadTail DEF AccessInv
  <2> QED
    BY <1>1, <2>1, <2>2, <2>3 DEF AccessInv
<1>3. CASE ~(Len(todo) > 1)
  BY <1>1, <1>3 DEF Advance, Finish, AccessInv
<1> QED
  BY <1>2, <1>3

LEMMA StepInv ==
  ASSUME AccessInv, NEW renewed, Step(renewed)
  PROVE  AccessInv'
<1>1. /\ cmd # Nothing /\ machine' = Do(machine, Head(todo), renewed) /\ Advance
      /\ commands' = commands
  BY DEF Step
<1>2. Head(todo) \in Steps
  BY <1>1, HeadTail DEF AccessInv
<1>3. MachineOK(machine')
  BY <1>1, <1>2, DoOK DEF AccessInv
<1> QED
  BY <1>1, <1>3, AdvanceInv

LEMMA FailInv ==
  ASSUME AccessInv, Fail
  PROVE  AccessInv'
<1>1. cmd # Nothing /\ machine' = machine /\ commands' = commands
  BY DEF Fail
<1>2. MachineOK(machine') /\ MachineOK(machine)'
  BY <1>1 DEF AccessInv, MachineOK, TreeOK
<1>3. CASE Finish
  BY <1>1, <1>2, <1>3 DEF Finish, AccessInv
<1>4. CASE Advance
  BY <1>1, <1>2, <1>4, AdvanceInv
<1>5. CASE /\ Restore # <<>> /\ todo' = Restore
           /\ cmd' = [cmd EXCEPT !.recovering = TRUE]
  <2>1. cmd = [kind |-> cmd.kind, restarts |-> cmd.restarts, saved |-> cmd.saved,
               recovering |-> cmd.recovering]
    BY <1>1 DEF AccessInv
  <2>2. cmd' = [kind |-> cmd.kind, restarts |-> cmd.restarts, saved |-> cmd.saved,
                recovering |-> TRUE]
    BY <1>5, <2>1
  <2>3. cmd'.saved = cmd.saved /\ cmd'.kind = cmd.kind /\ cmd'.restarts = cmd.restarts
        /\ cmd'.recovering = TRUE
    BY <2>2
  <2>4. MachineOK(cmd.saved)'
    BY <1>1, <2>3 DEF AccessInv, MachineOK, TreeOK
  <2>5. todo' \in Seq(Steps) /\ todo' # <<>>
    BY <1>5, RestoreOK
  <2> QED
    BY <1>1, <1>2, <2>2, <2>3, <2>4, <2>5 DEF AccessInv
<1> QED
  BY <1>3, <1>4, <1>5 DEF Fail

LEMMA HookStageInv ==
  ASSUME AccessInv, HookStage
  PROVE  AccessInv'
<1> DEFINE ready == Opened(Prepare(machine, Host), CertsLock)
           inner == Over(At(TempPair, Staged(machine, 640)), ready.tree)
           outer == Over(At(Temp, Staged(machine, 750)), inner)
<1>1. MachineOK(ready)
  <2>1. MachineOK(Prepare(machine, Host))
    BY PrepareOK DEF AccessInv, PairNames
  <2> QED
    BY <2>1, OpenedOK
<1>2. machine' = [ready EXCEPT !.tree = outer]
  BY DEF HookStage
<1>3. Fits(TempPair, Staged(machine, 640)) /\ Fits(Temp, Staged(machine, 750))
  <2>1. Temp \in Folders
    BY DEF Folders
  <2> QED
    BY <2>1, StagedIs, PairFits, FolderFits
<1> HIDE DEF ready
<1>4. TreeOK(inner) /\ DOMAIN inner = DOMAIN ready.tree \cup {TempPair}
  <2>1. TempPair \notin {<<>>, Temp}
    BY PairsApart
  <2> QED
    BY ZenonT(40), <1>1, <1>3, <2>1, PutOK DEF MachineOK
<1> HIDE DEF inner
<1>5. TreeOK(outer)
  <2>1. Temp # <<>>
    BY PathTuples, TuplesNotEmpty
  <2>2. FitsAll(At(Temp, Staged(machine, 750))) /\ DOMAIN At(Temp, Staged(machine, 750)) = {Temp}
    BY ZenonT(40), <1>3, <2>1, AtFits
  <2>3. FitsAll(inner)
    BY <1>4, TreeFits
  <2>4. TempPair \in DOMAIN inner
    BY <1>4
  <2> DEFINE f == At(Temp, Staged(machine, 750))
  <2>5. FitsAll(f)
    BY <2>2
  <2> HIDE DEF f
  <2>6. TreeOK(Over(f, inner))
    BY <2>3, <2>4, <2>5, OverOK
  <2> QED
    BY <2>6 DEF f
<1> HIDE DEF outer
<1>6. MachineOK(machine')
  BY <1>1, <1>2, <1>5, WithTree
<1>7. MachineOK(machine)'
  BY <1>6 DEF MachineOK, TreeOK
<1>8. cmd' = cmd /\ todo' = todo /\ commands' = commands
  BY DEF HookStage
<1>9. cmd # Nothing => MachineOK(cmd.saved)'
  BY <1>8 DEF AccessInv, MachineOK, TreeOK
<1> QED
  BY <1>7, <1>8, <1>9 DEF AccessInv

LEMMA HookExchangeInv ==
  ASSUME AccessInv, HookExchange
  PROVE  AccessInv'
<1> DEFINE rest == [machine EXCEPT !.tree = [path \in DOMAIN @ \ {Temp, TempPair} |-> @[path]]]
           t    == [path \in DOMAIN machine.tree \ {Temp, TempPair} |-> machine.tree[path]]
<1>1. MachineOK(machine) /\ TreeOK(machine.tree)
  BY DEF AccessInv, MachineOK
<1>2. TreeOK(t)
  <2>1. \A path \in DOMAIN machine.tree \ {Temp, TempPair} : Fits(path, t[path])
    BY <1>1 DEF TreeOK
  <2> QED
    BY <1>1, <2>1, KeptOK
<1>3. rest = [machine EXCEPT !.tree = t]
  OBVIOUS
<1> HIDE DEF t
<1>4. MachineOK(rest)
  BY <1>1, <1>2, <1>3, WithTree
<1>5. machine' = IF Exists(machine, PairDir(Host)) /\ Exists(machine, Temp)
                 THEN Exchange(rest, Host, "pinned", machine.tree[Temp], machine.tree[TempPair], TRUE)
                 ELSE rest
  BY DEF HookExchange
<1> HIDE DEF rest
<1>6. MachineOK(machine')
  <2>1. CASE Exists(machine, Temp)
    <3>1. Temp \in DOMAIN machine.tree /\ TempPair \in DOMAIN machine.tree
      BY <1>1, <2>1 DEF Exists, TreeOK
    <3>2. Host \in PairNames /\ PairDir(Host) \in Folders /\ Pair(Host, "pinned") \in Pairs
      BY NamesFit DEF PairNames
    <3>3. Temp \in Folders
      BY DEF Folders
    <3>4. Fits(PairDir(Host), machine.tree[Temp])
      <4>1. machine.tree[Temp].user = "root" /\ machine.tree[Temp].mode \in {700, 750, 755}
        BY <1>1, <3>1, <3>3, Fitting DEF Fits
      <4> QED
        BY <1>1, <3>1, <3>2, <4>1, Fitting, FolderFits
    <3>5. Fits(Pair(Host, "pinned"), machine.tree[TempPair])
      <4>1. machine.tree[TempPair].user = "root" /\ machine.tree[TempPair].mode = 640
        BY <1>1, <3>1, Fitting DEF Fits
      <4> QED
        BY <1>1, <3>1, <3>2, <4>1, Fitting, PairFits
    <3> QED
      BY <1>4, <1>5, <3>2, <3>4, <3>5, ExchangeOK
  <2>2. CASE ~Exists(machine, Temp)
    BY <1>4, <1>5, <2>2
  <2> QED
    BY <2>1, <2>2
<1>7. MachineOK(machine)'
  BY <1>6 DEF MachineOK, TreeOK
<1>8. cmd' = cmd /\ todo' = todo /\ commands' = commands
  BY DEF HookExchange
<1>9. cmd # Nothing => MachineOK(cmd.saved)'
  BY <1>8 DEF AccessInv, MachineOK, TreeOK
<1> QED
  BY <1>7, <1>8, <1>9 DEF AccessInv

LEMMA AccessInvNext == AccessInv /\ [NextAccess]_accessVars => AccessInv'
<1> SUFFICES ASSUME AccessInv, [NextAccess]_accessVars PROVE AccessInv'
  OBVIOUS
<1>1. ASSUME NEW name, commands < Len(Courses), name \in Courses[commands + 1],
             NEW c \in Configs, Begin(name, c)
      PROVE  AccessInv'
  <2>1. commands + 1 \in 1..Len(Courses)
    BY <1>1, AccessAssumption DEF AccessInv
  <2>2. Courses[commands + 1] \subseteq CommandKinds
    BY <2>1, AccessAssumption
  <2>3. name \in CommandKinds
    BY <1>1, <2>2
  <2> QED
    BY <1>1, <2>3, BeginInv
<1>2. ASSUME NEW renewed, Step(renewed) PROVE AccessInv'
  BY <1>2, StepInv
<1>3. CASE Fail
  BY <1>3, FailInv
<1>4. CASE HookStage
  BY <1>4, HookStageInv
<1>5. CASE HookExchange
  BY <1>5, HookExchangeInv
<1>6. CASE Die
  BY <1>6 DEF Die, Finish, AccessInv, MachineOK, TreeOK
<1>7. CASE HookRestart
  <2>1. cmd' = cmd /\ todo' = todo /\ commands' = commands
    BY <1>7 DEF HookRestart
  <2>2. MachineOK(machine')
    BY <1>7, RestartOK DEF HookRestart, AccessInv
  <2> QED
    BY <2>1, <2>2 DEF AccessInv, MachineOK, TreeOK
<1>8. CASE UNCHANGED accessVars
  BY <1>8 DEF accessVars, AccessInv, MachineOK, TreeOK
<1> QED
  BY <1>1, <1>2, <1>3, <1>4, <1>5, <1>6, <1>7, <1>8 DEF NextAccess
-----------------------------------------------------------------------------
(* The directory a name is in. *)
LEMMA FrontTuples ==
  /\ \A a : Front(<<a>>) = <<>>
  /\ \A a, b : Front(<<a, b>>) = <<a>>
  /\ \A a, b, c : Front(<<a, b, c>>) = <<a, b>>
  /\ \A a, b, c, d : Front(<<a, b, c, d>>) = <<a, b, c>>
<1>1. ASSUME NEW a PROVE Front(<<a>>) = <<>>
  <2>1. SubSeq(<<a>>, 1, 0) = [k \in 1..0 |-> <<a>>[k]]
    BY Prefix
  <2>2. [k \in 1..0 |-> <<a>>[k]] = <<>> /\ Len(<<a>>) - 1 = 0
    OBVIOUS
  <2> QED
    BY <2>1, <2>2 DEF Front
<1>2. ASSUME NEW a, NEW b PROVE Front(<<a, b>>) = <<a>>
  <2>1. SubSeq(<<a, b>>, 1, 1) = [k \in 1..1 |-> <<a, b>>[k]]
    BY Prefix
  <2>2. [k \in 1..1 |-> <<a, b>>[k]] = <<a>> /\ Len(<<a, b>>) - 1 = 1
    OBVIOUS
  <2> QED
    BY <2>1, <2>2 DEF Front
<1>3. ASSUME NEW a, NEW b, NEW c PROVE Front(<<a, b, c>>) = <<a, b>>
  <2>1. SubSeq(<<a, b, c>>, 1, 2) = [k \in 1..2 |-> <<a, b, c>>[k]]
    BY Prefix
  <2>2. [k \in 1..2 |-> <<a, b, c>>[k]] = <<a, b>> /\ Len(<<a, b, c>>) - 1 = 2
    OBVIOUS
  <2> QED
    BY <2>1, <2>2 DEF Front
<1>4. ASSUME NEW a, NEW b, NEW c, NEW d PROVE Front(<<a, b, c, d>>) = <<a, b, c>>
  <2>1. SubSeq(<<a, b, c, d>>, 1, 3) = [k \in 1..3 |-> <<a, b, c, d>>[k]]
    BY Prefix
  <2>2. [k \in 1..3 |-> <<a, b, c, d>>[k]] = <<a, b, c>> /\ Len(<<a, b, c, d>>) - 1 = 3
    OBVIOUS
  <2> QED
    BY <2>1, <2>2 DEF Front
<1> QED
  BY <1>1, <1>2, <1>3, <1>4

(* Whose mode bits open a file to whom. *)
LEMMA BitsOf == Bits[0] = {} /\ "w" \notin Bits[5]
<1>1. 0 \div 4 = 0 /\ 0 \div 2 = 0 /\ 0 % 2 = 0 /\ 5 \div 2 = 2 /\ 2 % 2 = 0
  OBVIOUS
<1> QED
  BY <1>1 DEF Bits

LEMMA Digits ==
  /\ 600 % 10 = 0 /\ (600 \div 10) % 10 = 0 /\ 640 % 10 = 0
  /\ 700 % 10 = 0 /\ (700 \div 10) % 10 = 0
  /\ 750 % 10 = 0 /\ (750 \div 10) % 10 = 5
  /\ 755 % 10 = 5 /\ (755 \div 10) % 10 = 5
  OBVIOUS

LEMMA NotTheirs ==
  ASSUME NEW t, NEW path, NEW who, NEW groups, who # t[path].user,
         \/ t[path].mode = 600
         \/ t[path].mode = 640 /\ t[path].group \notin groups
  PROVE  ~CanOpen(t, who, groups, path)
<1>1. Allowed(t, who, groups, path) = {}
  BY BitsOf, Digits DEF Allowed
<1> QED
  BY <1>1 DEF CanOpen

LEMMA NotInTheirPlace ==
  ASSUME NEW t, NEW path, NEW who, NEW groups,
         Front(path) \in DOMAIN t =>
           /\ who # t[Front(path)].user
           /\ \/ t[Front(path)].mode \in {700, 750, 755}
              \/ path \in DOMAIN t /\ t[Front(path)].mode = 1771 /\ who # t[path].user
  PROVE  ~CanReplace(t, who, groups, path)
<1> DEFINE dir == Front(path)
<1>1. SUFFICES ASSUME dir \in DOMAIN t, {"w", "x"} \subseteq Allowed(t, who, groups, dir),
                      Sticky(t[dir]) /\ path \in DOMAIN t => who \in {t[path].user, t[dir].user}
               PROVE  FALSE
  BY DEF CanReplace
<1> HIDE DEF dir
<1>2. CASE t[dir].mode \in {700, 750, 755} /\ who # t[dir].user
  <2>1. "w" \notin Allowed(t, who, groups, dir)
    BY <1>2, BitsOf, Digits DEF Allowed
  <2> QED
    BY <1>1, <2>1
<1>3. CASE path \in DOMAIN t /\ t[dir].mode = 1771 /\ who # t[path].user /\ who # t[dir].user
  <2>1. Sticky(t[dir])
    BY <1>3 DEF Sticky
  <2> QED
    BY <1>1, <1>3, <2>1
<1> QED
  BY <1>1, <1>2, <1>3 DEF dir

LEMMA FrontPaths ==
  /\ Front(EmailToml) = Etc /\ Front(Certs) = Data /\ Front(CertsLock) = Certs
  /\ Front(Binary) = <<>> /\ \A n, w : Front(Pair(n, w)) = PairDir(n)
<1>1. Front(EmailToml) = Etc /\ Front(Certs) = Data
  BY FrontTuples, PathTuples
<1>2. Front(CertsLock) = Certs /\ Front(Binary) = <<>>
  BY FrontTuples, PathTuples
<1>3. ASSUME NEW n, NEW w PROVE Front(Pair(n, w)) = PairDir(n)
  <2>1. Pair(n, w) = <<"data", "certificates", n, w>> /\ PairDir(n) = <<"data", "certificates", n>>
    BY PairTuples
  <2> QED
    BY <2>1, FrontTuples
<1> QED
  BY <1>1, <1>2, <1>3

LEMMA Opens ==
  ASSUME NEW t, TreeOK(t), NEW who \in Services \cup {"nobody"}
  PROVE  LET groups == {who} \cup (IF who \in Services THEN {"sbctl-cert"} ELSE {})
         IN  /\ \A path \in RootOnly : ~CanOpen(t, who, groups, path)
             /\ who # "sing-box" => ~CanOpen(t, who, groups, Active)
             /\ who # "sbctl" => \A path \in Daemons : ~CanOpen(t, who, groups, path)
             /\ who = "nobody" => \A path \in Pairs \cup {TempPair} : ~CanOpen(t, who, groups, path)
<1> DEFINE groups == {who} \cup (IF who \in Services THEN {"sbctl-cert"} ELSE {})
<1>1. who # "root" /\ "root" \notin groups /\ (who # "sing-box" => "sing-box" \notin groups)
  BY DEF Services
<1>2. \A path : CanOpen(t, who, groups, path) => path \in DOMAIN t /\ Fits(path, t[path])
  BY DEF CanOpen, Finds, TreeOK
<1>3. Private.user = "root" /\ Private.mode = 600
  BY AttrFields DEF Private
<1>4. who = "nobody" => \A attr \in Attributes : attr.group \notin groups
  BY DEF Attributes, Services
<1> HIDE DEF groups
<1>5. ASSUME NEW path \in RootOnly PROVE ~CanOpen(t, who, groups, path)
  <2>1. path \in {EmailToml, Backups} \cup PrivateFiles
    BY DEF RootOnly, PrivateFiles
  <2>2. Fits(path, t[path]) => t[path].user = "root" /\ t[path].mode = 600
    BY <1>3, <2>1 DEF Fits
  <2> QED
    BY <1>1, <1>2, <2>2, NotTheirs
<1>6. ASSUME who # "sing-box" PROVE ~CanOpen(t, who, groups, Active)
  <2>1. /\ Attr("sing-box", "sing-box", 600).user = "sing-box"
        /\ Attr("sing-box", "sing-box", 600).mode = 600
        /\ Attr("sing-box", "sing-box", 640).user = "sing-box"
        /\ Attr("sing-box", "sing-box", 640).group = "sing-box"
        /\ Attr("sing-box", "sing-box", 640).mode = 640
    BY AttrFields
  <2>2. Fits(Active, t[Active]) =>
          t[Active] \in {Private, Attr("sing-box", "sing-box", 600), Attr("sing-box", "sing-box", 640)}
    BY DEF Fits
  <2>3. Fits(Active, t[Active]) =>
          /\ who # t[Active].user
          /\ \/ t[Active].mode = 600
             \/ t[Active].mode = 640 /\ t[Active].group \notin groups
    BY <1>1, <1>3, <1>6, <2>1, <2>2
  <2> QED
    BY <1>2, <2>3, NotTheirs
<1>7. ASSUME who # "sbctl", NEW path \in Daemons PROVE ~CanOpen(t, who, groups, path)
  <2>1. Attr("sbctl", "sbctl", 600).user = "sbctl" /\ Attr("sbctl", "sbctl", 600).mode = 600
    BY AttrFields
  <2>2. Fits(path, t[path]) => t[path] \in {Private, Attr("sbctl", "sbctl", 600)}
    BY <1>7 DEF Fits
  <2> QED
    BY <1>1, <1>2, <1>3, <1>7, <2>1, <2>2, NotTheirs
<1>8. ASSUME who = "nobody", NEW path \in Pairs \cup {TempPair} PROVE ~CanOpen(t, who, groups, path)
  <2>1. Fits(path, t[path]) => t[path].user = "root" /\ t[path].mode = 640 /\ t[path] \in Attributes
    BY <1>8 DEF Fits
  <2> QED
    BY <1>1, <1>2, <1>4, <1>8, <2>1, NotTheirs
<1> QED
  BY <1>5, <1>6, <1>7, <1>8 DEF groups

LEMMA Replaces ==
  ASSUME NEW t, TreeOK(t), NEW who, who # "root", NEW groups,
         NEW path \in ({EmailToml, Certs, CertsLock, Binary} \cup Pairs) \cap DOMAIN t
  PROVE  ~CanReplace(t, who, groups, path)
<1>1. \A p \in DOMAIN t : Fits(p, t[p])
  BY DEF TreeOK
<1>2. ASSUME NEW dir \in Folders, dir \in DOMAIN t
      PROVE  t[dir].user = "root" /\ t[dir].mode \in {700, 750, 755}
  BY <1>1, <1>2 DEF Fits
<1>3. CASE path = EmailToml
  <2>1. Etc \in DOMAIN t => t[Etc].user = "root" /\ t[Etc].mode \in {700, 750}
    BY <1>1 DEF Fits
  <2> QED
    BY <1>3, <2>1, FrontPaths, NotInTheirPlace
<1>4. CASE path = Certs
  <2>1. /\ Attr("root", "root", 700).user = "root" /\ Attr("root", "root", 700).mode = 700
        /\ Attr("root", "sbctl", 1771).user = "root" /\ Attr("root", "sbctl", 1771).mode = 1771
    BY AttrFields
  <2>2. Data \in DOMAIN t => t[Data] \in {Attr("root", "root", 700), Attr("root", "sbctl", 1771)}
    BY <1>1 DEF Fits
  <2>3. Certs \in Folders /\ Certs \in DOMAIN t
    BY <1>4 DEF Folders
  <2>4. Data \in DOMAIN t => /\ t[Data].user = "root" /\ t[Data].mode \in {700, 1771}
    BY <2>1, <2>2
  <2> QED
    BY <1>2, <1>4, <2>3, <2>4, FrontPaths, NotInTheirPlace
<1>5. CASE path = CertsLock
  <2>1. Certs \in Folders
    BY DEF Folders
  <2> QED
    BY <1>2, <1>5, <2>1, FrontPaths, NotInTheirPlace
<1>6. CASE path = Binary
  <2>1. Front(path) \notin DOMAIN t
    BY <1>6, FrontPaths DEF TreeOK
  <2> QED
    BY <2>1 DEF CanReplace
<1>7. CASE path \in Pairs
  <2>1. PICK n \in PairNames, w \in {"own", "pinned"} : path = Pair(n, w)
    BY <1>7 DEF Pairs
  <2>2. Front(path) = PairDir(n) /\ PairDir(n) \in Folders
    BY <2>1, FrontPaths, NamesFit
  <2> QED
    BY <1>2, <2>2, NotInTheirPlace
<1> QED
  BY <1>3, <1>4, <1>5, <1>6, <1>7

LEMMA InvKeepsOthersOut == AccessInv => OnlyOwnersOpen
<1> SUFFICES ASSUME AccessInv, NEW who \in Services \cup {"nobody"}
             PROVE  LET t == machine.tree
                        Closed == CASE who = "sbctl" -> {Active} \cup RootOnly
                                    [] who = "sing-box" -> {ConfigToml, Artifact, StateJson, Lock} \cup RootOnly
                                    [] OTHER -> {Active, ConfigToml, Artifact, StateJson, Lock, TempPair}
                                                  \cup RootOnly \cup Pairs
                        groups == {who} \cup (IF who \in Services THEN {"sbctl-cert"} ELSE {})
                    IN  /\ \A path \in Closed : ~CanOpen(t, who, groups, path)
                        /\ \A path \in ({EmailToml, Certs, CertsLock, Binary} \cup Pairs) \cap DOMAIN t :
                             ~CanReplace(t, who, groups, path)
  BY Zenon DEF OnlyOwnersOpen
<1> DEFINE t == machine.tree
           groups == {who} \cup (IF who \in Services THEN {"sbctl-cert"} ELSE {})
<1>1. TreeOK(t)
  BY DEF AccessInv, MachineOK
<1>2. /\ \A path \in RootOnly : ~CanOpen(t, who, groups, path)
      /\ who # "sing-box" => ~CanOpen(t, who, groups, Active)
      /\ who # "sbctl" => \A path \in Daemons : ~CanOpen(t, who, groups, path)
      /\ who = "nobody" => \A path \in Pairs \cup {TempPair} : ~CanOpen(t, who, groups, path)
  BY <1>1, Opens
<1>3. who # "root" /\ who \in {"sbctl", "sing-box", "nobody"}
  BY DEF Services
<1> HIDE DEF t, groups
<1>4. \A path \in ({EmailToml, Certs, CertsLock, Binary} \cup Pairs) \cap DOMAIN t :
        ~CanReplace(t, who, groups, path)
  BY <1>1, <1>3, Replaces
<1>5. CASE who = "sbctl"
  BY <1>2, <1>4, <1>5 DEF t, groups
<1>6. CASE who = "sing-box"
  BY <1>2, <1>4, <1>6 DEF t, groups, Daemons
<1>7. CASE who = "nobody"
  BY <1>2, <1>4, <1>7 DEF t, groups, Daemons
<1> QED
  BY <1>3, <1>5, <1>6, <1>7

(* OnlyOwnersOpen, for every set of names and every course of commands:    *)
(* at every moment, between any two steps of a command, after one that     *)
(* failed or died, and while the hook publishes beside it, neither service *)
(* opens what is the other's, a third account opens nothing, and nobody    *)
(* puts another file in the place of root's (config.rs:2093-2129,          *)
(* lifecycle.rs:1723-1733). *)
THEOREM OwnersOnly == SpecAccess => []OnlyOwnersOpen
<1>1. InitAccess => AccessInv
  BY AccessInvInit
<1>2. AccessInv /\ [NextAccess]_accessVars => AccessInv'
  BY AccessInvNext
<1>3. AccessInv => OnlyOwnersOpen
  BY InvKeepsOthersOut
<1> QED
  BY <1>1, <1>2, <1>3, PTL DEF SpecAccess

-----------------------------------------------------------------------------
(***************************************************************************)
(* Failed commands.  A command that nobody has disturbed knows, at every   *)
(* point, the host it found: it is still there, or it can be rebuilt from  *)
(* what the command has archived, or a switch has strayed from it only in  *)
(* what it captured and puts back (Follows).                               *)
(***************************************************************************)
(* Types. *)
Values   == Owners \cup {None}
Archives == [file : UNION {[parts -> Values] : parts \in SUBSET Parts},
             active : SUBSET Units, enabled : SUBSET Units]
JobOK(j) ==
  /\ j = [committed |-> j.committed, pre |-> j.pre, listed |-> j.listed, backup |-> j.backup,
          touched |-> j.touched, waits |-> j.waits]
  /\ j.listed \subseteq Parts /\ j.backup \in Archives
LifeTypes ==
  /\ host \in Hosts /\ found \in [Procs -> Hosts]
  /\ pc = [q \in Procs |-> pc[q]] /\ result = [q \in Procs |-> result[q]]
  /\ job = [q \in Procs |-> job[q]]
  /\ \A q \in Procs : JobOK(job[q])

(* The sets, written out. *)
LEMMA PartsOf ==
  /\ Parts = {"artifacts", "state", "certs", "marker", "config", "active", "units", "socket",
              "hook", "kernel"}
  /\ DataParts \subseteq Parts
  BY DEF Parts, DataParts

LEMMA UnitSets ==
  /\ \A d : Managed(d) \subseteq Units
  /\ \A parts : UnitsIn(parts) \subseteq Units
  BY DEF Managed, UnitsIn, Units

LEMMA ValuesOf ==
  /\ None \in Values /\ None \notin Owners /\ \A d \in Owners : d \in Values
  /\ \A p \in Procs : p \in Owners /\ p # None /\ p \in Values
  /\ \A d \in Olds : d \in Owners
  BY HostAssumption DEF Values, Owners

LEMMA HostFields ==
  /\ \A h \in Hosts : /\ h = [file |-> h.file, active |-> h.active, enabled |-> h.enabled]
                      /\ h.file \in [Parts -> Values]
                      /\ h.active \subseteq Units /\ h.enabled \subseteq Units
  /\ \A f \in [Parts -> Values], a \in SUBSET Units, e \in SUBSET Units :
       [file |-> f, active |-> a, enabled |-> e] \in Hosts
  BY DEF Hosts, Files, Values

LEMMA SameHost ==
  ASSUME NEW g \in Hosts, NEW h \in Hosts,
         g.file = h.file, g.active = h.active, g.enabled = h.enabled
  PROVE  g = h
  BY HostFields

(* What each operation makes of a host. *)
LEMMA PutIs ==
  ASSUME NEW h \in Hosts, NEW parts, NEW d \in Values
  PROVE  /\ Put(h, parts, d) \in Hosts
         /\ Put(h, parts, d).file = [part \in Parts |-> IF part \in parts THEN d ELSE h.file[part]]
         /\ Put(h, parts, d).active = h.active /\ Put(h, parts, d).enabled = h.enabled
<1> DEFINE f == [part \in Parts |-> IF part \in parts THEN d ELSE h.file[part]]
<1>1. h = [file |-> h.file, active |-> h.active, enabled |-> h.enabled]
      /\ h.file \in [Parts -> Values] /\ h.active \in SUBSET Units /\ h.enabled \in SUBSET Units
  BY HostFields
<1>2. Put(h, parts, d) = [file |-> f, active |-> h.active, enabled |-> h.enabled]
  BY <1>1 DEF Put
<1>3. f \in [Parts -> Values]
  BY <1>1
<1> QED
  BY <1>1, <1>2, <1>3, HostFields

LEMMA PutUnits ==
  ASSUME NEW h \in Hosts, NEW parts, NEW d \in Values
  PROVE  Put(h, parts, d).active = h.active /\ Put(h, parts, d).enabled = h.enabled
<1> DEFINE f == [part \in Parts |-> IF part \in parts THEN d ELSE h.file[part]]
<1>1. h = [file |-> h.file, active |-> h.active, enabled |-> h.enabled]
      /\ h.file \in [Parts -> Values]
  BY HostFields
<1>2. Put(h, parts, d) = [file |-> f, active |-> h.active, enabled |-> h.enabled]
  BY <1>1 DEF Put
<1> HIDE DEF f
<1> QED
  BY <1>2

LEMMA RunIs ==
  ASSUME NEW h \in Hosts, NEW units
  PROVE  /\ units \subseteq Units => Run(h, units) \in Hosts
         /\ Halt(h, units) \in Hosts
         /\ units \subseteq Units => Enable(h, units) \in Hosts
         /\ Disable(h, units) \in Hosts
         /\ Run(h, units) = [file |-> h.file, active |-> h.active \cup units, enabled |-> h.enabled]
         /\ Halt(h, units) = [file |-> h.file, active |-> h.active \ units, enabled |-> h.enabled]
         /\ Enable(h, units) = [file |-> h.file, active |-> h.active, enabled |-> h.enabled \cup units]
         /\ Disable(h, units) =
              [file |-> h.file, active |-> h.active \ units, enabled |-> h.enabled \ units]
<1>1. h = [file |-> h.file, active |-> h.active, enabled |-> h.enabled]
      /\ h.file \in [Parts -> Values] /\ h.active \in SUBSET Units /\ h.enabled \in SUBSET Units
  BY HostFields
<1>2. /\ Run(h, units) = [file |-> h.file, active |-> h.active \cup units, enabled |-> h.enabled]
      /\ Halt(h, units) = [file |-> h.file, active |-> h.active \ units, enabled |-> h.enabled]
      /\ Enable(h, units) = [file |-> h.file, active |-> h.active, enabled |-> h.enabled \cup units]
  BY SMTT(30), <1>1 DEF Run, Halt, Enable
<1>3. Disable(h, units) =
        [file |-> h.file, active |-> h.active \ units, enabled |-> h.enabled \ units]
  BY <1>2 DEF Disable
<1>4. \A f \in [Parts -> Values], a \in SUBSET Units, e \in SUBSET Units :
        [file |-> f, active |-> a, enabled |-> e] \in Hosts
  BY HostFields
<1>5. /\ h.active \ units \in SUBSET Units /\ h.enabled \ units \in SUBSET Units
      /\ units \subseteq Units =>
           h.active \cup units \in SUBSET Units /\ h.enabled \cup units \in SUBSET Units
  BY <1>1
<1>6. /\ units \subseteq Units => Run(h, units) \in Hosts
      /\ units \subseteq Units => Enable(h, units) \in Hosts
  BY <1>1, <1>2, <1>4, <1>5
<1>7. Halt(h, units) \in Hosts /\ Disable(h, units) \in Hosts
  BY <1>1, <1>2, <1>3, <1>4, <1>5
<1> QED
  BY <1>2, <1>3, <1>6, <1>7

LEMMA BareIs ==
  /\ Bare \in Hosts /\ Bare.active = {} /\ Bare.enabled = {}
  /\ \A part \in Parts : Bare.file[part] = None
  /\ \A h \in Hosts : Present(h) = {} /\ h.active = {} /\ h.enabled = {} => h = Bare
<1>1. [part \in Parts |-> None] \in [Parts -> Values]
  BY ValuesOf
<1>2. /\ Bare = [file |-> [part \in Parts |-> None], active |-> {}, enabled |-> {}]
      /\ Bare \in Hosts
  BY <1>1, HostFields DEF Bare
<1>3. ASSUME NEW h \in Hosts, Present(h) = {}, h.active = {}, h.enabled = {} PROVE h = Bare
  <2>1. h.file = [part \in Parts |-> None]
    <3>1. h.file \in [Parts -> Values] /\ \A part \in Parts : h.file[part] = None
      BY <1>3, HostFields DEF Present
    <3> QED
      BY <3>1
  <2> QED
    BY <1>2, <1>3, <2>1, SameHost
<1> QED
  BY <1>2, <1>3

LEMMA UnitsAs ==
  ASSUME NEW h \in Hosts, NEW a \in SUBSET Units, NEW e \in SUBSET Units
  PROVE  /\ [h EXCEPT !.active = a, !.enabled = e] \in Hosts
         /\ [h EXCEPT !.active = a, !.enabled = e]
              = [file |-> h.file, active |-> a, enabled |-> e]
<1>1. h = [file |-> h.file, active |-> h.active, enabled |-> h.enabled] /\ h.file \in [Parts -> Values]
  BY HostFields
<1>2. [h EXCEPT !.active = a] = [file |-> h.file, active |-> a, enabled |-> h.enabled]
  BY <1>1
<1>3. [h EXCEPT !.active = a, !.enabled = e] = [[h EXCEPT !.active = a] EXCEPT !.enabled = e]
  OBVIOUS
<1>4. [h EXCEPT !.active = a, !.enabled = e] = [file |-> h.file, active |-> a, enabled |-> e]
  <2>1. [[file |-> h.file, active |-> a, enabled |-> h.enabled] EXCEPT !.enabled = e]
          = [file |-> h.file, active |-> a, enabled |-> e]
    OBVIOUS
  <2> QED
    BY <1>2, <1>3, <2>1, Zenon
<1> QED
  BY <1>1, <1>4, HostFields

LEMMA RolledBackIs ==
  ASSUME NEW h \in Hosts, NEW pre
  PROVE  /\ RolledBack(h, pre) \in Hosts
         /\ RolledBack(h, {}) = Bare
         /\ [RolledBack(h, pre) EXCEPT !.active = h.active, !.enabled = h.enabled] \in Hosts
<1> DEFINE stopped == Disable(h, Units)
           parts   == (Parts \ (DataParts \cup {"config"}))
                        \cup (IF "config" \in pre THEN {} ELSE {"config"})
                        \cup (IF "data" \in pre THEN {} ELSE DataParts)
<1>1. stopped \in Hosts /\ stopped.active = {} /\ stopped.enabled = {}
  BY RunIs, HostFields
<1>2. RolledBack(h, pre) = Put(stopped, parts, None) /\ RolledBack(h, {}) = Put(stopped, Parts, None)
  BY PartsOf DEF RolledBack, DataParts
<1> HIDE DEF stopped, parts
<1>6. None \in Values
  BY ValuesOf
<1>7. \A x : /\ Put(stopped, x, None) \in Hosts
             /\ Put(stopped, x, None).file =
                  [part \in Parts |-> IF part \in x THEN None ELSE stopped.file[part]]
             /\ Put(stopped, x, None).active = stopped.active
             /\ Put(stopped, x, None).enabled = stopped.enabled
  BY <1>1, <1>6, PutIs
<1>3. RolledBack(h, pre) \in Hosts
  BY <1>2, <1>7
<1>4. RolledBack(h, {}) = Bare
  <2>1. Put(stopped, Parts, None) \in Hosts /\ Present(Put(stopped, Parts, None)) = {}
    BY <1>7 DEF Present
  <2>2. Put(stopped, Parts, None).active = {} /\ Put(stopped, Parts, None).enabled = {}
    BY <1>1, <1>7
  <2> QED
    BY <1>2, <2>1, <2>2, BareIs
<1>5. [RolledBack(h, pre) EXCEPT !.active = h.active, !.enabled = h.enabled] \in Hosts
  BY <1>3, HostFields, UnitsAs
<1> QED
  BY <1>3, <1>4, <1>5

LEMMA UnpackedIs ==
  ASSUME NEW h \in Hosts, NEW was \in Archives
  PROVE  Unpacked(h, was) \in Hosts
<1>1. was.active \subseteq Units /\ was.enabled \subseteq Units
  BY DEF Archives
<1>2. PICK parts \in SUBSET Parts : was.file \in [parts -> Values]
  BY DEF Archives
<1>3. [part \in Parts |-> IF part \in DOMAIN was.file THEN was.file[part] ELSE h.file[part]]
        \in [Parts -> Values]
  BY <1>2, HostFields
<1> QED
  BY <1>1, <1>3, HostFields DEF Unpacked

LEMMA SwitchedIs ==
  ASSUME NEW h \in Hosts, NEW p \in Values
  PROVE  Reconciled(h, p) \in Hosts /\ Restarted(h, p) \in Hosts
<1>1. Reconciled(h, p) \in Hosts
  <2>1. Put(h, {"units"}, p) \in Hosts
    BY PutIs, ValuesOf
  <2>2. (IF Direct(h.file["units"]) # Direct(p) THEN Put(h, {"units"}, p) ELSE h) \in Hosts
    BY <2>1
  <2> QED
    BY <2>2, PutIs, ValuesOf DEF Reconciled
<1>2. \A d : Restarted(h, d) \in Hosts
  <2>1. /\ {"sing-box", "sbctl", "socket"} \subseteq Units /\ {"sing-box", "sbctl"} \subseteq Units
        /\ {"socket"} \subseteq Units
    BY DEF Units
  <2>2. Run(h, {"sing-box", "sbctl", "socket"}) \in Hosts
    BY <2>1, RunIs
  <2>3. Enable(Run(h, {"sing-box", "sbctl", "socket"}), {"socket"}) \in Hosts
    BY <2>1, <2>2, RunIs
  <2>4. (IF h.file["socket"] = None THEN h ELSE Disable(h, {"socket"})) \in Hosts
    BY RunIs
  <2>5. Run(IF h.file["socket"] = None THEN h ELSE Disable(h, {"socket"}), {"sing-box", "sbctl"}) \in Hosts
    BY <2>1, <2>4, RunIs
  <2> QED
    BY <2>3, <2>5 DEF Restarted, Enable
<1> QED
  BY <1>1, <1>2

-----------------------------------------------------------------------------
(* The invariant.  A host is orderly when no unit is active whose file is  *)
(* gone and which is not enabled either.                                   *)
Orderly(h) == h.active \subseteq UnitsIn(Present(h)) \cup h.enabled

(* What the command archived, put back on a bare host, is what it found.   *)
Restorable(p) ==
  IF job[p].backup = NoBackup THEN found[p] = Bare
  ELSE Unpacked(Bare, job[p].backup) = found[p]

Switches == {"checking", "publish", "services", "obtain", "recover"}

(* How far a switch moves the host from what it found before it undoes     *)
(* itself. *)
Strayed(was, h) ==
  /\ \A part \in Parts \ CapturedParts : h.file[part] = was.file[part]
  /\ h.file["units"] = None <=> was.file["units"] = None
  /\ h.enabled \ {"socket"} = was.enabled \ {"socket"}
  /\ "socket" \in h.enabled => "socket" \in was.enabled \/ h.file["socket"] # None
  /\ "timer" \in h.active <=> "timer" \in was.active

Installs == {"generate", "initialize", "kernel", "state", "units", "start", "health", "mark"}

(* Where an undisturbed command stands with respect to what it found. *)
Follows(p) ==
  /\ pc[p] = "list" => host = found[p] /\ job[p].backup = NoBackup
  /\ pc[p] = "listed" => host = found[p] /\ job[p].listed = Present(host) /\ ~Vacant(host)
  /\ pc[p] \in {"archived", "preflighted", "download", "restoring"} => host = Bare /\ Restorable(p)
  /\ pc[p] = "waiting" /\ kind[p] \in {"fresh", "replace"} =>
       host = Bare /\ Restorable(p) /\ job[p].pre = {}
  /\ pc[p] = "download" => job[p].pre = {}
  /\ pc[p] \in {"failing", "rollback"} \cup Installs =>
       /\ Restorable(p) /\ job[p].pre = {}
       /\ job[p].committed \/ host.file["config"] = None
  /\ pc[p] \in {"checking", "publish"} => host = found[p]
  /\ pc[p] = "startUnits" => LeftAsFound(p, found[p], host)
  /\ pc[p] \in Switches => kind[p] = "mode"
  /\ pc[p] \in {"services", "obtain", "recover"} => Strayed(found[p], host)
  /\ pc[p] \in {"publish", "services", "obtain", "recover"} => job[p].backup = found[p]
  /\ pc[p] \in {"services", "recover"} /\ ~job[p].touched =>
       host.active = found[p].active /\ host.enabled = found[p].enabled

JobFits(p) ==
  /\ pc[p] = "idle" => job[p] = NoJob
  /\ job[p].touched => pc[p] \in {"obtain", "recover", "startUnits", "done", "dead"}
  /\ pc[p] = "obtain" => job[p].touched
  /\ pc[p] \in {"publish", "services", "obtain", "recover", "startUnits"} => job[p].backup \in Hosts

Undisturbed(p) == p \notin disturbed \cup unrestored /\ Orderly(found[p])

LifeInv ==
  LifeTypes /\ \A p \in Procs : JobFits(p) /\ (Undisturbed(p) => Follows(p))

(* What a command does to the others. *)
ActsAlone(p) ==
  /\ kind' = kind
  /\ \A q \in Procs \ {p} :
       /\ job'[q] = job[q] /\ found'[q] = found[q]
       /\ pc'[q] = pc[q] \/ pc'[q] = "dead"
       /\ q \in disturbed => q \in disturbed'
       /\ q \in unrestored => q \in unrestored'
       /\ host' = host \/ q \in disturbed' \/ ~Busy(q)

(* What is shown of each action of a command. *)
FailsClean(p) ==
  \A how \in {"failed", "unrecovered"} :
    Reports(p, how) /\ Undisturbed(p)' => LeftAsFound(p, found'[p], host')
Own(p) ==
  /\ LifeTypes' /\ ActsAlone(p)
  /\ JobFits(p)' /\ (Undisturbed(p)' => Follows(p)')
  /\ FailsClean(p)

LEMMA SameLeft == \A p, h : LeftAsFound(p, h, h)
  BY DEF LeftAsFound

LEMMA OthersKeep ==
  ASSUME LifeInv, NEW p \in Procs, ActsAlone(p), NEW q \in Procs, q # p
  PROVE  /\ JobFits(q)' /\ (Undisturbed(q)' => Follows(q)')
         /\ \A how : ~Reports(q, how)
<1>1. /\ job'[q] = job[q] /\ found'[q] = found[q] /\ kind'[q] = kind[q]
      /\ pc'[q] = pc[q] \/ pc'[q] = "dead"
      /\ host' = host \/ q \in disturbed' \/ ~Busy(q)
  BY DEF ActsAlone
<1>2. JobFits(q)'
  BY <1>1 DEF LifeInv, JobFits
<1>3. \A how : ~Reports(q, how)
  BY <1>1 DEF Reports
<1>4. ASSUME Undisturbed(q)' PROVE Follows(q)'
  <2>1. Undisturbed(q)
    BY <1>1, <1>4 DEF Undisturbed, ActsAlone
  <2>2. Follows(q)
    BY <2>1 DEF LifeInv
  <2>3. CASE pc'[q] \in {"dead", "idle", "done"}
    BY <2>3 DEF Follows, Installs, Switches
  <2>4. CASE pc'[q] \notin {"dead", "idle", "done"}
    <3>1. pc'[q] = pc[q] /\ host' = host
      BY <1>1, <1>4, <2>4 DEF Busy, Undisturbed
    <3>2. Restorable(q)' <=> Restorable(q)
      BY <1>1 DEF Restorable
    <3>3. LeftAsFound(q, found[q], host)' <=> LeftAsFound(q, found[q], host)
      BY <1>1, <3>1 DEF LeftAsFound
    <3> QED
      BY <1>1, <2>2, <3>1, <3>2, <3>3 DEF Follows
  <2> QED
    BY <2>3, <2>4
<1> QED
  BY <1>2, <1>3, <1>4

(* What Goto, Set and Change do. *)
LEMMA GotoIs ==
  ASSUME LifeTypes, NEW p \in Procs, NEW where, Goto(p, where)
  PROVE  /\ pc' = [q \in Procs |-> pc'[q]] /\ pc'[p] = where
         /\ \A q \in Procs \ {p} : pc'[q] = pc[q]
  BY DEF LifeTypes, Goto

LEMMA ReportIs ==
  ASSUME LifeTypes, NEW p \in Procs, NEW how, Report(p, how)
  PROVE  /\ pc' = [q \in Procs |-> pc'[q]] /\ pc'[p] = "done"
         /\ \A q \in Procs \ {p} : pc'[q] = pc[q]
         /\ result' = [q \in Procs |-> result'[q]] /\ result'[p] = how
  BY DEF LifeTypes, Goto, Report

LEMMA ChangeIs ==
  ASSUME NEW p \in Procs, NEW h, Change(p, h)
  PROVE  /\ host' = h
         /\ \A q \in Procs \ {p} : /\ q \in disturbed => q \in disturbed'
                                   /\ host' = host \/ q \in disturbed' \/ ~Busy(q)
         /\ p \in disturbed => p \in disturbed'
  BY DEF Change

LEMMA JobIs ==
  ASSUME LifeTypes, NEW p \in Procs
  PROVE  /\ JobOK(job[p]) /\ job = [q \in Procs |-> job[q]]
         /\ job[p].backup \in Archives /\ job[p].listed \subseteq Parts
         /\ job[p] = [committed |-> job[p].committed, pre |-> job[p].pre,
                      listed |-> job[p].listed, backup |-> job[p].backup,
                      touched |-> job[p].touched, waits |-> job[p].waits]
  BY DEF LifeTypes, JobOK

(* One field of a command's job. *)
LEMMA FieldSet ==
  ASSUME LifeTypes, NEW p \in Procs, NEW v
  PROVE  /\ \A field : Set(p, field, v) =>
              job' = [q \in Procs |-> job'[q]] /\ \A q \in Procs \ {p} : job'[q] = job[q]
         /\ Set(p, "listed", v) =>
              job'[p] = [committed |-> job[p].committed, pre |-> job[p].pre,
                         listed |-> v, backup |-> job[p].backup,
                         touched |-> job[p].touched, waits |-> job[p].waits]
         /\ Set(p, "pre", v) =>
              job'[p] = [committed |-> job[p].committed, pre |-> v,
                         listed |-> job[p].listed, backup |-> job[p].backup,
                         touched |-> job[p].touched, waits |-> job[p].waits]
         /\ Set(p, "backup", v) =>
              job'[p] = [committed |-> job[p].committed, pre |-> job[p].pre,
                         listed |-> job[p].listed, backup |-> v,
                         touched |-> job[p].touched, waits |-> job[p].waits]
         /\ Set(p, "touched", v) =>
              job'[p] = [committed |-> job[p].committed, pre |-> job[p].pre,
                         listed |-> job[p].listed, backup |-> job[p].backup,
                         touched |-> v, waits |-> job[p].waits]
<1>1. /\ job = [q \in Procs |-> job[q]]
      /\ job[p] = [committed |-> job[p].committed, pre |-> job[p].pre,
                   listed |-> job[p].listed, backup |-> job[p].backup,
                   touched |-> job[p].touched, waits |-> job[p].waits]
  BY JobIs
<1>2. \A field : Set(p, field, v) =>
        job' = [q \in Procs |-> job'[q]] /\ \A q \in Procs \ {p} : job'[q] = job[q]
  BY <1>1 DEF Set
<1>3. Set(p, "listed", v) =>
        job'[p] = [committed |-> job[p].committed, pre |-> job[p].pre,
                   listed |-> v, backup |-> job[p].backup,
                   touched |-> job[p].touched, waits |-> job[p].waits]
  BY <1>1 DEF Set
<1>4. Set(p, "pre", v) =>
        job'[p] = [committed |-> job[p].committed, pre |-> v,
                   listed |-> job[p].listed, backup |-> job[p].backup,
                   touched |-> job[p].touched, waits |-> job[p].waits]
  BY <1>1 DEF Set
<1>5. Set(p, "backup", v) =>
        job'[p] = [committed |-> job[p].committed, pre |-> job[p].pre,
                   listed |-> job[p].listed, backup |-> v,
                   touched |-> job[p].touched, waits |-> job[p].waits]
  BY <1>1 DEF Set
<1>6. Set(p, "touched", v) =>
        job'[p] = [committed |-> job[p].committed, pre |-> job[p].pre,
                   listed |-> job[p].listed, backup |-> job[p].backup,
                   touched |-> v, waits |-> job[p].waits]
  BY <1>1 DEF Set
<1> QED
  BY <1>2, <1>3, <1>4, <1>5, <1>6

(* A move that leaves the host and what the command has recorded. *)
Still(p) ==
  /\ kind' = kind /\ found' = found /\ job' = job
  /\ host' = host /\ disturbed' = disturbed
  /\ \A q \in Procs : q \in unrestored => q \in unrestored'
  /\ \A q \in Procs \ {p} : pc'[q] = pc[q] \/ pc'[q] = "dead"
  /\ pc' = [q \in Procs |-> pc'[q]] /\ result' = [q \in Procs |-> result'[q]]

LEMMA StillKeeps ==
  ASSUME LifeInv, NEW p \in Procs, Still(p)
  PROVE  /\ LifeTypes' /\ ActsAlone(p)
         /\ Undisturbed(p)' => Undisturbed(p) /\ Follows(p)
         /\ Restorable(p)' <=> Restorable(p)
<1>1. LifeTypes'
  BY DEF LifeInv, LifeTypes, Still
<1>2. ActsAlone(p)
  BY DEF ActsAlone, Still
<1>3. Undisturbed(p)' => Undisturbed(p) /\ Follows(p)
  BY DEF LifeInv, Undisturbed, Still
<1>4. Restorable(p)' <=> Restorable(p)
  BY DEF Restorable, Still
<1> QED
  BY <1>1, <1>2, <1>3, <1>4

LEMMA OpenLockOwn ==
  ASSUME LifeInv, NEW p \in Procs, OpenLock(p) PROVE Own(p)
<1>1. Still(p) /\ pc' = pc
  BY DEF OpenLock, Quietly, NoReport, Keeps, Still, LifeInv, LifeTypes
<1>2. LifeTypes' /\ ActsAlone(p) /\ (Undisturbed(p)' => Follows(p)) /\ (Restorable(p)' <=> Restorable(p))
  BY <1>1, StillKeeps
<1>3. JobFits(p)'
  BY <1>1 DEF Still, LifeInv, JobFits
<1>4. Undisturbed(p)' => Follows(p)'
  <2>1. pc[p] = "waiting"
    BY DEF OpenLock
  <2> QED
    BY <1>1, <1>2, <2>1 DEF Still, Follows, Installs, Switches
<1> QED
  BY <1>1, <1>2, <1>3, <1>4 DEF Own, FailsClean, Reports

(* Where a move may lead that does nothing else, and what the command's    *)
(* state must be for it. *)
LEMMA StillOwn ==
  ASSUME LifeInv, NEW p \in Procs, Still(p), NEW where, pc'[p] = where,
         pc[p] \notin {"idle", "done", "dead"}, where # "idle",
         job[p].touched => where \in {"obtain", "recover", "startUnits", "done", "dead"},
         where = "obtain" => job[p].touched,
         where \notin {"publish", "services", "obtain", "recover", "startUnits"}
           \/ job[p].backup \in Hosts,
         Undisturbed(p)' => Follows(p)',
         where = "done" /\ result'[p] # "ok" /\ Undisturbed(p)' => LeftAsFound(p, found[p], host)
  PROVE  Own(p)
<1>1. LifeTypes' /\ ActsAlone(p)
  BY StillKeeps
<1>2. JobFits(p)'
  BY DEF Still, JobFits
<1>3. FailsClean(p)
  BY DEF Still, FailsClean, Reports
<1> QED
  BY <1>1, <1>2, <1>3 DEF Own

(* Commands begin with the host as they find it. *)
LEMMA StartsOwn ==
  ASSUME LifeInv, NEW p \in Procs, NEW where, Starts(p, where),
         where \in {"list", "preflighted", "waiting", "stop", "done"},
         where = "preflighted" => Vacant(host),
         where = "waiting" => kind[p] \notin {"fresh", "replace"},
         result' = [q \in Procs |-> result'[q]]
  PROVE  Own(p)
<1>1. /\ pc[p] = "idle" /\ job' = job /\ host' = host /\ kind' = kind
      /\ disturbed' = disturbed /\ unrestored' = unrestored
      /\ found' = [found EXCEPT ![p] = host]
      /\ pc' = [q \in Procs |-> pc'[q]] /\ pc'[p] = where
      /\ \A q \in Procs \ {p} : pc'[q] = pc[q]
  BY GotoIs DEF Starts, Quietly, LifeInv
<1>2. host \in Hosts /\ found \in [Procs -> Hosts]
  BY DEF LifeInv, LifeTypes
<1>3. /\ found' \in [Procs -> Hosts] /\ found'[p] = host
      /\ \A q \in Procs \ {p} : found'[q] = found[q]
  BY <1>1, <1>2
<1>4. LifeTypes'
  BY <1>1, <1>3 DEF LifeInv, LifeTypes
<1>5. ActsAlone(p)
  BY <1>1, <1>3 DEF ActsAlone
<1>6. job[p] = NoJob
  BY <1>1 DEF LifeInv, JobFits
<1>7. job[p].backup = NoBackup /\ job[p].touched = FALSE
  BY <1>6 DEF NoJob
<1>8. JobFits(p)'
  BY <1>1, <1>7 DEF JobFits
<1>9. ASSUME Undisturbed(p)' PROVE Follows(p)'
  <2>1. CASE where = "preflighted"
    <3>1. host = Bare
      <4>1. Present(host) = {} /\ host.enabled = {} /\ host.active \subseteq UnitsIn(Present(host)) \cup host.enabled
        BY <1>1, <1>3, <1>9, <2>1 DEF Undisturbed, Orderly, Vacant
      <4>2. host.active = {}
        BY <4>1 DEF UnitsIn
      <4> QED
        BY <1>2, <4>1, <4>2, BareIs
    <3>2. Restorable(p)'
      BY <1>1, <1>3, <1>7, <3>1 DEF Restorable
    <3> QED
      BY <1>1, <2>1, <3>1, <3>2 DEF Follows, Installs, Switches
  <2>2. CASE where = "list"
    BY <1>1, <1>3, <1>7, <2>2 DEF Follows, Installs, Switches
  <2>3. CASE where = "waiting"
    BY <1>1, <2>3 DEF Follows, Installs, Switches
  <2>4. CASE where \in {"stop", "done"}
    BY <1>1, <2>4 DEF Follows, Installs, Switches
  <2> QED
    BY <2>1, <2>2, <2>3, <2>4
<1>10. FailsClean(p)
  BY <1>1, <1>3, SameLeft DEF FailsClean
<1> QED
  BY <1>4, <1>5, <1>8, <1>9, <1>10 DEF Own

LEMMA BeginningsOwn ==
  ASSUME LifeInv, NEW p \in Procs,
         Preflight(p) \/ BeginMode(p) \/ FireTimer(p) \/ BeginUninstall(p)
  PROVE  Own(p)
<1>1. result = [q \in Procs |-> result[q]]
  BY DEF LifeInv, LifeTypes
<1>2. CASE Preflight(p)
  <2>1. result' = [q \in Procs |-> result'[q]]
    BY <1>1, <1>2 DEF Preflight, NoReport
  <2> QED
    BY <1>2, <2>1, StartsOwn DEF Preflight
<1>3. CASE BeginMode(p)
  BY <1>1, <1>3, StartsOwn DEF BeginMode, NoReport
<1>4. CASE FireTimer(p)
  BY <1>1, <1>4, StartsOwn DEF FireTimer, NoReport
<1>5. CASE BeginUninstall(p)
  <2>1. result' = [q \in Procs |-> result'[q]]
    BY <1>1, <1>5 DEF BeginUninstall, NoReport
  <2> QED
    BY <1>5, <2>1, StartsOwn DEF BeginUninstall
<1> QED
  BY <1>2, <1>3, <1>4, <1>5

(* Steps of an install that leave the host alone. *)
LEMMA StillWhere ==
  ASSUME LifeInv, NEW p \in Procs, NEW where, Quietly, Keeps, UNCHANGED job,
         \/ Goto(p, where) /\ NoReport
         \/ where = "done" /\ \E how : Report(p, how)
  PROVE  Still(p) /\ pc'[p] = where
<1>1. /\ pc' = [q \in Procs |-> pc'[q]] /\ pc'[p] = where
      /\ \A q \in Procs \ {p} : pc'[q] = pc[q]
      /\ result' = [q \in Procs |-> result'[q]]
  <2>1. CASE Goto(p, where) /\ NoReport
    BY <2>1, GotoIs DEF NoReport, LifeInv, LifeTypes
  <2>2. CASE where = "done" /\ \E how : Report(p, how)
    BY <2>2, ReportIs DEF LifeInv
  <2> QED
    BY <2>1, <2>2
<1> QED
  BY <1>1 DEF Quietly, Keeps, Still

LEMMA RecheckOwn ==
  ASSUME LifeInv, NEW p \in Procs, Recheck(p) \/ RecheckFails(p)
  PROVE  Own(p)
<1>1. PICK w \in {"preflighted", "restoring"} :
        Goto(p, w) /\ NoReport /\ Quietly /\ Keeps /\ UNCHANGED job /\ pc[p] = "archived"
  BY DEF Recheck, RecheckFails
<1>2. Still(p) /\ pc'[p] = w
  BY <1>1, StillWhere
<1>3. (Undisturbed(p)' => Follows(p)) /\ (Restorable(p)' <=> Restorable(p))
  BY <1>2, StillKeeps
<1>4. Undisturbed(p)' => Follows(p)'
  BY <1>1, <1>2, <1>3 DEF Follows, Installs, Switches, Still
<1>5. ~job[p].touched
  BY <1>1 DEF LifeInv, JobFits
<1> QED
  BY <1>1, <1>2, <1>4, <1>5, StillOwn

LEMMA DownloadOwn ==
  ASSUME LifeInv, NEW p \in Procs, Download(p) \/ DownloadFails(p)
  PROVE  Own(p)
<1>1. PICK w \in {"waiting", "failing"} :
        Goto(p, w) /\ NoReport /\ Quietly /\ Keeps /\ UNCHANGED job /\ pc[p] = "download"
  BY DEF Download, DownloadFails
<1>2. Still(p) /\ pc'[p] = w
  BY <1>1, StillWhere
<1>3. (Undisturbed(p)' => Follows(p)) /\ (Restorable(p)' <=> Restorable(p))
  BY <1>2, StillKeeps
<1>4. Undisturbed(p)' => Follows(p)'
  <2>1. Bare.file["config"] = None
    BY BareIs, PartsOf
  <2> QED
    BY <1>1, <1>2, <1>3, <2>1 DEF Follows, Installs, Switches, Still
<1>5. ~job[p].touched
  BY <1>1 DEF LifeInv, JobFits
<1> QED
  BY <1>1, <1>2, <1>4, <1>5, StillOwn

LEMMA EnterInstallOwn ==
  ASSUME LifeInv, NEW p \in Procs, EnterInstall(p)
  PROVE  Own(p)
<1>1. PICK w \in {"generate", "failing"} :
        Goto(p, w) /\ NoReport /\ Quietly /\ Keeps /\ UNCHANGED job /\ pc[p] = "waiting"
  BY DEF EnterInstall
<1>2. Still(p) /\ pc'[p] = w /\ kind[p] \in {"fresh", "replace"}
  BY <1>1, StillWhere DEF EnterInstall
<1>3. (Undisturbed(p)' => Follows(p)) /\ (Restorable(p)' <=> Restorable(p))
  BY <1>2, StillKeeps
<1>4. Undisturbed(p)' => Follows(p)'
  <2>1. Bare.file["config"] = None
    BY BareIs, PartsOf
  <2> QED
    BY <1>1, <1>2, <1>3, <2>1 DEF Follows, Installs, Switches, Still
<1>5. ~job[p].touched
  BY <1>1 DEF LifeInv, JobFits
<1> QED
  BY <1>1, <1>2, <1>4, <1>5, StillOwn

LEMMA DecideRollbackOwn ==
  ASSUME LifeInv, NEW p \in Procs, DecideRollback(p)
  PROVE  Own(p)
<1>1. PICK w \in {"restoring", "rollback"} :
        /\ Goto(p, w) /\ NoReport /\ Quietly /\ Keeps /\ UNCHANGED job /\ pc[p] = "failing"
        /\ w = "restoring" => SomebodyElses(p)
  BY DEF DecideRollback
<1>2. Still(p) /\ pc'[p] = w
  BY <1>1, StillWhere
<1>3. (Undisturbed(p)' => Follows(p)) /\ (Restorable(p)' <=> Restorable(p))
  BY <1>2, StillKeeps
<1>4. Undisturbed(p)' => Follows(p)'
  <2>1. Follows(p) => ~SomebodyElses(p)
    BY <1>1 DEF Follows, SomebodyElses
  <2> QED
    BY <1>1, <1>2, <1>3, <2>1 DEF Follows, Installs, Switches, Still
<1>5. ~job[p].touched
  BY <1>1 DEF LifeInv, JobFits
<1> QED
  BY <1>1, <1>2, <1>4, <1>5, StillOwn

(* Steps that report a failure and leave the host alone. *)
LEMMA RefusalsOwn ==
  ASSUME LifeInv, NEW p \in Procs, ArchiveFails(p) \/ RefuseMode(p)
  PROVE  Own(p)
<1>1. /\ Report(p, "failed") /\ Quietly /\ Keeps /\ UNCHANGED job
      /\ pc[p] \in {"listed", "checking"}
  BY DEF ArchiveFails, RefuseMode
<1>2. Still(p) /\ pc'[p] = "done"
  BY <1>1, StillWhere
<1>3. Undisturbed(p)' => Follows(p)
  BY <1>2, StillKeeps
<1>4. Undisturbed(p)' => Follows(p)' /\ host = found[p]
  BY <1>1, <1>2, <1>3 DEF Follows, Installs, Switches
<1>5. ~job[p].touched
  BY <1>1 DEF LifeInv, JobFits
<1> QED
  BY <1>1, <1>2, <1>4, <1>5, SameLeft, StillOwn

(* A command that could not finish its own recovery is not claimed about.  *)
LEMMA UnrestoredOwn ==
  ASSUME LifeInv, NEW p \in Procs, RestoreFails(p) \/ UninstallFails(p)
  PROVE  Own(p)
<1>1. /\ Report(p, "failed") /\ Quietly /\ UNCHANGED <<kind, found, job>>
      /\ unrestored' = unrestored \cup {p}
      /\ pc[p] \in {"restoring", "stop", "units off", "erase", "erase data"}
  BY DEF RestoreFails, UninstallFails
<1>2. /\ pc' = [q \in Procs |-> pc'[q]] /\ pc'[p] = "done"
      /\ \A q \in Procs \ {p} : pc'[q] = pc[q]
      /\ result' = [q \in Procs |-> result'[q]]
  BY <1>1, ReportIs DEF LifeInv
<1>3. Still(p)
  BY <1>1, <1>2 DEF Still, Quietly
<1>4. ~Undisturbed(p)'
  BY <1>1 DEF Undisturbed
<1>5. ~job[p].touched
  BY <1>1 DEF LifeInv, JobFits
<1> QED
  BY <1>1, <1>2, <1>3, <1>4, <1>5, StillOwn

LEMMA CrashOwn ==
  ASSUME LifeInv, NEW p \in Procs, Crash(p)
  PROVE  Own(p)
<1>1. Still(p) /\ pc'[p] = "dead"
  BY StillWhere DEF Crash
<1>2. pc[p] \notin {"idle", "done", "dead"}
  BY DEF Crash, Busy
<1>3. Follows(p)'
  BY <1>1 DEF Follows, Installs, Switches
<1> QED
  BY <1>1, <1>2, <1>3, StillOwn

LEMMA PublishModeFailsOwn ==
  ASSUME LifeInv, NEW p \in Procs, PublishModeFails(p)
  PROVE  Own(p)
<1>1. /\ Goto(p, "recover") /\ NoReport /\ Quietly /\ Keeps /\ UNCHANGED job
      /\ pc[p] \in {"publish", "services", "obtain"}
  BY DEF PublishModeFails
<1>2. Still(p) /\ pc'[p] = "recover"
  BY <1>1, StillWhere
<1>3. Undisturbed(p)' => Follows(p)
  BY <1>2, StillKeeps
<1>4. job[p].backup \in Hosts /\ (pc[p] = "obtain" => job[p].touched)
  BY <1>1 DEF LifeInv, JobFits
<1>5. Undisturbed(p)' => Follows(p)'
  <2>1. Undisturbed(p)' => Strayed(found[p], host)
    BY <1>1, <1>3 DEF Follows, Strayed
  <2>2. Strayed(found[p], host)' <=> Strayed(found[p], host)
    BY <1>2 DEF Strayed, Still
  <2> QED
    BY <1>1, <1>2, <1>3, <1>4, <2>1, <2>2 DEF Follows, Installs, Switches, Still
<1> QED
  BY <1>1, <1>2, <1>4, <1>5, StillOwn

LEMMA RecoverUnitsOwn ==
  ASSUME LifeInv, NEW p \in Procs, RecoverUnits(p)
  PROVE  Own(p)
<1>1. /\ pc[p] = "startUnits" /\ Quietly /\ Keeps /\ UNCHANGED job
      /\ result' = [result EXCEPT ![p] = IF @ = "unrecovered" THEN @ ELSE "failed"]
  BY DEF RecoverUnits
<1>2. /\ pc' = [q \in Procs |-> pc'[q]] /\ pc'[p] = "done"
      /\ \A q \in Procs \ {p} : pc'[q] = pc[q] \/ pc'[q] = "dead"
  BY GotoIs DEF RecoverUnits, LifeInv
<1>3. Still(p)
  BY <1>1, <1>2 DEF Still, Quietly, Keeps, LifeInv, LifeTypes
<1>4. Undisturbed(p)' => Follows(p)
  BY <1>3, StillKeeps
<1>5. Undisturbed(p)' => Follows(p)' /\ LeftAsFound(p, found[p], host)
  BY <1>1, <1>2, <1>4 DEF Follows, Installs, Switches
<1> QED
  BY <1>1, <1>2, <1>3, <1>5, StillOwn

-----------------------------------------------------------------------------
(* Steps that change the host or what the command has recorded. *)
Moves(p, h, where) ==
  /\ Change(p, h) /\ kind' = kind /\ found' = found
  /\ \A q \in Procs : q \in unrestored => q \in unrestored'
  /\ job' = [q \in Procs |-> job'[q]] /\ \A q \in Procs \ {p} : job'[q] = job[q]
  /\ pc' = [q \in Procs |-> pc'[q]] /\ pc'[p] = where
  /\ \A q \in Procs \ {p} : pc'[q] = pc[q]
  /\ result' = [q \in Procs |-> result'[q]]

LEMMA MovesKeep ==
  ASSUME LifeInv, NEW p \in Procs, NEW h, NEW where, Moves(p, h, where)
  PROVE  /\ host' = h /\ found' = found /\ kind' = kind
         /\ Undisturbed(p)' => Undisturbed(p) /\ Follows(p)
         /\ ActsAlone(p)
<1>1. /\ host' = h /\ found' = found /\ kind' = kind
      /\ \A q \in Procs \ {p} : /\ q \in disturbed => q \in disturbed'
                                /\ host' = host \/ q \in disturbed' \/ ~Busy(q)
      /\ p \in disturbed => p \in disturbed'
      /\ \A q \in Procs : q \in unrestored => q \in unrestored'
      /\ \A q \in Procs \ {p} : job'[q] = job[q] /\ pc'[q] = pc[q]
  BY ChangeIs DEF Moves
<1>2. Undisturbed(p)' => Undisturbed(p) /\ Follows(p)
  BY <1>1 DEF LifeInv, Undisturbed
<1>3. ActsAlone(p)
  BY <1>1 DEF ActsAlone
<1> QED
  BY <1>1, <1>2, <1>3

LEMMA MovesOwn ==
  ASSUME LifeInv, NEW p \in Procs, NEW h \in Hosts, NEW where, Moves(p, h, where),
         JobOK(job'[p]), where # "idle",
         job'[p].touched => where \in {"obtain", "recover", "startUnits", "done", "dead"},
         where = "obtain" => job'[p].touched,
         where \notin {"publish", "services", "obtain", "recover", "startUnits"}
           \/ job'[p].backup \in Hosts,
         Undisturbed(p)' => Follows(p)',
         where = "done" /\ result'[p] # "ok" /\ Undisturbed(p)' => LeftAsFound(p, found[p], h)
  PROVE  Own(p)
<1>1. host' = h /\ found' = found /\ ActsAlone(p)
  BY MovesKeep
<1>2. \A q \in Procs : JobOK(job[q])' = JobOK(job'[q])
  BY DEF JobOK
<1>3. \A q \in Procs : JobOK(job[q])'
  <2>1. \A q \in Procs \ {p} : job'[q] = job[q] /\ JobOK(job[q])
    BY DEF Moves, LifeInv, LifeTypes
  <2>2. \A q \in Procs : JobOK(job'[q])
    BY <2>1
  <2> QED
    BY <2>2 DEF JobOK
<1>4. LifeTypes'
  BY <1>1, <1>3 DEF LifeInv, LifeTypes, Moves
<1>5. JobFits(p)'
  BY DEF JobFits, Moves
<1>6. FailsClean(p)
  BY <1>1 DEF FailsClean, Reports, Moves
<1> QED
  BY <1>1, <1>4, <1>5, <1>6 DEF Own

(* The ways the actions are written. *)
LEMMA MovesHow ==
  ASSUME LifeInv, NEW p \in Procs, NEW h, NEW where,
         Change(p, h), kind' = kind, found' = found,
         UNCHANGED unrestored \/ unrestored' = unrestored \cup {p},
         UNCHANGED job \/ (job' = [q \in Procs |-> job'[q]] /\ \A q \in Procs \ {p} : job'[q] = job[q]),
         \/ Goto(p, where) /\ NoReport
         \/ where = "done" /\ \E how : Report(p, how)
  PROVE  Moves(p, h, where)
<1>1. /\ pc' = [q \in Procs |-> pc'[q]] /\ pc'[p] = where
      /\ \A q \in Procs \ {p} : pc'[q] = pc[q]
      /\ result' = [q \in Procs |-> result'[q]]
  <2>1. CASE Goto(p, where) /\ NoReport
    BY <2>1, GotoIs DEF NoReport, LifeInv, LifeTypes
  <2>2. CASE where = "done" /\ \E how : Report(p, how)
    BY <2>2, ReportIs DEF LifeInv
  <2> QED
    BY <2>1, <2>2
<1>2. job' = [q \in Procs |-> job'[q]] /\ \A q \in Procs \ {p} : job'[q] = job[q]
  BY DEF LifeInv, LifeTypes
<1> QED
  BY <1>1, <1>2 DEF Moves

LEMMA QuietChange ==
  ASSUME NEW p, Quietly
  PROVE  Change(p, host)
  BY DEF Quietly, Change

(* What is listed, and the archive of it. *)
LEMMA ListConflictsOwn ==
  ASSUME LifeInv, NEW p \in Procs, ListConflicts(p)
  PROVE  Own(p)
<1>1. PICK w \in {"archived", "listed"} :
        /\ Goto(p, w) /\ NoReport /\ Quietly /\ Keeps /\ pc[p] = "list"
        /\ Set(p, "listed", Present(host))
        /\ w = "archived" <=> Vacant(host)
  BY DEF ListConflicts
<1>2. /\ job' = [q \in Procs |-> job'[q]] /\ \A q \in Procs \ {p} : job'[q] = job[q]
      /\ job'[p] = [committed |-> job[p].committed, pre |-> job[p].pre,
                    listed |-> Present(host), backup |-> job[p].backup,
                    touched |-> job[p].touched, waits |-> job[p].waits]
  BY <1>1, FieldSet DEF LifeInv
<1>3. Moves(p, host, w)
  BY <1>1, <1>2, MovesHow, QuietChange DEF Keeps
<1>4. host' = host /\ found' = found /\ kind' = kind /\ (Undisturbed(p)' => Undisturbed(p) /\ Follows(p))
  BY <1>3, MovesKeep
<1>5. /\ job'[p].committed = job[p].committed /\ job'[p].pre = job[p].pre
      /\ job'[p].listed = Present(host) /\ job'[p].backup = job[p].backup
      /\ job'[p].touched = job[p].touched /\ job'[p].waits = job[p].waits
  BY <1>2
<1>6. JobOK(job'[p])
  <2>1. Present(host) \subseteq Parts /\ job[p].backup \in Archives
    BY JobIs DEF Present, LifeInv
  <2> QED
    BY <1>2, <1>5, <2>1 DEF JobOK
<1>7. ~job[p].touched /\ host \in Hosts
  BY <1>1 DEF LifeInv, JobFits, LifeTypes
<1>8. ASSUME Undisturbed(p)' PROVE Follows(p)'
  <2>1. host = found[p] /\ job[p].backup = NoBackup
    BY <1>1, <1>4, <1>8 DEF Follows
  <2>2. CASE w = "archived"
    <3>1. Present(host) = {} /\ host.enabled = {} /\ host.active \subseteq UnitsIn(Present(host)) \cup host.enabled
      BY <1>1, <1>4, <1>8, <2>1, <2>2 DEF Undisturbed, Orderly, Vacant
    <3>2. host = Bare
      BY <1>7, <3>1, BareIs DEF UnitsIn
    <3>3. Restorable(p)'
      BY <1>4, <1>5, <2>1, <3>2 DEF Restorable
    <3> QED
      BY <1>3, <1>4, <2>2, <3>2, <3>3 DEF Follows, Installs, Switches, Moves
  <2>3. CASE w = "listed"
    <3>1. Present(host)' = Present(host) /\ Vacant(host)' = Vacant(host)
      BY <1>4 DEF Present, Vacant
    <3> QED
      BY <1>1, <1>3, <1>4, <1>5, <2>1, <2>3, <3>1 DEF Follows, Installs, Switches, Moves
  <2> QED
    BY <1>1, <2>2, <2>3
<1> QED
  BY <1>1, <1>3, <1>5, <1>6, <1>7, <1>8, MovesOwn

LEMMA SampleOwn ==
  ASSUME LifeInv, NEW p \in Procs, Sample(p)
  PROVE  Own(p)
<1> DEFINE pre == (IF host.file["config"] # None THEN {"config"} ELSE {})
                    \cup (IF Present(host) \cap DataParts # {} THEN {"data"} ELSE {})
<1>1. /\ Goto(p, "download") /\ NoReport /\ Quietly /\ Keeps /\ pc[p] = "preflighted"
      /\ Set(p, "pre", pre)
  BY DEF Sample
<1>2. /\ job' = [q \in Procs |-> job'[q]] /\ \A q \in Procs \ {p} : job'[q] = job[q]
      /\ job'[p] = [committed |-> job[p].committed, pre |-> pre,
                    listed |-> job[p].listed, backup |-> job[p].backup,
                    touched |-> job[p].touched, waits |-> job[p].waits]
  BY ZenonT(40), <1>1, FieldSet DEF LifeInv
<1>3. Moves(p, host, "download")
  BY <1>1, <1>2, MovesHow, QuietChange DEF Keeps
<1>4. host' = host /\ found' = found /\ kind' = kind /\ (Undisturbed(p)' => Undisturbed(p) /\ Follows(p))
  BY <1>3, MovesKeep
<1>5. host = Bare => pre = {}
  BY BareIs, PartsOf DEF Present
<1> HIDE DEF pre
<1>6. /\ job'[p].committed = job[p].committed /\ job'[p].pre = pre
      /\ job'[p].listed = job[p].listed /\ job'[p].backup = job[p].backup
      /\ job'[p].touched = job[p].touched /\ job'[p].waits = job[p].waits
  BY <1>2
<1>7. JobOK(job'[p])
  BY <1>2, <1>6, JobIs DEF JobOK, LifeInv
<1>8. ~job[p].touched /\ host \in Hosts
  BY <1>1 DEF LifeInv, JobFits, LifeTypes
<1>9. ASSUME Undisturbed(p)' PROVE Follows(p)'
  <2>1. host = Bare /\ Restorable(p)
    BY <1>1, <1>4, <1>9 DEF Follows
  <2>2. Restorable(p)'
    BY <1>4, <1>6, <2>1 DEF Restorable
  <2> QED
    BY <1>3, <1>4, <1>5, <1>6, <2>1, <2>2 DEF Follows, Installs, Switches, Moves
<1> QED
  BY <1>3, <1>6, <1>7, <1>8, <1>9, MovesOwn

(* An archive of all of an orderly host leaves a bare one and unpacks to   *)
(* what was there. *)
LEMMA ArchiveIs ==
  ASSUME NEW h \in Hosts, Orderly(h), ~Vacant(h)
  PROVE  LET units == UnitsIn(Present(h)) \cup h.enabled
             was == [file |-> [part \in Present(h) |-> h.file[part]],
                     active |-> h.active \cap units, enabled |-> h.enabled]
         IN  /\ was # NoBackup /\ Unpacked(Bare, was) = h
             /\ Put(Disable(h, units), Present(h), None) = Bare
<1> DEFINE units == UnitsIn(Present(h)) \cup h.enabled
           was == [file |-> [part \in Present(h) |-> h.file[part]],
                   active |-> h.active \cap units, enabled |-> h.enabled]
<1>1. /\ h = [file |-> h.file, active |-> h.active, enabled |-> h.enabled]
      /\ h.file \in [Parts -> Values] /\ h.active \subseteq units /\ Present(h) \subseteq Parts
  BY HostFields DEF Orderly, Present
<1>2. was # NoBackup
  <2>1. was = NoBackup => was.file = <<>> /\ was.enabled = {}
    BY DEF NoBackup
  <2>2. was.file = [part \in Present(h) |-> h.file[part]] /\ was.enabled = h.enabled
    OBVIOUS
  <2>3. DOMAIN [part \in Present(h) |-> h.file[part]] = Present(h) /\ DOMAIN <<>> = {}
    OBVIOUS
  <2> QED
    BY <2>1, <2>2, <2>3 DEF Vacant
<1>3. Unpacked(Bare, was) = h
  <2>1. /\ was.file = [part \in Present(h) |-> h.file[part]] /\ was.active = h.active \cap units
        /\ was.enabled = h.enabled
    OBVIOUS
  <2> HIDE DEF was
  <2>2. [part \in Parts |-> IF part \in DOMAIN was.file THEN was.file[part] ELSE Bare.file[part]] = h.file
    <3>1. \A part \in Parts : (IF part \in DOMAIN was.file THEN was.file[part] ELSE Bare.file[part]) = h.file[part]
      BY <2>1, BareIs DEF Present
    <3> QED
      BY <1>1, <3>1
  <2>3. Bare.active \cup was.active = h.active /\ Bare.enabled \cup was.enabled = h.enabled
    BY <1>1, <2>1, BareIs
  <2> QED
    BY <1>1, <2>2, <2>3 DEF Unpacked
<1>4. Put(Disable(h, units), Present(h), None) = Bare
  <2> DEFINE g == Disable(h, units)
  <2>1. g \in Hosts /\ g.file = h.file /\ g.active = {} /\ g.enabled = {}
    BY <1>1, RunIs
  <2> HIDE DEF g
  <2>2. None \in Values
    BY ValuesOf
  <2>3. /\ Put(g, Present(h), None) \in Hosts
        /\ Put(g, Present(h), None).active = {} /\ Put(g, Present(h), None).enabled = {}
        /\ Put(g, Present(h), None).file = [part \in Parts |-> IF part \in Present(h) THEN None ELSE g.file[part]]
    BY <2>1, <2>2, PutIs
  <2>4. Present(Put(g, Present(h), None)) = {}
    <3>1. \A part \in Parts \ Present(h) : h.file[part] = None
      BY DEF Present
    <3>2. \A part \in Parts : Put(g, Present(h), None).file[part] = None
      BY <2>1, <2>3, <3>1
    <3> QED
      BY <3>2 DEF Present
  <2> QED
    BY <2>3, <2>4, BareIs DEF g
<1> QED
  BY <1>2, <1>3, <1>4

LEMMA ArchiveOwn ==
  ASSUME LifeInv, NEW p \in Procs, Archive(p)
  PROVE  Own(p)
<1> DEFINE listed == job[p].listed
           units == UnitsIn(listed) \cup host.enabled
           was == [file |-> [part \in listed |-> host.file[part]],
                   active |-> host.active \cap units, enabled |-> host.enabled]
           cleared == Put(Disable(host, units), listed, None)
<1>1. pc[p] = "listed" /\ Keeps
  BY DEF Archive
<1>2. host \in Hosts /\ listed \subseteq Parts /\ ~job[p].touched
  BY <1>1, JobIs DEF LifeInv, LifeTypes, JobFits
<1>3. CASE listed \subseteq Present(host)
  <2>1. /\ Set(p, "backup", was) /\ Change(p, cleared) /\ Goto(p, "archived") /\ NoReport
    BY <1>3 DEF Archive
  <2>2. was \in Archives /\ cleared \in Hosts
    <3>1. [part \in listed |-> host.file[part]] \in [listed -> Values]
      BY <1>2, HostFields
    <3>2. host.active \cap units \in SUBSET Units /\ host.enabled \in SUBSET Units
      BY <1>2, HostFields
    <3>3. Disable(host, units) \in Hosts /\ None \in Values
      BY <1>2, RunIs, ValuesOf
    <3>4. cleared \in Hosts
      BY <3>3, PutIs
    <3> QED
      BY <1>2, <3>1, <3>2, <3>4 DEF Archives
  <2>3. /\ job' = [q \in Procs |-> job'[q]] /\ \A q \in Procs \ {p} : job'[q] = job[q]
        /\ job'[p] = [committed |-> job[p].committed, pre |-> job[p].pre,
                      listed |-> job[p].listed, backup |-> was,
                      touched |-> job[p].touched, waits |-> job[p].waits]
    BY <2>1, FieldSet DEF LifeInv
  <2>4. Undisturbed(p) /\ Follows(p) =>
          was # NoBackup /\ Unpacked(Bare, was) = found[p] /\ cleared = Bare
    <3>1. Undisturbed(p) /\ Follows(p) =>
            host = found[p] /\ listed = Present(host) /\ ~Vacant(host) /\ Orderly(host)
      BY <1>1 DEF Follows, Undisturbed
    <3> QED
      BY <1>2, <3>1, ArchiveIs
  <2> HIDE DEF was, cleared
  <2>5. Moves(p, cleared, "archived")
    BY <1>1, <2>1, <2>3, MovesHow DEF Keeps
  <2>6. host' = cleared /\ found' = found /\ kind' = kind
        /\ (Undisturbed(p)' => Undisturbed(p) /\ Follows(p))
    BY <2>5, MovesKeep
  <2>7. /\ job'[p].committed = job[p].committed /\ job'[p].pre = job[p].pre
        /\ job'[p].listed = job[p].listed /\ job'[p].backup = was
        /\ job'[p].touched = job[p].touched /\ job'[p].waits = job[p].waits
    BY <2>3
  <2>8. JobOK(job'[p])
    BY <1>2, <2>2, <2>3, <2>7 DEF JobOK
  <2>9. ASSUME Undisturbed(p)' PROVE Follows(p)'
    <3>1. was # NoBackup /\ Unpacked(Bare, was) = found[p] /\ cleared = Bare
      BY <2>4, <2>6, <2>9
    <3>2. Restorable(p)'
      BY <2>6, <2>7, <3>1 DEF Restorable
    <3> QED
      BY <2>5, <2>6, <3>1, <3>2 DEF Follows, Installs, Switches, Moves
  <2> QED
    BY <1>2, <2>2, <2>5, <2>7, <2>8, <2>9, MovesOwn
<1>4. CASE ~(listed \subseteq Present(host))
  <2>1. Report(p, "failed") /\ Quietly /\ UNCHANGED job
    BY <1>4 DEF Archive
  <2>2. Still(p) /\ pc'[p] = "done"
    BY <1>1, <2>1, StillWhere
  <2>3. Undisturbed(p)' => Follows(p)
    BY <2>2, StillKeeps
  <2>4. Undisturbed(p)' => Follows(p)' /\ host = found[p]
    BY <1>1, <2>2, <2>3 DEF Follows, Installs, Switches
  <2> QED
    BY <1>1, <1>2, <2>2, <2>4, SameLeft, StillOwn
<1> QED
  BY <1>3, <1>4

(* The steps of an install. *)
LEMMA StepNames ==
  /\ DOMAIN InstallSteps = 1..8 /\ ToSet(InstallSteps) = Installs
  /\ \A i \in 1..8 : InstallSteps[i] \in Installs
  /\ \A i \in 1..8 : InstallSteps[i] # "mark" =>
        InstallSteps[i + 1] \in Installs \ {"generate"}
  /\ \A i \in 1..8 : InstallSteps[i] = "generate" => InstallSteps[i + 1] = "initialize"
<1>1. DOMAIN InstallSteps = 1..8
  BY DEF InstallSteps
<1>2. \A i \in 1..8 : i = 1 \/ i = 2 \/ i = 3 \/ i = 4 \/ i = 5 \/ i = 6 \/ i = 7 \/ i = 8
  OBVIOUS
<1>3. /\ InstallSteps[1] = "generate" /\ InstallSteps[2] = "initialize" /\ InstallSteps[3] = "kernel"
      /\ InstallSteps[4] = "state" /\ InstallSteps[5] = "units" /\ InstallSteps[6] = "start"
      /\ InstallSteps[7] = "health" /\ InstallSteps[8] = "mark"
  BY DEF InstallSteps
<1>4. \A i \in 1..8 : InstallSteps[i] \in Installs
  BY <1>2, <1>3 DEF Installs
<1>5. \A i \in 1..8 : InstallSteps[i] # "mark" => InstallSteps[i + 1] \in Installs \ {"generate"}
  BY <1>2, <1>3 DEF Installs
<1>6. \A i \in 1..8 : InstallSteps[i] = "generate" => InstallSteps[i + 1] = "initialize"
  BY <1>2, <1>3
<1>7. ToSet(InstallSteps) = Installs
  <2>1. \A s \in Installs : \E i \in 1..8 : InstallSteps[i] = s
    BY <1>3 DEF Installs
  <2> QED
    BY <1>1, <1>4, <2>1 DEF ToSet
<1> QED
  BY <1>1, <1>4, <1>5, <1>6, <1>7

(* The configuration is written by one step, as its last file. *)
LEMMA NotAmong ==
  ASSUME NEW S, NEW s \in Seq(S), NEW x, x \notin S
  PROVE  /\ x \notin ToSet(s)
         /\ \A n \in 0..Len(s) : x \notin ToSet(SubSeq(s, 1, n))
<1>1. x \notin ToSet(s)
  BY DEF ToSet
<1>2. ASSUME NEW n \in 0..Len(s) PROVE x \notin ToSet(SubSeq(s, 1, n))
  <2>1. SubSeq(s, 1, n) = [k \in 1..n |-> s[k]]
    OBVIOUS
  <2>2. \A k \in 1..n : s[k] \in S
    OBVIOUS
  <2> QED
    BY <2>1, <2>2 DEF ToSet
<1> QED
  BY <1>1, <1>2

LEMMA WritesConfig ==
  ASSUME NEW p, NEW step
  PROVE  /\ step # "initialize" => "config" \notin ToSet(Writes(p, step))
         /\ \A n \in 0..Len(Writes(p, step)) :
              n = 0 \/ n < Len(Writes(p, step)) =>
                "config" \notin ToSet(SubSeq(Writes(p, step), 1, n))
<1> DEFINE Rests == Parts \ {"config"}
<1>1. "config" \notin Rests
  OBVIOUS
<1>2. /\ <<>> \in Seq(Rests) /\ <<"certs">> \in Seq(Rests) /\ <<"kernel">> \in Seq(Rests)
      /\ <<"state">> \in Seq(Rests) /\ <<"marker">> \in Seq(Rests) /\ <<"artifacts">> \in Seq(Rests)
      /\ <<"active", "units">> \in Seq(Rests) /\ <<"socket", "hook">> \in Seq(Rests)
  BY PartsOf
<1> HIDE DEF Rests
<1>3. <<"active", "units">> \o <<"socket", "hook">> \in Seq(Rests) /\ <<"active", "units">> \o <<>> \in Seq(Rests)
  BY <1>2, ConcatProperties
<1>4. ASSUME step # "initialize" PROVE Writes(p, step) \in Seq(Rests)
  BY <1>2, <1>3, <1>4 DEF Writes
<1>5. CASE step # "initialize"
  BY <1>1, <1>4, <1>5, NotAmong
<1>6. CASE step = "initialize"
  <2>1. Writes(p, step) = <<"artifacts", "config">> /\ Len(<<"artifacts", "config">>) = 2
    BY <1>6 DEF Writes
  <2>2. ASSUME NEW n \in 0..1 PROVE "config" \notin ToSet(SubSeq(<<"artifacts", "config">>, 1, n))
    <3>1. SubSeq(<<"artifacts", "config">>, 1, n) = [k \in 1..n |-> <<"artifacts", "config">>[k]]
      OBVIOUS
    <3>2. \A k \in 1..n : k = 1
      OBVIOUS
    <3> QED
      BY <3>1, <3>2 DEF ToSet
  <2>3. \A n \in 0..2 : n = 0 \/ n < 2 => n \in 0..1
    OBVIOUS
  <2> QED
    BY <1>6, <2>1, <2>2, <2>3
<1> QED
  BY <1>5, <1>6

LEMMA InstallStepOwn ==
  ASSUME LifeInv, NEW p \in Procs, InstallStep(p)
  PROVE  Own(p)
<1>1. PICK i \in 1..8 :
        LET step == InstallSteps[i]
            starts == Starting(p, step)
        IN /\ pc[p] = step
           /\ Change(p, Enable(Run(Put(host, ToSet(Writes(p, step)), p), starts), starts))
           /\ job' = [job EXCEPT ![p].committed = @ \/ step = "initialize"]
           /\ IF step = "mark" THEN Report(p, "ok") /\ LetGo(p)
              ELSE Goto(p, InstallSteps[i + 1]) /\ NoReport /\ Unlocked
           /\ Keeps /\ NoCost
  BY StepNames DEF InstallStep
<1> DEFINE step == InstallSteps[i]
           starts == Starting(p, step)
           put == Put(host, ToSet(Writes(p, step)), p)
           h == Enable(Run(put, starts), starts)
<1>2. pc[p] = step /\ step \in Installs /\ Keeps /\ Change(p, h)
      /\ job' = [job EXCEPT ![p].committed = @ \/ step = "initialize"]
  BY <1>1, StepNames
<1>3. starts \subseteq Units
  BY UnitSets DEF Starting
<1>4. host \in Hosts
  BY DEF LifeInv, LifeTypes
<1> HIDE DEF starts
<1>5. h \in Hosts /\ h.file = [part \in Parts |-> IF part \in ToSet(Writes(p, step)) THEN p ELSE host.file[part]]
  <2>1. p \in Values
    BY ValuesOf
  <2>2. put \in Hosts /\ put.file = [part \in Parts |-> IF part \in ToSet(Writes(p, step)) THEN p ELSE host.file[part]]
    BY <1>4, <2>1, PutIs
  <2> HIDE DEF put
  <2>3. Run(put, starts) \in Hosts /\ Run(put, starts).file = put.file
    BY <1>3, <2>2, RunIs
  <2> DEFINE r == Run(put, starts)
  <2> HIDE DEF r
  <2>4. Enable(r, starts) \in Hosts /\ Enable(r, starts).file = r.file
    BY <1>3, <2>3, RunIs DEF r
  <2> QED
    BY <2>2, <2>3, <2>4 DEF r
<1> HIDE DEF h, put
<1>6. PICK where \in (Installs \ {"generate"}) \cup {"done"} :
        /\ \/ Goto(p, where) /\ NoReport /\ where # "done"
           \/ where = "done" /\ Report(p, "ok")
        /\ step = "generate" => where = "initialize"
  <2>1. CASE step = "mark"
    BY <1>1, <2>1
  <2>2. CASE step # "mark"
    <3>1. InstallSteps[i + 1] \in Installs \ {"generate"} /\ (step = "generate" => InstallSteps[i + 1] = "initialize")
      BY <2>2, StepNames
    <3>2. Goto(p, InstallSteps[i + 1]) /\ NoReport
      BY <1>1, <2>2
    <3> DEFINE next == InstallSteps[i + 1]
    <3> HIDE DEF next, step
    <3>3. Goto(p, next) /\ NoReport /\ next \in Installs \ {"generate"} /\ next # "done"
          /\ (step = "generate" => next = "initialize")
      BY <3>1, <3>2 DEF next, Installs
    <3> QED
      BY <3>3
  <2> QED
    BY <2>1, <2>2
<1>7. /\ job' = [q \in Procs |-> job'[q]] /\ \A q \in Procs \ {p} : job'[q] = job[q]
      /\ job'[p] = [committed |-> job[p].committed \/ step = "initialize", pre |-> job[p].pre,
                    listed |-> job[p].listed, backup |-> job[p].backup,
                    touched |-> job[p].touched, waits |-> job[p].waits]
  <2>1. /\ job = [q \in Procs |-> job[q]]
        /\ job[p] = [committed |-> job[p].committed, pre |-> job[p].pre,
                     listed |-> job[p].listed, backup |-> job[p].backup,
                     touched |-> job[p].touched, waits |-> job[p].waits]
    BY JobIs DEF LifeInv
  <2> HIDE DEF step
  <2> QED
    BY <1>2, <2>1
<1>8. Moves(p, h, where)
  BY <1>2, <1>6, <1>7, MovesHow DEF Keeps
<1>9. host' = h /\ found' = found /\ kind' = kind /\ (Undisturbed(p)' => Undisturbed(p) /\ Follows(p))
  BY <1>8, MovesKeep
<1>10. /\ job'[p].committed = (job[p].committed \/ step = "initialize") /\ job'[p].pre = job[p].pre
       /\ job'[p].listed = job[p].listed /\ job'[p].backup = job[p].backup
       /\ job'[p].touched = job[p].touched /\ job'[p].waits = job[p].waits
  BY <1>7
<1>11. JobOK(job'[p])
  BY <1>7, <1>10, JobIs DEF JobOK, LifeInv
<1>12. ~job[p].touched
  BY <1>2 DEF LifeInv, JobFits, Installs
<1>13. ASSUME Undisturbed(p)' PROVE Follows(p)'
  <2>1. Restorable(p) /\ job[p].pre = {} /\ (job[p].committed \/ host.file["config"] = None)
    BY <1>2, <1>9, <1>13 DEF Follows
  <2>2. Restorable(p)'
    BY <1>9, <1>10, <2>1 DEF Restorable
  <2>3. job'[p].committed \/ h.file["config"] = None
    <3>1. step # "initialize" => h.file["config"] = host.file["config"]
      BY <1>5, WritesConfig, PartsOf
    <3> QED
      BY <1>10, <2>1, <3>1
  <2>4. pc'[p] = where
    BY <1>8 DEF Moves
  <2>5. CASE where = "done"
    BY <2>4, <2>5 DEF Follows, Installs, Switches
  <2>6. CASE where \in Installs
    BY <1>9, <1>10, <2>1, <2>2, <2>3, <2>4, <2>6 DEF Follows, Installs, Switches
  <2> QED
    BY <2>5, <2>6
<1>14. where = "done" => result'[p] = "ok"
  <2>1. where = "done" => Report(p, "ok")
    BY <1>6
  <2> QED
    BY <2>1, ReportIs DEF LifeInv
<1> QED
  BY <1>5, <1>8, <1>10, <1>11, <1>12, <1>13, <1>14, MovesOwn DEF Installs

LEMMA InstallStepFailsOwn ==
  ASSUME LifeInv, NEW p \in Procs, InstallStepFails(p)
  PROVE  Own(p)
<1> DEFINE step == pc[p]
<1>1. step \in Installs /\ Goto(p, "failing") /\ NoReport /\ Keeps /\ UNCHANGED job
  BY StepNames DEF InstallStepFails
<1>2. PICK n \in 0..Len(Writes(p, step)), up \in SUBSET Starting(p, step) :
        /\ n = 0 \/ n < Len(Writes(p, step))
        /\ Change(p, Enable(Run(Put(host, ToSet(SubSeq(Writes(p, step), 1, n)), p), up),
                            Starting(p, step)))
  BY DEF InstallStepFails
<1> DEFINE parts == ToSet(SubSeq(Writes(p, step), 1, n))
           starts == Starting(p, step)
           put == Put(host, parts, p)
           r == Run(put, up)
           h == Enable(r, starts)
<1>3. starts \subseteq Units /\ up \subseteq Units
  BY UnitSets DEF Starting
<1>4. host \in Hosts /\ "config" \notin parts
  BY <1>2, WritesConfig DEF LifeInv, LifeTypes
<1>5. Change(p, h)
  BY <1>2
<1> HIDE DEF starts, parts
<1>6. h \in Hosts /\ h.file["config"] = host.file["config"]
  <2>1. p \in Values
    BY ValuesOf
  <2>2. put \in Hosts /\ put.file["config"] = host.file["config"]
    <3>1. /\ put \in Hosts
          /\ put.file = [part \in Parts |-> IF part \in parts THEN p ELSE host.file[part]]
      BY <1>4, <2>1, PutIs
    <3>2. "config" \in Parts
      BY PartsOf
    <3> QED
      BY <1>4, <3>1, <3>2
  <2> HIDE DEF put
  <2>3. r \in Hosts /\ r.file = put.file
    BY <1>3, <2>2, RunIs
  <2> HIDE DEF r
  <2>4. h \in Hosts /\ h.file = r.file
    BY <1>3, <2>3, RunIs
  <2> QED
    BY <2>2, <2>3, <2>4
<1> HIDE DEF h
<1>7. Moves(p, h, "failing")
  BY <1>1, <1>5, MovesHow DEF Keeps
<1>8. host' = h /\ found' = found /\ kind' = kind /\ (Undisturbed(p)' => Undisturbed(p) /\ Follows(p))
  BY <1>7, MovesKeep
<1>9. ~job[p].touched /\ JobOK(job[p])
  BY <1>1, JobIs DEF LifeInv, JobFits, Installs
<1>10. ASSUME Undisturbed(p)' PROVE Follows(p)'
  <2>1. Restorable(p) /\ job[p].pre = {} /\ (job[p].committed \/ host.file["config"] = None)
    BY <1>1, <1>8, <1>10 DEF Follows
  <2>2. Restorable(p)'
    BY <1>1, <1>8, <2>1 DEF Restorable
  <2> QED
    BY <1>1, <1>6, <1>7, <1>8, <2>1, <2>2 DEF Follows, Installs, Switches, Moves
<1> QED
  BY <1>1, <1>6, <1>7, <1>9, <1>10, MovesOwn

(* Rolling back leaves a bare host. *)
LEMMA RollBackOwn ==
  ASSUME LifeInv, NEW p \in Procs, RollBack(p)
  PROVE  Own(p)
<1>1. /\ Goto(p, "restoring") /\ NoReport /\ Keeps /\ UNCHANGED job /\ pc[p] = "rollback"
  BY DEF RollBack
<1>2. host \in Hosts /\ ~job[p].touched /\ JobOK(job[p])
  BY <1>1, JobIs DEF LifeInv, LifeTypes, JobFits
<1>3. PICK h \in Hosts :
        /\ Change(p, h)
        /\ ~SomebodyElses(p) => h = RolledBack(host, job[p].pre)
  <2>1. CASE SomebodyElses(p)
    BY <1>2, <2>1, QuietChange DEF RollBack
  <2>2. CASE ~SomebodyElses(p)
    BY <1>2, <2>2, RolledBackIs DEF RollBack
  <2> QED
    BY <2>1, <2>2
<1>4. Moves(p, h, "restoring")
  BY <1>1, <1>3, MovesHow DEF Keeps
<1>5. host' = h /\ found' = found /\ kind' = kind /\ (Undisturbed(p)' => Undisturbed(p) /\ Follows(p))
  BY <1>4, MovesKeep
<1>6. ASSUME Undisturbed(p)' PROVE Follows(p)'
  <2>1. Restorable(p) /\ job[p].pre = {} /\ (job[p].committed \/ host.file["config"] = None)
    BY <1>1, <1>5, <1>6 DEF Follows
  <2>2. h = Bare
    BY <1>2, <1>3, <2>1, RolledBackIs DEF SomebodyElses
  <2>3. Restorable(p)'
    BY <1>1, <1>5, <2>1 DEF Restorable
  <2> QED
    BY <1>4, <1>5, <2>2, <2>3 DEF Follows, Installs, Switches, Moves
<1> QED
  BY <1>1, <1>2, <1>3, <1>4, <1>6, MovesOwn

LEMMA RollBackLeavesUnitsOwn ==
  ASSUME LifeInv, NEW p \in Procs, RollBackLeavesUnits(p)
  PROVE  Own(p)
<1> DEFINE h == [RolledBack(host, job[p].pre) EXCEPT !.active = host.active, !.enabled = host.enabled]
<1>1. /\ Goto(p, "restoring") /\ NoReport /\ UNCHANGED <<kind, found, job>> /\ pc[p] = "rollback"
      /\ Change(p, h) /\ unrestored' = unrestored \cup {p}
  BY DEF RollBackLeavesUnits
<1>2. h \in Hosts
  BY RolledBackIs DEF LifeInv, LifeTypes
<1> HIDE DEF h
<1>3. Moves(p, h, "restoring")
  BY <1>1, MovesHow
<1>4. ~Undisturbed(p)' /\ ~job[p].touched /\ JobOK(job[p])
  BY <1>1, JobIs DEF Undisturbed, LifeInv, JobFits
<1> QED
  BY <1>1, <1>2, <1>3, <1>4, MovesOwn

LEMMA RestoreReplacedOwn ==
  ASSUME LifeInv, NEW p \in Procs, RestoreReplaced(p)
  PROVE  Own(p)
<1>1. /\ Report(p, "failed") /\ Keeps /\ UNCHANGED job /\ pc[p] = "restoring"
  BY DEF RestoreReplaced
<1>2. host \in Hosts /\ ~job[p].touched /\ JobOK(job[p]) /\ job[p].backup \in Archives
  BY <1>1, JobIs DEF LifeInv, LifeTypes, JobFits
<1>3. PICK h \in Hosts :
        /\ Change(p, h)
        /\ h = IF job[p].backup = NoBackup THEN host ELSE Unpacked(host, job[p].backup)
  <2>1. Unpacked(host, job[p].backup) \in Hosts
    BY <1>2, UnpackedIs
  <2>2. CASE job[p].backup = NoBackup
    BY <1>2, <2>2, QuietChange DEF RestoreReplaced
  <2>3. CASE job[p].backup # NoBackup
    BY <2>1, <2>3 DEF RestoreReplaced
  <2> QED
    BY <2>2, <2>3
<1>4. Moves(p, h, "done")
  BY <1>1, <1>3, MovesHow DEF Keeps
<1>5. host' = h /\ found' = found /\ (Undisturbed(p)' => Undisturbed(p) /\ Follows(p))
  BY <1>4, MovesKeep
<1>6. Undisturbed(p)' => h = found[p]
  <2>1. Undisturbed(p)' => host = Bare /\ Restorable(p)
    BY <1>1, <1>5 DEF Follows
  <2> QED
    BY <1>3, <2>1 DEF Restorable
<1>7. Follows(p)'
  BY <1>4 DEF Follows, Installs, Switches, Moves
<1> QED
  BY <1>1, <1>2, <1>3, <1>4, <1>6, <1>7, SameLeft, MovesOwn

-----------------------------------------------------------------------------
(* The mode switch. *)
LEMMA EnterModeOwn ==
  ASSUME LifeInv, NEW p \in Procs, EnterMode(p)
  PROVE  Own(p)
<1>1. /\ pc[p] = "waiting" /\ host' = host /\ kind' = kind /\ unrestored' = unrestored /\ job' = job
      /\ found' = [found EXCEPT ![p] = host] /\ disturbed' = disturbed \ {p}
  BY DEF EnterMode
<1>2. /\ pc' = [q \in Procs |-> pc'[q]] /\ pc'[p] \in {"checking", "done"}
      /\ \A q \in Procs \ {p} : pc'[q] = pc[q]
      /\ result' = [q \in Procs |-> result'[q]]
  <2>1. CASE Goto(p, "checking") /\ NoReport
    BY <2>1, GotoIs DEF NoReport, LifeInv, LifeTypes
  <2>2. CASE Report(p, "failed")
    BY <2>2, ReportIs DEF LifeInv
  <2> QED
    BY <2>1, <2>2 DEF EnterMode
<1>3. /\ found' \in [Procs -> Hosts] /\ found'[p] = host
      /\ \A q \in Procs \ {p} : found'[q] = found[q]
  BY <1>1 DEF LifeInv, LifeTypes
<1>4. LifeTypes'
  BY <1>1, <1>2, <1>3 DEF LifeInv, LifeTypes
<1>5. ActsAlone(p)
  BY <1>1, <1>2, <1>3 DEF ActsAlone
<1>6. ~job[p].touched
  BY <1>1 DEF LifeInv, JobFits
<1>7. JobFits(p)'
  BY <1>1, <1>2, <1>6 DEF JobFits
<1>8. Follows(p)'
  <2>1. kind'[p] = "mode"
    BY <1>1 DEF EnterMode
  <2> QED
    BY <1>1, <1>2, <1>3, <2>1 DEF Follows, Installs, Switches
<1>9. FailsClean(p)
  BY <1>1, <1>3, SameLeft DEF FailsClean
<1> QED
  BY <1>4, <1>5, <1>7, <1>8, <1>9 DEF Own

LEMMA CaptureOwn ==
  ASSUME LifeInv, NEW p \in Procs, Capture(p)
  PROVE  Own(p)
<1>1. /\ Goto(p, "publish") /\ NoReport /\ Quietly /\ Keeps /\ pc[p] = "checking"
      /\ job' = [job EXCEPT ![p].backup = host, ![p].waits = Activating # {}]
  BY DEF Capture
<1>2. /\ job = [q \in Procs |-> job[q]] /\ job[p].listed \subseteq Parts
      /\ job[p] = [committed |-> job[p].committed, pre |-> job[p].pre,
                   listed |-> job[p].listed, backup |-> job[p].backup,
                   touched |-> job[p].touched, waits |-> job[p].waits]
  BY JobIs DEF LifeInv
<1> DEFINE w == Activating # {}
<1> HIDE DEF w
<1>3. /\ job' = [q \in Procs |-> job'[q]] /\ \A q \in Procs \ {p} : job'[q] = job[q]
      /\ job'[p] = [committed |-> job[p].committed, pre |-> job[p].pre,
                    listed |-> job[p].listed, backup |-> host,
                    touched |-> job[p].touched, waits |-> w]
  <2> DEFINE once == [job EXCEPT ![p].backup = host]
  <2>1. /\ once = [q \in Procs |-> once[q]] /\ \A q \in Procs \ {p} : once[q] = job[q]
        /\ once[p] = [committed |-> job[p].committed, pre |-> job[p].pre,
                      listed |-> job[p].listed, backup |-> host,
                      touched |-> job[p].touched, waits |-> job[p].waits]
    BY <1>2
  <2>2. job' = [once EXCEPT ![p].waits = w]
    BY <1>1 DEF w
  <2> HIDE DEF once
  <2> QED
    BY <2>1, <2>2
<1>4. /\ job'[p].committed = job[p].committed /\ job'[p].pre = job[p].pre
      /\ job'[p].listed = job[p].listed /\ job'[p].backup = host
      /\ job'[p].touched = job[p].touched /\ job'[p].waits = w
  BY <1>3
<1>5. host \in Hosts /\ host \in Archives /\ ~job[p].touched
  <2>1. host \in Hosts /\ ~job[p].touched
    BY <1>1 DEF LifeInv, LifeTypes, JobFits
  <2>2. /\ host = [file |-> host.file, active |-> host.active, enabled |-> host.enabled]
        /\ host.file \in [Parts -> Values] /\ host.active \subseteq Units /\ host.enabled \subseteq Units
    BY <2>1, HostFields
  <2>3. host.file \in UNION {[parts -> Values] : parts \in SUBSET Parts}
    BY <2>2
  <2> QED
    BY <2>1, <2>2, <2>3 DEF Archives
<1>6. JobOK(job'[p])
  BY <1>2, <1>3, <1>4, <1>5 DEF JobOK
<1>7. Moves(p, host, "publish")
  BY <1>1, <1>3, MovesHow, QuietChange DEF Keeps
<1>8. host' = host /\ found' = found /\ (Undisturbed(p)' => Undisturbed(p) /\ Follows(p))
  BY <1>7, MovesKeep
<1>9. ASSUME Undisturbed(p)' PROVE Follows(p)'
  <2>1. host = found[p] /\ kind[p] = "mode"
    BY <1>1, <1>8, <1>9 DEF Follows, Switches
  <2> QED
    BY <1>4, <1>7, <1>8, <2>1 DEF Follows, Installs, Switches, Moves
<1> QED
  BY <1>4, <1>5, <1>6, <1>7, <1>9, MovesOwn

(* What restart_services makes of the units. *)
LEMMA RestartedHow ==
  ASSUME NEW h \in Hosts, NEW d
  PROVE  LET g == Restarted(h, d)
         IN  /\ g \in Hosts /\ g.file = h.file
             /\ Direct(d) => /\ g.active = h.active \cup {"sing-box", "sbctl", "socket"}
                             /\ g.enabled = h.enabled \cup {"socket"}
             /\ ~Direct(d) =>
                  /\ g.active = (IF h.file["socket"] = None THEN h.active ELSE h.active \ {"socket"})
                                  \cup {"sing-box", "sbctl"}
                  /\ g.enabled = IF h.file["socket"] = None THEN h.enabled ELSE h.enabled \ {"socket"}
<1>1. /\ {"sing-box", "sbctl", "socket"} \subseteq Units /\ {"sing-box", "sbctl"} \subseteq Units
      /\ {"socket"} \subseteq Units
  BY DEF Units
<1> DEFINE r == Run(h, {"sing-box", "sbctl", "socket"})
           e == Enable(r, {"socket"})
           k == IF h.file["socket"] = None THEN h ELSE Disable(h, {"socket"})
           g == Run(k, {"sing-box", "sbctl"})
<1>2. /\ r \in Hosts /\ r.file = h.file /\ r.enabled = h.enabled
      /\ r.active = h.active \cup {"sing-box", "sbctl", "socket"}
  BY <1>1, RunIs
<1>3. /\ k \in Hosts /\ k.file = h.file
      /\ k.active = IF h.file["socket"] = None THEN h.active ELSE h.active \ {"socket"}
      /\ k.enabled = IF h.file["socket"] = None THEN h.enabled ELSE h.enabled \ {"socket"}
  <2>1. CASE h.file["socket"] = None
    BY <2>1
  <2>2. CASE h.file["socket"] # None
    BY <1>1, <2>2, RunIs
  <2> QED
    BY <2>1, <2>2
<1>4. Restarted(h, d) = IF Direct(d) THEN e ELSE g
  BY DEF Restarted, Enable
<1> HIDE DEF r, k
<1>5. /\ e \in Hosts /\ e.file = r.file /\ e.active = r.active /\ e.enabled = r.enabled \cup {"socket"}
  BY <1>1, <1>2, RunIs
<1>6. /\ g \in Hosts /\ g.file = k.file /\ g.active = k.active \cup {"sing-box", "sbctl"}
      /\ g.enabled = k.enabled
  BY <1>1, <1>3, RunIs
<1> HIDE DEF e, g
<1> QED
  BY <1>2, <1>3, <1>4, <1>5, <1>6

(* How the steps of a switch move the host. *)
LEMMA StrayedPut ==
  ASSUME NEW was, NEW h \in Hosts, Strayed(was, h), NEW parts, parts \subseteq CapturedParts,
         NEW d \in Values,
         \/ parts \cap {"units", "socket"} = {}
         \/ d # None /\ h.file["units"] # None
  PROVE  Strayed(was, Put(h, parts, d))
<1> DEFINE g == Put(h, parts, d)
<1>1. g.file = [part \in Parts |-> IF part \in parts THEN d ELSE h.file[part]]
  BY PutIs
<1>2. g.active = h.active /\ g.enabled = h.enabled
  BY PutUnits
<1> HIDE DEF g
<1>3. \A part \in Parts \ CapturedParts : g.file[part] = h.file[part]
  BY <1>1
<1>4. /\ g.file["units"] = IF "units" \in parts THEN d ELSE h.file["units"]
      /\ g.file["socket"] = IF "socket" \in parts THEN d ELSE h.file["socket"]
  BY <1>1, PartsOf
<1>5. Strayed(was, g)
  BY <1>2, <1>3, <1>4 DEF Strayed
<1> QED
  BY <1>5 DEF g

LEMMA StrayedUnits ==
  ASSUME NEW was, NEW h, Strayed(was, h), NEW g, g.file = h.file,
         g.enabled \ {"socket"} = h.enabled \ {"socket"},
         "socket" \in g.enabled => "socket" \in h.enabled \/ h.file["socket"] # None,
         "timer" \in g.active <=> "timer" \in h.active
  PROVE  Strayed(was, g)
  BY DEF Strayed

LEMMA StrayedSwitched ==
  ASSUME NEW was, NEW h \in Hosts, Strayed(was, h), NEW p \in Procs, h.file["units"] # None
  PROVE  LET c == Reconciled(h, p)
             g == Restarted(c, p)
         IN  /\ Strayed(was, c) /\ Strayed(was, g)
             /\ Strayed(was, Halt(g, {"sing-box"})) /\ Strayed(was, Halt(g, {"sbctl", "socket"}))
<1> DEFINE changed == Direct(h.file["units"]) # Direct(p)
           units == IF changed THEN Put(h, {"units"}, p) ELSE h
           new == (IF changed \/ h.file["socket"] = None THEN {"socket"} ELSE {})
                    \cup (IF h.file["hook"] = None THEN {"hook"} ELSE {})
           c == Reconciled(h, p)
           g == Restarted(c, p)
<1>1. p \in Values /\ p # None /\ None \in Values
  BY ValuesOf
<1>2. {"units"} \subseteq CapturedParts /\ {"hook"} \subseteq CapturedParts /\ new \subseteq CapturedParts
  BY DEF CapturedParts
<1>3. /\ units \in Hosts /\ Strayed(was, units) /\ units.file["units"] # None
      /\ units.file["socket"] = h.file["socket"]
  <2>1. CASE changed
    <3>1. /\ units \in Hosts
          /\ units.file = [part \in Parts |-> IF part \in {"units"} THEN p ELSE h.file[part]]
      BY <1>1, <2>1, PutIs
    <3>2. Strayed(was, units)
      BY <1>1, <1>2, <2>1, StrayedPut
    <3> HIDE DEF units
    <3> QED
      BY <1>1, <3>1, <3>2, PartsOf
  <2>2. CASE ~changed
    BY <2>2
  <2> QED
    BY <2>1, <2>2
<1>4. /\ ~Direct(p) => c = Put(units, {"hook"}, None)
      /\ Direct(p) => c = Put(units, new, p)
  BY Zenon DEF Reconciled
<1>5. h.file["socket"] = None => "socket" \in new
  OBVIOUS
<1> HIDE DEF units, new, c, g, changed
<1>6. c \in Hosts /\ Strayed(was, c) /\ (Direct(p) => c.file["socket"] # None)
  <2>1. CASE Direct(p)
    <3>1. /\ c \in Hosts
          /\ c.file = [part \in Parts |-> IF part \in new THEN p ELSE units.file[part]]
      BY <1>1, <1>3, <1>4, <2>1, PutIs
    <3>2. Strayed(was, c)
      BY <1>1, <1>2, <1>3, <1>4, <2>1, StrayedPut
    <3>3. c.file["socket"] # None
      BY <1>1, <1>3, <1>5, <3>1, PartsOf
    <3> QED
      BY <3>1, <3>2, <3>3
  <2>2. CASE ~Direct(p)
    <3>1. c \in Hosts
      <4>1. \A parts : Put(units, parts, None) \in Hosts
        BY <1>1, <1>3, PutIs
      <4> QED
        BY <1>4, <2>2, <4>1
    <3>2. Strayed(was, c)
      BY <1>1, <1>2, <1>3, <1>4, <2>2, StrayedPut
    <3> QED
      BY <2>2, <3>1, <3>2
  <2> QED
    BY <2>1, <2>2
<1>7. /\ g \in Hosts /\ g.file = c.file
      /\ g.active \in {c.active \cup {"sing-box", "sbctl", "socket"},
                        c.active \cup {"sing-box", "sbctl"},
                        (c.active \ {"socket"}) \cup {"sing-box", "sbctl"}}
      /\ g.enabled \in {c.enabled, c.enabled \cup {"socket"}, c.enabled \ {"socket"}}
      /\ ~Direct(p) => g.enabled \subseteq c.enabled
  BY <1>6, RestartedHow DEF g
<1>8. Strayed(was, g)
  BY <1>6, <1>7, StrayedUnits
<1>9. ASSUME NEW down \in {{"sing-box"}, {"sbctl", "socket"}} PROVE Strayed(was, Halt(g, down))
  <2>1. Halt(g, down) = [file |-> g.file, active |-> g.active \ down, enabled |-> g.enabled]
    BY <1>7, RunIs
  <2> DEFINE k == Halt(g, down)
  <2>2. k.file = g.file /\ k.active = g.active \ down /\ k.enabled = g.enabled
    BY <2>1
  <2> HIDE DEF k
  <2>3. Strayed(was, k)
    BY <1>8, <2>2, StrayedUnits
  <2> QED
    BY <2>3 DEF k
<1> QED
  BY <1>6, <1>8, <1>9 DEF c, g

LEMMA PublishModeOwn ==
  ASSUME LifeInv, NEW p \in Procs, PublishMode(p)
  PROVE  Own(p)
<1> DEFINE h == Put(host, {"artifacts", "active", "config"}, p)
<1>1. /\ Change(p, h) /\ Goto(p, "services") /\ NoReport /\ Keeps /\ UNCHANGED job /\ pc[p] = "publish"
  BY DEF PublishMode
<1>2. host \in Hosts /\ ~job[p].touched /\ JobOK(job[p]) /\ job[p].backup \in Hosts
  BY <1>1, JobIs DEF LifeInv, LifeTypes, JobFits
<1>3. h \in Hosts /\ h.active = host.active /\ h.enabled = host.enabled
  <2>1. p \in Values /\ host \in Hosts
    BY <1>2, ValuesOf
  <2> DEFINE parts == {"artifacts", "active", "config"}
  <2> HIDE DEF parts
  <2>2. /\ Put(host, parts, p) \in Hosts
        /\ Put(host, parts, p).active = host.active
        /\ Put(host, parts, p).enabled = host.enabled
    <3>1. Put(host, parts, p) \in Hosts
      BY <2>1, PutIs
    <3> QED
      BY <2>1, <3>1, PutUnits
  <2> QED
    BY <2>2 DEF parts
<1> HIDE DEF h
<1>4. Moves(p, h, "services")
  BY <1>1, MovesHow DEF Keeps
<1>5. host' = h /\ found' = found /\ (Undisturbed(p)' => Undisturbed(p) /\ Follows(p))
  BY <1>4, MovesKeep
<1>6. ASSUME Undisturbed(p)' PROVE Follows(p)'
  <2>1. host = found[p] /\ job[p].backup = found[p] /\ kind[p] = "mode"
    BY <1>1, <1>5, <1>6 DEF Follows, Switches
  <2>2. Strayed(found[p], host)
    BY <2>1 DEF Strayed
  <2>3. Strayed(found[p], h)
    <3>1. {"artifacts", "active", "config"} \subseteq CapturedParts \ {"units", "socket"}
      BY DEF CapturedParts
    <3> QED
      BY <1>2, <2>2, <3>1, StrayedPut, ValuesOf DEF h
  <2>4. Strayed(found[p], host)'
    BY <1>5, <2>3 DEF Strayed
  <2> QED
    BY <1>1, <1>3, <1>4, <1>5, <2>1, <2>4 DEF Follows, Installs, Switches, Moves
<1> QED
  BY <1>1, <1>2, <1>3, <1>4, <1>6, MovesOwn

(* Where the services have been touched. *)
LEMMA TouchedOwn ==
  ASSUME LifeInv, NEW p \in Procs, NEW h \in Hosts, NEW where \in {"obtain", "recover", "done"},
         pc[p] = "services", Change(p, h), Set(p, "touched", TRUE), Keeps,
         Strayed(found[p], host) => Strayed(found[p], h),
         \/ Goto(p, where) /\ NoReport /\ where # "done"
         \/ where = "done" /\ Report(p, "ok")
  PROVE  Own(p)
<1>1. /\ job' = [q \in Procs |-> job'[q]] /\ \A q \in Procs \ {p} : job'[q] = job[q]
      /\ job'[p] = [committed |-> job[p].committed, pre |-> job[p].pre,
                    listed |-> job[p].listed, backup |-> job[p].backup,
                    touched |-> TRUE, waits |-> job[p].waits]
  BY FieldSet DEF LifeInv
<1>2. Moves(p, h, where)
  BY <1>1, MovesHow DEF Keeps
<1>3. host' = h /\ found' = found /\ (Undisturbed(p)' => Undisturbed(p) /\ Follows(p))
  BY <1>2, MovesKeep
<1>4. /\ job'[p].committed = job[p].committed /\ job'[p].pre = job[p].pre
      /\ job'[p].listed = job[p].listed /\ job'[p].backup = job[p].backup
      /\ job'[p].touched = TRUE /\ job'[p].waits = job[p].waits
  BY <1>1
<1>5. JobOK(job'[p]) /\ job[p].backup \in Hosts
  BY <1>1, <1>4, JobIs DEF JobOK, LifeInv, JobFits
<1>6. ASSUME Undisturbed(p)' PROVE Follows(p)'
  <2>1. job[p].backup = found[p] /\ kind[p] = "mode" /\ Strayed(found[p], h)
    BY <1>3, <1>6 DEF Follows, Switches
  <2>2. Strayed(found[p], host)'
    BY <1>3, <2>1 DEF Strayed
  <2> QED
    BY <1>2, <1>3, <1>4, <2>1, <2>2 DEF Follows, Installs, Switches, Moves
<1>7. where = "done" => result'[p] = "ok"
  BY ReportIs DEF LifeInv
<1> QED
  BY <1>2, <1>4, <1>5, <1>6, <1>7, MovesOwn

LEMMA SwitchServicesOwn ==
  ASSUME LifeInv, NEW p \in Procs,
         SwitchServices(p) \/ SwitchServicesFails(p) \/ NoUnits(p)
  PROVE  Own(p)
<1>1. host \in Hosts
  BY DEF LifeInv, LifeTypes
<1> DEFINE switched == Restarted(Reconciled(host, p), p)
<1>2. Reconciled(host, p) \in Hosts /\ switched \in Hosts
  BY <1>1, SwitchedIs, ValuesOf
<1>3. /\ Halt(switched, {"sing-box"}) \in Hosts /\ Halt(switched, {"sbctl", "socket"}) \in Hosts
  <2> HIDE DEF switched
  <2> QED
    BY <1>2, RunIs
<1>7. host.file["units"] # None /\ Strayed(found[p], host) =>
        \A h \in {host, Reconciled(host, p), switched, Halt(switched, {"sing-box"}),
                 Halt(switched, {"sbctl", "socket"})} : Strayed(found[p], h)
  BY <1>1, StrayedSwitched
<1> HIDE DEF switched
<1>4. CASE SwitchServices(p)
  <2>1. host.file["units"] # None /\ pc[p] = "services" /\ Change(p, switched) /\ Set(p, "touched", TRUE) /\ Keeps
    BY <1>4 DEF SwitchServices, switched
  <2>2. CASE Obtains(p)
    <3>1. Goto(p, "obtain") /\ NoReport
      BY <1>4, <2>2 DEF SwitchServices
    <3> QED
      BY <1>2, <1>7, <2>1, <3>1, TouchedOwn
  <2>3. CASE ~Obtains(p)
    <3>1. Report(p, "ok")
      BY <1>4, <2>3 DEF SwitchServices
    <3> QED
      BY <1>2, <1>7, <2>1, <3>1, TouchedOwn
  <2> QED
    BY <2>2, <2>3
<1>5. CASE SwitchServicesFails(p)
  <2>1. /\ pc[p] = "services" /\ Set(p, "touched", TRUE) /\ Keeps /\ Goto(p, "recover") /\ NoReport
        /\ host.file["units"] # None
    BY <1>5 DEF SwitchServicesFails
  <2>2. PICK h \in {host, Reconciled(host, p), Halt(switched, {"sing-box"}),
                    Halt(switched, {"sbctl", "socket"})} : Change(p, h)
    BY <1>5 DEF SwitchServicesFails, switched
  <2>3. h \in Hosts
    BY <1>1, <1>2, <1>3, <2>2
  <2> QED
    BY <1>7, <2>1, <2>2, <2>3, TouchedOwn
<1>6. CASE NoUnits(p)
  <2>1. /\ pc[p] = "services" /\ Set(p, "touched", TRUE) /\ Keeps /\ Goto(p, "recover") /\ NoReport
        /\ Quietly
    BY <1>6 DEF NoUnits
  <2>2. Change(p, host)
    BY <2>1, QuietChange
  <2> QED
    BY <1>1, <2>1, <2>2, TouchedOwn
<1> QED
  BY <1>4, <1>5, <1>6

LEMMA ObtainModeOwn ==
  ASSUME LifeInv, NEW p \in Procs, ObtainMode(p) \/ ObtainModeFails(p)
  PROVE  Own(p)
<1>1. host \in Hosts /\ pc[p] = "obtain"
  BY DEF LifeInv, LifeTypes, ObtainMode, ObtainModeFails
<1>2. JobOK(job[p]) /\ job[p].backup \in Hosts /\ job[p].touched
  BY <1>1, JobIs DEF LifeInv, JobFits
<1>3. CASE ObtainMode(p)
  <2> DEFINE put == Put(host, {"certs", "artifacts", "active"}, p)
             h == Restarted(put, p)
  <2>1. Change(p, h) /\ Report(p, "ok") /\ Keeps /\ UNCHANGED job
    BY <1>3 DEF ObtainMode
  <2>2. put \in Hosts
    BY <1>1, PutIs, ValuesOf
  <2> HIDE DEF put
  <2>3. h \in Hosts
    BY <2>2, SwitchedIs, ValuesOf
  <2> HIDE DEF h
  <2>4. Moves(p, h, "done")
    BY <2>1, MovesHow DEF Keeps
  <2>5. Follows(p)' /\ result'[p] = "ok"
    BY <2>1, <2>4, ReportIs DEF Follows, Installs, Switches, Moves, LifeInv
  <2> QED
    BY <1>2, <2>1, <2>3, <2>4, <2>5, MovesOwn
<1>4. CASE ObtainModeFails(p)
  <2> DEFINE h == Put(host, {"certs"}, p)
  <2>1. Change(p, h) /\ Goto(p, "recover") /\ NoReport /\ Keeps /\ UNCHANGED job
    BY <1>4 DEF ObtainModeFails
  <2>2. h \in Hosts /\ (Strayed(found[p], host) => Strayed(found[p], h))
    <3>1. {"certs"} \subseteq CapturedParts \ {"units", "socket"}
      BY DEF CapturedParts
    <3> QED
      BY <1>1, <3>1, PutIs, StrayedPut, ValuesOf
  <2> HIDE DEF h
  <2>3. Moves(p, h, "recover")
    BY <2>1, MovesHow DEF Keeps
  <2>4. host' = h /\ found' = found /\ (Undisturbed(p)' => Undisturbed(p) /\ Follows(p))
    BY <2>3, MovesKeep
  <2>5. ASSUME Undisturbed(p)' PROVE Follows(p)'
    <3>1. Follows(p) /\ Strayed(found[p], h) /\ kind[p] = "mode"
      BY <1>1, <2>2, <2>4, <2>5 DEF Follows, Switches
    <3>2. Strayed(found[p], host)'
      BY <2>4, <3>1 DEF Strayed
    <3> QED
      BY <1>1, <1>2, <2>1, <2>3, <2>4, <3>1, <3>2 DEF Follows, Installs, Switches, Moves
  <2> QED
    BY <1>2, <2>1, <2>2, <2>3, <2>5, MovesOwn
<1> QED
  BY <1>3, <1>4

(* Snapshot::restore, step by step.  The files and what has been disabled. *)
LEMMA PutBackIs ==
  ASSUME NEW h \in Hosts, NEW was \in Hosts
  PROVE  LET g == PutBack(h, was)
         IN  /\ g \in Hosts /\ g.active = h.active /\ g.enabled = h.enabled
             /\ g.file = [part \in Parts |->
                            IF part \in CapturedParts THEN was.file[part] ELSE h.file[part]]
<1> DEFINE f == [part \in Parts |-> IF part \in CapturedParts THEN was.file[part] ELSE h.file[part]]
<1>1. h = [file |-> h.file, active |-> h.active, enabled |-> h.enabled]
      /\ h.file \in [Parts -> Values] /\ h.active \in SUBSET Units /\ h.enabled \in SUBSET Units
      /\ was.file \in [Parts -> Values]
  BY HostFields
<1>2. PutBack(h, was) = [file |-> f, active |-> h.active, enabled |-> h.enabled]
  BY <1>1 DEF PutBack
<1>3. f \in [Parts -> Values]
  BY <1>1
<1>4. PutBack(h, was) \in Hosts
  BY <1>1, <1>2, <1>3, HostFields
<1> HIDE DEF f
<1>5. /\ PutBack(h, was).file = f /\ PutBack(h, was).active = h.active
      /\ PutBack(h, was).enabled = h.enabled
  BY <1>2
<1> QED
  BY <1>4, <1>5 DEF f

LEMMA PutBackWhole ==
  ASSUME NEW h \in Hosts, NEW was \in Hosts,
         \A part \in Parts \ CapturedParts : h.file[part] = was.file[part]
  PROVE  PutBack(h, was).file = was.file
<1>1. ASSUME NEW part \in Parts PROVE PutBack(h, was).file[part] = was.file[part]
  <2>1. PutBack(h, was).file =
          [x \in Parts |-> IF x \in CapturedParts THEN was.file[x] ELSE h.file[x]]
    BY PutBackIs
  <2> QED
    BY <2>1
<1>2. PutBack(h, was).file \in [Parts -> Values] /\ was.file \in [Parts -> Values]
  BY PutBackIs, HostFields
<1> QED
  BY <1>1, <1>2

LEMMA PresentUnits ==
  ASSUME NEW h \in Hosts
  PROVE  UnitsIn(Present(h)) =
           (IF h.file["units"] # None THEN {"sing-box", "sbctl", "timer"} ELSE {})
             \cup (IF h.file["socket"] # None THEN {"socket"} ELSE {})
<1>1. /\ "units" \in Present(h) <=> h.file["units"] # None
      /\ "socket" \in Present(h) <=> h.file["socket"] # None
  BY PartsOf DEF Present
<1> QED
  BY <1>1 DEF UnitsIn

LEMMA ResetHost ==
  ASSUME NEW h \in Hosts, NEW was \in Hosts
  PROVE  LET r == Reset(h, was)
             stopped == Halt(h, Subscription \cup {"socket"})
             recorded == Recorded(h, was)
         IN  /\ r \in Hosts /\ r.file = PutBack(stopped, was).file /\ stopped \in Hosts
             /\ stopped.file = h.file
             /\ r.active = h.active \ {"sing-box", "sbctl", "socket"}
             /\ r.enabled = (h.enabled \ (UnitsIn(Present(h)) \cup recorded))
                              \cup (was.enabled \cap recorded)
<1> DEFINE recorded == Recorded(h, was)
           stopped == Halt(h, Subscription \cup {"socket"})
           back == PutBack(stopped, was)
           links == (h.enabled \ (UnitsIn(Present(h)) \cup recorded)) \cup (was.enabled \cap recorded)
           r == Reset(h, was)
<1>1. /\ stopped \in Hosts /\ stopped.file = h.file /\ stopped.enabled = h.enabled
      /\ stopped.active = h.active \ {"sing-box", "sbctl", "socket"}
  BY RunIs DEF Subscription
<1> HIDE DEF stopped, recorded
<1>2. back \in Hosts /\ back.active = stopped.active /\ back.enabled = h.enabled
  BY <1>1, PutBackIs
<1>3. r = [back EXCEPT !.enabled = links]
  BY <1>2 DEF Reset, stopped, recorded
<1>4. links \in SUBSET Units
  BY HostFields
<1> HIDE DEF back, links, r
<1>5. back = [file |-> back.file, active |-> back.active, enabled |-> back.enabled]
      /\ back.file \in [Parts -> Values] /\ back.active \in SUBSET Units
  BY <1>2, HostFields
<1>6. r = [file |-> back.file, active |-> back.active, enabled |-> links]
  BY <1>3, <1>5
<1>7. r \in Hosts
  BY <1>4, <1>5, <1>6, HostFields
<1>8. r.file = back.file /\ r.active = back.active /\ r.enabled = links
  BY <1>6
<1> QED
  BY <1>1, <1>2, <1>7, <1>8 DEF r, back, links, stopped, recorded

LEMMA ResetIs ==
  ASSUME NEW h \in Hosts, NEW was \in Hosts, Strayed(was, h)
  PROVE  LET r == Reset(h, was)
             recorded == UnitsIn(Present(was))
         IN  /\ Recorded(h, was) = recorded
             /\ r.file = was.file /\ r.active = was.active \cap {"timer"}
             /\ r.enabled \ {"socket"} = was.enabled \ {"socket"} /\ r.enabled \subseteq was.enabled
             /\ "socket" \in recorded \/ "socket" \notin was.enabled => r.enabled = was.enabled
<1> DEFINE recorded == UnitsIn(Present(was))
           stopped == Halt(h, Subscription \cup {"socket"})
           r == Reset(h, was)
<1>1. /\ h.file["units"] = None <=> was.file["units"] = None
      /\ h.enabled \ {"socket"} = was.enabled \ {"socket"}
      /\ "socket" \in h.enabled => "socket" \in was.enabled \/ h.file["socket"] # None
      /\ "timer" \in h.active <=> "timer" \in was.active
      /\ h.active \subseteq Units /\ h.enabled \subseteq Units
      /\ was.active \subseteq Units /\ was.enabled \subseteq Units
  BY HostFields DEF Strayed
<1>2. /\ recorded = (IF was.file["units"] # None THEN {"sing-box", "sbctl", "timer"} ELSE {})
                      \cup (IF was.file["socket"] # None THEN {"socket"} ELSE {})
      /\ UnitsIn(Present(h)) = (IF h.file["units"] # None THEN {"sing-box", "sbctl", "timer"} ELSE {})
                      \cup (IF h.file["socket"] # None THEN {"socket"} ELSE {})
  BY PresentUnits
<1>3. Recorded(h, was) = recorded
  <2> HIDE DEF recorded
  <2>1. Recorded(h, was) = recorded \ (IF h.file["units"] = None THEN {"timer"} ELSE {})
    BY DEF Recorded, recorded
  <2> QED
    BY <1>1, <1>2, <2>1
<1> HIDE DEF recorded
<1>4. /\ r \in Hosts /\ r.file = PutBack(stopped, was).file /\ stopped \in Hosts
      /\ stopped.file = h.file
      /\ r.active = h.active \ {"sing-box", "sbctl", "socket"}
      /\ r.enabled = (h.enabled \ (UnitsIn(Present(h)) \cup recorded))
                       \cup (was.enabled \cap recorded)
  BY <1>3, ResetHost
<1> HIDE DEF stopped, r
<1>5. r.file = was.file
  <2>1. \A part \in Parts \ CapturedParts : stopped.file[part] = was.file[part]
    BY <1>4 DEF Strayed
  <2> QED
    BY <1>4, <2>1, PutBackWhole
<1>6. /\ r.enabled \ {"socket"} = was.enabled \ {"socket"}
      /\ r.enabled \subseteq was.enabled
      /\ "socket" \in recorded \/ "socket" \notin was.enabled => r.enabled = was.enabled
  BY <1>1, <1>2, <1>4 DEF Units
<1>7. r.active = was.active \cap {"timer"}
  BY <1>1, <1>4 DEF Units
<1> QED
  BY <1>3, <1>5, <1>6, <1>7 DEF r, recorded

(* Units, socket and hook once they follow a configuration. *)
LEMMA ReconciledFiles ==
  ASSUME NEW h \in Hosts, NEW d \in Owners
  PROVE  LET g == Reconciled(h, d)
             changed == Direct(h.file["units"]) # Direct(d)
         IN  /\ g \in Hosts /\ g.active = h.active /\ g.enabled = h.enabled
             /\ g.file["config"] = h.file["config"]
             /\ h.file["units"] # None => g.file["units"] # None
             /\ h.file["socket"] # None \/ Direct(d) => g.file["socket"] # None
             /\ /\ ~changed /\ (h.file["hook"] # None <=> Direct(d))
                /\ Direct(d) => h.file["socket"] # None
                => g.file = h.file
<1> DEFINE changed == Direct(h.file["units"]) # Direct(d)
           units == IF changed THEN Put(h, {"units"}, d) ELSE h
           new == (IF changed \/ h.file["socket"] = None THEN {"socket"} ELSE {})
                    \cup (IF h.file["hook"] = None THEN {"hook"} ELSE {})
           g == Reconciled(h, d)
<1>1. d \in Values /\ d # None /\ None \in Values
  BY ValuesOf
<1>2. h.file \in [Parts -> Values]
  BY HostFields
<1>3. /\ units \in Hosts /\ units.active = h.active /\ units.enabled = h.enabled
      /\ \A part \in Parts \ {"units"} : units.file[part] = h.file[part]
      /\ h.file["units"] # None => units.file["units"] # None
      /\ ~changed => units = h
  <2>1. CASE changed
    <3>1. /\ units \in Hosts /\ units.active = h.active /\ units.enabled = h.enabled
          /\ units.file = [part \in Parts |-> IF part \in {"units"} THEN d ELSE h.file[part]]
      BY <1>1, <2>1, PutIs
    <3> HIDE DEF units
    <3> QED
      BY <1>1, <2>1, <3>1, PartsOf
  <2>2. CASE ~changed
    BY <2>2
  <2> QED
    BY <2>1, <2>2
<1>4. /\ ~Direct(d) => g = Put(units, {"hook"}, None)
      /\ Direct(d) => g = Put(units, new, d)
  BY Zenon DEF Reconciled
<1>5. /\ h.file["socket"] = None => "socket" \in new
      /\ \A part \in new : part \in {"socket", "hook"}
      /\ ~changed /\ h.file["hook"] # None /\ h.file["socket"] # None => new = {}
  OBVIOUS
<1> HIDE DEF units, new, g, changed
<1>6. CASE Direct(d)
  <2>1. /\ g \in Hosts /\ g.active = h.active /\ g.enabled = h.enabled
        /\ g.file = [part \in Parts |-> IF part \in new THEN d ELSE units.file[part]]
    BY <1>1, <1>3, <1>4, <1>6, PutIs
  <2>2. \A part \in Parts : g.file[part] = IF part \in new THEN d ELSE units.file[part]
    BY <2>1
  <2>3. /\ g.file["config"] = h.file["config"] /\ g.file["units"] = units.file["units"]
        /\ g.file["socket"] # None
    BY <1>1, <1>3, <1>5, <2>2, PartsOf
  <2>4. ASSUME ~changed, h.file["hook"] # None, h.file["socket"] # None PROVE g.file = h.file
    <3>1. new = {} /\ units = h
      BY <1>3, <1>5, <2>4
    <3>2. \A part \in Parts : g.file[part] = h.file[part]
      BY <2>2, <3>1
    <3>3. g.file \in [Parts -> Values]
      BY <2>1, HostFields
    <3> QED
      BY <1>2, <3>2, <3>3
  <2> QED
    BY <1>3, <1>6, <2>1, <2>3, <2>4 DEF g, changed
<1>7. CASE ~Direct(d)
  <2>1. /\ g \in Hosts /\ g.active = h.active /\ g.enabled = h.enabled
        /\ g.file = [part \in Parts |-> IF part \in {"hook"} THEN None ELSE units.file[part]]
    BY <1>1, <1>3, <1>4, <1>7, PutIs
  <2>2. /\ g.file["config"] = h.file["config"] /\ g.file["units"] = units.file["units"]
        /\ g.file["socket"] = h.file["socket"]
    BY <1>3, <2>1, PartsOf
  <2>3. ASSUME ~changed, h.file["hook"] = None PROVE g.file = h.file
    <3>1. units = h
      BY <1>3, <2>3
    <3>2. \A part \in Parts : g.file[part] = h.file[part]
      BY <2>1, <2>3, <3>1
    <3>3. g.file \in [Parts -> Values]
      BY <2>1, HostFields
    <3> QED
      BY <1>2, <3>2, <3>3
  <2> QED
    BY <1>3, <1>7, <2>1, <2>2, <2>3 DEF g, changed
<1> QED
  BY <1>6, <1>7

LEMMA ReconciledAlike ==
  ASSUME NEW g \in Hosts, NEW h \in Hosts, g.file = h.file, NEW d \in Owners
  PROVE  Reconciled(g, d).file = Reconciled(h, d).file
<1> DEFINE changed == Direct(h.file["units"]) # Direct(d)
           written(x) == IF changed THEN Put(x, {"units"}, d) ELSE x
           new == (IF changed \/ h.file["socket"] = None THEN {"socket"} ELSE {})
                    \cup (IF h.file["hook"] = None THEN {"hook"} ELSE {})
<1>1. d \in Values /\ None \in Values
  BY ValuesOf
<1>2. \A x, y \in Hosts, v \in Values :
        x.file = y.file => \A parts : /\ Put(x, parts, v) \in Hosts
                                     /\ Put(x, parts, v).file = Put(y, parts, v).file
  <2> SUFFICES ASSUME NEW x \in Hosts, NEW y \in Hosts, NEW v \in Values, x.file = y.file, NEW parts
               PROVE  /\ Put(x, parts, v) \in Hosts
                      /\ Put(x, parts, v).file = Put(y, parts, v).file
    OBVIOUS
  <2>1. /\ Put(x, parts, v) \in Hosts
        /\ Put(x, parts, v).file = [part \in Parts |-> IF part \in parts THEN v ELSE x.file[part]]
    BY PutIs
  <2>2. Put(y, parts, v).file = [part \in Parts |-> IF part \in parts THEN v ELSE y.file[part]]
    BY PutIs
  <2> QED
    BY <2>1, <2>2
<1>3. written(g) \in Hosts /\ written(h) \in Hosts /\ written(g).file = written(h).file
  <2>1. CASE changed
    <3>1. written(g) = Put(g, {"units"}, d) /\ written(h) = Put(h, {"units"}, d)
      BY <2>1
    <3> HIDE DEF written
    <3> QED
      BY <1>1, <1>2, <3>1
  <2>2. CASE ~changed
    BY <2>2
  <2> QED
    BY <2>1, <2>2
<1>4. /\ ~Direct(d) => /\ Reconciled(g, d) = Put(written(g), {"hook"}, None)
                       /\ Reconciled(h, d) = Put(written(h), {"hook"}, None)
      /\ Direct(d) => /\ Reconciled(g, d) = Put(written(g), new, d)
                      /\ Reconciled(h, d) = Put(written(h), new, d)
  BY Zenon DEF Reconciled
<1> HIDE DEF written, new
<1> QED
  BY <1>1, <1>2, <1>3, <1>4

(* restart_services, if there is something to start. *)
LEMMA RevivedIs ==
  ASSUME NEW r \in Hosts, NEW was \in Hosts, r.file = was.file,
         r.active = was.active \cap {"timer"}, r.enabled \subseteq was.enabled,
         r.enabled \ {"socket"} = was.enabled \ {"socket"}
  PROVE  LET v == Revived(r, was)
             d == ModeOf(was)
         IN  /\ v \in Hosts
             /\ v.file \in {was.file, Reconciled(was, d).file}
             /\ v.file["config"] = was.file["config"]
             /\ was.file["units"] # None => v.file["units"] # None
             /\ was.file["socket"] # None => v.file["socket"] # None
             /\ v.enabled \ {"socket"} = was.enabled \ {"socket"}
             /\ "socket" \in v.active => v.file["socket"] # None /\ Direct(d)
             /\ ~Revives(was) \/ d = None => v = r
             /\ Revives(was) /\ d # None =>
                  /\ v.active \subseteq {"sing-box", "sbctl", "timer", "socket"}
                  /\ v.file = Reconciled(was, d).file
                  /\ Direct(d) => "socket" \in v.active /\ v.enabled = r.enabled \cup {"socket"}
                  /\ ~Direct(d) => v.enabled \in {r.enabled, r.enabled \ {"socket"}}
<1> DEFINE d == ModeOf(was)
           c == Reconciled(r, d)
           v == Revived(r, was)
<1>1. CASE ~Revives(was) \/ d = None
  <2>1. v = r
    BY <1>1 DEF Revived
  <2>2. "socket" \notin r.active
    OBVIOUS
  <2> HIDE DEF v, d
  <2> QED
    BY <1>1, <2>1, <2>2 DEF v, d
<1>2. CASE Revives(was) /\ d # None
  <2>1. d \in Owners
    BY <1>2, HostFields, PartsOf DEF ModeOf, Values
  <2>2. v = Restarted(c, d)
    BY <1>2 DEF Revived
  <2> HIDE DEF d
  <2>3. /\ c \in Hosts /\ c.active = r.active /\ c.enabled = r.enabled
        /\ c.file["config"] = was.file["config"]
        /\ was.file["units"] # None => c.file["units"] # None
        /\ was.file["socket"] # None \/ Direct(d) => c.file["socket"] # None
    BY <2>1, ReconciledFiles
  <2>4. c.file = Reconciled(was, d).file
    BY <2>1, ReconciledAlike
  <2> HIDE DEF c, v
  <2>5. /\ v \in Hosts /\ v.file = c.file
        /\ Direct(d) => /\ v.active = c.active \cup {"sing-box", "sbctl", "socket"}
                        /\ v.enabled = c.enabled \cup {"socket"}
        /\ ~Direct(d) =>
             /\ v.active = (IF c.file["socket"] = None THEN c.active ELSE c.active \ {"socket"})
                             \cup {"sing-box", "sbctl"}
             /\ v.enabled = IF c.file["socket"] = None THEN c.enabled ELSE c.enabled \ {"socket"}
    BY ONLY <2>2, <2>3, RestartedHow, Zenon
  <2>6. /\ v.active \subseteq {"sing-box", "sbctl", "timer", "socket"}
        /\ "socket" \in v.active <=> Direct(d)
    BY <2>3, <2>5
  <2>7. v.enabled \ {"socket"} = was.enabled \ {"socket"}
    BY <2>3, <2>5
  <2>8. /\ v.file = Reconciled(was, d).file /\ v.file["config"] = was.file["config"]
        /\ was.file["units"] # None => v.file["units"] # None
        /\ was.file["socket"] # None \/ Direct(d) => v.file["socket"] # None
    BY <2>3, <2>4, <2>5
  <2>9. /\ Direct(d) => v.enabled = r.enabled \cup {"socket"}
        /\ ~Direct(d) => v.enabled \in {r.enabled, r.enabled \ {"socket"}}
    BY <2>3, <2>5
  <2> QED
    BY <1>2, <2>5, <2>6, <2>7, <2>8, <2>9 DEF v, d
<1> QED
  BY <1>1, <1>2

(* What is started and stopped at last. *)
LEMMA StartedIs ==
  ASSUME NEW v \in Hosts, NEW was \in Hosts, NEW recorded
  PROVE  LET g == Started(v, was, recorded)
             running == (v.active \ recorded) \cup (was.active \cap recorded)
         IN  /\ g \in Hosts /\ g.file = v.file /\ g.enabled = v.enabled
             /\ g.active \subseteq running /\ running \ {"socket", "sbctl"} \subseteq g.active
             /\ /\ "socket" \in running \ v.active => "sbctl" \notin running
                /\ "socket" \in recorded \ running /\ Direct(v.file["units"]) => "sbctl" \notin running
                => g.active = running
<1> DEFINE running == (v.active \ recorded) \cup (was.active \cap recorded)
           refused == "socket" \in running \ v.active /\ "sbctl" \in running
           dragged == "socket" \in recorded \ running /\ Direct(v.file["units"])
           gone == (IF refused THEN {"socket"} ELSE {}) \cup (IF dragged THEN {"sbctl"} ELSE {})
           g == Started(v, was, recorded)
<1>1. v = [file |-> v.file, active |-> v.active, enabled |-> v.enabled]
      /\ v.file \in [Parts -> Values] /\ v.active \subseteq Units /\ v.enabled \subseteq Units
      /\ was.active \subseteq Units
  BY HostFields
<1>2. g = [v EXCEPT !.active = running \ gone]
  BY DEF Started
<1>3. /\ gone \subseteq {"socket", "sbctl"}
      /\ ~refused /\ (dragged => "sbctl" \notin running) => running \ gone = running
  OBVIOUS
<1>4. running \ gone \in SUBSET Units
  BY <1>1
<1> HIDE DEF gone, g
<1>5. g = [file |-> v.file, active |-> running \ gone, enabled |-> v.enabled]
  BY <1>1, <1>2
<1>6. g \in Hosts
  BY <1>1, <1>4, <1>5, HostFields
<1>7. g.file = v.file /\ g.active = running \ gone /\ g.enabled = v.enabled
  BY <1>5
<1> QED
  BY <1>3, <1>6, <1>7 DEF g

LEMMA RestoredHost ==
  ASSUME NEW h \in Hosts, NEW was \in Hosts
  PROVE  Restored(h, was) \in Hosts
<1> DEFINE r == Reset(h, was)
           d == ModeOf(was)
<1>1. r \in Hosts
  BY ResetHost
<1>2. d \in Values
  BY HostFields, PartsOf DEF ModeOf
<1> HIDE DEF r, d
<1>3. Reconciled(r, d) \in Hosts
  BY <1>1, <1>2, SwitchedIs
<1>4. Restarted(Reconciled(r, d), d) \in Hosts
  BY <1>2, <1>3, SwitchedIs
<1>5. Revived(r, was) \in Hosts
  BY <1>1, <1>4 DEF Revived, d
<1> QED
  BY <1>5, StartedIs DEF Restored, r

(* Without a configuration no unit runs, none is linked, and Certbot calls *)
(* no hook; and a socket that listens has its unit. *)
Rooted(h) ==
  /\ h.file["config"] = None => h.active = {} /\ h.enabled = {} /\ h.file["hook"] = None
  /\ "socket" \in h.active => h.file["socket"] # None

LEMMA RestoredIs ==
  ASSUME NEW h \in Hosts, NEW was \in Hosts, Strayed(was, h)
  PROVE  LET g == Restored(h, was)
         IN  /\ Mended(was, g) /\ (Coherent(was) => g = was)
             /\ Orderly(was) => Orderly(g)
             /\ Rooted(was) => Rooted(g)
<1> DEFINE recorded == UnitsIn(Present(was))
           r == Reset(h, was)
           d == ModeOf(was)
           v == Revived(r, was)
           g == Restored(h, was)
           running == (v.active \ recorded) \cup (was.active \cap recorded)
<1>1. /\ Recorded(h, was) = recorded
      /\ r \in Hosts /\ r.file = was.file /\ r.active = was.active \cap {"timer"}
      /\ r.enabled \ {"socket"} = was.enabled \ {"socket"} /\ r.enabled \subseteq was.enabled
      /\ "socket" \in recorded \/ "socket" \notin was.enabled => r.enabled = was.enabled
  BY ResetHost, ResetIs
<1>2. /\ recorded = (IF was.file["units"] # None THEN {"sing-box", "sbctl", "timer"} ELSE {})
                      \cup (IF was.file["socket"] # None THEN {"socket"} ELSE {})
      /\ was.active \subseteq Units /\ was.enabled \subseteq Units
  BY PresentUnits, HostFields
<1>3. Revives(was) <=> was.active \cap recorded \cap {"sing-box", "sbctl"} # {}
  BY DEF Revives, Subscription
<1>4. g = Started(v, was, recorded)
  BY <1>1 DEF Restored
<1>5. d = was.file["config"] /\ ~Direct(None) /\ (Direct(was.file["units"]) => was.file["units"] # None)
  BY HostAssumption, ValuesOf DEF ModeOf, Direct
<1> HIDE DEF recorded, r, d, g
<1>6. /\ v \in Hosts
      /\ v.file \in {was.file, Reconciled(was, d).file}
      /\ v.file["config"] = was.file["config"]
      /\ was.file["units"] # None => v.file["units"] # None
      /\ was.file["socket"] # None => v.file["socket"] # None
      /\ v.enabled \ {"socket"} = was.enabled \ {"socket"}
      /\ "socket" \in v.active => v.file["socket"] # None /\ Direct(d)
      /\ ~Revives(was) \/ d = None => v = r
      /\ Revives(was) /\ d # None =>
           /\ v.active \subseteq {"sing-box", "sbctl", "timer", "socket"}
           /\ v.file = Reconciled(was, d).file
           /\ Direct(d) => "socket" \in v.active /\ v.enabled = r.enabled \cup {"socket"}
           /\ ~Direct(d) => v.enabled \in {r.enabled, r.enabled \ {"socket"}}
  BY <1>1, RevivedIs DEF d
<1> HIDE DEF v
<1>7. /\ g \in Hosts /\ g.file = v.file /\ g.enabled = v.enabled
      /\ g.active \subseteq running /\ running \ {"socket", "sbctl"} \subseteq g.active
      /\ /\ "socket" \in running \ v.active => "sbctl" \notin running
         /\ "socket" \in recorded \ running /\ Direct(v.file["units"]) => "sbctl" \notin running
         => g.active = running
  <2> DEFINE s == Started(v, was, recorded)
  <2>1. v \in Hosts
    BY <1>6
  <2>2. /\ s \in Hosts /\ s.file = v.file /\ s.enabled = v.enabled
        /\ s.active \subseteq running /\ running \ {"socket", "sbctl"} \subseteq s.active
        /\ /\ "socket" \in running \ v.active => "sbctl" \notin running
           /\ "socket" \in recorded \ running /\ Direct(v.file["units"]) => "sbctl" \notin running
           => s.active = running
    BY <2>1, StartedIs
  <2> HIDE DEF s, running
  <2> QED
    BY <1>4, <2>2 DEF s
<1>8. Revives(was) => {"sing-box", "sbctl", "timer"} \subseteq recorded /\ was.file["units"] # None
  BY <1>2, <1>3
<1>9. (v.active \ recorded) \ {"socket"} \subseteq was.active
  <2>1. CASE ~Revives(was) \/ d = None
    BY <1>1, <1>6, <2>1
  <2>2. CASE Revives(was) /\ d # None
    BY <1>6, <1>8, <2>2
  <2> QED
    BY <2>1, <2>2
<1>10. Mended(was, g)
  <2>1. g.active \ {"socket"} \subseteq was.active
    BY <1>7, <1>9
  <2>2. (was.active \cap recorded) \ {"sbctl", "socket"} \subseteq g.active
    BY <1>7
  <2> QED
    BY <1>6, <1>7, <2>1, <2>2 DEF Mended, recorded, d
<1>11. ASSUME Orderly(was) PROVE Orderly(g)
  <2>1. UnitsIn(Present(g)) =
           (IF g.file["units"] # None THEN {"sing-box", "sbctl", "timer"} ELSE {})
             \cup (IF g.file["socket"] # None THEN {"socket"} ELSE {})
    BY <1>7, PresentUnits
  <2>2. recorded \subseteq UnitsIn(Present(g))
    BY <1>2, <1>6, <1>7, <2>1
  <2>3. was.active \subseteq recorded \cup was.enabled
    BY <1>11 DEF Orderly, recorded
  <2>4. ASSUME NEW x \in g.active PROVE x \in UnitsIn(Present(g)) \cup g.enabled
    <3>1. CASE x \in was.active \cap recorded
      BY <2>2, <3>1
    <3>2. CASE x \in v.active \ recorded /\ x = "socket"
      BY <1>6, <1>7, <2>1, <3>2
    <3>3. CASE x \in v.active \ recorded /\ x # "socket"
      <4>1. x \in was.enabled
        BY <1>9, <2>3, <3>3
      <4> QED
        BY <1>6, <1>7, <3>3, <4>1
    <3> QED
      BY <1>7, <3>1, <3>2, <3>3
  <2> QED
    BY <2>4 DEF Orderly
<1>12. ASSUME Rooted(was) PROVE Rooted(g)
  <2>1. ASSUME g.file["config"] = None
        PROVE  g.active = {} /\ g.enabled = {} /\ g.file["hook"] = None
    <3>1. was.active = {} /\ was.enabled = {} /\ was.file["hook"] = None /\ d = None
      BY <1>5, <1>6, <1>7, <1>12, <2>1 DEF Rooted
    <3>2. v = r
      BY <1>6, <3>1
    <3> QED
      BY <1>1, <1>7, <3>1, <3>2
  <2>2. ASSUME "socket" \in g.active PROVE g.file["socket"] # None
    <3>1. "socket" \in v.active \/ "socket" \in was.active
      BY <1>7, <2>2
    <3> QED
      BY <1>6, <1>7, <1>12, <3>1 DEF Rooted
  <2> QED
    BY <2>1, <2>2 DEF Rooted
<1>13. ASSUME Coherent(was) PROVE g = was
  <2>1. /\ was.active \subseteq recorded /\ was.enabled \subseteq recorded
        /\ Direct(was.file["units"]) <=> Direct(d)
        /\ was.file["hook"] # None <=> Direct(d)
        /\ Direct(d) => "socket" \in was.enabled /\ ("sbctl" \in was.active => "socket" \in was.active)
        /\ ~Direct(d) => "socket" \notin was.active /\ "socket" \notin was.enabled
    BY <1>13 DEF Coherent, recorded, d
  <2>2. "socket" \in recorded => was.file["socket"] # None
    BY <1>2
  <2>3. r.enabled = was.enabled
    BY <1>1, <2>1
  <2>4. v.file = was.file /\ v.enabled = was.enabled /\ v.active \subseteq recorded
    <3>1. CASE ~Revives(was) \/ d = None
      BY <1>1, <1>6, <2>1, <2>3, <3>1
    <3>2. CASE Revives(was) /\ d # None
      <4>1. d \in Owners
        BY <1>5, <3>2, HostFields, PartsOf DEF Values
      <4>2. Reconciled(was, d).file = was.file
        <5>1. ~(Direct(was.file["units"]) # Direct(d)) /\ (Direct(d) => was.file["socket"] # None)
          BY <2>1, <2>2 DEF Direct
        <5> QED
          BY <2>1, <4>1, <5>1, ReconciledFiles
      <4>3. v.enabled = was.enabled
        BY <1>6, <2>1, <2>3, <3>2
      <4>4. v.active \subseteq recorded
        BY <1>6, <1>8, <2>1, <3>2
      <4> QED
        BY <1>6, <3>2, <4>2, <4>3, <4>4
    <3> QED
      BY <3>1, <3>2
  <2>5. running = was.active
    BY <2>1, <2>4
  <2>6. "socket" \in running \ v.active => "sbctl" \notin running
    <3> SUFFICES ASSUME "socket" \in was.active, "sbctl" \in was.active PROVE "socket" \in v.active
      BY <2>5
    <3>1. Direct(d) /\ d # None /\ Revives(was)
      BY <1>3, <1>5, <2>1
    <3> QED
      BY <1>6, <3>1
  <2>7. "socket" \in recorded \ running /\ Direct(v.file["units"]) => "sbctl" \notin running
    BY <2>1, <2>4, <2>5
  <2>8. g.active = was.active
    BY <1>7, <2>5, <2>6, <2>7
  <2> QED
    BY <1>7, <2>4, <2>8, SameHost
<1> QED
  BY <1>10, <1>11, <1>12, <1>13 DEF g

(* What the recovery of a switch that nobody has disturbed leaves. *)
LEMMA RecoveredIs ==
  ASSUME LifeInv, NEW p \in Procs, RecoverFiles(p)
  PROVE  /\ host' \in Hosts
         /\ Follows(p) => /\ kind[p] = "mode" /\ LeftAsFound(p, found[p], host')
                          /\ Orderly(found[p]) => Orderly(host')
                          /\ Rooted(found[p]) => Rooted(host')
<1> DEFINE was == job[p].backup
<1>1. /\ pc[p] = "recover"
      /\ host' = IF job[p].touched THEN Restored(host, was) ELSE PutBack(host, was)
  BY DEF RecoverFiles, Change
<1>2. host \in Hosts /\ was \in Hosts
  BY <1>1 DEF LifeInv, LifeTypes, JobFits
<1>3. host' \in Hosts
  BY <1>1, <1>2, RestoredHost, PutBackIs
<1>4. ASSUME Follows(p)
      PROVE  /\ kind[p] = "mode" /\ LeftAsFound(p, found[p], host')
             /\ Orderly(found[p]) => Orderly(host')
             /\ Rooted(found[p]) => Rooted(host')
  <2>1. /\ kind[p] = "mode" /\ Strayed(found[p], host) /\ was = found[p]
        /\ ~job[p].touched => host.active = was.active /\ host.enabled = was.enabled
    BY <1>1, <1>4 DEF Follows, Switches
  <2> HIDE DEF was
  <2>2. CASE job[p].touched
    BY <1>1, <1>2, <2>1, <2>2, RestoredIs DEF LeftAsFound
  <2>3. CASE ~job[p].touched
    <3>1. PutBack(host, was).file = was.file
      BY <1>2, <2>1, PutBackWhole DEF Strayed
    <3>2. PutBack(host, was) = was
      <4>1. /\ PutBack(host, was) \in Hosts /\ PutBack(host, was).active = host.active
            /\ PutBack(host, was).enabled = host.enabled
        BY <1>2, PutBackIs
      <4> QED
        BY <1>2, <2>1, <2>3, <3>1, <4>1, SameHost
    <3> QED
      BY <1>1, <2>1, <2>3, <3>2 DEF LeftAsFound
  <2> QED
    BY <2>2, <2>3
<1> QED
  BY <1>3, <1>4

LEMMA RecoverFilesOwn ==
  ASSUME LifeInv, NEW p \in Procs, RecoverFiles(p)
  PROVE  Own(p)
<1>1. /\ Goto(p, "startUnits") /\ Keeps /\ UNCHANGED job /\ pc[p] = "recover"
      /\ NoReport \/ result' = [result EXCEPT ![p] = "unrecovered"]
  BY DEF RecoverFiles
<1>2. PICK h : Change(p, h)
  BY DEF RecoverFiles
<1>3. JobOK(job[p]) /\ job[p].backup \in Hosts
  BY <1>1, JobIs DEF LifeInv, LifeTypes, JobFits
<1>4. Moves(p, h, "startUnits")
  <2>1. result' = [q \in Procs |-> result'[q]]
    BY <1>1 DEF NoReport, LifeInv, LifeTypes
  <2> QED
    BY <1>1, <1>2, <2>1, GotoIs DEF Moves, Keeps, LifeInv, LifeTypes
<1>5. host' = h /\ found' = found /\ kind' = kind /\ (Undisturbed(p)' => Undisturbed(p) /\ Follows(p))
  BY <1>4, MovesKeep
<1>6. h \in Hosts /\ (Follows(p) => kind[p] = "mode" /\ LeftAsFound(p, found[p], h))
  BY <1>5, RecoveredIs
<1>7. ASSUME Undisturbed(p)' PROVE Follows(p)'
  <2>1. LeftAsFound(p, found[p], host)'
    BY <1>5, <1>6, <1>7 DEF LeftAsFound
  <2> QED
    BY <1>4, <2>1 DEF Follows, Installs, Switches, Moves
<1> QED
  BY <1>1, <1>3, <1>4, <1>6, <1>7, MovesOwn

LEMMA RecoverFailsOwn ==
  ASSUME LifeInv, NEW p \in Procs, RecoverFails(p)
  PROVE  Own(p)
<1>1. /\ Report(p, "unrecovered") /\ UNCHANGED <<kind, found, job>> /\ pc[p] = "recover"
      /\ unrestored' = unrestored \cup {p}
  BY DEF RecoverFails
<1>2. host \in Hosts /\ JobOK(job[p]) /\ job[p].backup \in Hosts
  BY <1>1, JobIs DEF LifeInv, LifeTypes, JobFits
<1>3. PICK h \in Hosts : Change(p, h)
  <2>1. PICK g \in {host, PutBack(host, job[p].backup)} : \E down : Change(p, Halt(g, down))
    BY DEF RecoverFails
  <2>2. g \in Hosts
    BY <1>2, <2>1, PutBackIs
  <2>3. \A down : Halt(g, down) \in Hosts
    BY <2>2, RunIs
  <2> QED
    BY <2>1, <2>3
<1>4. Moves(p, h, "done")
  BY <1>1, <1>3, MovesHow
<1>5. ~Undisturbed(p)' /\ Follows(p)'
  BY <1>1, <1>4 DEF Undisturbed, Follows, Installs, Switches, Moves
<1> QED
  BY <1>1, <1>2, <1>4, <1>5, MovesOwn

-----------------------------------------------------------------------------
(* The timer's task and the uninstallation. *)
LEMMA AccountOwn ==
  ASSUME LifeInv, NEW p \in Procs, Account(p)
  PROVE  Own(p)
<1> DEFINE d == found[p].file["config"]
           h == IF host.file["state"] = None THEN Put(host, {"state"}, d) ELSE host
<1>1. Change(p, h) /\ Report(p, "ok") /\ Keeps /\ UNCHANGED job /\ pc[p] = "waiting"
  BY DEF Account
<1>2. host \in Hosts /\ ~job[p].touched /\ JobOK(job[p]) /\ found[p] \in Hosts
  BY <1>1, JobIs DEF LifeInv, LifeTypes, JobFits
<1>3. d \in Values
  BY <1>2, HostFields, PartsOf
<1> HIDE DEF d
<1>4. h \in Hosts
  BY <1>2, <1>3, PutIs
<1> HIDE DEF h
<1>5. Moves(p, h, "done")
  BY <1>1, MovesHow DEF Keeps
<1>6. Follows(p)' /\ result'[p] = "ok"
  BY <1>1, <1>5, ReportIs DEF Follows, Installs, Switches, Moves, LifeInv
<1> QED
  BY <1>1, <1>2, <1>4, <1>5, <1>6, MovesOwn

LEMMA UninstallingOwn ==
  ASSUME LifeInv, NEW p \in Procs,
         StopAll(p) \/ RemoveUnits(p) \/ EraseConfig(p) \/ EraseData(p)
  PROVE  Own(p)
<1>1. host \in Hosts /\ None \in Values
  BY ValuesOf DEF LifeInv, LifeTypes
<1>2. PICK h \in Hosts, where \in {"units off", "erase", "erase data", "done"} :
        /\ Change(p, h) /\ Keeps /\ UNCHANGED job /\ pc[p] \in {"stop", "units off", "erase", "erase data"}
        /\ \/ Goto(p, where) /\ NoReport /\ where # "done"
           \/ where = "done" /\ Report(p, "ok")
  <2>1. CASE StopAll(p)
    <3>1. Disable(host, UnitsIn(Present(host))) \in Hosts
      BY <1>1, RunIs
    <3> QED
      BY <2>1, <3>1 DEF StopAll
  <2>2. CASE RemoveUnits(p)
    <3>1. Put(host, {"units", "socket", "hook", "kernel"}, None) \in Hosts
      BY <1>1, PutIs
    <3> QED
      BY <2>2, <3>1 DEF RemoveUnits
  <2>3. CASE EraseConfig(p)
    <3>1. Put(host, {"active", "config"}, None) \in Hosts
      BY <1>1, PutIs
    <3> QED
      BY <2>3, <3>1 DEF EraseConfig
  <2>4. CASE EraseData(p)
    <3>1. Put(host, DataParts, None) \in Hosts
      BY <1>1, PutIs
    <3> QED
      BY <2>4, <3>1 DEF EraseData
  <2> QED
    BY <2>1, <2>2, <2>3, <2>4
<1>3. Moves(p, h, where)
  BY <1>2, MovesHow DEF Keeps
<1>4. ~job[p].touched /\ JobOK(job[p])
  BY <1>2, JobIs DEF LifeInv, JobFits
<1>5. Follows(p)'
  BY <1>2, <1>3 DEF Follows, Installs, Switches, Moves
<1>6. where = "done" => result'[p] = "ok"
  BY ZenonT(40), <1>2, ReportIs DEF LifeInv
<1> QED
  BY <1>2, <1>3, <1>4, <1>5, <1>6, MovesOwn

-----------------------------------------------------------------------------
LEMMA LifeInit == Init => LifeInv
<1> SUFFICES ASSUME Init PROVE LifeInv
  OBVIOUS
<1>1. PICK s \in Sessions :
        /\ host = IF s.old = None THEN Bare ELSE Deployed(s.old, s.stopped)
        /\ pc = [p \in Procs |-> "idle"] /\ job = [p \in Procs |-> NoJob]
        /\ result = [p \in Procs |-> "none"] /\ found = [p \in Procs |-> host]
  BY DEF Init
<1>2. s.old # None => s.old \in Olds
  BY HostAssumption
<1>3. host \in Hosts
  <2>1. CASE s.old = None
    BY <1>1, <2>1, BareIs
  <2>2. CASE s.old # None
    <3>1. s.old \in Values /\ None \in Values
      BY <1>2, <2>2, ValuesOf
    <3>2. [part \in Parts |->
             IF \/ part \in {"socket", "hook"} /\ ~Direct(s.old)
                \/ part = "certs" /\ ~Direct(s.old) /\ s.old \notin SelfSigned
             THEN None ELSE s.old] \in [Parts -> Values]
      BY <3>1
    <3>3. Managed(s.old) \ s.stopped \in SUBSET Units /\ Managed(s.old) \in SUBSET Units
      BY UnitSets
    <3> QED
      BY <1>1, <2>2, <3>2, <3>3, HostFields DEF Deployed
  <2> QED
    BY <2>1, <2>2
<1>4. JobOK(NoJob)
  <2>1. <<>> \in [{} -> Values]
    OBVIOUS
  <2>2. NoBackup \in Archives
    BY <2>1 DEF NoBackup, Archives
  <2> QED
    BY <2>2 DEF NoJob, JobOK
<1>5. LifeTypes
  BY <1>1, <1>3, <1>4 DEF LifeTypes
<1>6. ~NoJob.touched
  BY DEF NoJob
<1> QED
  BY <1>1, <1>5, <1>6 DEF LifeInv, JobFits, Follows, Installs, Switches

LEMMA CommandOwn ==
  ASSUME LifeInv, NEW p \in Procs, Proceeds(p) \/ FireTimer(p) \/ Failing(p) \/ Crash(p)
  PROVE  Own(p)
<1>1. CASE Proceeds(p)
  BY <1>1, OpenLockOwn, BeginningsOwn, ListConflictsOwn, ArchiveOwn, RecheckOwn, SampleOwn,
     DownloadOwn, EnterInstallOwn, InstallStepOwn, DecideRollbackOwn, RollBackOwn,
     RestoreReplacedOwn, EnterModeOwn, CaptureOwn, PublishModeOwn, SwitchServicesOwn,
     ObtainModeOwn, RecoverFilesOwn, RecoverUnitsOwn, AccountOwn, UninstallingOwn
     DEF Proceeds, Installing, Switching, Uninstalling
<1>2. CASE FireTimer(p)
  BY <1>2, BeginningsOwn
<1>3. CASE Failing(p)
  BY <1>3, RefusalsOwn, RecheckOwn, DownloadOwn, InstallStepFailsOwn, RollBackLeavesUnitsOwn,
     UnrestoredOwn, PublishModeFailsOwn, SwitchServicesOwn, ObtainModeOwn, RecoverFailsOwn
     DEF Failing
<1>4. CASE Crash(p)
  BY <1>4, CrashOwn
<1> QED
  BY <1>1, <1>2, <1>3, <1>4

LEMMA LifeNext ==
  LifeInv /\ [Next]_vars => LifeInv' /\ \A q \in Procs : FailsClean(q)
<1> SUFFICES ASSUME LifeInv, [Next]_vars PROVE LifeInv' /\ \A q \in Procs : FailsClean(q)
  OBVIOUS
<1>1. ASSUME NEW p \in Procs, Proceeds(p) \/ FireTimer(p) \/ Failing(p) \/ Crash(p)
      PROVE  LifeInv' /\ \A q \in Procs : FailsClean(q)
  <2>1. Own(p)
    BY <1>1, CommandOwn
  <2>2. LifeTypes' /\ ActsAlone(p) /\ JobFits(p)' /\ (Undisturbed(p)' => Follows(p)') /\ FailsClean(p)
    BY <2>1 DEF Own
  <2>3. \A q \in Procs : q # p => /\ JobFits(q)' /\ (Undisturbed(q)' => Follows(q)')
                                  /\ \A how : ~Reports(q, how)
    BY <2>2, OthersKeep
  <2>4. \A q \in Procs : JobFits(q)' /\ (Undisturbed(q)' => Follows(q)')
    BY <2>2, <2>3
  <2> QED
    BY <2>2, <2>3, <2>4 DEF LifeInv, FailsClean
<1>2. CASE UNCHANGED vars
  <2>1. LifeTypes' /\ \A q \in Procs : JobFits(q)' /\ FailsClean(q)
    BY <1>2 DEF vars, ghosts, LifeInv, LifeTypes, JobOK, JobFits, FailsClean, Reports
  <2>2. ASSUME NEW q \in Procs, Undisturbed(q)' PROVE Follows(q)'
    <3>1. Undisturbed(q) /\ Follows(q)
      BY <1>2, <2>2 DEF vars, ghosts, LifeInv, Undisturbed
    <3>2. /\ Strayed(found[q], host)' <=> Strayed(found[q], host)
          /\ LeftAsFound(q, found[q], host)' <=> LeftAsFound(q, found[q], host)
          /\ Restorable(q)' <=> Restorable(q)
      BY <1>2 DEF vars, ghosts, Strayed, LeftAsFound, Restorable
    <3> QED
      BY <1>2, <3>1, <3>2 DEF vars, ghosts, Follows
  <2> QED
    BY <2>1, <2>2 DEF LifeInv
<1> QED
  BY <1>1, <1>2 DEF Next, Rest

(* A failed command leaves the host as it found it (LeftAsFound): exactly, *)
(* except that a mode switch that found a host an earlier command had left *)
(* between two modes brings units, hook and socket in line with the        *)
(* configuration it found, and may leave the daemon stopped (Mended).      *)
(* That is so whatever the commands are, how they interleave and where     *)
(* they fail or die, and also where the recovery is reported as failed     *)
(* only for a unit that never was, as long as each command finds the host  *)
(* orderly: a unit that runs without its file and without a link, which    *)
(* only an uninstallation beside a mode switch leaves, is stopped by a     *)
(* rollback and is not in the archive that would start it again            *)
(* (Snapshot::restore, restart_services, rollback_fresh_installation).     *)
AllOrderly == \A p \in Procs : Orderly(found[p])

THEOREM FailureUndone == Spec /\ []AllOrderly => FailureLeavesHost
<1>1. LifeInv /\ [Next]_vars /\ AllOrderly' =>
        [\A p \in Procs, how \in {"failed", "unrecovered"} :
           Reports(p, how) /\ p \notin disturbed' \cup unrestored'
             => LeftAsFound(p, found'[p], host')]_vars
  <2> SUFFICES ASSUME LifeInv, [Next]_vars, AllOrderly', NEW p \in Procs,
                      NEW how \in {"failed", "unrecovered"},
                      Reports(p, how), p \notin disturbed' \cup unrestored'
               PROVE  LeftAsFound(p, found'[p], host')
    OBVIOUS
  <2>1. Undisturbed(p)'
    BY DEF Undisturbed, AllOrderly
  <2> QED
    BY <2>1, LifeNext DEF FailsClean
<1>2. Init => LifeInv
  BY LifeInit
<1>3. LifeInv /\ [Next]_vars => LifeInv'
  BY LifeNext
<1> QED
  BY <1>1, <1>2, <1>3, PTL DEF Spec, FailureLeavesHost

-----------------------------------------------------------------------------
(***************************************************************************)
(* That every command finds an orderly host.  Whoever changes the host     *)
(* holds the operation lock or finds it free, so nobody disturbs a mode    *)
(* switch; every step of an install, replacement, mode switch or           *)
(* accounting task keeps the host orderly, and keeps what it puts aside    *)
(* such that putting it back is orderly too.                               *)
(***************************************************************************)
(* The operation lock, where nobody deletes its file.                      *)
NoRemovals == \A s \in Sessions, p \in Procs : s.kind[p] \notin {"uninstall", "purge"}

ModeHeld == {"checking", "publish", "services", "obtain", "recover", "startUnits"}
Holding  == Installs \cup ModeHeld
Removing == {"stop", "units off", "erase", "erase data"}

LockInv ==
  /\ inodes \in Nat /\ lockfile \in Nat
  /\ opened = [q \in Procs |-> opened[q]] /\ \A q \in Procs : opened[q] \in {0, lockfile}
  /\ held \subseteq Procs /\ \A q \in held : opened[q] # 0
  /\ \A q, r \in held : q = r
  /\ \A q \in Procs : /\ kind[q] \notin {"uninstall", "purge"} /\ pc[q] \notin Removing
                      /\ pc[q] \in Holding => q \in held
                      /\ pc[q] \in ModeHeld => q \notin disturbed

(* What a step does to the lock, and when it may change the host. *)
OpensLock(p) ==
  /\ pc' = pc /\ opened[p] = 0 /\ held' = held
  /\ LET inode == IF lockfile = 0 THEN inodes + 1 ELSE lockfile
     IN /\ lockfile' = inode
        /\ inodes' = IF lockfile = 0 THEN inode ELSE inodes
        /\ opened' = [opened EXCEPT ![p] = inode]
Locks(p) ==
  \/ Unlocked /\ (pc'[p] \in Holding => pc[p] \in Holding)
  \/ Acquire(p)
  \/ LetGo(p) /\ pc'[p] \notin Holding
  \/ Briefly /\ pc'[p] \notin Holding
  \/ OpensLock(p)
Guarded(p) ==
  /\ Locks(p) /\ pc'[p] \notin Removing
  /\ \A q \in Procs : q # p /\ q \in disturbed' => q \in disturbed \/ host' # host
  /\ host' # host => pc[p] \in Holding \/ Briefly \/ Free(p)
  /\ pc'[p] \in ModeHeld /\ p \in disturbed' => pc[p] \in ModeHeld /\ p \in disturbed

LEMMA NobodyElse ==
  ASSUME LockInv, NEW p \in Procs, pc[p] \in Holding \/ Briefly \/ Free(p)
  PROVE  \A q \in held : q = p
<1>1. CASE pc[p] \in Holding
  BY <1>1 DEF LockInv
<1>2. CASE Briefly
  BY <1>2 DEF LockInv, Briefly
<1>3. CASE Free(p)
  BY <1>3 DEF LockInv, Free
<1> QED
  BY <1>1, <1>2, <1>3

LEMMA FreeIsNobody ==
  ASSUME LockInv, NEW p \in Procs, Briefly \/ Free(p)
  PROVE  held = {}
<1>1. CASE Briefly
  BY <1>1 DEF LockInv, Briefly
<1>2. CASE Free(p)
  BY <1>2 DEF LockInv, Free
<1> QED
  BY <1>1, <1>2

LEMMA LockStep ==
  ASSUME LockInv, NEW p \in Procs, ActsAlone(p), Guarded(p)
  PROVE  LockInv'
<1> DEFINE Inodes == /\ inodes \in Nat /\ lockfile \in Nat
                     /\ opened = [q \in Procs |-> opened[q]]
                     /\ \A q \in Procs : opened[q] \in {0, lockfile}
                     /\ held \subseteq Procs /\ \A q \in held : opened[q] # 0
                     /\ \A q, r \in held : q = r
<1>1. /\ kind' = kind
      /\ \A q \in Procs : q # p => pc'[q] = pc[q] \/ pc'[q] = "dead"
      /\ "dead" \notin Holding \cup Removing
      /\ "dead" \notin ModeHeld /\ \A x \in ModeHeld : x \in Holding
  BY DEF ActsAlone, Holding, ModeHeld, Installs, Removing
<1>2. Inodes /\ (\A q \in Procs : pc[q] \in Holding => q \in held)
      /\ \A q \in Procs : q # p /\ pc'[q] \in Holding => q \in held
  BY <1>1 DEF LockInv
<1>3. Inodes' /\ \A q \in Procs : pc'[q] \in Holding => q \in held'
  <2>1. CASE Unlocked /\ (pc'[p] \in Holding => pc[p] \in Holding)
    BY <1>2, <2>1 DEF Unlocked, locking
  <2>2. CASE Acquire(p)
    <3>1. held = {}
      BY <2>2, FreeIsNobody DEF Acquire
    <3>2. held' = {p} /\ lockfile' = lockfile /\ inodes' = inodes /\ opened' = opened /\ opened[p] # 0
      BY <2>2, <3>1 DEF Acquire, Free
    <3> QED
      BY <1>2, <3>1, <3>2
  <2>3. CASE LetGo(p) /\ pc'[p] \notin Holding
    BY <1>2, <2>3 DEF LetGo
  <2>4. CASE Briefly /\ pc'[p] \notin Holding
    <3>1. held = {} /\ held' = {} /\ opened' = opened
      BY <2>4, FreeIsNobody DEF Briefly
    <3>2. /\ inodes' \in Nat /\ lockfile' \in Nat /\ (lockfile # 0 => lockfile' = lockfile)
      BY <1>2, <2>4 DEF Briefly
    <3> QED
      BY <1>2, <2>4, <3>1, <3>2
  <2>5. CASE OpensLock(p)
    BY <1>2, <2>5 DEF OpensLock
  <2> QED
    BY <2>1, <2>2, <2>3, <2>4, <2>5 DEF Guarded, Locks
<1>4. ASSUME NEW q \in Procs, pc'[q] \in ModeHeld PROVE q \notin disturbed'
  <2>1. CASE q = p
    BY <1>4, <2>1 DEF Guarded, LockInv
  <2>2. CASE q # p
    <3>1. pc[q] \in ModeHeld /\ q \in held /\ q \notin disturbed
      BY <1>1, <1>4, <2>2 DEF LockInv
    <3>2. host' = host
      BY <2>2, <3>1, NobodyElse DEF Guarded
    <3> QED
      BY <2>2, <3>1, <3>2 DEF Guarded
  <2> QED
    BY <2>1, <2>2
<1>5. \A q \in Procs : kind'[q] \notin {"uninstall", "purge"} /\ pc'[q] \notin Removing
  BY <1>1 DEF LockInv, Guarded
<1> QED
  BY <1>3, <1>4, <1>5 DEF LockInv

(* Every step keeps to that. *)
LEMMA GoesTo ==
  ASSUME LifeTypes, NEW p \in Procs, NEW where, Goto(p, where) \/ \E how : where = "done" /\ Report(p, how)
  PROVE  pc'[p] = where
<1>1. CASE Goto(p, where)
  BY <1>1, GotoIs
<1>2. CASE \E how : where = "done" /\ Report(p, how)
  BY <1>2, ReportIs
<1> QED
  BY <1>1, <1>2

LEMMA QuietGuarded ==
  ASSUME LifeInv, NEW p \in Procs, Quietly, NEW where, where \notin Removing,
         Goto(p, where) \/ \E how : where = "done" /\ Report(p, how),
         \/ Unlocked /\ (where \in Holding => pc[p] \in Holding)
                     /\ (where \in ModeHeld => pc[p] \in ModeHeld)
         \/ LetGo(p) /\ where \notin Holding
         \/ Briefly /\ where \notin Holding
         \/ Acquire(p) /\ where \notin ModeHeld
  PROVE  Guarded(p)
<1>1. pc'[p] = where /\ host' = host /\ disturbed' = disturbed
  BY GoesTo DEF Quietly, LifeInv
<1>2. \A x \in ModeHeld : x \in Holding
  BY DEF Holding
<1> QED
  BY <1>1, <1>2 DEF Guarded, Locks

LEMMA ChangeGuarded ==
  ASSUME LifeInv, NEW p \in Procs, NEW h, Change(p, h), NEW where, where \notin Removing,
         Goto(p, where) \/ \E how : where = "done" /\ Report(p, how),
         \/ Unlocked /\ pc[p] \in Holding /\ (where \in ModeHeld => pc[p] \in ModeHeld)
         \/ LetGo(p) /\ where \notin Holding /\ (pc[p] \in Holding \/ Free(p))
         \/ Briefly /\ where \notin Holding
  PROVE  Guarded(p)
<1>1. /\ pc'[p] = where
      /\ \A q \in Procs : q # p /\ q \in disturbed' => q \in disturbed \/ host' # host
      /\ p \in disturbed' => p \in disturbed
  BY GoesTo DEF Change, LifeInv
<1>2. \A x \in ModeHeld : x \in Holding
  BY DEF Holding
<1> QED
  BY <1>1, <1>2 DEF Guarded, Locks

LEMMA BeginningsGuarded ==
  ASSUME LifeInv, LockInv, NEW p \in Procs,
         Preflight(p) \/ BeginMode(p) \/ FireTimer(p) \/ BeginUninstall(p)
  PROVE  Guarded(p)
<1>1. kind[p] \notin {"uninstall", "purge"}
  BY DEF LockInv
<1>2. PICK where \in {"list", "preflighted", "done", "waiting"} : Starts(p, where)
  BY <1>1 DEF Preflight, BeginMode, FireTimer, BeginUninstall
<1>3. Goto(p, where) /\ Quietly /\ Unlocked /\ where \notin Holding /\ where \notin Removing
      /\ where \notin ModeHeld
  BY <1>2 DEF Starts, Holding, ModeHeld, Installs, Removing
<1> QED
  BY <1>3, QuietGuarded

LEMMA QuietActionsGuarded ==
  ASSUME LifeInv, NEW p \in Procs,
         \/ ListConflicts(p) \/ Recheck(p) \/ RecheckFails(p) \/ Sample(p) \/ Download(p)
         \/ DownloadFails(p) \/ DecideRollback(p) \/ ArchiveFails(p) \/ RestoreFails(p)
         \/ RefuseMode(p) \/ PublishModeFails(p) \/ NoUnits(p) \/ Capture(p) \/ EnterInstall(p)
  PROVE  Guarded(p)
<1>1. CASE \/ ListConflicts(p) \/ Recheck(p) \/ RecheckFails(p) \/ Sample(p) \/ Download(p)
           \/ DownloadFails(p) \/ DecideRollback(p)
  <2>1. PICK where \in {"archived", "listed", "preflighted", "restoring", "download", "waiting",
                        "failing", "rollback"} :
          Quietly /\ Unlocked /\ Goto(p, where)
    BY <1>1 DEF ListConflicts, Recheck, RecheckFails, Sample, Download, DownloadFails, DecideRollback
  <2>2. where \notin Holding /\ where \notin Removing /\ where \notin ModeHeld
    BY DEF Holding, ModeHeld, Installs, Removing
  <2> QED
    BY <2>1, <2>2, QuietGuarded
<1>2. CASE ArchiveFails(p) \/ RestoreFails(p) \/ RefuseMode(p)
  <2>1. Quietly /\ (Briefly \/ LetGo(p)) /\ Report(p, "failed")
    BY <1>2 DEF ArchiveFails, RestoreFails, RefuseMode
  <2>2. "done" \notin Holding /\ "done" \notin Removing
    BY DEF Holding, ModeHeld, Installs, Removing
  <2> QED
    BY <2>1, <2>2, QuietGuarded
<1>3. CASE PublishModeFails(p) \/ NoUnits(p) \/ Capture(p)
  <2>1. PICK where \in {"recover", "publish"} :
          Quietly /\ Unlocked /\ Goto(p, where) /\ pc[p] \in ModeHeld
    BY <1>3 DEF PublishModeFails, NoUnits, Capture, ModeHeld
  <2>2. where \in ModeHeld /\ where \notin Removing /\ pc[p] \in Holding
    BY <2>1 DEF ModeHeld, Removing, Holding
  <2> QED
    BY <2>1, <2>2, QuietGuarded
<1>4. CASE EnterInstall(p)
  <2>1. PICK where \in {"generate", "failing"} :
          Quietly /\ Goto(p, where) /\ (Acquire(p) \/ (where = "failing" /\ LetGo(p)))
    BY <1>4 DEF EnterInstall, Atomically
  <2>2. where \notin ModeHeld /\ where \notin Removing /\ "failing" \notin Holding
    BY DEF ModeHeld, Removing, Holding, Installs
  <2> QED
    BY <2>1, <2>2, QuietGuarded
<1> QED
  BY <1>1, <1>2, <1>3, <1>4

LEMMA ChangingActionsGuarded ==
  ASSUME LifeInv, NEW p \in Procs,
         \/ Archive(p) \/ RollBack(p) \/ RollBackLeavesUnits(p) \/ RestoreReplaced(p)
         \/ InstallStep(p) \/ InstallStepFails(p) \/ PublishMode(p) \/ SwitchServices(p)
         \/ SwitchServicesFails(p) \/ ObtainMode(p) \/ ObtainModeFails(p) \/ RecoverFiles(p)
         \/ RecoverFails(p) \/ Account(p)
  PROVE  Guarded(p)
<1>0. /\ {"archived", "restoring", "done", "failing"} \cap (Holding \cup ModeHeld \cup Removing) = {}
      /\ \A x \in ModeHeld : x \in Holding /\ x \notin Removing
      /\ \A x \in Installs : x \in Holding /\ x \notin Removing /\ x \notin ModeHeld
  BY DEF Holding, ModeHeld, Installs, Removing
<1>1. CASE Archive(p) \/ RollBack(p) \/ RollBackLeavesUnits(p) \/ RestoreReplaced(p)
  <2>1. PICK where \in {"archived", "restoring", "done"} :
          /\ Goto(p, where) \/ \E how : where = "done" /\ Report(p, how)
          /\ \/ Quietly /\ (Briefly \/ Unlocked)
             \/ Briefly /\ \E h : Change(p, h)
    BY <1>1 DEF Archive, RollBack, RollBackLeavesUnits, RestoreReplaced
  <2>2. CASE Quietly /\ (Briefly \/ Unlocked)
    BY <1>0, <2>1, <2>2, QuietGuarded
  <2>3. CASE Briefly /\ \E h : Change(p, h)
    BY <1>0, <2>1, <2>3, ChangeGuarded
  <2> QED
    BY <2>1, <2>2, <2>3
<1>2. CASE InstallStep(p)
  <2>1. PICK i \in 1..8 :
          /\ pc[p] = InstallSteps[i]
          /\ \E h : Change(p, h)
          /\ IF InstallSteps[i] = "mark" THEN Report(p, "ok") /\ LetGo(p)
             ELSE Goto(p, InstallSteps[i + 1]) /\ NoReport /\ Unlocked
    BY <1>2, StepNames DEF InstallStep
  <2>2. /\ pc[p] \in Installs
        /\ InstallSteps[i] # "mark" => InstallSteps[i + 1] \in Installs
    BY <2>1, StepNames
  <2>3. CASE InstallSteps[i] = "mark"
    BY <1>0, <2>1, <2>2, <2>3, ChangeGuarded
  <2>4. CASE InstallSteps[i] # "mark"
    BY <1>0, <2>1, <2>2, <2>4, ChangeGuarded
  <2> QED
    BY <2>3, <2>4
<1>3. CASE InstallStepFails(p)
  <2>1. pc[p] \in Installs /\ LetGo(p) /\ Goto(p, "failing") /\ \E h : Change(p, h)
    BY <1>3, StepNames DEF InstallStepFails
  <2> QED
    BY <1>0, <2>1, ChangeGuarded
<1>4. CASE PublishMode(p) \/ SwitchServices(p) \/ SwitchServicesFails(p)
           \/ ObtainMode(p) \/ ObtainModeFails(p) \/ RecoverFiles(p) \/ RecoverFails(p)
  <2>1. PICK where \in {"services", "obtain", "recover", "startUnits", "done"} :
          /\ pc[p] \in ModeHeld /\ \E h : Change(p, h)
          /\ \/ Goto(p, where) /\ Unlocked /\ where # "done"
             \/ where = "done" /\ LetGo(p) /\ \E how : Report(p, how)
    BY <1>4 DEF PublishMode, SwitchServices, SwitchServicesFails, ObtainMode, ObtainModeFails,
                RecoverFiles, RecoverFails, ModeHeld
  <2>2. where # "done" => where \in ModeHeld
    BY DEF ModeHeld
  <2> QED
    BY <1>0, <2>1, <2>2, ChangeGuarded
<1>5. CASE Account(p)
  <2>1. Free(p) /\ LetGo(p) /\ Report(p, "ok") /\ \E h : Change(p, h)
    BY <1>5 DEF Account, Atomically
  <2> QED
    BY <1>0, <2>1, ChangeGuarded
<1> QED
  BY <1>1, <1>2, <1>3, <1>4, <1>5

LEMMA OtherActionsGuarded ==
  ASSUME LifeInv, LockInv, NEW p \in Procs,
         \/ OpenLock(p) \/ EnterMode(p) \/ RecoverUnits(p) \/ Crash(p)
         \/ StopAll(p) \/ RemoveUnits(p) \/ EraseConfig(p) \/ EraseData(p) \/ UninstallFails(p)
  PROVE  Guarded(p)
<1>1. CASE OpenLock(p)
  BY <1>1 DEF OpenLock, Guarded, Locks, OpensLock, Quietly, LockInv
<1>2. CASE EnterMode(p)
  <2>1. /\ host' = host /\ disturbed' = disturbed \ {p}
        /\ \/ Acquire(p) /\ Goto(p, "checking")
           \/ LetGo(p) /\ Report(p, "failed")
    BY <1>2 DEF EnterMode, Atomically
  <2>2. /\ pc'[p] \in {"checking", "done"} /\ pc'[p] \notin Removing
        /\ pc'[p] = "done" => pc'[p] \notin Holding
    <3>1. pc'[p] \in {"checking", "done"}
      BY <2>1, GotoIs, ReportIs DEF LifeInv
    <3>2. {"checking", "done"} \cap Removing = {} /\ "done" \notin Holding
      BY DEF Removing, Holding, ModeHeld, Installs
    <3> QED
      BY <3>1, <3>2
  <2>3. Locks(p)
    <3>1. CASE Acquire(p)
      BY <3>1 DEF Locks
    <3>2. CASE LetGo(p) /\ Report(p, "failed")
      BY <2>2, <3>2, ReportIs DEF Locks, LifeInv
    <3> QED
      BY <2>1, <3>1, <3>2
  <2> QED
    BY <2>1, <2>2, <2>3 DEF Guarded
<1>3. CASE RecoverUnits(p)
  <2>1. /\ host' = host /\ disturbed' = disturbed /\ LetGo(p) /\ pc'[p] = "done"
    BY <1>3, GotoIs DEF RecoverUnits, Quietly, LifeInv
  <2>2. "done" \notin Holding /\ "done" \notin Removing /\ "done" \notin ModeHeld
    BY DEF Holding, ModeHeld, Installs, Removing
  <2> QED
    BY <2>1, <2>2 DEF Guarded, Locks
<1>4. CASE Crash(p)
  <2>1. Goto(p, "dead") /\ LetGo(p) /\ Quietly
    BY <1>4 DEF Crash
  <2>2. "dead" \notin Holding /\ "dead" \notin Removing
    BY DEF Holding, ModeHeld, Installs, Removing
  <2> QED
    BY <2>1, <2>2, QuietGuarded
<1>5. CASE StopAll(p) \/ RemoveUnits(p) \/ EraseConfig(p) \/ EraseData(p) \/ UninstallFails(p)
  BY <1>5 DEF StopAll, RemoveUnits, EraseConfig, EraseData, UninstallFails, LockInv, Removing
<1> QED
  BY <1>1, <1>2, <1>3, <1>4, <1>5

LEMMA CommandGuarded ==
  ASSUME LifeInv, LockInv, NEW p \in Procs, Proceeds(p) \/ FireTimer(p) \/ Failing(p) \/ Crash(p)
  PROVE  Guarded(p)
  BY BeginningsGuarded, QuietActionsGuarded, ChangingActionsGuarded, OtherActionsGuarded
     DEF Proceeds, Installing, Switching, Uninstalling, Failing

-----------------------------------------------------------------------------
(* Orderly hosts.                                                          *)
LEMMA UnitsInIs ==
  \A parts : /\ UnitsIn(parts) \subseteq Units
             /\ "units" \in parts => {"sing-box", "sbctl", "timer"} \subseteq UnitsIn(parts)
             /\ \A more : ("units" \in parts => "units" \in more) /\ ("socket" \in parts => "socket" \in more)
                            => UnitsIn(parts) \subseteq UnitsIn(more)
             /\ \A more : UnitsIn(parts) \ UnitsIn(more) \subseteq UnitsIn(parts \ more)
  BY DEF UnitsIn, Units

(* Nothing that an orderly host needs is taken away. *)
LEMMA StaysOrderly ==
  ASSUME NEW g, NEW h, Orderly(g),
         "units" \in Present(g) => "units" \in Present(h),
         "socket" \in Present(g) => "socket" \in Present(h),
         g.enabled \subseteq h.enabled,
         h.active \subseteq g.active \cup h.enabled \cup UnitsIn(Present(h))
  PROVE  Orderly(h)
<1>1. UnitsIn(Present(g)) \subseteq UnitsIn(Present(h))
  BY UnitsInIs
<1> QED
  BY <1>1 DEF Orderly

LEMMA PutOrderly ==
  ASSUME NEW h \in Hosts, NEW parts, NEW d \in Values, Orderly(h),
         d # None \/ ("units" \notin parts /\ "socket" \notin parts)
  PROVE  Orderly(Put(h, parts, d)) /\ ("units" \in Present(h) => "units" \in Present(Put(h, parts, d)))
<1>1. /\ Put(h, parts, d) \in Hosts
      /\ Put(h, parts, d).file = [part \in Parts |-> IF part \in parts THEN d ELSE h.file[part]]
  BY PutIs
<1>2. Put(h, parts, d).active = h.active /\ Put(h, parts, d).enabled = h.enabled
  BY PutUnits
<1>3. \A part \in {"units", "socket"} : part \in Present(h) => part \in Present(Put(h, parts, d))
  BY <1>1 DEF Present
<1> QED
  BY <1>2, <1>3, StaysOrderly

LEMMA RunOrderly ==
  ASSUME NEW h \in Hosts, Orderly(h), NEW up, NEW starts, starts \subseteq Units,
         up \subseteq starts \cup UnitsIn(Present(h))
  PROVE  LET g == Enable(Run(h, up), starts)
         IN  g \in Hosts /\ Orderly(g) /\ g.file = h.file
<1> DEFINE r == Run(h, up)
           g == Enable(r, starts)
<1>1. up \subseteq Units
  BY UnitsInIs
<1>2. r \in Hosts /\ r = [file |-> h.file, active |-> h.active \cup up, enabled |-> h.enabled]
  BY <1>1, RunIs
<1> HIDE DEF r
<1>3. /\ g \in Hosts
      /\ g = [file |-> r.file, active |-> r.active, enabled |-> r.enabled \cup starts]
  BY <1>2, RunIs
<1>4. /\ g.file = h.file /\ g.active = h.active \cup up /\ g.enabled = h.enabled \cup starts
  BY <1>2, <1>3
<1> HIDE DEF g
<1>5. Present(g) = Present(h)
  BY <1>4 DEF Present
<1>6. Orderly(g)
  BY <1>4, <1>5, StaysOrderly
<1> QED
  BY <1>3, <1>4, <1>6 DEF g, r

LEMMA HaltOrderly ==
  ASSUME NEW h \in Hosts, Orderly(h), NEW units
  PROVE  /\ Halt(h, units) \in Hosts /\ Orderly(Halt(h, units))
         /\ Disable(h, units) \in Hosts /\ Orderly(Disable(h, units))
         /\ Disable(h, units).file = h.file
<1>1. /\ Halt(h, units) \in Hosts /\ Disable(h, units) \in Hosts
      /\ Halt(h, units) = [file |-> h.file, active |-> h.active \ units, enabled |-> h.enabled]
      /\ Disable(h, units) =
           [file |-> h.file, active |-> h.active \ units, enabled |-> h.enabled \ units]
  BY RunIs
<1>2. Halt(h, units).file = h.file /\ Disable(h, units).file = h.file
  BY <1>1
<1>3. Present(Halt(h, units)) = Present(h) /\ Present(Disable(h, units)) = Present(h)
  BY <1>2 DEF Present
<1>4. Orderly(Halt(h, units)) /\ Orderly(Disable(h, units))
  BY <1>1, <1>3 DEF Orderly
<1> QED
  BY <1>1, <1>2, <1>4

LEMMA SwitchedOrderly ==
  ASSUME NEW h \in Hosts, Orderly(h), "units" \in Present(h)
  PROVE  /\ \A p \in Procs : /\ Reconciled(h, p) \in Hosts /\ Orderly(Reconciled(h, p))
                             /\ "units" \in Present(Reconciled(h, p))
         /\ \A d : /\ Restarted(h, d) \in Hosts /\ Orderly(Restarted(h, d))
                   /\ "units" \in Present(Restarted(h, d))
<1>1. ASSUME NEW p \in Procs
      PROVE  /\ Reconciled(h, p) \in Hosts /\ Orderly(Reconciled(h, p))
             /\ "units" \in Present(Reconciled(h, p))
  <2> DEFINE units == IF Direct(h.file["units"]) # Direct(p) THEN Put(h, {"units"}, p) ELSE h
  <2>1. p \in Values /\ p # None /\ None \in Values
    BY ValuesOf
  <2>2. Put(h, {"units"}, p) \in Hosts
    BY <2>1, PutIs
  <2>3. units \in Hosts /\ Orderly(units) /\ "units" \in Present(units)
    BY <2>1, <2>2, PutOrderly
  <2>4. \E parts : \E d \in Values : /\ Reconciled(h, p) = Put(units, parts, d)
                                     /\ d # None \/ ("units" \notin parts /\ "socket" \notin parts)
    <3> DEFINE parts == (IF Direct(h.file["units"]) # Direct(p) \/ h.file["socket"] = None
                         THEN {"socket"} ELSE {})
                          \cup (IF h.file["hook"] = None THEN {"hook"} ELSE {})
    <3>1. CASE ~Direct(p)
      <4>1. Reconciled(h, p) = Put(units, {"hook"}, None) /\ "units" \notin {"hook"} /\ "socket" \notin {"hook"}
        BY <3>1, Zenon DEF Reconciled
      <4> QED
        BY <2>1, <4>1
    <3>2. CASE Direct(p)
      <4>1. Reconciled(h, p) = Put(units, parts, p)
        BY <3>2, Zenon DEF Reconciled
      <4> QED
        BY <2>1, <4>1
    <3> QED
      BY <3>1, <3>2
  <2> HIDE DEF units
  <2>5. PICK parts : \E d \in Values : /\ Reconciled(h, p) = Put(units, parts, d)
                                       /\ d # None \/ ("units" \notin parts /\ "socket" \notin parts)
    BY <2>4
  <2>6. PICK d \in Values : /\ Reconciled(h, p) = Put(units, parts, d)
                            /\ d # None \/ ("units" \notin parts /\ "socket" \notin parts)
    BY <2>5
  <2>7. Put(units, parts, d) \in Hosts
    BY <2>3, PutIs
  <2> QED
    BY <2>3, <2>6, <2>7, PutOrderly
<1>2. ASSUME NEW d
      PROVE  /\ Restarted(h, d) \in Hosts /\ Orderly(Restarted(h, d))
             /\ "units" \in Present(Restarted(h, d))
  <2>1. {"sing-box", "sbctl"} \subseteq UnitsIn(Present(h))
    BY UnitsInIs
  <2>2. CASE Direct(d)
    <3>1. Restarted(h, d) = Enable(Run(h, {"sing-box", "sbctl", "socket"}), {"socket"})
      BY <2>2 DEF Restarted, Enable
    <3>2. {"socket"} \subseteq Units /\ {"sing-box", "sbctl", "socket"} \subseteq {"socket"} \cup UnitsIn(Present(h))
      BY <2>1 DEF Units
    <3>3. Restarted(h, d) \in Hosts /\ Orderly(Restarted(h, d)) /\ Restarted(h, d).file = h.file
      BY <3>1, <3>2, RunOrderly
    <3> QED
      BY <3>3 DEF Present
  <2>3. CASE ~Direct(d)
    <3> DEFINE g == IF h.file["socket"] = None THEN h ELSE Disable(h, {"socket"})
    <3>1. g \in Hosts /\ Orderly(g) /\ g.file = h.file
      BY HaltOrderly
    <3> HIDE DEF g
    <3>2. Present(g) = Present(h)
      BY <3>1 DEF Present
    <3>3. Restarted(h, d) = Run(g, {"sing-box", "sbctl"})
      BY <2>3 DEF Restarted, g
    <3>4. Run(g, {"sing-box", "sbctl"}) \in Hosts
          /\ Run(g, {"sing-box", "sbctl"}) =
               [file |-> g.file, active |-> g.active \cup {"sing-box", "sbctl"}, enabled |-> g.enabled]
      <4>1. {"sing-box", "sbctl"} \subseteq Units
        BY DEF Units
      <4> QED
        BY <3>1, <4>1, RunIs
    <3>5. Present(Restarted(h, d)) = Present(h)
      BY <3>1, <3>3, <3>4 DEF Present
    <3>6. Orderly(Restarted(h, d))
      BY <2>1, <3>1, <3>2, <3>3, <3>4, <3>5 DEF Orderly
    <3> QED
      BY <3>3, <3>4, <3>5, <3>6
  <2> QED
    BY <2>2, <2>3
<1> QED
  BY <1>1, <1>2

(* What an archive holds, and whether what ran is among it. *)
Saved(was)   == {part \in DOMAIN was.file : was.file[part] # None}
Covered(was) == was.active \subseteq UnitsIn(Saved(was)) \cup was.enabled

LEMMA HostCovered ==
  ASSUME NEW h \in Hosts, Orderly(h)
  PROVE  Covered(h)
<1>1. DOMAIN h.file = Parts
  BY HostFields
<1>2. Saved(h) = Present(h)
  BY <1>1 DEF Saved, Present
<1> QED
  BY <1>2 DEF Covered, Orderly

LEMMA NoBackupCovered == Covered(NoBackup) /\ Saved(NoBackup) = DOMAIN NoBackup.file
<1>1. NoBackup.file = <<>> /\ NoBackup.active = {}
  BY DEF NoBackup
<1>2. DOMAIN <<>> = {}
  OBVIOUS
<1> QED
  BY <1>1, <1>2 DEF Covered, Saved

LEMMA ArchiveOrderly ==
  ASSUME NEW h \in Hosts, Orderly(h), NEW listed, listed \subseteq Present(h)
  PROVE  LET units == UnitsIn(listed) \cup h.enabled
             was == [file |-> [part \in listed |-> h.file[part]],
                     active |-> h.active \cap units, enabled |-> h.enabled]
         IN  /\ Covered(was) /\ Saved(was) = DOMAIN was.file
             /\ Orderly(Put(Disable(h, units), listed, None))
<1> DEFINE units == UnitsIn(listed) \cup h.enabled
           was == [file |-> [part \in listed |-> h.file[part]],
                   active |-> h.active \cap units, enabled |-> h.enabled]
           g == Disable(h, units)
           cleared == Put(g, listed, None)
<1>1. Saved(was) = listed /\ DOMAIN was.file = listed
  <2>1. DOMAIN was.file = listed /\ \A part \in listed : was.file[part] = h.file[part]
    OBVIOUS
  <2> HIDE DEF was
  <2> QED
    BY <2>1 DEF Saved, Present
<1>2. was.active = h.active \cap units /\ was.enabled = h.enabled
  OBVIOUS
<1>3. Covered(was)
  <2> HIDE DEF was
  <2> QED
    BY <1>1, <1>2 DEF Covered
<1> HIDE DEF was
<1>4. /\ g \in Hosts /\ g = [file |-> h.file, active |-> h.active \ units, enabled |-> h.enabled \ units]
  BY RunIs
<1>5. g.file = h.file /\ g.active = h.active \ units
  BY <1>4
<1> HIDE DEF g
<1>6. /\ cleared.file = [part \in Parts |-> IF part \in listed THEN None ELSE g.file[part]]
      /\ cleared.active = g.active /\ cleared.enabled = g.enabled
  <2>1. None \in Values /\ g \in Hosts
    BY <1>4, ValuesOf
  <2>2. cleared.active = g.active /\ cleared.enabled = g.enabled
    BY <2>1, PutUnits
  <2>3. cleared.file = [part \in Parts |-> IF part \in listed THEN None ELSE g.file[part]]
    BY <2>1, PutIs
  <2> QED
    BY <2>2, <2>3
<1> HIDE DEF cleared
<1>7. Present(cleared) = Present(h) \ listed
  BY <1>5, <1>6 DEF Present
<1>8. Orderly(cleared)
  <2>1. UnitsIn(Present(h)) \ UnitsIn(listed) \subseteq UnitsIn(Present(h) \ listed)
    BY UnitsInIs
  <2> QED
    BY <1>5, <1>6, <1>7, <2>1 DEF Orderly
<1> QED
  BY <1>1, <1>3, <1>8 DEF cleared, g, was

LEMMA UnpackedOrderly ==
  ASSUME NEW h \in Hosts, Orderly(h), NEW was \in Archives,
         Covered(was), Saved(was) = DOMAIN was.file
  PROVE  Orderly(Unpacked(h, was))
<1> DEFINE g == Unpacked(h, was)
<1>1. /\ g.file = [part \in Parts |-> IF part \in DOMAIN was.file THEN was.file[part] ELSE h.file[part]]
      /\ g.active = h.active \cup was.active /\ g.enabled = h.enabled \cup was.enabled
  BY DEF Unpacked
<1> HIDE DEF g
<1>2. DOMAIN was.file \subseteq Parts
  BY DEF Archives
<1>3. Present(h) \subseteq Present(g) /\ Saved(was) \subseteq Present(g)
  BY <1>1, <1>2 DEF Present, Saved
<1>4. UnitsIn(Present(h)) \subseteq UnitsIn(Present(g)) /\ UnitsIn(Saved(was)) \subseteq UnitsIn(Present(g))
  BY <1>3, UnitsInIs
<1> QED
  BY <1>1, <1>4 DEF Orderly, Covered, g

LEMMA RolledBackOrderly ==
  ASSUME NEW h \in Hosts, NEW pre
  PROVE  Orderly(RolledBack(h, pre))
<1> DEFINE stopped == Disable(h, Units)
           parts   == (Parts \ (DataParts \cup {"config"}))
                        \cup (IF "config" \in pre THEN {} ELSE {"config"})
                        \cup (IF "data" \in pre THEN {} ELSE DataParts)
<1>1. stopped \in Hosts /\ stopped.active = {}
  BY RunIs, HostFields
<1>2. RolledBack(h, pre) = Put(stopped, parts, None)
  BY DEF RolledBack
<1> HIDE DEF stopped, parts
<1>3. Put(stopped, parts, None).active = {}
  BY <1>1, ValuesOf, PutUnits
<1> QED
  BY <1>2, <1>3 DEF Orderly

-----------------------------------------------------------------------------
(* Where nothing is uninstalled and every recovery is complete, every      *)
(* command finds the host orderly, and leaves it so.                       *)
Ended == ModeHeld \cup {"done", "dead"}
WellKept(p) ==
  /\ Covered(job[p].backup)
  /\ pc[p] \notin Ended => Saved(job[p].backup) = DOMAIN job[p].backup.file
  /\ pc[p] = "obtain" => "units" \in Present(host)
OrderInv ==
  unrestored = {} => Orderly(host) /\ \A p \in Procs : Orderly(found[p]) /\ WellKept(p)

Tidy(p) ==
  /\ unrestored \subseteq unrestored'
  /\ unrestored' = {} => Orderly(host') /\ Orderly(found'[p]) /\ WellKept(p)'

LEMMA OrderStep ==
  ASSUME LockInv, OrderInv, NEW p \in Procs, ActsAlone(p), Guarded(p), Tidy(p)
  PROVE  OrderInv'
<1> SUFFICES ASSUME unrestored' = {}
             PROVE  Orderly(host') /\ \A q \in Procs : Orderly(found'[q]) /\ WellKept(q)'
  BY DEF OrderInv, Orderly
<1>1. unrestored = {} /\ Orderly(host') /\ Orderly(found'[p]) /\ WellKept(p)'
  BY DEF Tidy
<1>2. ASSUME NEW q \in Procs, q # p PROVE Orderly(found'[q]) /\ WellKept(q)'
  <2>1. /\ job'[q] = job[q] /\ found'[q] = found[q]
        /\ pc'[q] = pc[q] \/ pc'[q] = "dead"
        /\ Orderly(found[q]) /\ WellKept(q)
    BY <1>1, <1>2 DEF ActsAlone, OrderInv
  <2>2. pc'[q] = "obtain" => host' = host
    <3>1. "obtain" \in Holding /\ "obtain" # "dead"
      BY DEF Holding, ModeHeld
    <3>2. pc'[q] = "obtain" => q \in held
      BY <2>1, <3>1 DEF LockInv
    <3> QED
      BY <1>2, <3>2, NobodyElse DEF Guarded
  <2>3. "dead" \in Ended
    BY DEF Ended
  <2>4. Covered(job[q].backup)' <=> Covered(job[q].backup)
    BY <2>1 DEF Covered, Saved
  <2>5. Saved(job[q].backup)' = Saved(job[q].backup)
    BY <2>1 DEF Saved
  <2>6. host' = host => Present(host)' = Present(host)
    BY DEF Present
  <2> QED
    BY <2>1, <2>2, <2>3, <2>4, <2>5, <2>6 DEF WellKept
<1> QED
  BY <1>1, <1>2

LEMMA BackupKept ==
  ASSUME LifeTypes, NEW p \in Procs,
         UNCHANGED job \/ \E v : Set(p, "listed", v) \/ Set(p, "pre", v) \/ Set(p, "touched", v)
  PROVE  job'[p].backup = job[p].backup
<1>1. CASE UNCHANGED job
  BY <1>1
<1>2. ASSUME NEW v, Set(p, "listed", v) \/ Set(p, "pre", v) \/ Set(p, "touched", v)
      PROVE  job'[p].backup = job[p].backup
  <2>1. CASE Set(p, "listed", v)
    <3>1. job'[p] = [committed |-> job[p].committed, pre |-> job[p].pre,
                     listed |-> v, backup |-> job[p].backup,
                     touched |-> job[p].touched, waits |-> job[p].waits]
      BY <2>1, FieldSet
    <3> QED
      BY <3>1
  <2>2. CASE Set(p, "pre", v)
    <3>1. job'[p] = [committed |-> job[p].committed, pre |-> v,
                     listed |-> job[p].listed, backup |-> job[p].backup,
                     touched |-> job[p].touched, waits |-> job[p].waits]
      BY <2>2, FieldSet
    <3> QED
      BY <3>1
  <2>3. CASE Set(p, "touched", v)
    <3>1. job'[p] = [committed |-> job[p].committed, pre |-> job[p].pre,
                     listed |-> job[p].listed, backup |-> job[p].backup,
                     touched |-> v, waits |-> job[p].waits]
      BY <2>3, FieldSet
    <3> QED
      BY <3>1
  <2> QED
    BY <1>2, <2>1, <2>2, <2>3
<1> QED
  BY <1>1, <1>2

LEMMA TidyStep ==
  ASSUME OrderInv, NEW p \in Procs,
         unrestored' = unrestored \/ unrestored' = unrestored \cup {p},
         found'[p] \in {found[p], host},
         job'[p].backup = job[p].backup,
         pc'[p] \in Ended \/ pc[p] \notin Ended,
         unrestored' = {} =>
           Orderly(host') /\ (pc'[p] = "obtain" => "units" \in Present(host'))
  PROVE  Tidy(p)
<1>1. unrestored \subseteq unrestored'
  OBVIOUS
<1>2. ASSUME unrestored' = {} PROVE Orderly(found'[p]) /\ WellKept(p)'
  <2>1. unrestored = {} /\ Orderly(host) /\ Orderly(found[p]) /\ WellKept(p)
    BY <1>1, <1>2 DEF OrderInv
  <2>2. Orderly(found'[p])
    BY <2>1
  <2>3. Covered(job[p].backup)' <=> Covered(job[p].backup)
    BY DEF Covered, Saved
  <2>4. Saved(job[p].backup)' = Saved(job[p].backup)
    BY DEF Saved
  <2>5. Present(host)' = Present(host')
    BY DEF Present
  <2> QED
    BY <1>2, <2>1, <2>2, <2>3, <2>4, <2>5 DEF WellKept
<1> QED
  BY <1>1, <1>2 DEF Tidy

LEMMA QuietTidy ==
  ASSUME LifeInv, OrderInv, NEW p \in Procs, host' = host,
         unrestored' = unrestored \/ unrestored' = unrestored \cup {p},
         found' = found \/ found' = [found EXCEPT ![p] = host],
         UNCHANGED job \/ \E v : Set(p, "listed", v) \/ Set(p, "pre", v) \/ Set(p, "touched", v),
         pc'[p] # "obtain", pc'[p] \in Ended \/ pc[p] \notin Ended
  PROVE  Tidy(p)
<1>1. found'[p] \in {found[p], host}
  BY DEF LifeInv, LifeTypes
<1>2. job'[p].backup = job[p].backup
  BY BackupKept DEF LifeInv
<1>3. unrestored' = {} => Orderly(host')
  BY DEF OrderInv
<1> QED
  BY <1>1, <1>2, <1>3, TidyStep

LEMMA QuietActionsTidy ==
  ASSUME LifeInv, LockInv, OrderInv, NEW p \in Procs,
         \/ Preflight(p) \/ BeginMode(p) \/ FireTimer(p) \/ BeginUninstall(p) \/ OpenLock(p)
         \/ ListConflicts(p) \/ Recheck(p) \/ RecheckFails(p) \/ Sample(p) \/ Download(p)
         \/ DownloadFails(p) \/ DecideRollback(p) \/ ArchiveFails(p) \/ RestoreFails(p)
         \/ RefuseMode(p) \/ PublishModeFails(p) \/ NoUnits(p) \/ EnterInstall(p)
         \/ EnterMode(p) \/ RecoverUnits(p) \/ Crash(p)
  PROVE  Tidy(p)
<1>0. /\ {"done", "dead", "checking", "recover"} \subseteq Ended
      /\ Ended \cap {"idle", "waiting", "list", "listed", "archived", "preflighted", "download",
                     "failing", "rollback", "restoring", "generate"} = {}
  BY DEF Ended, ModeHeld
<1>1. CASE Preflight(p) \/ BeginMode(p) \/ FireTimer(p) \/ BeginUninstall(p)
  <2>1. PICK where \in {"list", "preflighted", "done", "waiting"} : Starts(p, where)
    BY <1>1 DEF Preflight, BeginMode, FireTimer, BeginUninstall, LockInv
  <2>2. /\ host' = host /\ unrestored' = unrestored /\ found' = [found EXCEPT ![p] = host]
        /\ UNCHANGED job /\ pc[p] = "idle" /\ pc'[p] = where
    BY <2>1, GotoIs DEF Starts, Quietly, LifeInv
  <2> QED
    BY <1>0, <2>2, QuietTidy
<1>2. CASE OpenLock(p)
  <2>1. host' = host /\ unrestored' = unrestored /\ found' = found /\ UNCHANGED job /\ pc' = pc
        /\ pc[p] = "waiting"
    BY <1>2 DEF OpenLock, Quietly, Keeps
  <2> QED
    BY <1>0, <2>1, QuietTidy
<1>3. CASE \/ ListConflicts(p) \/ Recheck(p) \/ RecheckFails(p) \/ Sample(p) \/ Download(p)
           \/ DownloadFails(p) \/ DecideRollback(p) \/ EnterInstall(p)
  <2>1. PICK where \in {"archived", "listed", "preflighted", "restoring", "download", "waiting",
                        "failing", "rollback", "generate"} :
          /\ Quietly /\ Keeps /\ Goto(p, where)
          /\ UNCHANGED job \/ \E v : Set(p, "listed", v) \/ Set(p, "pre", v) \/ Set(p, "touched", v)
          /\ pc[p] \in {"list", "archived", "preflighted", "download", "failing", "waiting"}
    BY <1>3 DEF ListConflicts, Recheck, RecheckFails, Sample, Download, DownloadFails,
                DecideRollback, EnterInstall
  <2>2. pc'[p] = where /\ host' = host /\ unrestored' = unrestored /\ found' = found
    BY <2>1, GotoIs DEF Quietly, Keeps, LifeInv
  <2> QED
    BY <1>0, <2>1, <2>2, QuietTidy
<1>4. CASE \/ ArchiveFails(p) \/ RestoreFails(p) \/ RefuseMode(p) \/ PublishModeFails(p)
           \/ NoUnits(p) \/ RecoverUnits(p) \/ Crash(p) \/ EnterMode(p)
  <2>1. /\ host' = host /\ (unrestored' = unrestored \/ unrestored' = unrestored \cup {p})
        /\ UNCHANGED job \/ \E v : Set(p, "listed", v) \/ Set(p, "pre", v) \/ Set(p, "touched", v)
    BY <1>4 DEF ArchiveFails, RestoreFails, RefuseMode, PublishModeFails, NoUnits, RecoverUnits,
                Crash, EnterMode, Quietly, Keeps
  <2>2. pc'[p] \in {"done", "recover", "dead", "checking"}
    BY <1>4, GotoIs, ReportIs DEF ArchiveFails, RestoreFails, RefuseMode, PublishModeFails,
       NoUnits, RecoverUnits, Crash, EnterMode, LifeInv
  <2>3. found' = found \/ found' = [found EXCEPT ![p] = host]
    BY <1>4 DEF ArchiveFails, RestoreFails, RefuseMode, PublishModeFails, NoUnits, RecoverUnits,
                Crash, EnterMode, Keeps
  <2> QED
    BY <1>0, <2>1, <2>2, <2>3, QuietTidy
<1> QED
  BY <1>1, <1>2, <1>3, <1>4

(* The steps that change the host, or what has been put aside of it. *)
LEMMA ChangeTidy ==
  ASSUME LifeInv, OrderInv, NEW p \in Procs, NEW h, Change(p, h), NEW where, pc'[p] = where,
         unrestored' = unrestored, found' = found,
         UNCHANGED job \/ \E v : Set(p, "listed", v) \/ Set(p, "pre", v) \/ Set(p, "touched", v),
         where \in Ended \/ pc[p] \notin Ended,
         unrestored = {} => Orderly(h) /\ (where = "obtain" => "units" \in Present(h))
  PROVE  Tidy(p)
<1>1. host' = h
  BY ChangeIs
<1>2. job'[p].backup = job[p].backup
  BY BackupKept DEF LifeInv
<1> QED
  BY <1>1, <1>2, TidyStep

LEMMA UnrestoredTidy ==
  ASSUME LifeInv, OrderInv, NEW p \in Procs, RollBackLeavesUnits(p) \/ RecoverFails(p)
  PROVE  Tidy(p)
<1>1. unrestored' = unrestored \cup {p}
  BY DEF RollBackLeavesUnits, RecoverFails
<1> QED
  BY <1>1 DEF Tidy

LEMMA ArchiveTidy ==
  ASSUME LifeInv, OrderInv, NEW p \in Procs, Archive(p)
  PROVE  Tidy(p)
<1> DEFINE listed == job[p].listed
           units == UnitsIn(listed) \cup host.enabled
           was == [file |-> [part \in listed |-> host.file[part]],
                   active |-> host.active \cap units, enabled |-> host.enabled]
           cleared == Put(Disable(host, units), listed, None)
<1>1. host \in Hosts
  BY DEF LifeInv, LifeTypes
<1>2. unrestored' = unrestored /\ found' = found
  BY DEF Archive, Keeps
<1>3. CASE listed \subseteq Present(host)
  <2>1. /\ Set(p, "backup", was) /\ Change(p, cleared) /\ Goto(p, "archived")
    BY <1>3 DEF Archive
  <2>2. unrestored = {} => Covered(was) /\ Saved(was) = DOMAIN was.file /\ Orderly(cleared)
    BY <1>1, <1>3, ArchiveOrderly DEF OrderInv
  <2> HIDE DEF was, cleared
  <2>3. job'[p] = [committed |-> job[p].committed, pre |-> job[p].pre,
                   listed |-> job[p].listed, backup |-> was,
                   touched |-> job[p].touched, waits |-> job[p].waits]
    BY <2>1, FieldSet DEF LifeInv
  <2>4. job'[p].backup = was
    BY <2>3
  <2>5. host' = cleared /\ pc'[p] = "archived"
    BY <2>1, ChangeIs, GotoIs DEF LifeInv
  <2>6. Covered(job[p].backup)' <=> Covered(was)
    BY <2>4 DEF Covered, Saved
  <2>7. Saved(job[p].backup)' = Saved(was)
    BY <2>4 DEF Saved
  <2>8. unrestored = {} => WellKept(p)'
    BY <2>2, <2>4, <2>5, <2>6, <2>7 DEF WellKept
  <2> QED
    BY <1>2, <2>2, <2>5, <2>8 DEF Tidy, OrderInv
<1>4. CASE ~(listed \subseteq Present(host))
  <2>1. Report(p, "failed") /\ Quietly /\ UNCHANGED job
    BY <1>4 DEF Archive
  <2>2. pc'[p] = "done" /\ host' = host
    BY <2>1, ReportIs DEF Quietly, LifeInv
  <2> QED
    BY <1>2, <2>1, <2>2, QuietTidy DEF Ended
<1> QED
  BY <1>3, <1>4

(* What a mode switch captures. *)
LEMMA CaptureIs ==
  ASSUME LifeInv, NEW p \in Procs, Capture(p)
  PROVE  job'[p].backup = host
<1> DEFINE once == [job EXCEPT ![p].backup = host]
           w == Activating # {}
<1>1. job' = [once EXCEPT ![p].waits = w]
  BY DEF Capture
<1>2. /\ job = [q \in Procs |-> job[q]]
      /\ job[p] = [committed |-> job[p].committed, pre |-> job[p].pre,
                   listed |-> job[p].listed, backup |-> job[p].backup,
                   touched |-> job[p].touched, waits |-> job[p].waits]
  BY JobIs DEF LifeInv
<1>3. /\ once = [q \in Procs |-> once[q]]
      /\ once[p] = [committed |-> job[p].committed, pre |-> job[p].pre,
                    listed |-> job[p].listed, backup |-> host,
                    touched |-> job[p].touched, waits |-> job[p].waits]
  BY <1>2
<1> HIDE DEF once, w
<1>4. job'[p] = [committed |-> job[p].committed, pre |-> job[p].pre,
                 listed |-> job[p].listed, backup |-> host,
                 touched |-> job[p].touched, waits |-> w]
  BY <1>1, <1>3
<1> QED
  BY <1>4

LEMMA CaptureTidy ==
  ASSUME LifeInv, OrderInv, NEW p \in Procs, Capture(p)
  PROVE  Tidy(p)
<1>1. /\ Goto(p, "publish") /\ Quietly /\ Keeps
      /\ job' = [job EXCEPT ![p].backup = host, ![p].waits = Activating # {}]
  BY DEF Capture
<1>2. pc'[p] = "publish" /\ host' = host /\ unrestored' = unrestored /\ found' = found
  BY <1>1, GotoIs DEF Quietly, Keeps, LifeInv
<1>3. host \in Hosts
  BY DEF LifeInv, LifeTypes
<1>4. job'[p].backup = host
  BY CaptureIs
<1>5. unrestored = {} => Covered(host)
  BY <1>3, HostCovered DEF OrderInv
<1>6. Covered(job[p].backup)' <=> Covered(host)
  BY <1>4 DEF Covered, Saved
<1>7. unrestored = {} => WellKept(p)'
  BY <1>2, <1>5, <1>6 DEF WellKept, Ended, ModeHeld
<1> QED
  BY <1>2, <1>7 DEF Tidy, OrderInv

LEMMA RollingBackTidy ==
  ASSUME LifeInv, OrderInv, NEW p \in Procs, RollBack(p) \/ RestoreReplaced(p)
  PROVE  Tidy(p)
<1>0. host \in Hosts /\ job[p].backup \in Archives
  BY JobIs DEF LifeInv, LifeTypes
<1>1. CASE RollBack(p)
  <2>1. Goto(p, "restoring") /\ Keeps /\ UNCHANGED job /\ pc[p] = "rollback"
    BY <1>1 DEF RollBack
  <2>2. pc'[p] = "restoring" /\ unrestored' = unrestored /\ found' = found /\ pc[p] \notin Ended
    BY <2>1, GotoIs DEF Keeps, LifeInv, Ended, ModeHeld
  <2>3. CASE SomebodyElses(p)
    BY <1>1, <2>1, <2>2, <2>3, QuietTidy DEF RollBack, Quietly
  <2>4. CASE ~SomebodyElses(p)
    <3>1. Change(p, RolledBack(host, job[p].pre))
      BY <1>1, <2>4 DEF RollBack
    <3>2. Orderly(RolledBack(host, job[p].pre))
      BY <1>0, RolledBackOrderly
    <3> QED
      BY <2>1, <2>2, <3>1, <3>2, ChangeTidy
  <2> QED
    BY <2>3, <2>4
<1>2. CASE RestoreReplaced(p)
  <2>1. Report(p, "failed") /\ Keeps /\ UNCHANGED job /\ pc[p] = "restoring"
    BY <1>2 DEF RestoreReplaced
  <2>2. /\ pc'[p] = "done" /\ unrestored' = unrestored /\ found' = found
        /\ pc[p] \notin Ended /\ "done" \in Ended
    BY <2>1, ReportIs DEF Keeps, LifeInv, Ended, ModeHeld
  <2>3. CASE job[p].backup = NoBackup
    BY <1>2, <2>1, <2>2, <2>3, QuietTidy DEF RestoreReplaced, Quietly
  <2>4. CASE job[p].backup # NoBackup
    <3>1. Change(p, Unpacked(host, job[p].backup))
      BY <1>2, <2>4 DEF RestoreReplaced
    <3>2. unrestored = {} => Orderly(Unpacked(host, job[p].backup))
      <4>1. unrestored = {} => /\ Orderly(host) /\ Covered(job[p].backup)
                               /\ Saved(job[p].backup) = DOMAIN job[p].backup.file
        BY <2>2 DEF OrderInv, WellKept
      <4> QED
        BY <1>0, <4>1, UnpackedOrderly
    <3> QED
      BY <2>1, <2>2, <3>1, <3>2, ChangeTidy
  <2> QED
    BY <2>3, <2>4
<1> QED
  BY <1>1, <1>2

LEMMA AccountTidy ==
  ASSUME LifeInv, OrderInv, NEW p \in Procs, Account(p)
  PROVE  Tidy(p)
<1> DEFINE d == found[p].file["config"]
           h == IF host.file["state"] = None THEN Put(host, {"state"}, d) ELSE host
<1>1. Change(p, h) /\ Report(p, "ok") /\ Keeps /\ UNCHANGED job
  BY DEF Account
<1>2. host \in Hosts /\ found[p] \in Hosts
  BY DEF LifeInv, LifeTypes
<1>3. d \in Values
  BY <1>2, HostFields, PartsOf
<1> HIDE DEF d
<1>4. Orderly(host) => Orderly(h)
  <2>1. "units" \notin {"state"} /\ "socket" \notin {"state"}
    OBVIOUS
  <2> QED
    BY <1>2, <1>3, <2>1, PutOrderly
<1> HIDE DEF h
<1>5. pc'[p] = "done" /\ "done" \in Ended /\ unrestored' = unrestored /\ found' = found
  BY <1>1, ReportIs DEF Keeps, LifeInv, Ended
<1>6. unrestored = {} => Orderly(h)
  BY <1>4 DEF OrderInv
<1> QED
  BY <1>1, <1>5, <1>6, ChangeTidy

LEMMA InstallStepTidy ==
  ASSUME LifeInv, OrderInv, NEW p \in Procs, InstallStep(p) \/ InstallStepFails(p)
  PROVE  Tidy(p)
<1>0. /\ host \in Hosts /\ p \in Values /\ p # None
      /\ Installs \cap Ended = {} /\ "failing" \notin Ended /\ "done" \in Ended
      /\ "obtain" \notin Installs
  BY ValuesOf DEF LifeInv, LifeTypes, Installs, Ended, ModeHeld
<1>1. ASSUME NEW parts, NEW starts, NEW up, starts \subseteq Units, up \subseteq starts
      PROVE  Orderly(host) => Orderly(Enable(Run(Put(host, parts, p), up), starts))
  <2> DEFINE put == Put(host, parts, p)
  <2>1. Orderly(host) => put \in Hosts /\ Orderly(put)
    BY <1>0, PutIs, PutOrderly
  <2> HIDE DEF put
  <2>2. up \subseteq starts \cup UnitsIn(Present(put))
    BY <1>1
  <2>3. put \in Hosts /\ Orderly(put) => Orderly(Enable(Run(put, up), starts))
    BY <1>1, <2>2, RunOrderly
  <2>4. Orderly(host) => Orderly(Enable(Run(put, up), starts))
    BY <2>1, <2>3
  <2> QED
    BY <2>4 DEF put
<1>2. CASE InstallStep(p)
  <2>1. PICK i \in 1..8 :
          /\ pc[p] = InstallSteps[i]
          /\ Change(p, Enable(Run(Put(host, ToSet(Writes(p, InstallSteps[i])), p),
                                  Starting(p, InstallSteps[i])), Starting(p, InstallSteps[i])))
          /\ job' = [job EXCEPT ![p].committed = @ \/ InstallSteps[i] = "initialize"]
          /\ IF InstallSteps[i] = "mark" THEN Report(p, "ok") /\ LetGo(p)
             ELSE Goto(p, InstallSteps[i + 1]) /\ NoReport /\ Unlocked
          /\ Keeps
    BY <1>2, StepNames DEF InstallStep
  <2> DEFINE starts == Starting(p, InstallSteps[i])
             parts == ToSet(Writes(p, InstallSteps[i]))
             c == job[p].committed \/ InstallSteps[i] = "initialize"
  <2>2. starts \subseteq Units
    BY UnitSets DEF Starting
  <2>3. Change(p, Enable(Run(Put(host, parts, p), starts), starts))
    BY <2>1
  <2> HIDE DEF starts, parts
  <2>4. Orderly(host) => Orderly(host')
    BY <1>1, <2>2, <2>3, ChangeIs
  <2>5. job'[p].backup = job[p].backup
    <3>1. /\ job = [q \in Procs |-> job[q]]
          /\ job[p] = [committed |-> job[p].committed, pre |-> job[p].pre,
                       listed |-> job[p].listed, backup |-> job[p].backup,
                       touched |-> job[p].touched, waits |-> job[p].waits]
      BY JobIs DEF LifeInv
    <3>2. job' = [job EXCEPT ![p].committed = c]
      BY <2>1
    <3> HIDE DEF c
    <3>3. job'[p] = [committed |-> c, pre |-> job[p].pre,
                     listed |-> job[p].listed, backup |-> job[p].backup,
                     touched |-> job[p].touched, waits |-> job[p].waits]
      BY <3>1, <3>2
    <3> QED
      BY <3>3
  <2>6. pc[p] \in Installs
    BY <2>1, StepNames
  <2>7. pc'[p] # "obtain"
    <3>1. CASE InstallSteps[i] = "mark"
      BY <2>1, <3>1, ReportIs DEF LifeInv
    <3>2. CASE InstallSteps[i] # "mark"
      <4>1. pc'[p] = InstallSteps[i + 1]
        BY <2>1, <3>2, GotoIs DEF LifeInv
      <4> QED
        BY <1>0, <3>2, <4>1, StepNames
    <3> QED
      BY <3>1, <3>2
  <2>8. unrestored' = unrestored /\ found' = found
    BY <2>1 DEF Keeps
  <2>9. unrestored' = {} => Orderly(host')
    BY <2>4, <2>8 DEF OrderInv
  <2> QED
    BY <1>0, <2>5, <2>6, <2>7, <2>8, <2>9, TidyStep
<1>3. CASE InstallStepFails(p)
  <2>1. /\ pc[p] \in Installs /\ Goto(p, "failing") /\ Keeps /\ UNCHANGED job
        /\ \E n \in 0 .. Len(Writes(p, pc[p])), up \in SUBSET Starting(p, pc[p]) :
             Change(p, Enable(Run(Put(host, ToSet(SubSeq(Writes(p, pc[p]), 1, n)), p), up),
                              Starting(p, pc[p])))
    BY <1>3, StepNames DEF InstallStepFails
  <2>2. PICK n \in 0 .. Len(Writes(p, pc[p])), up \in SUBSET Starting(p, pc[p]) :
             Change(p, Enable(Run(Put(host, ToSet(SubSeq(Writes(p, pc[p]), 1, n)), p), up),
                              Starting(p, pc[p])))
    BY <2>1
  <2> DEFINE starts == Starting(p, pc[p])
             parts == ToSet(SubSeq(Writes(p, pc[p]), 1, n))
             h == Enable(Run(Put(host, parts, p), up), starts)
  <2>3. starts \subseteq Units /\ up \subseteq starts /\ Change(p, h)
    BY <2>2, UnitSets DEF Starting
  <2> HIDE DEF starts, parts
  <2>4. Orderly(host) => Orderly(h)
    BY <1>1, <2>3
  <2> HIDE DEF h
  <2>5. pc'[p] = "failing" /\ unrestored' = unrestored /\ found' = found
    BY <2>1, GotoIs DEF Keeps, LifeInv
  <2>6. unrestored = {} => Orderly(h)
    BY <2>4 DEF OrderInv
  <2> QED
    BY <1>0, <2>1, <2>3, <2>5, <2>6, ChangeTidy
<1> QED
  BY <1>2, <1>3

LEMMA PublishModeTidy ==
  ASSUME LifeInv, OrderInv, NEW p \in Procs, PublishMode(p)
  PROVE  Tidy(p)
<1> DEFINE parts == {"artifacts", "active", "config"}
           h == Put(host, parts, p)
<1>1. Change(p, h) /\ Goto(p, "services") /\ Keeps /\ UNCHANGED job
  BY DEF PublishMode
<1>2. host \in Hosts /\ p \in Values /\ p # None
  BY ValuesOf DEF LifeInv, LifeTypes
<1> HIDE DEF parts
<1>3. Orderly(host) => Orderly(h)
  BY <1>2, PutOrderly
<1> HIDE DEF h
<1>4. pc'[p] = "services" /\ "services" \in Ended /\ unrestored' = unrestored /\ found' = found
  BY <1>1, GotoIs DEF Keeps, LifeInv, Ended, ModeHeld
<1>5. unrestored = {} => Orderly(h)
  BY <1>3 DEF OrderInv
<1> QED
  BY <1>1, <1>4, <1>5, ChangeTidy

LEMMA SwitchServicesTidy ==
  ASSUME LifeInv, OrderInv, NEW p \in Procs, SwitchServices(p) \/ SwitchServicesFails(p)
  PROVE  Tidy(p)
<1> DEFINE reconciled == Reconciled(host, p)
           switched == Restarted(reconciled, p)
<1>0. host \in Hosts /\ "units" \in Present(host)
  BY PartsOf DEF LifeInv, LifeTypes, SwitchServices, SwitchServicesFails, Present
<1>1. Orderly(host) => reconciled \in Hosts /\ Orderly(reconciled) /\ "units" \in Present(reconciled)
  BY <1>0, SwitchedOrderly
<1>2. Orderly(host) => switched \in Hosts /\ Orderly(switched) /\ "units" \in Present(switched)
  <2> HIDE DEF reconciled
  <2> QED
    BY <1>1, SwitchedOrderly
<1>3. Orderly(host) => Orderly(Halt(switched, {"sing-box"})) /\ Orderly(Halt(switched, {"sbctl", "socket"}))
  <2> HIDE DEF switched
  <2> QED
    BY <1>2, HaltOrderly
<1>4. /\ Set(p, "touched", TRUE) /\ Keeps
      /\ {"obtain", "done", "recover"} \subseteq Ended
  BY DEF SwitchServices, SwitchServicesFails, Ended, ModeHeld
<1>5. CASE SwitchServices(p)
  <2>1. /\ Change(p, switched)
        /\ Goto(p, "obtain") \/ Report(p, "ok")
    BY <1>5 DEF SwitchServices
  <2>2. pc'[p] \in {"obtain", "done"}
    BY <2>1, GotoIs, ReportIs DEF LifeInv
  <2> HIDE DEF switched
  <2>3. unrestored = {} => Orderly(switched) /\ "units" \in Present(switched)
    BY <1>2 DEF OrderInv
  <2>4. unrestored' = unrestored /\ found' = found
    BY <1>4 DEF Keeps
  <2> QED
    BY <1>4, <2>1, <2>2, <2>3, <2>4, ChangeTidy
<1>6. CASE SwitchServicesFails(p)
  <2>1. PICK h \in {host, reconciled, Halt(switched, {"sing-box"}), Halt(switched, {"sbctl", "socket"})} :
          Change(p, h)
    BY <1>6 DEF SwitchServicesFails
  <2>2. pc'[p] = "recover"
    BY <1>6, GotoIs DEF LifeInv, SwitchServicesFails
  <2> HIDE DEF switched, reconciled
  <2>3. unrestored = {} => Orderly(h)
    BY <1>1, <1>3, <2>1 DEF OrderInv
  <2>4. unrestored' = unrestored /\ found' = found
    BY <1>4 DEF Keeps
  <2> QED
    BY <1>4, <2>1, <2>2, <2>3, <2>4, ChangeTidy
<1> QED
  BY <1>5, <1>6

LEMMA ObtainModeTidy ==
  ASSUME LifeInv, OrderInv, NEW p \in Procs, ObtainMode(p) \/ ObtainModeFails(p)
  PROVE  Tidy(p)
<1>1. /\ Keeps /\ UNCHANGED job /\ pc[p] = "obtain" /\ pc'[p] \in {"done", "recover"}
      /\ {"done", "recover"} \subseteq Ended
  BY GotoIs, ReportIs DEF ObtainMode, ObtainModeFails, LifeInv, Ended, ModeHeld
<1>2. host \in Hosts /\ p \in Values /\ p # None
  BY ValuesOf DEF LifeInv, LifeTypes
<1>3. unrestored = {} => Orderly(host) /\ "units" \in Present(host)
  BY <1>1 DEF OrderInv, WellKept
<1>4. ASSUME NEW parts
      PROVE  unrestored = {} => /\ Put(host, parts, p) \in Hosts /\ Orderly(Put(host, parts, p))
                                /\ "units" \in Present(Put(host, parts, p))
  BY <1>2, <1>3, PutIs, PutOrderly
<1>5. PICK h : Change(p, h) /\ (unrestored = {} => Orderly(h))
  <2>1. CASE ObtainMode(p)
    <3> DEFINE put == Put(host, {"certs", "artifacts", "active"}, p)
    <3>1. Change(p, Restarted(put, p))
      BY <2>1 DEF ObtainMode
    <3>2. unrestored = {} => put \in Hosts /\ Orderly(put) /\ "units" \in Present(put)
      BY <1>4
    <3> HIDE DEF put
    <3>3. unrestored = {} => Orderly(Restarted(put, p))
      BY <3>2, SwitchedOrderly
    <3> QED
      BY <3>1, <3>3
  <2>2. CASE ObtainModeFails(p)
    <3>1. Change(p, Put(host, {"certs"}, p))
      BY <2>2 DEF ObtainModeFails
    <3> QED
      BY <1>4, <3>1
  <2> QED
    BY <2>1, <2>2
<1>6. unrestored' = unrestored /\ found' = found
  BY <1>1 DEF Keeps
<1> QED
  BY <1>1, <1>5, <1>6, ChangeTidy

(* Snapshot::restore: an undisturbed command puts back what it found. *)
LEMMA RecoverFilesTidy ==
  ASSUME LifeInv, LockInv, OrderInv, NEW p \in Procs, RecoverFiles(p)
  PROVE  Tidy(p)
<1>1. Goto(p, "startUnits") /\ Keeps /\ UNCHANGED job /\ pc[p] = "recover"
  BY DEF RecoverFiles
<1>2. pc'[p] = "startUnits" /\ unrestored' = unrestored /\ found' = found
  BY <1>1, GotoIs DEF Keeps, LifeInv
<1>3. ASSUME unrestored' = {} PROVE Orderly(host')
  <2>1. Orderly(found[p]) /\ Undisturbed(p)
    BY <1>1, <1>2, <1>3 DEF OrderInv, LockInv, ModeHeld, Undisturbed
  <2>2. Follows(p)
    BY <2>1 DEF LifeInv
  <2> QED
    BY <2>1, <2>2, RecoveredIs
<1>4. job'[p].backup = job[p].backup /\ pc'[p] \in Ended /\ pc'[p] # "obtain"
  BY <1>1, <1>2 DEF Ended, ModeHeld
<1> QED
  BY <1>2, <1>3, <1>4, TidyStep

LEMMA CommandTidy ==
  ASSUME LifeInv, LockInv, OrderInv, NEW p \in Procs,
         Proceeds(p) \/ FireTimer(p) \/ Failing(p) \/ Crash(p)
  PROVE  Tidy(p)
<1>1. /\ ~StopAll(p) /\ ~RemoveUnits(p) /\ ~EraseConfig(p) /\ ~EraseData(p) /\ ~UninstallFails(p)
  BY DEF StopAll, RemoveUnits, EraseConfig, EraseData, UninstallFails, LockInv, Removing
<1> QED
  BY <1>1, QuietActionsTidy, UnrestoredTidy, ArchiveTidy, CaptureTidy, RollingBackTidy, AccountTidy,
     InstallStepTidy, PublishModeTidy, SwitchServicesTidy, ObtainModeTidy, RecoverFilesTidy
     DEF Proceeds, Installing, Switching, Uninstalling, Failing

-----------------------------------------------------------------------------
LEMMA LockInit == NoRemovals /\ Init => LockInv
<1> SUFFICES ASSUME NoRemovals, Init PROVE LockInv
  OBVIOUS
<1>1. "idle" \notin Holding /\ "idle" \notin ModeHeld /\ "idle" \notin Removing
  BY DEF Holding, ModeHeld, Installs, Removing
<1> QED
  BY <1>1 DEF Init, LockInv, NoRemovals

LEMMA LockNext == LifeInv /\ LockInv /\ [Next]_vars => LockInv'
<1> SUFFICES ASSUME LifeInv, LockInv, [Next]_vars PROVE LockInv'
  OBVIOUS
<1>1. ASSUME NEW p \in Procs, Proceeds(p) \/ FireTimer(p) \/ Failing(p) \/ Crash(p)
      PROVE  LockInv'
  BY <1>1, CommandOwn, CommandGuarded, LockStep DEF Own
<1>2. CASE UNCHANGED vars
  BY <1>2 DEF vars, ghosts, locking, LockInv
<1> QED
  BY <1>1, <1>2 DEF Next, Rest

(* Where no command deletes the lock file, two commands are never both     *)
(* inside the operation lock. *)
THEOREM LockHolds == ASSUME NoRemovals PROVE Spec => []LockExcludes
<1>1. Init => LifeInv /\ LockInv
  BY LifeInit, LockInit
<1>2. LifeInv /\ LockInv /\ [Next]_vars => LifeInv' /\ LockInv'
  BY LifeNext, LockNext
<1>3. LockInv => LockExcludes
  BY DEF LockInv, LockExcludes
<1> QED
  BY <1>1, <1>2, <1>3, PTL DEF Spec

LEMMA OrderInit == Init => OrderInv
<1> SUFFICES ASSUME Init PROVE OrderInv
  OBVIOUS
<1>1. PICK s \in Sessions :
        /\ host = IF s.old = None THEN Bare ELSE Deployed(s.old, s.stopped)
        /\ pc = [p \in Procs |-> "idle"] /\ job = [p \in Procs |-> NoJob]
        /\ found = [p \in Procs |-> host]
  BY DEF Init
<1>2. Orderly(host)
  <2>1. CASE s.old = None
    BY <1>1, <2>1, BareIs DEF Orderly
  <2>2. CASE s.old # None
    <3>1. Deployed(s.old, s.stopped).active = Managed(s.old) \ s.stopped
          /\ Deployed(s.old, s.stopped).enabled = Managed(s.old)
      BY DEF Deployed
    <3> QED
      BY <1>1, <2>2, <3>1 DEF Orderly
  <2> QED
    BY <2>1, <2>2
<1>3. \A p \in Procs : WellKept(p)
  <2>1. NoJob.backup = NoBackup
    BY DEF NoJob
  <2> QED
    BY <1>1, <2>1, NoBackupCovered DEF WellKept
<1> QED
  BY <1>1, <1>2, <1>3 DEF OrderInv

LEMMA OrderNext == LifeInv /\ LockInv /\ OrderInv /\ [Next]_vars => OrderInv'
<1> SUFFICES ASSUME LifeInv, LockInv, OrderInv, [Next]_vars PROVE OrderInv'
  OBVIOUS
<1>1. ASSUME NEW p \in Procs, Proceeds(p) \/ FireTimer(p) \/ Failing(p) \/ Crash(p)
      PROVE  OrderInv'
  BY <1>1, CommandOwn, CommandGuarded, CommandTidy, OrderStep DEF Own
<1>2. CASE UNCHANGED vars
  BY <1>2 DEF vars, ghosts, OrderInv, Orderly, Present, WellKept, Covered, Saved
<1> QED
  BY <1>1, <1>2 DEF Next, Rest

(* Where no command removes an installation and no recovery itself fails,  *)
(* that every command finds the host orderly need not be assumed: a failed *)
(* install or replacement leaves the host exactly as it was, a failed mode *)
(* switch too where it was in one mode, and else as Mended says.           *)
THEOREM FailureUndoneInstalling ==
  ASSUME NoRemovals PROVE Spec /\ [](unrestored = {}) => FailureLeavesHost
<1>1. Init => LifeInv /\ LockInv /\ OrderInv
  BY LifeInit, LockInit, OrderInit
<1>2. LifeInv /\ LockInv /\ OrderInv /\ [Next]_vars => LifeInv' /\ LockInv' /\ OrderInv'
  BY LifeNext, LockNext, OrderNext
<1>3. OrderInv /\ unrestored = {} => AllOrderly
  BY DEF OrderInv, AllOrderly
<1> QED
  BY <1>1, <1>2, <1>3, FailureUndone, PTL DEF Spec

-----------------------------------------------------------------------------
(***************************************************************************)
(* That a success is whole.  A command that holds the operation lock has   *)
(* laid out, step by step, what its success promises (Built), on a host    *)
(* where nothing of a deployment is left over that has no configuration    *)
(* (Grounded).  A replacement could leave such a part when it archives a   *)
(* list made before another installation went on; that it does not is the  *)
(* premise (WholeLists).                                                   *)
(***************************************************************************)
WholeLists == \A p \in Procs : pc[p] = "listed" => Present(host) \subseteq job[p].listed

(* Rooted, of an archive as well as of a host. *)
Grounded(was) ==
  /\ "config" \notin Saved(was) => was.active = {} /\ was.enabled = {} /\ "hook" \notin Saved(was)
  /\ "socket" \in was.active => "socket" \in Saved(was)

Made(p, parts) == \A part \in parts : host.file[part] = p
AtRest == host.active = {} /\ host.enabled = {}

Built(p) ==
  /\ pc[p] \in {"generate", "initialize"} => host.file["config"] = None
  /\ pc[p] \in {"kernel", "state", "units"} => AtRest /\ host.file["hook"] = None
  /\ pc[p] \in {"kernel", "state", "units", "start", "health", "mark"} => Made(p, {"artifacts", "config"})
  /\ pc[p] \in {"state", "units", "start", "health", "mark"} => Made(p, {"kernel"})
  /\ pc[p] \in {"units", "start", "health", "mark"} => Made(p, {"state"})
  /\ pc[p] \in {"start", "health", "mark"} =>
       /\ Made(p, {"active", "units"}) /\ (Direct(p) => Made(p, {"socket"}))
       /\ host.file["hook"] # None <=> Direct(p)
  /\ pc[p] = "start" => AtRest
  /\ pc[p] \in {"health", "mark"} => host.active = Managed(p) /\ host.enabled = Managed(p)
  /\ pc[p] \in ModeHeld => kind[p] = "mode"
  /\ pc[p] \in {"checking", "publish", "services"} =>
       host.file["kernel"] # None /\ host.file["config"] # None
  /\ pc[p] = "services" => Made(p, {"artifacts", "config", "active"})
  /\ pc[p] = "obtain" => Serves(host, p)

WholeInv ==
  unrestored = {} =>
    Grounded(host) /\ \A p \in Procs : Grounded(found[p]) /\ Grounded(job[p].backup) /\ Built(p)

(* What is shown of each action of a command. *)
Promised(p) ==
  CASE kind[p] \in {"fresh", "replace"} ->
         /\ Serves(host', p)
         /\ \A part \in {"state", "units", "kernel", "marker"} : host'.file[part] = p
         /\ Managed(p) = host'.active /\ Managed(p) = host'.enabled
    [] kind[p] = "mode" -> Serves(host', p)
    [] OTHER -> TRUE
Sturdy(p) ==
  /\ unrestored \subseteq unrestored'
  /\ unrestored' = {} => /\ Grounded(host') /\ Grounded(found'[p]) /\ Grounded(job'[p].backup)
                         /\ Built(p)'
  /\ Reports(p, "ok") /\ unrestored = {} => Promised(p)

-----------------------------------------------------------------------------
(* Grounded hosts. *)
LEMMA GroundedHost ==
  ASSUME NEW h \in Hosts
  PROVE  Grounded(h) <=>
           /\ h.file["config"] = None => h.active = {} /\ h.enabled = {} /\ h.file["hook"] = None
           /\ "socket" \in h.active => h.file["socket"] # None
<1>1. DOMAIN h.file = Parts
  BY HostFields
<1>2. \A part \in {"config", "hook", "socket"} : part \in Saved(h) <=> h.file[part] # None
  BY <1>1, PartsOf DEF Saved
<1> QED
  BY <1>2 DEF Grounded

LEMMA BareGrounded == Grounded(Bare) /\ Grounded(NoBackup)
<1>1. Grounded(Bare)
  BY BareIs, PartsOf, GroundedHost
<1>2. NoBackup.file = <<>> /\ NoBackup.active = {} /\ NoBackup.enabled = {} /\ DOMAIN <<>> = {}
  BY DEF NoBackup
<1>3. Saved(NoBackup) = {}
  BY <1>2 DEF Saved
<1> QED
  BY <1>1, <1>2, <1>3 DEF Grounded

(* Files are only written over, and a hook only beside a configuration. *)
LEMMA PutGrounded ==
  ASSUME NEW h \in Hosts, Grounded(h), NEW parts, NEW d \in Values,
         d # None \/ ("config" \notin parts /\ "socket" \notin parts),
         "hook" \in parts /\ d # None => h.file["config"] # None
  PROVE  Grounded(Put(h, parts, d))
<1> DEFINE g == Put(h, parts, d)
<1>1. /\ g \in Hosts /\ g.active = h.active /\ g.enabled = h.enabled
      /\ g.file = [part \in Parts |-> IF part \in parts THEN d ELSE h.file[part]]
  BY PutIs
<1> HIDE DEF g
<1>2. \A part \in {"config", "hook", "socket"} :
        g.file[part] = IF part \in parts THEN d ELSE h.file[part]
  BY <1>1, PartsOf
<1>3. /\ h.file["config"] = None => h.active = {} /\ h.enabled = {} /\ h.file["hook"] = None
      /\ "socket" \in h.active => h.file["socket"] # None
  BY GroundedHost
<1>4. Grounded(g)
  BY <1>1, <1>2, <1>3, GroundedHost
<1> QED
  BY <1>4 DEF g

LEMMA RunGrounded ==
  ASSUME NEW h \in Hosts, Grounded(h), NEW up, NEW starts, starts \subseteq Units, up \subseteq Units,
         (up = {} /\ starts = {}) \/ h.file["config"] # None,
         "socket" \in up => h.file["socket"] # None
  PROVE  LET g == Enable(Run(h, up), starts)
         IN  /\ g \in Hosts /\ g.file = h.file /\ Grounded(g)
             /\ g.active = h.active \cup up /\ g.enabled = h.enabled \cup starts
<1> DEFINE r == Run(h, up)
           g == Enable(r, starts)
<1>1. r \in Hosts /\ r.file = h.file /\ r.active = h.active \cup up /\ r.enabled = h.enabled
  <2>1. r \in Hosts /\ r = [file |-> h.file, active |-> h.active \cup up, enabled |-> h.enabled]
    BY RunIs
  <2> HIDE DEF r
  <2> QED
    BY <2>1
<1> HIDE DEF r
<1>2. g \in Hosts /\ g.file = r.file /\ g.active = r.active /\ g.enabled = r.enabled \cup starts
  <2>1. g \in Hosts /\ g = [file |-> r.file, active |-> r.active, enabled |-> r.enabled \cup starts]
    BY <1>1, RunIs
  <2> HIDE DEF g
  <2> QED
    BY <2>1
<1> HIDE DEF g
<1>3. /\ h.file["config"] = None => h.active = {} /\ h.enabled = {} /\ h.file["hook"] = None
      /\ "socket" \in h.active => h.file["socket"] # None
  BY GroundedHost
<1>4. Grounded(g)
  BY <1>1, <1>2, <1>3, GroundedHost
<1> QED
  BY <1>1, <1>2, <1>4 DEF g, r

LEMMA HaltGrounded ==
  ASSUME NEW h \in Hosts, Grounded(h), NEW units
  PROVE  /\ Halt(h, units) \in Hosts /\ Grounded(Halt(h, units)) /\ Halt(h, units).file = h.file
         /\ Disable(h, units) \in Hosts /\ Grounded(Disable(h, units))
         /\ Disable(h, units).file = h.file /\ Disable(h, units).active = h.active \ units
         /\ Disable(h, units).enabled = h.enabled \ units
<1> DEFINE a == Halt(h, units)
           b == Disable(h, units)
<1>1. /\ a \in Hosts /\ a = [file |-> h.file, active |-> h.active \ units, enabled |-> h.enabled]
      /\ b \in Hosts
      /\ b = [file |-> h.file, active |-> h.active \ units, enabled |-> h.enabled \ units]
  BY RunIs
<1> HIDE DEF a, b
<1>2. /\ a.file = h.file /\ a.active = h.active \ units /\ a.enabled = h.enabled
      /\ b.file = h.file /\ b.active = h.active \ units /\ b.enabled = h.enabled \ units
  BY <1>1
<1>3. /\ h.file["config"] = None => h.active = {} /\ h.enabled = {} /\ h.file["hook"] = None
      /\ "socket" \in h.active => h.file["socket"] # None
  BY GroundedHost
<1>4. Grounded(a) /\ Grounded(b)
  BY <1>1, <1>2, <1>3, GroundedHost
<1> QED
  BY <1>1, <1>2, <1>4 DEF a, b

(* What an uninterrupted archive puts aside, and leaves. *)
LEMMA ArchiveGrounded ==
  ASSUME NEW h \in Hosts, Orderly(h), Grounded(h), NEW listed, listed = Present(h)
  PROVE  LET units == UnitsIn(listed) \cup h.enabled
             was == [file |-> [part \in listed |-> h.file[part]],
                     active |-> h.active \cap units, enabled |-> h.enabled]
         IN  Grounded(was) /\ Grounded(Put(Disable(h, units), listed, None))
<1> DEFINE units == UnitsIn(listed) \cup h.enabled
           was == [file |-> [part \in listed |-> h.file[part]],
                   active |-> h.active \cap units, enabled |-> h.enabled]
           g == Disable(h, units)
           cleared == Put(g, listed, None)
<1>1. DOMAIN was.file = listed /\ \A part \in listed : was.file[part] = h.file[part]
  OBVIOUS
<1>2. was.active = h.active \cap units /\ was.enabled = h.enabled
  OBVIOUS
<1>3. h.active \subseteq units
  BY DEF Orderly
<1> HIDE DEF was, units
<1>4. Saved(was) = Present(h)
  BY <1>1 DEF Saved, Present
<1>5. /\ h.file["config"] = None => h.active = {} /\ h.enabled = {} /\ h.file["hook"] = None
      /\ "socket" \in h.active => h.file["socket"] # None
  BY GroundedHost
<1>6. \A part \in {"config", "hook", "socket"} : part \in Present(h) <=> h.file[part] # None
  BY PartsOf DEF Present
<1>7. Grounded(was)
  BY <1>2, <1>4, <1>5, <1>6 DEF Grounded
<1>8. g \in Hosts /\ g.file = h.file /\ g.active = {} /\ g.enabled = h.enabled \ units
  BY <1>3, HaltGrounded
<1>9. h.enabled \subseteq units
  BY DEF units
<1> HIDE DEF g
<1>10. /\ cleared \in Hosts /\ cleared.active = {} /\ cleared.enabled = {}
       /\ cleared.file = [part \in Parts |-> IF part \in listed THEN None ELSE g.file[part]]
  BY <1>8, <1>9, PutIs, ValuesOf
<1> HIDE DEF cleared
<1>11. cleared.file["hook"] = None
  BY <1>6, <1>8, <1>10, PartsOf
<1>12. Grounded(cleared)
  BY <1>10, <1>11, GroundedHost
<1> QED
  BY <1>7, <1>12 DEF cleared, g, was, units

LEMMA UnpackedGrounded ==
  ASSUME NEW h \in Hosts, Grounded(h), NEW was \in Archives, Grounded(was),
         Saved(was) = DOMAIN was.file
  PROVE  Grounded(Unpacked(h, was))
<1> DEFINE g == Unpacked(h, was)
<1>1. /\ g.file = [part \in Parts |-> IF part \in DOMAIN was.file THEN was.file[part] ELSE h.file[part]]
      /\ g.active = h.active \cup was.active /\ g.enabled = h.enabled \cup was.enabled
  BY DEF Unpacked
<1>2. g \in Hosts
  BY UnpackedIs
<1> HIDE DEF g
<1>3. \A part \in {"config", "hook", "socket"} :
        g.file[part] = IF part \in DOMAIN was.file THEN was.file[part] ELSE h.file[part]
  BY <1>1, PartsOf
<1>4. \A part \in DOMAIN was.file : was.file[part] # None
  BY DEF Saved
<1>5. /\ h.file["config"] = None => h.active = {} /\ h.enabled = {} /\ h.file["hook"] = None
      /\ "socket" \in h.active => h.file["socket"] # None
  BY GroundedHost
<1>6. /\ "config" \notin DOMAIN was.file =>
           was.active = {} /\ was.enabled = {} /\ "hook" \notin DOMAIN was.file
      /\ "socket" \in was.active => "socket" \in DOMAIN was.file
  BY DEF Grounded
<1>7. Grounded(g)
  BY <1>1, <1>2, <1>3, <1>4, <1>5, <1>6, GroundedHost
<1> QED
  BY <1>7 DEF g

LEMMA RolledBackGrounded ==
  ASSUME NEW h \in Hosts, NEW pre
  PROVE  Grounded(RolledBack(h, pre))
<1> DEFINE stopped == Disable(h, Units)
           parts   == (Parts \ (DataParts \cup {"config"}))
                        \cup (IF "config" \in pre THEN {} ELSE {"config"})
                        \cup (IF "data" \in pre THEN {} ELSE DataParts)
<1>1. stopped \in Hosts /\ stopped.active = {} /\ stopped.enabled = {}
  BY RunIs, HostFields
<1>2. RolledBack(h, pre) = Put(stopped, parts, None)
  BY DEF RolledBack
<1>3. "hook" \in parts
  BY PartsOf DEF DataParts
<1> HIDE DEF stopped, parts
<1> DEFINE g == Put(stopped, parts, None)
<1>4. /\ g \in Hosts /\ g.active = {} /\ g.enabled = {}
      /\ g.file = [part \in Parts |-> IF part \in parts THEN None ELSE stopped.file[part]]
  BY <1>1, ValuesOf, PutIs
<1> HIDE DEF g
<1>5. g.file["hook"] = None
  BY <1>3, <1>4, PartsOf
<1>6. Grounded(g)
  BY <1>4, <1>5, GroundedHost
<1> QED
  BY <1>2, <1>6 DEF g

(* Units and services after a mode switch. *)
LEMMA ReconciledIs ==
  ASSUME NEW h \in Hosts, Grounded(h), h.file["config"] # None, h.file["units"] # None, NEW p \in Procs
  PROVE  LET g == Reconciled(h, p)
         IN  /\ g \in Hosts /\ Grounded(g)
             /\ \A part \in Parts \ {"units", "socket", "hook"} : g.file[part] = h.file[part]
             /\ g.file["units"] # None /\ (Direct(g.file["units"]) <=> Direct(p))
             /\ g.file["hook"] # None <=> Direct(p)
             /\ Direct(p) => g.file["socket"] # None
<1> DEFINE changed == Direct(h.file["units"]) # Direct(p)
           units == IF changed THEN Put(h, {"units"}, p) ELSE h
           new == (IF changed \/ h.file["socket"] = None THEN {"socket"} ELSE {})
                    \cup (IF h.file["hook"] = None THEN {"hook"} ELSE {})
           g == Reconciled(h, p)
<1>1. p \in Values /\ p # None /\ None \in Values
  BY ValuesOf
<1>2. /\ units \in Hosts /\ Grounded(units)
      /\ \A part \in Parts \ {"units"} : units.file[part] = h.file[part]
      /\ units.file["units"] # None /\ (Direct(units.file["units"]) <=> Direct(p))
  <2>1. CASE changed
    <3>1. /\ units \in Hosts
          /\ units.file = [part \in Parts |-> IF part \in {"units"} THEN p ELSE h.file[part]]
      BY <1>1, <2>1, PutIs
    <3>2. Grounded(units)
      BY <1>1, <2>1, PutGrounded
    <3> HIDE DEF units
    <3> QED
      BY <1>1, <3>1, <3>2, PartsOf
  <2>2. CASE ~changed
    <3>1. units = h
      BY <2>2
    <3>2. Direct(h.file["units"]) <=> Direct(p)
      BY <2>2 DEF Direct
    <3> QED
      BY <3>1, <3>2
  <2> QED
    BY <2>1, <2>2
<1>3. /\ ~Direct(p) => g = Put(units, {"hook"}, None)
      /\ Direct(p) => g = Put(units, new, p)
  BY Zenon DEF Reconciled
<1>4. /\ changed \/ h.file["socket"] = None => "socket" \in new
      /\ "hook" \in new <=> h.file["hook"] = None
      /\ \A part \in new : part \in {"socket", "hook"}
  OBVIOUS
<1> HIDE DEF units, new, g
<1>5. units.file["config"] # None
  BY <1>2, PartsOf
<1>6. CASE Direct(p)
  <2>1. /\ g \in Hosts
        /\ g.file = [part \in Parts |-> IF part \in new THEN p ELSE units.file[part]]
    BY <1>1, <1>2, <1>3, <1>6, PutIs
  <2>2. Grounded(g)
    BY <1>1, <1>2, <1>3, <1>4, <1>5, <1>6, PutGrounded
  <2>3. \A part \in Parts : g.file[part] = IF part \in new THEN p ELSE units.file[part]
    BY <2>1
  <2>4. \A part \in Parts \ {"units", "socket", "hook"} : g.file[part] = h.file[part]
    BY <1>2, <1>4, <2>3
  <2>5. g.file["units"] = units.file["units"]
    BY <1>4, <2>3, PartsOf
  <2>6. g.file["hook"] # None /\ g.file["socket"] # None
    BY <1>1, <1>2, <1>4, <2>3, PartsOf
  <2> QED
    BY <1>2, <1>6, <2>1, <2>2, <2>4, <2>5, <2>6 DEF g
<1>7. CASE ~Direct(p)
  <2>1. /\ g \in Hosts
        /\ g.file = [part \in Parts |-> IF part \in {"hook"} THEN None ELSE units.file[part]]
    BY <1>1, <1>2, <1>3, <1>7, PutIs
  <2>2. Grounded(g)
    BY <1>1, <1>2, <1>3, <1>7, PutGrounded
  <2>3. \A part \in Parts \ {"units", "socket", "hook"} : g.file[part] = h.file[part]
    BY <1>2, <2>1
  <2>4. g.file["units"] = units.file["units"] /\ g.file["hook"] = None
    BY <2>1, PartsOf
  <2> QED
    BY <1>2, <1>7, <2>1, <2>2, <2>3, <2>4 DEF g
<1> QED
  BY <1>6, <1>7

LEMMA RestartedIs ==
  ASSUME NEW h \in Hosts, Grounded(h), h.file["config"] # None, NEW d,
         Direct(d) => h.file["socket"] # None
  PROVE  LET g == Restarted(h, d)
         IN  /\ g \in Hosts /\ Grounded(g) /\ g.file = h.file
             /\ Subscription \subseteq g.active
             /\ "socket" \in g.active <=> Direct(d)
<1> DEFINE both == {"sing-box", "sbctl"}
           three == {"sing-box", "sbctl", "socket"}
           g == Restarted(h, d)
           k == IF h.file["socket"] = None THEN h ELSE Disable(h, {"socket"})
<1>1. both \subseteq Units /\ three \subseteq Units /\ {"socket"} \subseteq Units
  BY DEF Units
<1>2. /\ Direct(d) => g = Enable(Run(h, three), {"socket"})
      /\ ~Direct(d) => g = Run(k, both)
  BY DEF Restarted, Enable
<1>3. Subscription = both /\ three = both \cup {"socket"} /\ "socket" \notin both
  BY DEF Subscription
<1>4. /\ h.file["config"] = None => h.active = {} /\ h.enabled = {} /\ h.file["hook"] = None
      /\ "socket" \in h.active => h.file["socket"] # None
  BY GroundedHost
<1>5. CASE Direct(d)
  <2> HIDE DEF g, both, three
  <2>1. g \in Hosts /\ g.file = h.file /\ Grounded(g) /\ g.active = h.active \cup three
    BY <1>1, <1>2, <1>5, RunGrounded
  <2> QED
    BY <1>3, <1>5, <2>1 DEF g
<1>6. CASE ~Direct(d)
  <2>1. /\ k \in Hosts /\ Grounded(k) /\ k.file = h.file /\ "socket" \notin k.active
    BY <1>4, HaltGrounded
  <2> HIDE DEF g, both, k
  <2>2. g \in Hosts /\ g = [file |-> k.file, active |-> k.active \cup both, enabled |-> k.enabled]
    BY <1>1, <1>2, <1>6, <2>1, RunIs
  <2>3. g.file = h.file /\ g.active = k.active \cup both
    BY <2>1, <2>2
  <2>4. Grounded(g)
    <3>1. "socket" \in g.active => g.file["socket"] # None
      BY <1>3, <2>1, <2>3
    <3> QED
      BY <2>2, <2>3, <3>1, GroundedHost
  <2> QED
    BY <1>3, <1>6, <2>1, <2>2, <2>3, <2>4 DEF g
<1> QED
  BY <1>5, <1>6

-----------------------------------------------------------------------------
(* A step of one command leaves what the others have built.                *)
LEMMA SturdyStep ==
  ASSUME LockInv, WholeInv, NEW p \in Procs, ActsAlone(p), Guarded(p), Sturdy(p)
  PROVE  WholeInv'
<1> SUFFICES ASSUME unrestored' = {}
             PROVE  Grounded(host') /\ \A q \in Procs : /\ Grounded(found'[q])
                                                        /\ Grounded(job'[q].backup) /\ Built(q)'
  BY DEF WholeInv, Grounded, Saved
<1>1. /\ unrestored = {} /\ Grounded(host') /\ Grounded(found'[p])
      /\ Grounded(job'[p].backup) /\ Built(p)'
  BY DEF Sturdy
<1>2. ASSUME NEW q \in Procs, q # p
      PROVE  Grounded(found'[q]) /\ Grounded(job'[q].backup) /\ Built(q)'
  <2>1. /\ job'[q] = job[q] /\ found'[q] = found[q] /\ kind' = kind
        /\ pc'[q] = pc[q] \/ pc'[q] = "dead"
        /\ Grounded(found[q]) /\ Grounded(job[q].backup) /\ Built(q)
    BY <1>1, <1>2 DEF ActsAlone, WholeInv
  <2>2. Grounded(found'[q]) /\ Grounded(job'[q].backup)
    BY <2>1
  <2>3. "dead" \notin Holding
    BY DEF Holding, ModeHeld, Installs
  <2>4. CASE pc'[q] \in Holding
    <3>1. q \in held /\ pc'[q] = pc[q]
      BY <2>1, <2>3, <2>4 DEF LockInv
    <3>2. host' = host
      BY <1>2, <3>1, NobodyElse DEF Guarded
    <3> QED
      BY <2>1, <2>2, <3>1, <3>2 DEF Built, Made, AtRest, Serves
  <2>5. CASE pc'[q] \notin Holding
    BY <2>2, <2>5 DEF Built, Holding, ModeHeld, Installs
  <2> QED
    BY <2>4, <2>5
<1> QED
  BY <1>1, <1>2

(* Where the steps lead that promise nothing yet. *)
Settling == {"idle", "waiting", "list", "listed", "archived", "preflighted", "download", "failing",
             "rollback", "restoring", "done", "dead"}
LEMMA SettlingBuilt ==
  ASSUME NEW p \in Procs, pc'[p] \in Settling
  PROVE  Built(p)'
  BY DEF Settling, Built, ModeHeld

LEMMA QuietSturdy ==
  ASSUME LifeInv, WholeInv, NEW p \in Procs, host' = host,
         unrestored' = unrestored \/ unrestored' = unrestored \cup {p},
         found' = found \/ found' = [found EXCEPT ![p] = host],
         job'[p].backup = job[p].backup,
         ~Reports(p, "ok"),
         unrestored' = {} => Built(p)'
  PROVE  Sturdy(p)
<1>1. found'[p] \in {found[p], host}
  BY DEF LifeInv, LifeTypes
<1>2. ASSUME unrestored' = {}
      PROVE  Grounded(host') /\ Grounded(found'[p]) /\ Grounded(job'[p].backup)
  <2>1. unrestored = {}
    BY <1>2
  <2>2. Grounded(host) /\ Grounded(found[p]) /\ Grounded(job[p].backup)
    BY <2>1 DEF WholeInv
  <2> QED
    BY <1>1, <2>2
<1> QED
  BY <1>2 DEF Sturdy

LEMMA ChangeSturdy ==
  ASSUME WholeInv, NEW p \in Procs, NEW h, Change(p, h),
         unrestored' = unrestored, found' = found, job'[p].backup = job[p].backup,
         unrestored = {} => Grounded(h) /\ Built(p)',
         Reports(p, "ok") /\ unrestored = {} => Promised(p)
  PROVE  Sturdy(p)
<1>1. host' = h
  BY ChangeIs
<1>2. ASSUME unrestored' = {}
      PROVE  Grounded(host') /\ Grounded(found'[p]) /\ Grounded(job'[p].backup) /\ Built(p)'
  <2>1. Grounded(found[p]) /\ Grounded(job[p].backup) /\ Grounded(h) /\ Built(p)'
    BY <1>2 DEF WholeInv
  <2> QED
    BY <1>1, <2>1
<1> QED
  BY <1>2 DEF Sturdy

LEMMA QuietActionsSturdy ==
  ASSUME LifeInv, LockInv, WholeInv, NEW p \in Procs, kind' = kind,
         \/ Preflight(p) \/ BeginMode(p) \/ FireTimer(p) \/ BeginUninstall(p) \/ OpenLock(p)
         \/ ListConflicts(p) \/ Recheck(p) \/ RecheckFails(p) \/ Sample(p) \/ Download(p)
         \/ DownloadFails(p) \/ DecideRollback(p) \/ ArchiveFails(p) \/ RestoreFails(p)
         \/ RefuseMode(p) \/ PublishModeFails(p) \/ NoUnits(p) \/ EnterInstall(p)
         \/ EnterMode(p) \/ RecoverUnits(p) \/ Crash(p)
  PROVE  Sturdy(p)
<1>1. CASE Preflight(p) \/ BeginMode(p) \/ FireTimer(p) \/ BeginUninstall(p)
  <2>1. PICK where \in {"list", "preflighted", "done", "waiting"} :
          Starts(p, where) /\ (where = "done" => result' = [result EXCEPT ![p] = "refused"])
    BY <1>1 DEF Preflight, BeginMode, FireTimer, BeginUninstall, LockInv
  <2>2. /\ host' = host /\ unrestored' = unrestored /\ found' = [found EXCEPT ![p] = host]
        /\ UNCHANGED job /\ pc'[p] = where
    BY <2>1, GotoIs DEF Starts, Quietly, LifeInv
  <2>3. ~Reports(p, "ok")
    BY <2>1, <2>2 DEF Reports, LifeInv, LifeTypes
  <2>4. pc'[p] \in Settling
    BY <2>2 DEF Settling
  <2> QED
    BY <2>2, <2>3, <2>4, SettlingBuilt, QuietSturdy
<1>2. CASE OpenLock(p)
  <2>1. host' = host /\ unrestored' = unrestored /\ found' = found /\ UNCHANGED job /\ pc' = pc
        /\ pc[p] = "waiting"
    BY <1>2 DEF OpenLock, Quietly, Keeps
  <2>2. ~Reports(p, "ok") /\ pc'[p] \in Settling
    BY <2>1 DEF Reports, Settling
  <2> QED
    BY <2>1, <2>2, SettlingBuilt, QuietSturdy
<1>3. CASE \/ ListConflicts(p) \/ Recheck(p) \/ RecheckFails(p) \/ Sample(p) \/ Download(p)
           \/ DownloadFails(p) \/ DecideRollback(p) \/ EnterInstall(p)
  <2>1. PICK where \in {"archived", "listed", "preflighted", "restoring", "download", "waiting",
                        "failing", "rollback", "generate"} :
          /\ Quietly /\ Keeps /\ Goto(p, where)
          /\ UNCHANGED job \/ \E v : Set(p, "listed", v) \/ Set(p, "pre", v) \/ Set(p, "touched", v)
          /\ where = "generate" => host.file["config"] = None
    BY <1>3 DEF ListConflicts, Recheck, RecheckFails, Sample, Download, DownloadFails,
                DecideRollback, EnterInstall
  <2>2. pc'[p] = where /\ host' = host /\ unrestored' = unrestored /\ found' = found
    BY <2>1, GotoIs DEF Quietly, Keeps, LifeInv
  <2>3. job'[p].backup = job[p].backup
    BY <2>1, BackupKept DEF LifeInv
  <2>4. ~Reports(p, "ok")
    BY <2>2 DEF Reports
  <2>5. Built(p)'
    <3>1. CASE where = "generate"
      BY <2>1, <2>2, <3>1 DEF Built, ModeHeld
    <3>2. CASE where # "generate"
      BY <2>2, <3>2, SettlingBuilt DEF Settling
    <3> QED
      BY <3>1, <3>2
  <2> QED
    BY <2>2, <2>3, <2>4, <2>5, QuietSturdy
<1>4. CASE ArchiveFails(p) \/ RestoreFails(p) \/ RefuseMode(p) \/ RecoverUnits(p) \/ Crash(p)
  <2>1. /\ host' = host /\ (unrestored' = unrestored \/ unrestored' = unrestored \cup {p})
        /\ found' = found /\ UNCHANGED job
    BY <1>4 DEF ArchiveFails, RestoreFails, RefuseMode, RecoverUnits, Crash, Quietly, Keeps
  <2>2. pc'[p] \in {"done", "dead"} /\ (pc'[p] = "done" => result'[p] # "ok")
    BY <1>4, GotoIs, ReportIs DEF ArchiveFails, RestoreFails, RefuseMode, RecoverUnits, Crash,
       LifeInv, LifeTypes
  <2>3. ~Reports(p, "ok") /\ pc'[p] \in Settling
    BY <2>2 DEF Reports, Settling
  <2> QED
    BY <2>1, <2>3, SettlingBuilt, QuietSturdy
<1>5. CASE PublishModeFails(p) \/ NoUnits(p)
  <2>1. /\ Quietly /\ Keeps /\ Goto(p, "recover") /\ pc[p] \in ModeHeld
        /\ UNCHANGED job \/ \E v : Set(p, "listed", v) \/ Set(p, "pre", v) \/ Set(p, "touched", v)
    BY <1>5 DEF PublishModeFails, NoUnits, ModeHeld
  <2>2. pc'[p] = "recover" /\ host' = host /\ unrestored' = unrestored /\ found' = found
    BY <2>1, GotoIs DEF Quietly, Keeps, LifeInv
  <2>3. job'[p].backup = job[p].backup
    BY <2>1, BackupKept DEF LifeInv
  <2>4. unrestored' = {} => kind'[p] = "mode"
    BY <2>1, <2>2 DEF WholeInv, Built
  <2>5. unrestored' = {} => Built(p)'
    BY <2>2, <2>4 DEF Built
  <2>6. ~Reports(p, "ok")
    BY <2>2 DEF Reports
  <2> QED
    BY <2>2, <2>3, <2>5, <2>6, QuietSturdy
<1>6. CASE EnterMode(p)
  <2>1. /\ host' = host /\ unrestored' = unrestored /\ found' = [found EXCEPT ![p] = host]
        /\ UNCHANGED job /\ kind[p] = "mode"
        /\ \/ /\ host.file["config"] # None /\ host.file["kernel"] # None
              /\ Goto(p, "checking")
           \/ Report(p, "failed")
    BY <1>6 DEF EnterMode
  <2>2. CASE host.file["config"] # None /\ host.file["kernel"] # None /\ Goto(p, "checking")
    <3>1. pc'[p] = "checking"
      BY <2>2, GotoIs DEF LifeInv
    <3>2. Built(p)' /\ ~Reports(p, "ok")
      BY <2>1, <2>2, <3>1 DEF Built, Reports
    <3> QED
      BY <2>1, <3>2, QuietSturdy
  <2>3. CASE Report(p, "failed")
    <3>1. pc'[p] = "done" /\ result'[p] = "failed"
      BY <2>3, ReportIs DEF LifeInv
    <3>2. ~Reports(p, "ok") /\ pc'[p] \in Settling
      BY <3>1 DEF Reports, Settling
    <3> QED
      BY <2>1, <3>2, SettlingBuilt, QuietSturdy
  <2> QED
    BY <2>1, <2>2, <2>3
<1> QED
  BY <1>1, <1>2, <1>3, <1>4, <1>5, <1>6

LEMMA UnrestoredSturdy ==
  ASSUME LifeInv, NEW p \in Procs, RollBackLeavesUnits(p) \/ RecoverFails(p)
  PROVE  Sturdy(p)
<1>1. unrestored' = unrestored \cup {p}
  BY DEF RollBackLeavesUnits, RecoverFails
<1>2. pc'[p] = "done" => result'[p] # "ok"
  <2>1. CASE RollBackLeavesUnits(p)
    BY <2>1, GotoIs DEF RollBackLeavesUnits, LifeInv
  <2>2. CASE RecoverFails(p)
    BY <2>2, ReportIs DEF RecoverFails, LifeInv
  <2> QED
    BY <2>1, <2>2
<1> QED
  BY <1>1, <1>2 DEF Sturdy, Reports

LEMMA ArchiveSturdy ==
  ASSUME LifeInv, OrderInv, WholeInv, WholeLists, NEW p \in Procs, Archive(p)
  PROVE  Sturdy(p)
<1> DEFINE listed == job[p].listed
           units == UnitsIn(listed) \cup host.enabled
           was == [file |-> [part \in listed |-> host.file[part]],
                   active |-> host.active \cap units, enabled |-> host.enabled]
           cleared == Put(Disable(host, units), listed, None)
<1>1. host \in Hosts /\ pc[p] = "listed" /\ unrestored' = unrestored /\ found' = found
  BY DEF LifeInv, LifeTypes, Archive, Keeps
<1>2. CASE listed \subseteq Present(host)
  <2>1. /\ Set(p, "backup", was) /\ Change(p, cleared) /\ Goto(p, "archived")
    BY <1>2 DEF Archive
  <2>2. listed = Present(host)
    BY <1>1, <1>2 DEF WholeLists
  <2>3. unrestored = {} => Grounded(was) /\ Grounded(cleared)
    BY <1>1, <2>2, ArchiveGrounded DEF OrderInv, WholeInv
  <2> HIDE DEF was, cleared
  <2>4. job'[p] = [committed |-> job[p].committed, pre |-> job[p].pre,
                   listed |-> job[p].listed, backup |-> was,
                   touched |-> job[p].touched, waits |-> job[p].waits]
    BY <2>1, FieldSet DEF LifeInv
  <2>5. job'[p].backup = was
    BY <2>4
  <2>6. host' = cleared /\ pc'[p] = "archived"
    BY <2>1, ChangeIs, GotoIs DEF LifeInv
  <2>7. ~Reports(p, "ok") /\ pc'[p] \in Settling
    BY <2>6 DEF Reports, Settling
  <2>8. Built(p)'
    BY <2>7, SettlingBuilt
  <2>9. unrestored = {} => Grounded(found[p])
    BY DEF WholeInv
  <2> QED
    BY <1>1, <2>3, <2>5, <2>6, <2>7, <2>8, <2>9 DEF Sturdy
<1>3. CASE ~(listed \subseteq Present(host))
  <2>1. Report(p, "failed") /\ Quietly /\ UNCHANGED job
    BY <1>3 DEF Archive
  <2>2. pc'[p] = "done" /\ result'[p] = "failed" /\ host' = host
    BY <2>1, ReportIs DEF Quietly, LifeInv
  <2>3. ~Reports(p, "ok") /\ pc'[p] \in Settling
    BY <2>2 DEF Reports, Settling
  <2> QED
    BY <1>1, <2>1, <2>2, <2>3, SettlingBuilt, QuietSturdy
<1> QED
  BY <1>2, <1>3

LEMMA CaptureSturdy ==
  ASSUME LifeInv, WholeInv, NEW p \in Procs, kind' = kind, Capture(p)
  PROVE  Sturdy(p)
<1>1. /\ Goto(p, "publish") /\ Quietly /\ Keeps /\ pc[p] = "checking"
      /\ job' = [job EXCEPT ![p].backup = host, ![p].waits = Activating # {}]
  BY DEF Capture
<1>2. pc'[p] = "publish" /\ host' = host /\ unrestored' = unrestored /\ found' = found
  BY <1>1, GotoIs DEF Quietly, Keeps, LifeInv
<1>3. job'[p].backup = host
  BY CaptureIs
<1>4. unrestored = {} => Built(p) /\ Grounded(host) /\ Grounded(found[p])
  BY DEF WholeInv
<1>5. unrestored = {} => Built(p)'
  BY <1>1, <1>2, <1>4 DEF Built, ModeHeld
<1>6. ~Reports(p, "ok")
  BY <1>2 DEF Reports
<1> QED
  BY <1>2, <1>3, <1>4, <1>5, <1>6 DEF Sturdy

LEMMA RollingBackSturdy ==
  ASSUME LifeInv, OrderInv, WholeInv, NEW p \in Procs, RollBack(p) \/ RestoreReplaced(p)
  PROVE  Sturdy(p)
<1>0. host \in Hosts /\ job[p].backup \in Archives
  BY JobIs DEF LifeInv, LifeTypes
<1>1. CASE RollBack(p)
  <2>1. Goto(p, "restoring") /\ Keeps /\ UNCHANGED job
    BY <1>1 DEF RollBack
  <2>2. pc'[p] = "restoring" /\ unrestored' = unrestored /\ found' = found
    BY <2>1, GotoIs DEF Keeps, LifeInv
  <2>3. ~Reports(p, "ok") /\ pc'[p] \in Settling
    BY <2>2 DEF Reports, Settling
  <2>4. CASE SomebodyElses(p)
    <3>1. host' = host
      BY <1>1, <2>4 DEF RollBack, Quietly
    <3> QED
      BY <2>1, <2>2, <2>3, <3>1, SettlingBuilt, QuietSturdy
  <2>5. CASE ~SomebodyElses(p)
    <3>1. Change(p, RolledBack(host, job[p].pre))
      BY <1>1, <2>5 DEF RollBack
    <3>2. Grounded(RolledBack(host, job[p].pre))
      BY <1>0, RolledBackGrounded
    <3> QED
      BY <2>1, <2>2, <2>3, <3>1, <3>2, SettlingBuilt, ChangeSturdy
  <2> QED
    BY <2>4, <2>5
<1>2. CASE RestoreReplaced(p)
  <2>1. Report(p, "failed") /\ Keeps /\ UNCHANGED job /\ pc[p] = "restoring"
    BY <1>2 DEF RestoreReplaced
  <2>2. /\ pc'[p] = "done" /\ result'[p] = "failed" /\ unrestored' = unrestored /\ found' = found
        /\ pc[p] \notin Ended
    BY <2>1, ReportIs DEF Keeps, LifeInv, Ended, ModeHeld
  <2>3. ~Reports(p, "ok") /\ pc'[p] \in Settling
    BY <2>2 DEF Reports, Settling
  <2>4. CASE job[p].backup = NoBackup
    <3>1. host' = host
      BY <1>2, <2>4 DEF RestoreReplaced, Quietly
    <3> QED
      BY <2>1, <2>2, <2>3, <3>1, SettlingBuilt, QuietSturdy
  <2>5. CASE job[p].backup # NoBackup
    <3>1. Change(p, Unpacked(host, job[p].backup))
      BY <1>2, <2>5 DEF RestoreReplaced
    <3>2. unrestored = {} => Grounded(Unpacked(host, job[p].backup))
      <4>1. unrestored = {} => /\ Grounded(host) /\ Grounded(job[p].backup)
                               /\ Saved(job[p].backup) = DOMAIN job[p].backup.file
        BY <2>2 DEF OrderInv, WellKept, WholeInv
      <4> QED
        BY <1>0, <4>1, UnpackedGrounded
    <3> QED
      BY <2>1, <2>2, <2>3, <3>1, <3>2, SettlingBuilt, ChangeSturdy
  <2> QED
    BY <2>4, <2>5
<1> QED
  BY <1>1, <1>2

LEMMA AccountSturdy ==
  ASSUME LifeInv, WholeInv, NEW p \in Procs, kind' = kind, Account(p)
  PROVE  Sturdy(p)
<1> DEFINE d == found[p].file["config"]
           h == IF host.file["state"] = None THEN Put(host, {"state"}, d) ELSE host
<1>1. Change(p, h) /\ Report(p, "ok") /\ Keeps /\ UNCHANGED job /\ kind[p] = "account"
  BY DEF Account
<1>2. host \in Hosts /\ found[p] \in Hosts
  BY DEF LifeInv, LifeTypes
<1>3. d \in Values
  BY <1>2, HostFields, PartsOf
<1> HIDE DEF d
<1>4. Grounded(host) => Grounded(h)
  <2>1. "config" \notin {"state"} /\ "socket" \notin {"state"} /\ "hook" \notin {"state"}
    OBVIOUS
  <2> QED
    BY <1>2, <1>3, <2>1, PutGrounded
<1> HIDE DEF h
<1>5. pc'[p] \in Settling /\ unrestored' = unrestored /\ found' = found
  BY <1>1, ReportIs DEF Keeps, LifeInv, Settling
<1>6. unrestored = {} => Grounded(h)
  BY <1>4 DEF WholeInv
<1>7. Promised(p)
  BY <1>1 DEF Promised
<1> QED
  BY <1>1, <1>5, <1>6, <1>7, SettlingBuilt, ChangeSturdy

-----------------------------------------------------------------------------
(* The steps of an install, one after the other. *)
LEMMA WritesAre ==
  ASSUME NEW p
  PROVE  /\ ToSet(Writes(p, "generate")) \subseteq {"certs"}
         /\ ToSet(Writes(p, "initialize")) = {"artifacts", "config"}
         /\ ToSet(Writes(p, "kernel")) = {"kernel"} /\ ToSet(Writes(p, "state")) = {"state"}
         /\ ToSet(Writes(p, "units")) =
              {"active", "units"} \cup (IF Direct(p) THEN {"socket", "hook"} ELSE {})
         /\ ToSet(Writes(p, "start")) = {} /\ ToSet(Writes(p, "health")) = {}
         /\ ToSet(Writes(p, "mark")) = {"marker"}
<1>1. ToSet(<<>>) = {}
  BY DEF ToSet
<1>2. \A a : ToSet(<<a>>) = {a}
  BY DEF ToSet
<1>3. \A a, b : ToSet(<<a, b>>) = {a, b}
  BY DEF ToSet
<1>4. /\ Writes(p, "generate") = IF p \in SelfSigned THEN <<"certs">> ELSE <<>>
      /\ Writes(p, "initialize") = <<"artifacts", "config">>
      /\ Writes(p, "kernel") = <<"kernel">> /\ Writes(p, "state") = <<"state">>
      /\ Writes(p, "start") = <<>> /\ Writes(p, "health") = <<>> /\ Writes(p, "mark") = <<"marker">>
      /\ Writes(p, "units") =
           <<"active", "units">> \o (IF Direct(p) THEN <<"socket", "hook">> ELSE <<>>)
  BY DEF Writes
<1>5. ToSet(Writes(p, "units")) =
        {"active", "units"} \cup (IF Direct(p) THEN {"socket", "hook"} ELSE {})
  <2>1. CASE Direct(p)
    <3> DEFINE s == Writes(p, "units")
    <3>1. s = <<"active", "units", "socket", "hook">>
      BY <1>4, <2>1
    <3> HIDE DEF s
    <3>2. ToSet(s) = {"active", "units", "socket", "hook"}
      BY <3>1 DEF ToSet
    <3> QED
      BY <2>1, <3>2 DEF s
  <2>2. CASE ~Direct(p)
    <3>1. Writes(p, "units") = <<"active", "units">>
      BY <1>4, <2>2
    <3> QED
      BY <1>3, <2>2, <3>1
  <2> QED
    BY <2>1, <2>2
<1> QED
  BY <1>1, <1>2, <1>3, <1>4, <1>5

(* Only the units come with a renewal hook. *)
LEMMA WritesHook ==
  ASSUME NEW p, NEW step \in Installs, step # "units", NEW n \in 0 .. Len(Writes(p, step))
  PROVE  "hook" \notin ToSet(SubSeq(Writes(p, step), 1, n))
<1> DEFINE Rests == Parts \ {"hook"}
<1>1. "hook" \notin Rests
  OBVIOUS
<1>2. /\ <<>> \in Seq(Rests) /\ <<"certs">> \in Seq(Rests) /\ <<"kernel">> \in Seq(Rests)
      /\ <<"state">> \in Seq(Rests) /\ <<"marker">> \in Seq(Rests)
      /\ <<"artifacts", "config">> \in Seq(Rests)
  BY PartsOf
<1> HIDE DEF Rests
<1>3. Writes(p, step) \in Seq(Rests)
  BY <1>2 DEF Writes
<1> QED
  BY <1>1, <1>3, NotAmong

(* The steps, and what each leads to. *)
Leads(from, to) ==
  \/ from = "generate" /\ to = "initialize"
  \/ from = "initialize" /\ to = "kernel"
  \/ from = "kernel" /\ to = "state"
  \/ from = "state" /\ to = "units"
  \/ from = "units" /\ to = "start"
  \/ from = "start" /\ to = "health"
  \/ from = "health" /\ to = "mark"

LEMMA InstallStepIs ==
  ASSUME LifeInv, NEW p \in Procs, InstallStep(p)
  PROVE  /\ Change(p, Enable(Run(Put(host, ToSet(Writes(p, pc[p])), p), Starting(p, pc[p])),
                             Starting(p, pc[p])))
         /\ (pc[p] = "mark" /\ pc'[p] = "done") \/ Leads(pc[p], pc'[p])
         /\ unrestored' = unrestored /\ found' = found /\ kind' = kind
         /\ job'[p].backup = job[p].backup
<1>1. PICK i \in 1..8 :
        /\ pc[p] = InstallSteps[i]
        /\ Change(p, Enable(Run(Put(host, ToSet(Writes(p, InstallSteps[i])), p),
                                Starting(p, InstallSteps[i])), Starting(p, InstallSteps[i])))
        /\ job' = [job EXCEPT ![p].committed = @ \/ InstallSteps[i] = "initialize"]
        /\ IF InstallSteps[i] = "mark" THEN Report(p, "ok") /\ LetGo(p)
           ELSE Goto(p, InstallSteps[i + 1]) /\ NoReport /\ Unlocked
        /\ Keeps
  BY StepNames DEF InstallStep
<1>2. /\ InstallSteps[1] = "generate" /\ InstallSteps[2] = "initialize" /\ InstallSteps[3] = "kernel"
      /\ InstallSteps[4] = "state" /\ InstallSteps[5] = "units" /\ InstallSteps[6] = "start"
      /\ InstallSteps[7] = "health" /\ InstallSteps[8] = "mark"
  BY DEF InstallSteps
<1>3. i \in 1..7 => Leads(InstallSteps[i], InstallSteps[i + 1]) /\ InstallSteps[i] # "mark"
  <2>1. i \in 1..7 => i = 1 \/ i = 2 \/ i = 3 \/ i = 4 \/ i = 5 \/ i = 6 \/ i = 7
    OBVIOUS
  <2> QED
    BY <1>2, <2>1 DEF Leads
<1>5. i # 8 => Leads(pc[p], pc'[p])
  <2>1. i # 8 => i \in 1..7
    OBVIOUS
  <2>2. i # 8 => pc'[p] = InstallSteps[i + 1]
    BY <1>1, <1>3, <2>1, GotoIs DEF LifeInv
  <2> QED
    BY <1>1, <1>3, <2>1, <2>2
<1>6. job'[p].backup = job[p].backup
  <2> DEFINE c == job[p].committed \/ InstallSteps[i] = "initialize"
  <2>1. /\ job = [q \in Procs |-> job[q]]
        /\ job[p] = [committed |-> job[p].committed, pre |-> job[p].pre,
                     listed |-> job[p].listed, backup |-> job[p].backup,
                     touched |-> job[p].touched, waits |-> job[p].waits]
    BY JobIs DEF LifeInv
  <2>2. job' = [job EXCEPT ![p].committed = c]
    BY <1>1
  <2> HIDE DEF c
  <2>3. job'[p] = [committed |-> c, pre |-> job[p].pre,
                   listed |-> job[p].listed, backup |-> job[p].backup,
                   touched |-> job[p].touched, waits |-> job[p].waits]
    BY <2>1, <2>2
  <2> QED
    BY <2>3
<1>7. (pc[p] = "mark" /\ pc'[p] = "done") \/ Leads(pc[p], pc'[p])
  <2>1. i = 8 => pc[p] = "mark" /\ pc'[p] = "done"
    BY <1>1, <1>2, ReportIs DEF LifeInv
  <2> QED
    BY <1>5, <2>1
<1> QED
  BY <1>1, <1>6, <1>7 DEF Keeps

(* The host a step leaves, whole or in part. *)
LEMMA WroteIs ==
  ASSUME NEW h \in Hosts, Grounded(h), NEW p \in Procs, NEW parts, NEW up, NEW starts,
         up \subseteq starts, starts \subseteq Units,
         "hook" \in parts => h.file["config"] # None,
         starts = {} \/ (h.file["config"] # None /\ ("socket" \in starts => h.file["socket"] # None))
  PROVE  LET g == Enable(Run(Put(h, parts, p), up), starts)
         IN  /\ Grounded(g)
             /\ \A part \in Parts : g.file[part] = IF part \in parts THEN p ELSE h.file[part]
             /\ g.active = h.active \cup up /\ g.enabled = h.enabled \cup starts
<1> DEFINE put == Put(h, parts, p)
           g == Enable(Run(put, up), starts)
<1>1. p \in Values /\ p # None
  BY ValuesOf
<1>2. /\ put \in Hosts /\ Grounded(put) /\ put.active = h.active /\ put.enabled = h.enabled
      /\ \A part \in Parts : put.file[part] = IF part \in parts THEN p ELSE h.file[part]
  <2>1. /\ put \in Hosts /\ put.active = h.active /\ put.enabled = h.enabled
        /\ put.file = [part \in Parts |-> IF part \in parts THEN p ELSE h.file[part]]
    BY <1>1, PutIs
  <2>2. Grounded(put)
    BY <1>1, PutGrounded
  <2> QED
    BY <2>1, <2>2
<1> HIDE DEF put
<1>3. /\ up \subseteq Units
      /\ (up = {} /\ starts = {}) \/ put.file["config"] # None
      /\ "socket" \in up => put.file["socket"] # None
  BY <1>1, <1>2, PartsOf
<1>4. /\ Grounded(g) /\ g.file = put.file
      /\ g.active = put.active \cup up /\ g.enabled = put.enabled \cup starts
  BY <1>2, <1>3, RunGrounded
<1> HIDE DEF g
<1> QED
  BY <1>2, <1>4 DEF g, put

LEMMA InstallStepSturdy ==
  ASSUME LifeInv, WholeInv, NEW p \in Procs, InstallStep(p)
  PROVE  Sturdy(p)
<1> DEFINE parts == ToSet(Writes(p, pc[p]))
           starts == Starting(p, pc[p])
           h == Enable(Run(Put(host, parts, p), starts), starts)
<1>1. /\ Change(p, h) /\ ((pc[p] = "mark" /\ pc'[p] = "done") \/ Leads(pc[p], pc'[p]))
      /\ unrestored' = unrestored /\ found' = found /\ kind' = kind
      /\ job'[p].backup = job[p].backup
  BY InstallStepIs
<1>2. host \in Hosts /\ p # None /\ starts \subseteq Units
  BY ValuesOf, UnitSets DEF LifeInv, LifeTypes, Starting
<1>3. /\ pc[p] # "start" => starts = {}
      /\ pc[p] = "start" => starts = Managed(p)
  BY DEF Starting
<1>4. "socket" \in Managed(p) <=> Direct(p)
  BY DEF Managed
<1>5. /\ pc[p] \in {"generate", "initialize", "kernel", "state", "units", "start", "health", "mark"}
      /\ pc[p] = "generate" => parts \subseteq {"certs"}
      /\ pc[p] = "initialize" => parts = {"artifacts", "config"}
      /\ pc[p] = "kernel" => parts = {"kernel"}
      /\ pc[p] = "state" => parts = {"state"}
      /\ pc[p] = "units" => parts = {"active", "units"} \cup (IF Direct(p) THEN {"socket", "hook"} ELSE {})
      /\ pc[p] \in {"start", "health"} => parts = {}
      /\ pc[p] = "mark" => parts = {"marker"}
  BY <1>1, WritesAre DEF Leads
<1> HIDE DEF parts, starts
<1>6. ASSUME unrestored = {}
      PROVE  Grounded(h) /\ Built(p)' /\ (Reports(p, "ok") => Promised(p))
  <2>1. Grounded(host) /\ Built(p)
    BY <1>6 DEF WholeInv
  <2>2. "hook" \in parts => host.file["config"] # None
    BY <1>2, <1>5, <2>1 DEF Built, Made
  <2>3. starts = {} \/ (host.file["config"] # None /\ ("socket" \in starts => host.file["socket"] # None))
    BY <1>2, <1>3, <1>4, <2>1 DEF Built, Made
  <2>4. /\ Grounded(h)
        /\ \A part \in Parts : h.file[part] = IF part \in parts THEN p ELSE host.file[part]
        /\ h.active = host.active \cup starts /\ h.enabled = host.enabled \cup starts
    BY <1>2, <2>1, <2>2, <2>3, WroteIs
  <2> HIDE DEF h
  <2>5. host' = h
    BY <1>1, ChangeIs
  <2>6. \A part \in {"artifacts", "state", "config", "active", "units", "socket", "hook", "kernel", "marker"} :
          host'.file[part] = IF part \in parts THEN p ELSE host.file[part]
    BY <2>4, <2>5, PartsOf
  <2>7. host'.active = host.active \cup starts /\ host'.enabled = host.enabled \cup starts
    BY <2>4, <2>5
  <2>8. \/ (pc[p] = "generate" /\ pc'[p] = "initialize")
        \/ (pc[p] = "initialize" /\ pc'[p] = "kernel")
        \/ (pc[p] = "kernel" /\ pc'[p] = "state")
        \/ (pc[p] = "state" /\ pc'[p] = "units")
        \/ (pc[p] = "units" /\ pc'[p] = "start")
        \/ (pc[p] = "start" /\ pc'[p] = "health")
        \/ (pc[p] = "health" /\ pc'[p] = "mark")
        \/ (pc[p] = "mark" /\ pc'[p] = "done")
    BY <1>1 DEF Leads
  <2>9. ~Reports(p, "ok") \/ pc[p] = "mark"
    BY <2>8 DEF Reports
  <2>10. CASE pc[p] = "generate" /\ pc'[p] = "initialize"
    <3>1. host'.file["config"] = None
      BY <1>5, <2>1, <2>6, <2>10 DEF Built
    <3> QED
      BY <2>4, <2>9, <2>10, <3>1 DEF Built, ModeHeld
  <2>11. CASE pc[p] = "initialize" /\ pc'[p] = "kernel"
    <3>1. host.active = {} /\ host.enabled = {} /\ host.file["hook"] = None
      BY <1>2, <2>1, <2>11, GroundedHost DEF Built
    <3>2. host'.active = {} /\ host'.enabled = {} /\ host'.file["hook"] = None
      BY <1>3, <1>5, <2>6, <2>7, <2>11, <3>1
    <3>3. host'.file["artifacts"] = p /\ host'.file["config"] = p
      BY <1>5, <2>6, <2>11
    <3> QED
      BY <2>4, <2>9, <2>11, <3>2, <3>3 DEF Built, Made, AtRest, ModeHeld
  <2>12. CASE pc[p] = "kernel" /\ pc'[p] = "state"
    <3>1. host.active = {} /\ host.enabled = {} /\ host.file["hook"] = None /\ Made(p, {"artifacts", "config"})
      BY <2>1, <2>12 DEF Built, AtRest
    <3>2. host'.active = {} /\ host'.enabled = {} /\ host'.file["hook"] = None
      BY <1>3, <1>5, <2>6, <2>7, <2>12, <3>1
    <3>3. host'.file["artifacts"] = p /\ host'.file["config"] = p /\ host'.file["kernel"] = p
      BY <1>5, <2>6, <2>12, <3>1 DEF Made
    <3> QED
      BY <2>4, <2>9, <2>12, <3>2, <3>3 DEF Built, Made, AtRest, ModeHeld
  <2>13. CASE pc[p] = "state" /\ pc'[p] = "units"
    <3>1. /\ host.active = {} /\ host.enabled = {} /\ host.file["hook"] = None
          /\ Made(p, {"artifacts", "config"}) /\ Made(p, {"kernel"})
      BY <2>1, <2>13 DEF Built, AtRest
    <3>2. host'.active = {} /\ host'.enabled = {} /\ host'.file["hook"] = None
      BY <1>3, <1>5, <2>6, <2>7, <2>13, <3>1
    <3>3. \A part \in {"artifacts", "config", "kernel", "state"} : host'.file[part] = p
      BY <1>5, <2>6, <2>13, <3>1 DEF Made
    <3> QED
      BY <2>4, <2>9, <2>13, <3>2, <3>3 DEF Built, Made, AtRest, ModeHeld
  <2>14. CASE pc[p] = "units" /\ pc'[p] = "start"
    <3>1. /\ host.active = {} /\ host.enabled = {} /\ host.file["hook"] = None
          /\ Made(p, {"artifacts", "config"}) /\ Made(p, {"kernel"}) /\ Made(p, {"state"})
      BY <2>1, <2>14 DEF Built, AtRest
    <3>2. host'.active = {} /\ host'.enabled = {}
      BY <1>3, <2>7, <2>14, <3>1
    <3>3. \A part \in {"artifacts", "config", "kernel", "state", "active", "units"} : host'.file[part] = p
      BY <1>5, <2>6, <2>14, <3>1 DEF Made
    <3>4. (Direct(p) => host'.file["socket"] = p) /\ (host'.file["hook"] # None <=> Direct(p))
      BY <1>2, <1>5, <2>6, <2>14, <3>1
    <3> QED
      BY <2>4, <2>9, <2>14, <3>2, <3>3, <3>4 DEF Built, Made, AtRest, ModeHeld
  <2>15. CASE \/ pc[p] = "start" /\ pc'[p] = "health"
              \/ pc[p] = "health" /\ pc'[p] = "mark"
    <3>1. /\ Made(p, {"artifacts", "config"}) /\ Made(p, {"kernel"}) /\ Made(p, {"state"})
          /\ Made(p, {"active", "units"}) /\ (Direct(p) => Made(p, {"socket"}))
          /\ host.file["hook"] # None <=> Direct(p)
      BY <2>1, <2>15 DEF Built
    <3>2. host'.active = Managed(p) /\ host'.enabled = Managed(p)
      <4>1. CASE pc[p] = "start"
        BY <1>3, <2>1, <2>7, <4>1 DEF Built, AtRest
      <4>2. CASE pc[p] = "health"
        BY <1>3, <2>1, <2>7, <4>2 DEF Built
      <4> QED
        BY <2>15, <4>1, <4>2
    <3>3. \A part \in {"artifacts", "config", "kernel", "state", "active", "units"} : host'.file[part] = p
      BY <1>5, <2>6, <2>15, <3>1 DEF Made
    <3>4. (Direct(p) => host'.file["socket"] = p) /\ (host'.file["hook"] # None <=> Direct(p))
      BY <1>5, <2>6, <2>15, <3>1 DEF Made
    <3> QED
      BY <2>4, <2>9, <2>15, <3>2, <3>3, <3>4 DEF Built, Made, AtRest, ModeHeld
  <2>16. CASE pc[p] = "mark" /\ pc'[p] = "done"
    <3>1. /\ Made(p, {"artifacts", "config"}) /\ Made(p, {"kernel"}) /\ Made(p, {"state"})
          /\ Made(p, {"active", "units"}) /\ (Direct(p) => Made(p, {"socket"}))
          /\ host.file["hook"] # None <=> Direct(p)
          /\ host.active = Managed(p) /\ host.enabled = Managed(p)
      BY <2>1, <2>16 DEF Built
    <3>2. host'.active = Managed(p) /\ host'.enabled = Managed(p)
      BY <1>3, <2>7, <2>16, <3>1
    <3>3. \A part \in {"artifacts", "config", "kernel", "state", "active", "units", "marker"} :
            host'.file[part] = p
      BY <1>5, <2>6, <2>16, <3>1 DEF Made
    <3>4. (Direct(p) => host'.file["socket"] = p) /\ (host'.file["hook"] # None <=> Direct(p))
      BY <1>5, <2>6, <2>16, <3>1 DEF Made
    <3>5. Subscription \subseteq host'.active
      BY <3>2 DEF Subscription, Managed
    <3>6. Serves(host', p)
      BY <1>2, <1>4, <3>2, <3>3, <3>4, <3>5 DEF Serves
    <3>7. Promised(p)
      BY <3>2, <3>3, <3>6 DEF Promised
    <3>8. Built(p)'
      BY <2>16, SettlingBuilt DEF Settling
    <3> QED
      BY <2>4, <3>7, <3>8
  <2> QED
    BY <2>8, <2>10, <2>11, <2>12, <2>13, <2>14, <2>15, <2>16
<1> HIDE DEF h
<1> QED
  BY <1>1, <1>6, ChangeSturdy

LEMMA InstallStepFailsSturdy ==
  ASSUME LifeInv, WholeInv, NEW p \in Procs, InstallStepFails(p)
  PROVE  Sturdy(p)
<1>1. pc[p] \in Installs /\ Goto(p, "failing") /\ Keeps /\ UNCHANGED job
  BY StepNames DEF InstallStepFails
<1>2. PICK n \in 0 .. Len(Writes(p, pc[p])), up \in SUBSET Starting(p, pc[p]) :
        Change(p, Enable(Run(Put(host, ToSet(SubSeq(Writes(p, pc[p]), 1, n)), p), up),
                         Starting(p, pc[p])))
  BY DEF InstallStepFails
<1> DEFINE parts == ToSet(SubSeq(Writes(p, pc[p]), 1, n))
           starts == Starting(p, pc[p])
           h == Enable(Run(Put(host, parts, p), up), starts)
<1>3. host \in Hosts /\ p # None /\ starts \subseteq Units /\ up \subseteq starts /\ Change(p, h)
  BY <1>2, ValuesOf, UnitSets DEF LifeInv, LifeTypes, Starting
<1>4. pc[p] # "units" => "hook" \notin parts
  BY <1>1, WritesHook
<1>5. starts # {} => pc[p] = "start" /\ ("socket" \in starts => Direct(p))
  BY DEF Starting, Managed
<1> HIDE DEF parts, starts
<1>6. ASSUME unrestored = {} PROVE Grounded(h)
  <2>1. Grounded(host) /\ Built(p)
    BY <1>6 DEF WholeInv
  <2>2. "hook" \in parts => host.file["config"] # None
    BY <1>3, <1>4, <2>1 DEF Built, Made
  <2>3. starts = {} \/ (host.file["config"] # None /\ ("socket" \in starts => host.file["socket"] # None))
    BY <1>3, <1>5, <2>1 DEF Built, Made
  <2> QED
    BY <1>3, <2>1, <2>2, <2>3, WroteIs
<1> HIDE DEF h
<1>7. pc'[p] = "failing" /\ unrestored' = unrestored /\ found' = found
  BY <1>1, GotoIs DEF Keeps, LifeInv
<1>8. pc'[p] \in Settling /\ ~Reports(p, "ok")
  BY <1>7 DEF Settling, Reports
<1> QED
  BY <1>1, <1>3, <1>6, <1>7, <1>8, SettlingBuilt, ChangeSturdy

-----------------------------------------------------------------------------
(* The steps of a mode switch. *)
LEMMA PublishModeSturdy ==
  ASSUME LifeInv, WholeInv, NEW p \in Procs, kind' = kind, PublishMode(p)
  PROVE  Sturdy(p)
<1> DEFINE parts == {"artifacts", "active", "config"}
           h == Put(host, parts, p)
<1>1. Change(p, h) /\ Goto(p, "services") /\ Keeps /\ UNCHANGED job /\ pc[p] = "publish"
  BY DEF PublishMode
<1>2. host \in Hosts /\ p \in Values /\ p # None
  BY ValuesOf DEF LifeInv, LifeTypes
<1>3. "hook" \notin parts /\ "kernel" \notin parts /\ {"artifacts", "active", "config"} \subseteq parts
  OBVIOUS
<1> HIDE DEF parts
<1>4. h.file = [part \in Parts |-> IF part \in parts THEN p ELSE host.file[part]]
  BY <1>2, PutIs
<1>5. Grounded(host) => Grounded(h)
  BY <1>2, <1>3, PutGrounded
<1>6. /\ \A part \in {"artifacts", "active", "config"} : h.file[part] = p
      /\ h.file["kernel"] = host.file["kernel"]
  BY <1>3, <1>4, PartsOf
<1> HIDE DEF h
<1>7. pc'[p] = "services" /\ host' = h /\ unrestored' = unrestored /\ found' = found
  BY <1>1, GotoIs, ChangeIs DEF Keeps, LifeInv
<1>8. unrestored = {} => Grounded(h) /\ Built(p)'
  <2>1. unrestored = {} => Grounded(host) /\ kind[p] = "mode" /\ host.file["kernel"] # None
    BY <1>1 DEF WholeInv, Built, ModeHeld
  <2> QED
    BY <1>2, <1>5, <1>6, <1>7, <2>1 DEF Built, Made, ModeHeld
<1>9. ~Reports(p, "ok")
  BY <1>7 DEF Reports
<1> QED
  BY <1>1, <1>7, <1>8, <1>9, ChangeSturdy

LEMMA SwitchServicesSturdy ==
  ASSUME LifeInv, WholeInv, NEW p \in Procs, kind' = kind,
         SwitchServices(p) \/ SwitchServicesFails(p)
  PROVE  Sturdy(p)
<1> DEFINE reconciled == Reconciled(host, p)
           switched == Restarted(reconciled, p)
           stopped == Halt(switched, {"sing-box"})
           silent == Halt(switched, {"sbctl", "socket"})
<1>0. host \in Hosts /\ host.file["units"] # None /\ pc[p] = "services" /\ p # None
  BY ValuesOf DEF LifeInv, LifeTypes, SwitchServices, SwitchServicesFails
<1>1. unrestored = {} => /\ Grounded(host) /\ kind[p] = "mode" /\ host.file["kernel"] # None
                         /\ \A part \in {"artifacts", "config", "active"} : host.file[part] = p
  BY <1>0 DEF WholeInv, Built, ModeHeld, Made
<1>2. unrestored = {} =>
        /\ reconciled \in Hosts /\ Grounded(reconciled)
        /\ \A part \in Parts \ {"units", "socket", "hook"} : reconciled.file[part] = host.file[part]
        /\ reconciled.file["units"] # None /\ (Direct(reconciled.file["units"]) <=> Direct(p))
        /\ reconciled.file["hook"] # None <=> Direct(p)
        /\ Direct(p) => reconciled.file["socket"] # None
  BY <1>0, <1>1, ReconciledIs
<1> HIDE DEF reconciled
<1>3. unrestored = {} =>
        /\ reconciled.file["kernel"] # None
        /\ \A part \in {"artifacts", "config", "active"} : reconciled.file[part] = p
  BY <1>1, <1>2, PartsOf
<1>4. unrestored = {} => /\ switched \in Hosts /\ Grounded(switched) /\ switched.file = reconciled.file
                         /\ Subscription \subseteq switched.active
                         /\ "socket" \in switched.active <=> Direct(p)
  BY <1>0, <1>2, <1>3, RestartedIs
<1> HIDE DEF switched
<1>5. unrestored = {} => Grounded(stopped) /\ Grounded(silent)
  BY <1>4, HaltGrounded
<1>6. unrestored = {} => Serves(switched, p)
  BY <1>2, <1>3, <1>4 DEF Serves
<1>7. Set(p, "touched", TRUE) /\ Keeps
  BY DEF SwitchServices, SwitchServicesFails
<1>8. unrestored' = unrestored /\ found' = found /\ job'[p].backup = job[p].backup
  BY <1>7, BackupKept DEF Keeps, LifeInv
<1>9. CASE SwitchServices(p)
  <2>1. /\ Change(p, switched)
        /\ Goto(p, "obtain") \/ Report(p, "ok")
    BY <1>9 DEF SwitchServices, switched, reconciled
  <2>2. host' = switched /\ pc'[p] \in {"obtain", "done"}
    BY <2>1, ChangeIs, GotoIs, ReportIs DEF LifeInv
  <2>3. unrestored = {} => Built(p)'
    <3>1. CASE pc'[p] = "obtain"
      <4>1. unrestored = {} => Serves(host, p)'
        BY <1>6, <2>2 DEF Serves
      <4> QED
        BY <1>1, <3>1, <4>1 DEF Built
    <3>2. CASE pc'[p] = "done"
      BY <3>2, SettlingBuilt DEF Settling
    <3> QED
      BY <2>2, <3>1, <3>2
  <2>4. unrestored = {} => Promised(p)
    <3>1. unrestored = {} => Serves(host', p)
      BY <1>6, <2>2
    <3> QED
      BY <1>1, <3>1 DEF Promised
  <2> QED
    BY <1>4, <1>8, <2>1, <2>3, <2>4, ChangeSturdy
<1>10. CASE SwitchServicesFails(p)
  <2>1. PICK h \in {host, reconciled, stopped, silent} : Change(p, h)
    BY <1>10 DEF SwitchServicesFails, switched, reconciled
  <2>2. pc'[p] = "recover"
    BY <1>10, GotoIs DEF LifeInv, SwitchServicesFails
  <2> HIDE DEF stopped, silent
  <2>3. unrestored = {} => Grounded(h)
    BY <1>1, <1>2, <1>5, <2>1
  <2>4. unrestored = {} => Built(p)'
    BY <1>1, <2>2 DEF Built
  <2>5. ~Reports(p, "ok")
    BY <2>2 DEF Reports
  <2> QED
    BY <1>8, <2>1, <2>3, <2>4, <2>5, ChangeSturdy
<1> QED
  BY <1>9, <1>10

LEMMA ObtainModeSturdy ==
  ASSUME LifeInv, WholeInv, NEW p \in Procs, kind' = kind, ObtainMode(p) \/ ObtainModeFails(p)
  PROVE  Sturdy(p)
<1>1. Keeps /\ UNCHANGED job /\ pc[p] = "obtain"
  BY DEF ObtainMode, ObtainModeFails
<1>2. host \in Hosts /\ p \in Values /\ p # None /\ unrestored' = unrestored /\ found' = found
  BY <1>1, ValuesOf DEF LifeInv, LifeTypes, Keeps
<1>3. unrestored = {} => Grounded(host) /\ kind[p] = "mode" /\ Serves(host, p)
  BY <1>1 DEF WholeInv, Built, ModeHeld
<1>4. CASE ObtainMode(p)
  <2> DEFINE parts == {"certs", "artifacts", "active"}
             put == Put(host, parts, p)
             h == Restarted(put, p)
  <2>1. Change(p, h) /\ Report(p, "ok")
    BY <1>4 DEF ObtainMode
  <2>2. \A part \in {"config", "units", "kernel", "hook", "socket"} : part \notin parts
    OBVIOUS
  <2>3. "artifacts" \in parts /\ "active" \in parts
    OBVIOUS
  <2> HIDE DEF parts
  <2>4. /\ put \in Hosts
        /\ put.file = [part \in Parts |-> IF part \in parts THEN p ELSE host.file[part]]
    BY <1>2, PutIs
  <2>5. Grounded(host) => Grounded(put)
    BY <1>2, <2>2, PutGrounded
  <2>6. /\ \A part \in {"config", "units", "kernel", "hook", "socket"} : put.file[part] = host.file[part]
        /\ put.file["artifacts"] = p /\ put.file["active"] = p
    BY <2>2, <2>3, <2>4, PartsOf
  <2> HIDE DEF put
  <2>7. unrestored = {} => /\ Grounded(put) /\ put.file["config"] # None
                           /\ Direct(p) => put.file["socket"] # None
    BY <1>2, <1>3, <2>5, <2>6 DEF Serves
  <2>8. unrestored = {} => /\ h \in Hosts /\ Grounded(h) /\ h.file = put.file
                           /\ Subscription \subseteq h.active /\ ("socket" \in h.active <=> Direct(p))
    BY <2>4, <2>7, RestartedIs
  <2> HIDE DEF h
  <2>9. unrestored = {} => Serves(h, p)
    BY <1>3, <2>6, <2>8 DEF Serves
  <2>10. host' = h /\ pc'[p] \in Settling
    BY <2>1, ChangeIs, ReportIs DEF LifeInv, Settling
  <2>11. unrestored = {} => Promised(p)
    <3>1. unrestored = {} => Serves(host', p)
      BY <2>9, <2>10
    <3> QED
      BY <1>3, <3>1 DEF Promised
  <2> QED
    BY <1>1, <1>2, <2>1, <2>8, <2>10, <2>11, SettlingBuilt, ChangeSturdy
<1>5. CASE ObtainModeFails(p)
  <2> DEFINE h == Put(host, {"certs"}, p)
  <2>1. Change(p, h) /\ Goto(p, "recover")
    BY <1>5 DEF ObtainModeFails
  <2>2. "hook" \notin {"certs"} /\ "config" \notin {"certs"} /\ "socket" \notin {"certs"}
    OBVIOUS
  <2>3. Grounded(host) => Grounded(h)
    BY <1>2, <2>2, PutGrounded
  <2> HIDE DEF h
  <2>4. pc'[p] = "recover"
    BY <2>1, GotoIs DEF LifeInv
  <2>5. unrestored = {} => Grounded(h) /\ Built(p)'
    BY <1>3, <2>3, <2>4 DEF Built
  <2>6. ~Reports(p, "ok")
    BY <2>4 DEF Reports
  <2> QED
    BY <1>1, <1>2, <2>1, <2>5, <2>6, ChangeSturdy
<1> QED
  BY <1>4, <1>5

(* Snapshot::restore: an undisturbed command puts back what it found. *)
LEMMA RecoverFilesSturdy ==
  ASSUME LifeInv, LockInv, OrderInv, WholeInv, NEW p \in Procs, kind' = kind, RecoverFiles(p)
  PROVE  Sturdy(p)
<1>1. Goto(p, "startUnits") /\ Keeps /\ UNCHANGED job /\ pc[p] = "recover"
  BY DEF RecoverFiles
<1>2. pc'[p] = "startUnits" /\ unrestored' = unrestored /\ found' = found
  BY <1>1, GotoIs DEF Keeps, LifeInv
<1>3. ASSUME unrestored' = {} PROVE Grounded(host') /\ Built(p)'
  <2>1. Grounded(found[p]) /\ Undisturbed(p)
    BY <1>1, <1>2, <1>3 DEF OrderInv, WholeInv, LockInv, ModeHeld, Undisturbed
  <2>2. Follows(p) /\ found[p] \in Hosts
    BY <2>1 DEF LifeInv, LifeTypes
  <2>3. Rooted(found[p])
    BY <2>1, <2>2, GroundedHost DEF Rooted
  <2>4. host' \in Hosts /\ Rooted(host') /\ kind[p] = "mode"
    BY <2>2, <2>3, RecoveredIs
  <2>5. Grounded(host')
    BY <2>4, GroundedHost DEF Rooted
  <2> QED
    BY <1>2, <2>4, <2>5 DEF Built
<1>4. unrestored = {} => Grounded(found[p]) /\ Grounded(job[p].backup)
  BY DEF WholeInv
<1>5. job'[p].backup = job[p].backup
  BY <1>1
<1>6. ~Reports(p, "ok")
  BY <1>2 DEF Reports
<1> QED
  BY <1>2, <1>3, <1>4, <1>5, <1>6 DEF Sturdy

LEMMA CommandSturdy ==
  ASSUME LifeInv, LockInv, OrderInv, WholeInv, WholeLists, NEW p \in Procs, kind' = kind,
         Proceeds(p) \/ FireTimer(p) \/ Failing(p) \/ Crash(p)
  PROVE  Sturdy(p)
<1>1. /\ ~StopAll(p) /\ ~RemoveUnits(p) /\ ~EraseConfig(p) /\ ~EraseData(p) /\ ~UninstallFails(p)
  BY DEF StopAll, RemoveUnits, EraseConfig, EraseData, UninstallFails, LockInv, Removing
<1> QED
  BY <1>1, QuietActionsSturdy, UnrestoredSturdy, ArchiveSturdy, CaptureSturdy, RollingBackSturdy,
     AccountSturdy, InstallStepSturdy, InstallStepFailsSturdy, PublishModeSturdy,
     SwitchServicesSturdy, ObtainModeSturdy, RecoverFilesSturdy
     DEF Proceeds, Installing, Switching, Uninstalling, Failing

-----------------------------------------------------------------------------
LEMMA WholeInit == Init => WholeInv
<1> SUFFICES ASSUME Init PROVE WholeInv
  OBVIOUS
<1>1. PICK s \in Sessions :
        /\ host = IF s.old = None THEN Bare ELSE Deployed(s.old, s.stopped)
        /\ pc = [p \in Procs |-> "idle"] /\ job = [p \in Procs |-> NoJob]
        /\ found = [p \in Procs |-> host]
  BY DEF Init
<1>2. Grounded(host)
  <2>1. CASE s.old = None
    BY <1>1, <2>1, BareGrounded
  <2>2. CASE s.old # None
    <3> DEFINE d == s.old
    <3>1. d # None /\ host \in Hosts
      BY <2>2, LifeInit DEF LifeInv, LifeTypes
    <3>2. /\ host.active = Managed(d) \ s.stopped
          /\ host.file = [part \in Parts |->
                            IF \/ part \in {"socket", "hook"} /\ ~Direct(d)
                               \/ part = "certs" /\ ~Direct(d) /\ d \notin SelfSigned
                            THEN None ELSE d]
      BY <1>1, <2>2 DEF Deployed
    <3>3. "socket" \in Managed(d) => Direct(d)
      BY DEF Managed
    <3> HIDE DEF d
    <3>4. host.file["config"] = d /\ (Direct(d) => host.file["socket"] = d)
      BY <3>2, PartsOf
    <3>5. host.file["config"] # None /\ ("socket" \in host.active => host.file["socket"] # None)
      BY <3>1, <3>2, <3>3, <3>4
    <3> QED
      BY <3>1, <3>5, GroundedHost
  <2> QED
    BY <2>1, <2>2
<1>3. \A p \in Procs : pc[p] = "idle" /\ job[p].backup = NoBackup /\ found[p] = host
  BY <1>1 DEF NoJob
<1>4. \A p \in Procs : Built(p)
  BY <1>3 DEF Built, ModeHeld
<1> QED
  BY <1>2, <1>3, <1>4, BareGrounded DEF WholeInv

(* What SuccessIsWhole says of one command's step. *)
Whole(p) ==
  Reports(p, "ok") /\ unrestored = {} =>
    CASE kind[p] \in {"fresh", "replace"} ->
           /\ Serves(host', p)
           /\ \A part \in {"state", "units", "kernel", "marker"} : host'.file[part] = p
           /\ Managed(p) = host'.active /\ Managed(p) = host'.enabled
      [] kind[p] = "mode" -> Serves(host', p)
      [] kind[p] = "uninstall" ->
           /\ host'.active = {} /\ host'.enabled = {}
           /\ \A part \in {"units", "socket", "hook", "kernel"} : host'.file[part] = None
      [] kind[p] = "purge" -> host' = Bare
      [] OTHER -> TRUE

LEMMA PromisedIsWhole ==
  ASSUME NEW p \in Procs, kind[p] \notin {"uninstall", "purge"}, Promised(p)
  PROVE  Whole(p)
<1>1. CASE kind[p] \in {"fresh", "replace"}
  BY <1>1 DEF Promised, Whole
<1>2. CASE kind[p] = "mode"
  BY <1>2 DEF Promised, Whole
<1>3. CASE kind[p] \notin {"fresh", "replace", "mode"}
  BY <1>3 DEF Whole
<1> QED
  BY <1>1, <1>2, <1>3

LEMMA WholeNext ==
  LifeInv /\ LockInv /\ OrderInv /\ WholeInv /\ WholeLists /\ [Next]_vars
    => WholeInv' /\ \A q \in Procs : Whole(q)
<1> SUFFICES ASSUME LifeInv, LockInv, OrderInv, WholeInv, WholeLists, [Next]_vars
             PROVE  WholeInv' /\ \A q \in Procs : Whole(q)
  OBVIOUS
<1>1. ASSUME NEW p \in Procs, Proceeds(p) \/ FireTimer(p) \/ Failing(p) \/ Crash(p)
      PROVE  WholeInv' /\ \A q \in Procs : Whole(q)
  <2>1. ActsAlone(p) /\ Guarded(p)
    BY <1>1, CommandOwn, CommandGuarded DEF Own
  <2>2. kind' = kind
    BY <2>1 DEF ActsAlone
  <2>3. Sturdy(p)
    BY <1>1, <2>2, CommandSturdy
  <2>4. WholeInv'
    BY <2>1, <2>3, SturdyStep
  <2>5. ASSUME NEW q \in Procs PROVE Whole(q)
    <3>1. CASE q = p
      BY <2>3, <3>1, PromisedIsWhole DEF Sturdy, LockInv, Whole
    <3>2. CASE q # p
      <4>1. pc'[q] = pc[q] \/ pc'[q] = "dead"
        BY <2>1, <3>2 DEF ActsAlone
      <4>2. ~Reports(q, "ok")
        BY <4>1 DEF Reports
      <4> QED
        BY <4>2 DEF Whole
    <3> QED
      BY <3>1, <3>2
  <2> QED
    BY <2>4, <2>5
<1>2. CASE UNCHANGED vars
  <2>1. WholeInv'
    BY <1>2 DEF vars, ghosts, WholeInv, Grounded, Saved, Built, Made, AtRest, Serves
  <2>2. \A q \in Procs : Whole(q)
    BY <1>2 DEF vars, Whole, Reports
  <2> QED
    BY <2>1, <2>2
<1> QED
  BY <1>1, <1>2 DEF Next, Rest

(* Where no command removes an installation and no replacement archives    *)
(* only a part of what is there, an install, replacement or mode switch    *)
(* that reports success has its whole deployment on the host and running,  *)
(* whatever the other commands did, and wherever one failed or died.       *)
THEOREM SuccessWhole == ASSUME NoRemovals PROVE Spec /\ []WholeLists => SuccessIsWhole
<1>1. Init => LifeInv /\ LockInv /\ OrderInv /\ WholeInv
  BY LifeInit, LockInit, OrderInit, WholeInit
<1>2. LifeInv /\ LockInv /\ OrderInv /\ WholeInv /\ WholeLists /\ [Next]_vars
        => LifeInv' /\ LockInv' /\ OrderInv' /\ WholeInv'
  BY LifeNext, LockNext, OrderNext, WholeNext
<1>3. LifeInv /\ LockInv /\ OrderInv /\ WholeInv /\ WholeLists /\ [Next]_vars
        => [\A p \in Procs : Whole(p)]_vars
  BY WholeNext
<1>4. [][\A p \in Procs : Whole(p)]_vars <=> SuccessIsWhole
  BY Zenon DEF SuccessIsWhole, Whole
<1> QED
  BY <1>1, <1>2, <1>3, <1>4, PTL DEF Spec

(* Where nothing is replaced either, no list is made. *)
NoReplacements == \A s \in Sessions, p \in Procs : s.kind[p] # "replace"
ListInv == \A q \in Procs : kind[q] # "replace" /\ pc[q] \notin {"list", "listed"}

LEMMA NeverLists ==
  ASSUME LifeInv, LockInv, NEW p \in Procs, kind[p] # "replace", pc[p] \notin {"list", "listed"},
         Proceeds(p) \/ FireTimer(p) \/ Failing(p) \/ Crash(p)
  PROVE  pc'[p] \notin {"list", "listed"}
<1> DEFINE Elsewhere == {"done", "dead", "waiting", "preflighted", "archived", "restoring", "download",
                         "failing", "rollback", "checking", "publish", "services", "obtain",
                         "recover", "startUnits"} \cup Installs
<1>0. Elsewhere \cap {"list", "listed"} = {}
  BY DEF Installs
<1>1. CASE \/ Preflight(p) \/ BeginMode(p) \/ FireTimer(p) \/ BeginUninstall(p) \/ Recheck(p)
           \/ RecheckFails(p) \/ Sample(p) \/ Download(p) \/ DownloadFails(p) \/ DecideRollback(p)
           \/ EnterInstall(p) \/ EnterMode(p) \/ RefuseMode(p) \/ Capture(p) \/ PublishModeFails(p)
           \/ NoUnits(p) \/ Crash(p)
  <2>1. PICK where \in Elsewhere : Goto(p, where) \/ \E how : where = "done" /\ Report(p, how)
    BY <1>1 DEF Preflight, BeginMode, FireTimer, BeginUninstall, Starts, LockInv, Recheck,
       RecheckFails, Sample, Download, DownloadFails, DecideRollback, EnterInstall, EnterMode,
       RefuseMode, Capture, PublishModeFails, NoUnits, Crash, Installs
  <2> QED
    BY <1>0, <2>1, GoesTo DEF LifeInv
<1>2. CASE \/ RollBack(p) \/ RestoreReplaced(p) \/ RollBackLeavesUnits(p) \/ RestoreFails(p)
           \/ InstallStepFails(p) \/ PublishMode(p) \/ SwitchServices(p) \/ SwitchServicesFails(p)
           \/ ObtainMode(p) \/ ObtainModeFails(p) \/ RecoverFiles(p) \/ RecoverFails(p) \/ Account(p)
  <2>1. PICK where \in Elsewhere : Goto(p, where) \/ \E how : where = "done" /\ Report(p, how)
    BY <1>2 DEF RollBack, RestoreReplaced, RollBackLeavesUnits, RestoreFails, InstallStepFails,
       PublishMode, SwitchServices, SwitchServicesFails, ObtainMode, ObtainModeFails, RecoverFiles,
       RecoverFails, Account
  <2> QED
    BY <1>0, <2>1, GoesTo DEF LifeInv
<1>3. CASE InstallStep(p)
  BY <1>3, InstallStepIs DEF Leads
<1>4. CASE OpenLock(p)
  BY <1>4 DEF OpenLock
<1>5. CASE RecoverUnits(p)
  BY <1>5, GotoIs DEF RecoverUnits, LifeInv
<1>6. ~ListConflicts(p) /\ ~Archive(p) /\ ~ArchiveFails(p)
  BY DEF ListConflicts, Archive, ArchiveFails
<1>7. /\ ~StopAll(p) /\ ~RemoveUnits(p) /\ ~EraseConfig(p) /\ ~EraseData(p) /\ ~UninstallFails(p)
  BY DEF StopAll, RemoveUnits, EraseConfig, EraseData, UninstallFails, LockInv, Removing
<1> QED
  BY <1>1, <1>2, <1>3, <1>4, <1>5, <1>6, <1>7
     DEF Proceeds, Installing, Switching, Uninstalling, Failing

LEMMA ListNext == LifeInv /\ LockInv /\ ListInv /\ [Next]_vars => ListInv'
<1> SUFFICES ASSUME LifeInv, LockInv, ListInv, [Next]_vars PROVE ListInv'
  OBVIOUS
<1>1. ASSUME NEW p \in Procs, Proceeds(p) \/ FireTimer(p) \/ Failing(p) \/ Crash(p)
      PROVE  ListInv'
  <2>1. ActsAlone(p)
    BY <1>1, CommandOwn DEF Own
  <2>2. pc'[p] \notin {"list", "listed"}
    BY <1>1, NeverLists DEF ListInv
  <2> QED
    BY <2>1, <2>2 DEF ActsAlone, ListInv
<1>2. CASE UNCHANGED vars
  BY <1>2 DEF vars, ListInv
<1> QED
  BY <1>1, <1>2 DEF Next, Rest

(* Where no command removes or replaces an installation, a fresh install   *)
(* or mode switch that reports success has its whole deployment there,     *)
(* with nothing assumed of how the commands interleave.                    *)
THEOREM SuccessWholeInstalling ==
  ASSUME NoRemovals, NoReplacements PROVE Spec => SuccessIsWhole
<1>1. Init => LifeInv /\ LockInv /\ ListInv
  <2>1. Init => ListInv
    BY DEF Init, ListInv, NoReplacements
  <2> QED
    BY <2>1, LifeInit, LockInit
<1>2. LifeInv /\ LockInv /\ ListInv /\ [Next]_vars => LifeInv' /\ LockInv' /\ ListInv'
  BY LifeNext, LockNext, ListNext
<1>3. ListInv => WholeLists
  BY DEF ListInv, WholeLists
<1> QED
  BY <1>1, <1>2, <1>3, SuccessWhole, PTL DEF Spec
===============================================================================
