--------------------------- MODULE UpgradeProofs ---------------------------
(* Theorems about Upgrade, for any number of commits and clients. *)
EXTENDS Upgrade, TLAPS

-----------------------------------------------------------------------------
(* The inductive invariant *)

\* Who may be where, and what a client that came past a step has of it.
Holds(p) ==
    /\ pc[p] \in {"resolve", "decide", "replace"} => p \in Upgraders
    /\ pc[p] \in {"copy", "copying", "move", "mark", "marking"} => p \in Installers
    /\ pc[p] # "idle" /\ p \in Upgraders => own[p] \in Builds
    /\ pc[p] \in {"idle", "resolve"} => release[p] = None
    /\ pc[p] \notin {"idle", "resolve"} => release[p] \in Releases
    /\ pc[p] \in {"idle", "resolve", "decide", "tarball"} => tarball[p] = None
    /\ pc[p] = "verify" => digest[p] \in Builds

\* What is offered was published, and nothing published on the same channel is newer, on
\* the stable channel where tags grow.
Offers ==
    /\ canary # None => [commit |-> canary, from |-> "canary"] \in published
    /\ stable # None => [commit |-> stable, from |-> "stable"] \in published
    /\ flow # None => flow.commit = head
    /\ \A b \in published :
          /\ b.from = "canary" => b.commit <= head
          /\ b.from = "canary" /\ canary # None => b.commit <= canary
          /\ b.from = "stable" => stable # None /\ (TagsGrow => b.commit <= stable)

\* A client has only what was published ...
HasPublished(p) ==
    /\ own[p] \in Builds => own[p] \in published
    /\ release[p] # None /\ release[p].on = "stable" =>
          [commit |-> release[p].commit, from |-> "stable"] \in published
    /\ tarball[p] \in Builds => tarball[p] \in published
    /\ digest[p] \in Builds => digest[p] \in published
    /\ pc[p] \in {"replace", "copy", "copying"} => tarball[p] \in Builds

\* The channels on which nothing older is ever offered.
Forward(ch) == ch = "stable" => TagsGrow

\* ... and nothing older, on its own channel, than what it runs.
IsNoOlder(p) ==
    own[p] \in Builds =>
        /\ TagsGrow /\ release[p] # None
           /\ release[p].on = "stable" /\ own[p].from = "stable" =>
              own[p].commit <= release[p].commit
        /\ tarball[p] \in Builds /\ own[p].from = tarball[p].from /\ Forward(own[p].from) =>
              own[p].commit <= tarball[p].commit
        /\ release[p] # None /\ tarball[p] \in Builds => tarball[p].from = release[p].on

\* An executable is published or not whole.
Executables ==
    /\ bin # Torn => bin \in published
    /\ staged \in Builds => staged \in published

IInv ==
    /\ TypeOK
    /\ Offers
    /\ Executables
    /\ \A p \in Clients : Holds(p) /\ HasPublished(p) /\ IsNoOlder(p)

-----------------------------------------------------------------------------

\* The values that the state is made of.
LEMMA Values ==
    /\ None \notin Builds /\ None \notin Releases /\ None \notin Commits
    /\ Corrupt \notin Builds /\ Torn \notin Builds
    /\ Torn # None /\ Corrupt # None
BY MarksAreNoBuilds DEF Builds, Releases, Maybe

LEMMA CommitsAreOrdered ==
    /\ MaxCommit \in Nat /\ 1 \in Commits
    /\ \A c : c \in Commits <=> c \in Nat /\ 1 <= c /\ c <= MaxCommit
    /\ \A c \in Commits : \A d \in 1 .. c : d \in Commits
    /\ \A c \in Commits : c < MaxCommit => c + 1 \in Commits
BY MaxCommitIsPositive DEF Commits

\* The conjuncts of the invariant, for citing them one by one.
LEMMA Parts ==
    IInv => /\ TypeOK /\ Offers /\ Executables
            /\ \A p \in Clients : Holds(p) /\ HasPublished(p) /\ IsNoOlder(p)
BY DEF IInv

LEMMA InitInv == Init => IInv
<1> SUFFICES ASSUME Init PROVE IInv
    OBVIOUS
<1> USE Values, MaxCommitIsPositive DEF Init
<1>1. 1 \in Commits
    BY DEF Commits
<1>2. published \subseteq Builds /\ bin \in Builds /\ bin \in published
    BY <1>1 DEF Builds, Channels
<1>3. TypeOK
    BY <1>1, <1>2 DEF TypeOK, Maybe, Labels, Channels
<1>4. Offers
    BY <1>1 DEF Offers, Commits
<1>5. Executables
    BY <1>2 DEF Executables
<1>6. ASSUME NEW p \in Clients PROVE Holds(p) /\ HasPublished(p) /\ IsNoOlder(p)
    BY <1>6 DEF Holds, HasPublished, IsNoOlder
<1> QED
    BY <1>3, <1>4, <1>5, <1>6 DEF IInv

-----------------------------------------------------------------------------
(* The release workflow and the channel file *)

\* To publish leaves a client what it has.
LEMMA Publishing ==
    ASSUME IInv, UNCHANGED <<bin, staged, config, client>>,
           published \subseteq published', TypeOK', Offers'
    PROVE  IInv'
<1>1. Executables'
    BY DEF IInv, Executables
<1>2. ASSUME NEW p \in Clients PROVE (Holds(p) /\ HasPublished(p) /\ IsNoOlder(p))'
    BY <1>2 DEF IInv, client, Holds, HasPublished, IsNoOlder
<1> QED
    BY <1>1, <1>2 DEF IInv, Clients

LEMMA PublishInv == IInv /\ Publish => IInv'
<1> SUFFICES ASSUME IInv, Publish PROVE IInv'
    OBVIOUS
<1> USE Values, CommitsAreOrdered
<1>0. TypeOK /\ Offers /\ head \in Commits
    BY Parts DEF TypeOK
<1>1. CASE Push
  <2>1. head + 1 \in Commits /\ head' = head + 1 /\ head \in Nat
      BY <1>0, <1>1 DEF Push
  <2>2. TypeOK'
      BY <1>0, <1>1, <2>1 DEF Push, TypeOK, Maybe, config, client
  <2>3. Offers'
    <3>1. /\ UNCHANGED <<canary, stable, published>>
          /\ flow' # None => flow'.commit = head'
        BY <1>1, <2>1 DEF Push
    <3>2. ASSUME NEW b \in published, b.from = "canary" PROVE b.commit <= head + 1
      <4>1. b.commit \in Nat /\ b.commit <= head
          BY <1>0, <3>2 DEF TypeOK, Builds, Offers
      <4> QED
          BY <2>1, <4>1
    <3> QED
        BY <1>0, <2>1, <3>1, <3>2 DEF Offers
  <2> QED
      BY <1>1, <2>2, <2>3, Publishing DEF Push
<1>2. CASE DeleteCanary
  <2>1. TypeOK'
      BY <1>0, <1>2 DEF DeleteCanary, TypeOK, Maybe, config, client
  <2>2. Offers'
      BY <1>0, <1>2 DEF DeleteCanary, TypeOK, Maybe, Offers
  <2> QED
      BY <1>2, <2>1, <2>2, Publishing DEF DeleteCanary
<1>3. CASE CreateCanary
  <2>1. flow.commit = head
      BY <1>0, <1>3 DEF CreateCanary, Offers
  <2>2. TypeOK'
    <3>1. /\ canary' = head /\ flow' = None
          /\ published' = published \cup {[commit |-> head, from |-> "canary"]}
          /\ UNCHANGED <<head, stable, bin, staged, channel, setting, pc, own, release, tarball, digest>>
        BY <1>3, <2>1 DEF CreateCanary, config, client
    <3>2. [commit |-> head, from |-> "canary"] \in Builds
        BY <1>0 DEF Builds, Channels
    <3>3. published' \subseteq Builds
        BY <1>0, <3>1, <3>2 DEF TypeOK
    <3> QED
        BY <1>0, <3>1, <3>3 DEF TypeOK, Maybe
  <2>3. Offers'
    <3> DEFINE new == [commit |-> head, from |-> "canary"]
    <3>1. canary' = head /\ published' = published \cup {new} /\ flow' = None
          /\ UNCHANGED <<head, stable>>
        BY <1>3, <2>1 DEF CreateCanary
    <3>2. new.from = "canary" /\ new.commit = head /\ head <= head
        BY <1>0
    <3> HIDE DEF new
    <3> QED
        BY <1>0, <3>1, <3>2 DEF Offers, new
  <2> QED
      BY <1>3, <2>2, <2>3, Publishing DEF CreateCanary
<1>4. CASE TagStable
  <2>1. PICK c \in 1 .. head :
            /\ TagsGrow /\ stable # None => VersionOf[c] > VersionOf[stable]
            /\ stable' = c
            /\ published' = published \cup {[commit |-> c, from |-> "stable"]}
      BY <1>4 DEF TagStable
  <2>2. c \in Commits
      BY <1>0, <2>1
  <2>3. ASSUME TagsGrow, stable # None PROVE stable \in Commits /\ stable <= c
    <3>1. stable \in Commits
        BY <1>0, <2>3 DEF TypeOK, Maybe
    <3>2. VersionOf[c] \in Nat /\ VersionOf[stable] \in Nat
        BY <2>2, <3>1, VersionsGrow
    <3>3. ~ c <= stable
        BY <2>1, <2>2, <2>3, <3>1, <3>2, VersionsGrow
    <3> QED
        BY <2>2, <3>1, <3>3
  <2>4. TypeOK'
    <3>1. [commit |-> c, from |-> "stable"] \in Builds
        BY <2>2 DEF Builds, Channels
    <3>2. UNCHANGED <<head, flow, canary, bin, staged, channel, setting,
                       pc, own, release, tarball, digest>>
        BY <1>4 DEF TagStable, config, client
    <3> QED
        BY <1>0, <2>1, <2>2, <3>1, <3>2 DEF TypeOK, Maybe
  <2>5. Offers'
    <3>1. UNCHANGED <<head, flow, canary>>
        BY <1>4 DEF TagStable
    <3>2. ASSUME NEW b \in published, b.from = "stable", TagsGrow
          PROVE  b.commit <= c
      <4>1. b.commit \in Commits /\ stable # None /\ b.commit <= stable
          BY <1>0, <3>2 DEF TypeOK, Builds, Offers
      <4> QED
          BY <2>2, <2>3, <3>2, <4>1
    <3>3. c # None /\ c <= c
        BY <2>2
    <3> QED
        BY <1>0, <2>1, <3>1, <3>2, <3>3 DEF Offers
  <2> QED
      BY <1>4, <2>1, <2>4, <2>5, Publishing DEF TagStable
<1>5. CASE FlowFails
  <2>1. TypeOK'
      BY <1>0, <1>5 DEF FlowFails, TypeOK, Maybe, config, client
  <2>2. Offers'
      BY <1>0, <1>5 DEF FlowFails, TypeOK, Maybe, Offers
  <2> QED
      BY <1>5, <2>1, <2>2, Publishing DEF FlowFails
<1> QED
    BY <1>1, <1>2, <1>3, <1>4, <1>5 DEF Publish

LEMMA ConfigureInv == IInv /\ Configure => IInv'
<1> SUFFICES ASSUME IInv, Configure PROVE IInv'
    OBVIOUS
<1>1. UNCHANGED <<publisher, bin, staged, client>>
    BY DEF Configure, Choose, Chosen, ChoiceLost
<1>2. channel' \in Channels \cup {"", None} /\ setting' \in Maybe(Channels)
  <2> channel \in Channels \cup {"", None} /\ setting \in Maybe(Channels)
      BY Parts DEF TypeOK
  <2>1. CASE \E ch \in Channels : Choose(ch)
      BY <2>1 DEF Choose, Maybe
  <2>2. CASE Chosen
      BY <2>2 DEF Chosen, Maybe
  <2>3. CASE ChoiceLost
      BY <2>3 DEF ChoiceLost, Maybe
  <2> QED
      BY <2>1, <2>2, <2>3 DEF Configure
<1>6. TypeOK'
  <2>1. UNCHANGED <<head, flow, canary, stable, published, bin, staged,
                     pc, own, release, tarball, digest>>
      BY <1>1 DEF publisher, client
  <2> QED
      BY <1>2, <2>1, Parts DEF TypeOK
<1>3. Offers'
    BY <1>1 DEF IInv, Offers, publisher
<1>4. Executables'
    BY <1>1 DEF IInv, Executables, publisher
<1>5. ASSUME NEW p \in Clients PROVE (Holds(p) /\ HasPublished(p) /\ IsNoOlder(p))'
    BY <1>1, <1>5 DEF IInv, publisher, client, Holds, HasPublished, IsNoOlder
<1> QED
    BY <1>3, <1>4, <1>5, <1>6 DEF IInv, Clients

-----------------------------------------------------------------------------
(* The clients *)

\* A step of p leaves every other client what it has.
LEMMA OneClient ==
    ASSUME IInv, NEW p \in Clients,
           UNCHANGED publisher, TypeOK', Executables',
           (Holds(p) /\ HasPublished(p) /\ IsNoOlder(p))',
           \A q \in Clients \ {p} :
               /\ pc'[q] = pc[q] /\ own'[q] = own[q] /\ release'[q] = release[q]
               /\ tarball'[q] = tarball[q] /\ digest'[q] = digest[q]
    PROVE  IInv'
<1>1. Offers'
    BY DEF IInv, Offers, publisher
<1>2. ASSUME NEW q \in Clients, q # p
      PROVE  (Holds(q) /\ HasPublished(q) /\ IsNoOlder(q))'
    BY <1>2 DEF IInv, publisher, Holds, HasPublished, IsNoOlder
<1> QED
    BY <1>1, <1>2 DEF IInv, Clients

\* A client that is done, or gives up, has nothing any more.
LEMMA Resetting ==
    ASSUME IInv, NEW p \in Clients, Reset(p), UNCHANGED <<publisher, staged, setting>>,
           bin' \in published \cup {Torn}, channel' \in Channels \cup {"", None}
    PROVE  IInv'
<1> USE Values
<1>1. /\ pc' = [pc EXCEPT ![p] = "idle"]
      /\ own' = [own EXCEPT ![p] = None]
      /\ release' = [release EXCEPT ![p] = None]
      /\ tarball' = [tarball EXCEPT ![p] = None]
      /\ digest' = [digest EXCEPT ![p] = None]
    BY DEF Reset, Goto
<1>2. TypeOK'
    BY <1>1, Parts DEF TypeOK, Labels, Maybe, publisher
<1>3. Executables'
    BY Parts DEF Executables, publisher
<1>4. /\ pc'[p] = "idle" /\ own'[p] = None /\ release'[p] = None
      /\ tarball'[p] = None /\ digest'[p] = None
    BY <1>1, Parts DEF TypeOK
<1>5. (Holds(p) /\ HasPublished(p) /\ IsNoOlder(p))'
    BY <1>4 DEF Holds, HasPublished, IsNoOlder
<1> QED
    BY <1>1, <1>2, <1>3, <1>5, OneClient, Parts DEF TypeOK

-----------------------------------------------------------------------------
(* The clients, action by action *)

\* What a client resolves to was published, and is not older than what it runs.
LEMMA CurrentIsPublished ==
    ASSUME IInv, NEW ch \in Channels, Current(ch) # None
    PROVE  /\ Current(ch) \in Commits
           /\ ch = "stable" => [commit |-> Current(ch), from |-> "stable"] \in published
           /\ Forward(ch) => \A b \in published : b.from = ch => b.commit <= Current(ch)
<1>1. CASE ch = "stable"
    BY <1>1, Parts DEF Current, TypeOK, Maybe, Offers, Forward
<1>2. CASE ch = "canary"
    BY <1>2, Parts DEF Current, TypeOK, Maybe, Offers
<1> QED
    BY <1>1, <1>2 DEF Channels

\* What the URL of a release serves was published, and is not older either.
LEMMA ServedIsPublished ==
    ASSUME IInv, NEW p \in Clients, release[p] \in Releases, Served(p) # None
    PROVE  LET served == [commit |-> Served(p), from |-> release[p].on]
           IN  /\ served \in Builds /\ served \in published
               /\ own[p] \in Builds /\ own[p].from = release[p].on /\ Forward(own[p].from) =>
                     own[p].commit <= Served(p)
<1> USE Values
<1> DEFINE served == [commit |-> Served(p), from |-> release[p].on]
<1>1. release[p].on \in Channels /\ release[p] # None
    BY DEF Releases
<1>2. TypeOK /\ Offers /\ HasPublished(p) /\ IsNoOlder(p)
    BY Parts
<1>3. CASE release[p].on = "stable"
  <2>1. Served(p) = release[p].commit
      BY <1>3 DEF Served
  <2>2. served \in published /\ served \in Builds
      BY <1>1, <1>2, <1>3, <2>1 DEF HasPublished, TypeOK
  <2> QED
      BY <1>1, <1>2, <1>3, <2>1, <2>2 DEF IsNoOlder, Forward
<1>4. CASE release[p].on = "canary"
  <2>1. Served(p) = canary /\ canary # None /\ canary \in Commits
      BY <1>2, <1>4 DEF Served, TypeOK, Maybe
  <2>2. served \in published /\ served \in Builds
      BY <1>1, <1>2, <1>4, <2>1 DEF Offers, Builds
  <2>3. ASSUME own[p] \in Builds, own[p].from = release[p].on
        PROVE  own[p].commit <= Served(p)
      BY <1>2, <1>4, <2>1, <2>3 DEF HasPublished, Offers
  <2> QED
      BY <2>2, <2>3
<1> QED
    BY <1>1, <1>3, <1>4 DEF Channels

LEMMA StartInv == ASSUME IInv, NEW p \in Clients, Start(p) PROVE IInv'
<1> USE Values
<1>1. /\ p \in Upgraders /\ bin \in Builds /\ bin \in published /\ pc[p] = "idle"
      /\ pc' = [pc EXCEPT ![p] = "resolve"]
      /\ own' = [own EXCEPT ![p] = bin]
      /\ UNCHANGED <<publisher, bin, staged, channel, setting, release, tarball, digest>>
    BY Parts DEF Start, From, Goto, config, TypeOK, Executables
<1>2. TypeOK'
    BY <1>1, Parts DEF TypeOK, Labels, publisher
<1>3. Executables'
    BY <1>1, Parts DEF Executables, publisher
<1>4. pc'[p] = "resolve" /\ own'[p] = bin /\ published' = published
    BY <1>1, Parts DEF TypeOK, publisher
<1>5. release'[p] = None /\ tarball'[p] = None /\ digest'[p] = digest[p]
    BY <1>1, Parts DEF Holds
<1>6. Holds(p)'
    BY <1>1, <1>4, <1>5 DEF Holds
<1>7. HasPublished(p)'
  <2>1. HasPublished(p)
      BY Parts
  <2> QED
      BY <1>1, <1>4, <1>5, <2>1 DEF HasPublished
<1>8. IsNoOlder(p)'
    BY <1>5 DEF IsNoOlder
<1> QED
    BY <1>1, <1>2, <1>3, <1>6, <1>7, <1>8, OneClient, Parts DEF TypeOK

\* What a client keeps of a release: its channel, and a stable release's commit.
Names(ch, found) ==
    /\ found \in Releases /\ found.on = ch
    /\ ch = "stable" => found.commit = Current(ch)

LEMMA UrlsOf ==
    ASSUME NEW found \in Releases
    PROVE  /\ Urls(found) \in Releases /\ Urls(found).on = found.on
           /\ found.on = "stable" => Urls(found) = found
BY DEF Urls, Releases, Maybe

LEMMA FoundNames ==
    ASSUME IInv, NEW ch \in Channels, Current(ch) # None, NEW found \in Found(ch)
    PROVE  Names(ch, found) /\ Names(ch, Urls(found))
<1>1. Names(ch, found)
  <2>1. Current(ch) \in Commits /\ canary \in Maybe(Commits) /\ stable \in Maybe(Commits)
      BY CurrentIsPublished, Parts DEF TypeOK
  <2> QED
      BY <2>1 DEF Found, Names, Releases, Maybe, Current
<1> QED
    BY <1>1, UrlsOf DEF Names

\* To resolve a channel, as an upgrade does and as the installer does.
LEMMA ResolvingInv ==
    ASSUME IInv, NEW p \in Clients, NEW ch \in Channels, Current(ch) # None,
           NEW there \in {"decide", "tarball"},
           pc[p] \in {"idle", "resolve"}, p \in Upgraders => own[p] \in Builds,
           there = "decide" => p \in Upgraders,
           pc' = [pc EXCEPT ![p] = there],
           NEW found, Names(ch, found), release' = [release EXCEPT ![p] = found],
           UNCHANGED <<publisher, bin, staged, config, own, tarball, digest>>
    PROVE  IInv'
<1> USE Values
<1> release \in [Clients -> Maybe(Releases)] /\ pc \in [Clients -> Labels]
    BY Parts DEF TypeOK
<1>0. /\ Current(ch) \in Commits
      /\ ch = "stable" => [commit |-> Current(ch), from |-> "stable"] \in published
      /\ Forward(ch) => \A b \in published : b.from = ch => b.commit <= Current(ch)
    BY CurrentIsPublished
<1>1. /\ found \in Releases /\ found # None /\ found.on = ch
      /\ ch = "stable" => found.commit = Current(ch)
    BY DEF Names
<1>2. TypeOK'
    BY <1>1, Parts DEF TypeOK, Labels, Maybe, publisher, config
<1>3. Executables'
    BY Parts DEF Executables, publisher
<1>4. /\ pc'[p] = there /\ release'[p] = found /\ published' = published
      /\ tarball'[p] = None /\ own'[p] = own[p] /\ digest'[p] = digest[p]
    BY Parts DEF Holds, publisher
<1>5. Holds(p)'
    BY <1>1, <1>4 DEF Holds
<1>6. HasPublished(p)'
  <2>1. HasPublished(p)
      BY Parts
  <2> QED
      BY <1>0, <1>1, <1>4, <2>1 DEF HasPublished
<1>7. IsNoOlder(p)'
  <2>1. own[p] \in Builds => own[p] \in published
      BY Parts DEF HasPublished
  <2> QED
      BY <1>0, <1>1, <1>4, <2>1 DEF IsNoOlder, Forward
<1> QED
    BY <1>2, <1>3, <1>5, <1>6, <1>7, OneClient, Parts DEF TypeOK

LEMMA ResolveInv ==
    ASSUME IInv, NEW p \in Clients, Resolve(p) \/ ResolveInstall(p) PROVE IInv'
<1>1. CASE Resolve(p)
  <2>1. own[p] \in Builds /\ p \in Upgraders /\ pc[p] = "resolve"
      BY <1>1, Parts DEF Resolve, From, Holds
  <2>2. Configured(own[p]) \in Channels
      BY <2>1 DEF Configured, Builds
  <2>3. PICK found \in Found(Configured(own[p])) : release' = [release EXCEPT ![p] = found]
      BY <1>1 DEF Resolve
  <2>4. Names(Configured(own[p]), found) /\ Current(Configured(own[p])) # None
      BY <1>1, <2>2, FoundNames DEF Resolve
  <2> QED
      BY <1>1, <2>1, <2>2, <2>3, <2>4, ResolvingInv DEF Resolve, From, Goto
<1>2. CASE ResolveInstall(p)
  <2>1. PICK ch \in Channels :
            /\ Current(ch) # None
            /\ \E found \in Found(ch) : release' = [release EXCEPT ![p] = Urls(found)]
      BY <1>2 DEF ResolveInstall
  <2>2. PICK found \in Found(ch) : release' = [release EXCEPT ![p] = Urls(found)]
      BY <2>1
  <2>3. Names(ch, Urls(found))
      BY <2>1, FoundNames
  <2> QED
      BY <1>2, <2>1, <2>2, <2>3, ClientsAreDistinct, ResolvingInv DEF ResolveInstall, From, Goto
<1> QED
    BY <1>1, <1>2

LEMMA InstallInv == ASSUME IInv, NEW p \in Clients, Install(p) PROVE IInv'
<1> USE Values
<1>0. release[p] \in Releases /\ release[p] # None
    BY Parts DEF Install, From, Holds
<1>1. /\ pc[p] = "decide" /\ pc' = [pc EXCEPT ![p] = "tarball"]
      /\ release' = [release EXCEPT ![p] = Urls(release[p])]
      /\ UNCHANGED <<publisher, bin, staged, channel, setting, own, tarball, digest>>
    BY DEF Install, From, Goto, config
<1>6. /\ Urls(release[p]) \in Releases /\ Urls(release[p]).on = release[p].on
      /\ release[p].on = "stable" => Urls(release[p]) = release[p]
    BY <1>0, UrlsOf
<1>2. TypeOK'
    BY <1>1, <1>6, Parts DEF TypeOK, Labels, Maybe, publisher
<1>3. Executables'
    BY <1>1, Parts DEF Executables, publisher
<1>4. /\ pc'[p] = "tarball" /\ release'[p] = Urls(release[p]) /\ own'[p] = own[p]
      /\ tarball'[p] = None /\ digest'[p] = digest[p] /\ published' = published
    BY <1>1, Parts DEF TypeOK, Holds, publisher
<1>5. (Holds(p) /\ HasPublished(p) /\ IsNoOlder(p))'
  <2>1. Holds(p)'
      BY <1>4, <1>6, <1>1, Parts DEF Holds
  <2>2. HasPublished(p)'
    <3>1. HasPublished(p) /\ pc'[p] \notin {"replace", "copy", "copying"}
        BY <1>4, Parts
    <3>2. release'[p].on = "stable" => release'[p] = release[p] /\ release[p].on = "stable"
        BY <1>4, <1>6
    <3> QED
        BY <1>0, <1>4, <3>1, <3>2 DEF HasPublished
  <2>3. IsNoOlder(p)'
      BY <1>0, <1>1, <1>4, <1>6, Parts DEF IsNoOlder
  <2> QED
      BY <2>1, <2>2, <2>3
<1> QED
    BY <1>1, <1>2, <1>3, <1>5, OneClient, Parts DEF TypeOK

\* The downloads and the comparison.
LEMMA GetTarballInv ==
    ASSUME IInv, NEW p \in Clients, GetTarball(p) \/ GetDamaged(p) PROVE IInv'
<1> USE Values
<1>1. pc[p] = "tarball" /\ release[p] \in Releases /\ Served(p) # None
    BY Parts DEF GetTarball, GetDamaged, From, Holds
<1> DEFINE served == [commit |-> Served(p), from |-> release[p].on]
<1>2. /\ served \in Builds /\ served \in published
      /\ own[p] \in Builds /\ own[p].from = release[p].on /\ Forward(own[p].from) =>
            own[p].commit <= Served(p)
      /\ served.from = release[p].on /\ served.commit = Served(p)
    BY <1>1, ServedIsPublished
<1>3. PICK got \in {served, Corrupt} :
          /\ tarball' = [tarball EXCEPT ![p] = got]
          /\ pc' = [pc EXCEPT ![p] = "digest"]
          /\ UNCHANGED <<publisher, bin, staged, channel, setting, own, release, digest>>
    BY DEF GetTarball, GetDamaged, From, Goto, config
<1> HIDE DEF served
<1>4. TypeOK'
    BY <1>2, <1>3, Parts DEF TypeOK, Labels, publisher
<1>5. Executables'
    BY <1>3, Parts DEF Executables, publisher
<1>6. /\ pc'[p] = "digest" /\ tarball'[p] = got /\ own'[p] = own[p]
      /\ release'[p] = release[p] /\ digest'[p] = digest[p] /\ published' = published
    BY <1>3, Parts DEF TypeOK, publisher
<1>7. Holds(p) /\ HasPublished(p) /\ IsNoOlder(p)
    BY Parts
<1>8. Holds(p)'
    BY <1>1, <1>6, <1>7 DEF Holds
<1>9. HasPublished(p)'
    BY <1>2, <1>6, <1>7 DEF HasPublished
<1>10. IsNoOlder(p)'
    BY <1>2, <1>6, <1>7 DEF IsNoOlder
<1> QED
    BY <1>3, <1>4, <1>5, <1>8, <1>9, <1>10, OneClient, Parts DEF TypeOK

LEMMA GetDigestInv == ASSUME IInv, NEW p \in Clients, GetDigest(p) PROVE IInv'
<1> USE Values
<1>1. pc[p] = "digest" /\ release[p] \in Releases /\ Served(p) # None
    BY Parts DEF GetDigest, From, Holds
<1> DEFINE served == [commit |-> Served(p), from |-> release[p].on]
<1>2. served \in Builds /\ served \in published
    BY <1>1, ServedIsPublished
<1>3. /\ digest' = [digest EXCEPT ![p] = served]
      /\ pc' = [pc EXCEPT ![p] = "verify"]
      /\ UNCHANGED <<publisher, bin, staged, channel, setting, own, release, tarball>>
    BY DEF GetDigest, From, Goto, config
<1> HIDE DEF served
<1>4. TypeOK'
    BY <1>2, <1>3, Parts DEF TypeOK, Labels, Maybe, publisher
<1>5. Executables'
    BY <1>3, Parts DEF Executables, publisher
<1>6. /\ pc'[p] = "verify" /\ digest'[p] = served /\ own'[p] = own[p]
      /\ release'[p] = release[p] /\ tarball'[p] = tarball[p] /\ published' = published
    BY <1>3, Parts DEF TypeOK, publisher
<1>7. Holds(p) /\ HasPublished(p) /\ IsNoOlder(p)
    BY Parts
<1>8. (Holds(p) /\ HasPublished(p) /\ IsNoOlder(p))'
  <2>1. Holds(p)'
      BY <1>1, <1>2, <1>6, <1>7 DEF Holds
  <2>2. HasPublished(p)'
      BY <1>2, <1>6, <1>7 DEF HasPublished
  <2>3. IsNoOlder(p)'
      BY <1>6, <1>7 DEF IsNoOlder
  <2> QED
      BY <2>1, <2>2, <2>3
<1> QED
    BY <1>3, <1>4, <1>5, <1>8, OneClient, Parts DEF TypeOK

LEMMA VerifyInv == ASSUME IInv, NEW p \in Clients, Verify(p) PROVE IInv'
<1> USE Values
<1> DEFINE there == IF p \in Upgraders THEN "replace" ELSE "copy"
<1>1. /\ pc[p] = "verify" /\ tarball[p] = digest[p]
      /\ pc' = [pc EXCEPT ![p] = there]
      /\ digest' = [digest EXCEPT ![p] = None]
      /\ UNCHANGED <<publisher, bin, staged, channel, setting, own, release, tarball>>
    BY DEF Verify, Matches, Goto, config
<1>2. there \in {"replace", "copy"} /\ (there = "replace" <=> p \in Upgraders)
    OBVIOUS
<1> HIDE DEF there
<1>3. tarball[p] \in Builds
    BY <1>1, Parts DEF Holds
<1>4. TypeOK'
    BY <1>1, <1>2, Parts DEF TypeOK, Labels, Maybe, publisher
<1>5. Executables'
    BY <1>1, Parts DEF Executables, publisher
<1>6. /\ pc'[p] = there /\ digest'[p] = None /\ own'[p] = own[p]
      /\ release'[p] = release[p] /\ tarball'[p] = tarball[p] /\ published' = published
    BY <1>1, Parts DEF TypeOK, publisher
<1>7. Holds(p) /\ HasPublished(p) /\ IsNoOlder(p)
    BY Parts
<1>8. (Holds(p) /\ HasPublished(p) /\ IsNoOlder(p))'
  <2>1. Holds(p)'
      BY <1>1, <1>2, <1>6, <1>7 DEF Holds, Clients
  <2>2. HasPublished(p)'
      BY <1>3, <1>6, <1>7 DEF HasPublished
  <2>3. IsNoOlder(p)'
      BY <1>6, <1>7 DEF IsNoOlder
  <2> QED
      BY <2>1, <2>2, <2>3
<1> QED
    BY <1>1, <1>4, <1>5, <1>8, OneClient, Parts DEF TypeOK

\* The installer's cp and mv, and the truncated channel file.
LEMMA InstallerInv ==
    ASSUME IInv, NEW p \in Clients, Copy(p) \/ Copied(p) \/ Move(p) \/ Mark(p)
    PROVE  IInv'
<1> USE Values
<1>1. /\ pc[p] \in {"copy", "copying", "move", "mark"}
      /\ pc[p] = "copying" => tarball[p] \in Builds /\ tarball[p] \in published
    BY Parts DEF Copy, Copied, Move, Mark, From, HasPublished
<1>2. PICK there \in {"copying", "move", "mark", "marking"}, have \in {tarball[p], None} :
          /\ pc' = [pc EXCEPT ![p] = there]
          /\ tarball' = [tarball EXCEPT ![p] = have]
          /\ there = "copying" => have = tarball[p] /\ pc[p] = "copy"
          /\ UNCHANGED <<publisher, setting, own, release, digest>>
  <2>1. tarball = [tarball EXCEPT ![p] = tarball[p]]
      BY Parts DEF TypeOK
  <2>2. CASE Copy(p)
      BY <2>1, <2>2 DEF Copy, From, Goto, config
  <2>3. CASE Copied(p)
      BY <2>3 DEF Copied, From, Goto, config
  <2>4. CASE Move(p)
      BY <2>1, <2>4 DEF Move, From, Goto, config
  <2>5. CASE Mark(p)
      BY <2>1, <2>5 DEF Mark, From, Goto
  <2> QED
      BY <2>2, <2>3, <2>4, <2>5
<1>3. /\ staged' \in Builds \cup {None, Torn} /\ bin' \in Builds \cup {Torn}
      /\ staged' \in Builds => staged' \in published
      /\ bin' # Torn => bin' \in published
      /\ channel' \in Channels \cup {"", None}
  <2>1. /\ staged \in Builds \cup {None, Torn} /\ bin \in Builds \cup {Torn}
        /\ staged \in Builds => staged \in published
        /\ bin # Torn => bin \in published
        /\ channel \in Channels \cup {"", None}
      BY Parts DEF TypeOK, Executables
  <2>2. CASE Copy(p)
      BY <2>1, <2>2 DEF Copy, config
  <2>3. CASE Copied(p)
      BY <1>1, <2>1, <2>3 DEF Copied, Extracted, From, config
  <2>4. CASE Move(p)
      BY <2>1, <2>4 DEF Move, config
  <2>5. CASE Mark(p)
      BY <2>1, <2>5 DEF Mark
  <2> QED
      BY <2>2, <2>3, <2>4, <2>5
<1>4. TypeOK'
    BY <1>2, <1>3, Parts DEF TypeOK, Labels, publisher
<1>5. Executables'
    BY <1>2, <1>3 DEF Executables, publisher
<1>6. /\ pc'[p] = there /\ tarball'[p] = have /\ own'[p] = own[p]
      /\ release'[p] = release[p] /\ digest'[p] = digest[p] /\ published' = published
    BY <1>2, Parts DEF TypeOK, publisher
<1>7. Holds(p) /\ HasPublished(p) /\ IsNoOlder(p)
    BY Parts
<1>8. (Holds(p) /\ HasPublished(p) /\ IsNoOlder(p))'
  <2>1. Holds(p)'
      BY <1>1, <1>2, <1>6, <1>7 DEF Holds
  <2>2. HasPublished(p)'
      BY <1>1, <1>2, <1>6, <1>7 DEF HasPublished
  <2>3. IsNoOlder(p)'
      BY <1>6, <1>7 DEF IsNoOlder
  <2> QED
      BY <2>1, <2>2, <2>3
<1> QED
    BY <1>2, <1>4, <1>5, <1>8, OneClient, Parts DEF TypeOK

\* The ends of a client.
LEMMA EndsInv ==
    ASSUME IInv, NEW p \in Clients,
           UpToDate(p) \/ Replace(p) \/ Marked(p) \/ Refuse(p) \/ Fails(p)
    PROVE  IInv'
<1> USE Values
<1>1. bin \in published \cup {Torn} /\ channel \in Channels \cup {"", None}
    BY Parts DEF TypeOK, Executables
<1>2. CASE Replace(p)
  <2>1. tarball[p] \in Builds /\ tarball[p] \in published
      BY <1>2, Parts DEF Replace, HasPublished
  <2> QED
      BY <1>1, <1>2, <2>1, Resetting DEF Replace, Extracted, config
<1>3. CASE Marked(p)
  <2>1. release[p].on \in Channels
      BY <1>3, Parts DEF Marked, Holds, Releases
  <2> QED
      BY <1>1, <1>3, <2>1, Resetting DEF Marked
<1>4. CASE UpToDate(p) \/ Refuse(p) \/ Fails(p)
    BY <1>1, <1>4, Resetting DEF UpToDate, Refuse, Fails, config
<1> QED
    BY <1>2, <1>3, <1>4

-----------------------------------------------------------------------------
(* The theorems *)

LEMMA NextInv == IInv /\ [Next]_vars => IInv'
<1> SUFFICES ASSUME IInv, [Next]_vars PROVE IInv'
    OBVIOUS
<1>1. CASE Publish
    BY <1>1, PublishInv
<1>2. CASE Configure
    BY <1>2, ConfigureInv
<1>3. ASSUME NEW p \in Clients,
             Start(p) \/ ResolveInstall(p) \/ Proceed(p) \/ GetDamaged(p) \/ Fails(p)
      PROVE  IInv'
    BY <1>3, StartInv, ResolveInv, InstallInv, GetTarballInv, GetDigestInv, VerifyInv,
       InstallerInv, EndsInv DEF Proceed
<1>4. CASE UNCHANGED vars
  <2>1. TypeOK'
      BY <1>4, Parts DEF TypeOK, vars, publisher, config, client
  <2>2. Offers' /\ Executables'
      BY <1>4, Parts DEF Offers, Executables, vars, publisher
  <2>3. ASSUME NEW p \in Clients PROVE (Holds(p) /\ HasPublished(p) /\ IsNoOlder(p))'
      BY <1>4, <2>3, Parts DEF Holds, HasPublished, IsNoOlder, vars, publisher, client
  <2> QED
      BY <2>1, <2>2, <2>3 DEF IInv, Clients
<1> QED
    BY <1>1, <1>2, <1>3, <1>4 DEF Next

\* The inductive invariant: what is offered was published and nothing published on its
\* channel is newer; a client has only published builds, and none older than its own.
THEOREM UpgradeInvariance == Spec => []IInv
<1> QED
    BY InitInv, NextInv, PTL DEF Spec

\* Every reachable state is well typed: a client never has what it did not get.
THEOREM UpgradeTypeCorrect == Spec => []TypeOK
<1>1. IInv => TypeOK
    BY DEF IInv
<1> QED
    BY <1>1, UpgradeInvariance, PTL

\* For any number of commits, upgrades and installers, where every tag is a greater
\* version: an upgrade along the channel of the build that runs it never goes back
\* (upgrade.rs 86-91, 156-199).
THEOREM UpgradesGoForward ==
    ASSUME TagsGrow
    PROVE  Spec => ForwardOnly
<1>1. ASSUME IInv, [Next]_vars, NEW p \in Upgraders, Replace(p), own[p].from = release[p].on
      PROVE  bin'.commit >= own[p].commit
  <2> USE Values
  <2>1. p \in Clients /\ pc[p] = "replace"
      BY <1>1 DEF Clients, Replace
  <2>2. /\ own[p] \in Builds /\ release[p] \in Releases /\ release[p] # None
        /\ tarball[p] \in Builds
      BY <1>1, <2>1, Parts DEF Holds, HasPublished
  <2>3. tarball[p].from = release[p].on /\ own[p].commit <= tarball[p].commit
      BY <1>1, <2>1, <2>2, Parts DEF IsNoOlder, Forward
  <2>4. bin' = tarball[p]
      BY <1>1, <2>2 DEF Replace, Extracted
  <2> QED
      BY <2>2, <2>3, <2>4, CommitsAreOrdered DEF Builds
<1>2. IInv /\ [Next]_vars =>
          [\A p \in Upgraders :
              Replace(p) /\ own[p].from = release[p].on => bin'.commit >= own[p].commit]_vars
    BY <1>1
<1> QED
    BY <1>2, UpgradeInvariance, PTL DEF Spec, ForwardOnly

\* pyq.new has one name for all installers: with more than one, one may move into place
\* what another has just begun to copy.
OneInstaller == \A i, j \in Installers : i = j

\* What is installed is whole, and so is what the installer is about to move.
Whole ==
    /\ bin # Torn
    /\ \A i \in Installers : pc[i] = "move" => staged \in published

\* A step that copies nothing and installs what is whole.
LEMMA KeepsWhole ==
    ASSUME Whole, UNCHANGED <<published, staged>>, bin' # Torn,
           \A i \in Installers : pc'[i] = "move" => pc[i] = "move"
    PROVE  Whole'
BY DEF Whole

LEMMA WholeInv == OneInstaller /\ IInv /\ Whole /\ [Next]_vars => Whole'
<1> SUFFICES ASSUME OneInstaller, IInv, Whole, [Next]_vars PROVE Whole'
    OBVIOUS
<1> USE Values
<1>0. pc \in [Clients -> Labels] /\ bin # Torn /\ published \subseteq Builds
    BY Parts DEF TypeOK, Whole
<1>1. CASE Publish
  <2>1. published \subseteq published' /\ UNCHANGED <<bin, staged, pc>>
      BY <1>1 DEF Publish, Push, DeleteCanary, CreateCanary, FlowFails, TagStable,
                  client
  <2> QED
      BY <2>1 DEF Whole
<1>2. CASE Configure
    BY <1>2, <1>0, KeepsWhole DEF Configure, Choose, Chosen, ChoiceLost, publisher, client
<1>3. ASSUME NEW p \in Clients, Copy(p) \/ Copied(p) \/ Move(p) PROVE Whole'
  <2>1. p \in Installers /\ \A i \in Installers : i = p
      BY <1>3, Parts DEF Copy, Copied, Move, From, Holds, OneInstaller
  <2>2. CASE Copy(p)
      BY <1>0, <2>1, <2>2 DEF Copy, From, Goto, Whole
  <2>3. CASE Copied(p)
    <3>1. tarball[p] \in Builds /\ tarball[p] \in published
        BY <1>3, <2>3, Parts DEF Copied, From, HasPublished
    <3> QED
        BY <1>0, <2>1, <2>3, <3>1 DEF Copied, From, Goto, Extracted, Whole, publisher
  <2>4. CASE Move(p)
      BY <1>0, <2>1, <2>4 DEF Move, From, Goto, Whole
  <2> QED
      BY <1>3, <2>2, <2>3, <2>4
<1>4. ASSUME NEW p \in Clients, Replace(p) PROVE Whole'
  <2>1. bin' # Torn
      BY <1>4, Parts DEF Replace, Extracted, HasPublished
  <2> QED
      BY <1>0, <1>4, <2>1, KeepsWhole DEF Replace, Reset, Goto, publisher
<1>5. ASSUME NEW p \in Clients,
             \/ Start(p) \/ Resolve(p) \/ ResolveInstall(p) \/ UpToDate(p) \/ Install(p)
             \/ GetTarball(p) \/ GetDamaged(p) \/ GetDigest(p) \/ Verify(p)
             \/ Mark(p) \/ Marked(p) \/ Refuse(p) \/ Fails(p)
      PROVE  Whole'
  <2>1. UNCHANGED <<published, staged, bin>>
      BY <1>5 DEF Start, Resolve, ResolveInstall, UpToDate, Install, GetTarball, GetDamaged,
                  GetDigest, Verify, Mark, Marked, Refuse, Fails, publisher
  <2>2. PICK there \in Labels \ {"move"} : pc' = [pc EXCEPT ![p] = there]
      BY <1>5 DEF Start, Resolve, ResolveInstall, UpToDate, Install, GetTarball, GetDamaged,
                  GetDigest, Verify, Mark, Marked, Refuse, Fails, Reset, From, Goto, Labels
  <2> QED
      BY <1>0, <2>1, <2>2, KeepsWhole
<1>6. CASE UNCHANGED vars
    BY <1>0, <1>6, KeepsWhole DEF vars, publisher, client
<1> QED
    BY <1>1, <1>2, <1>3, <1>4, <1>5, <1>6 DEF Next, Proceed

\* For any number of commits and upgrades beside one installer: whatever is fetched while
\* releases are replaced, damaged on the way or cut short, the installed binary is one
\* that was published, whole (upgrade.rs 156-199, install.sh 71-81).
THEOREM InstalledIsPublished ==
    ASSUME OneInstaller
    PROVE  Spec => []BinaryIsPublished
<1>1. ASSUME Init PROVE Whole
  <2>1. bin \in published /\ \A p \in Clients : pc[p] = "idle"
      BY <1>1 DEF Init
  <2>2. bin \in Builds
      BY <1>1, <2>1, InitInv, Parts DEF TypeOK
  <2> QED
      BY <2>1, <2>2, Values DEF Whole, Clients
<1>2. IInv /\ Whole => BinaryIsPublished
    BY Parts DEF Whole, Executables, BinaryIsPublished
<1>3. IInv /\ Whole /\ [Next]_vars => Whole'
    BY WholeInv
<1> QED
    BY <1>1, <1>2, <1>3, UpgradeInvariance, PTL DEF Spec

=============================================================================
