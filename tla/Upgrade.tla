------------------------------- MODULE Upgrade ------------------------------
(***************************************************************************)
(* How a pyq binary comes to be replaced: the release workflow publishes   *)
(* builds (.github/workflows/release.yml), "pyq upgrade" (upgrade.rs) and  *)
(* install.sh fetch one and put it in place of the installed binary, and   *)
(* the channel file (channel.rs, install.sh) says which line to follow.    *)
(*                                                                         *)
(* The canary release is replaced wholesale under one tag, so a client     *)
(* that resolved it may fetch the tarball of a later one, the checksum of  *)
(* a yet later one, or nothing.  A stable release never changes.           *)
(***************************************************************************)
EXTENDS Naturals, FiniteSets

CONSTANTS
    MaxCommit,    \* bound: the commits on main are 1 .. MaxCommit, in this order
    VersionOf,    \* VersionOf[c]: the version in Cargo.toml at commit c
    Upgraders,    \* processes that run "pyq upgrade", one query after another
    Installers,   \* processes that run install.sh
    TagsGrow,     \* whether every v* tag names a greater version than the tags before it
    None,
    Corrupt,      \* a download that arrived damaged
    Torn          \* an executable that is not completely written

Commits == 1 .. MaxCommit
Channels == {"stable", "canary"}

ASSUME MaxCommitIsPositive == MaxCommit \in Nat \ {0}
ASSUME VersionsGrow ==
    /\ VersionOf \in [Commits -> Nat]
    /\ \A c, d \in Commits : c <= d => VersionOf[c] <= VersionOf[d]
ASSUME TagsGrowIsBoolean == TagsGrow \in BOOLEAN
ASSUME ClientsAreDistinct == Upgraders \cap Installers = {}
ASSUME MarksAreNoBuilds ==
    /\ None \notin Commits
    /\ None \notin [on : Channels, commit : Commits \cup {None}]
    /\ \A mark \in {None, Corrupt, Torn} : mark \notin [commit : Commits, from : Channels]
    /\ Torn # None /\ Corrupt # None

VARIABLES
    head,        \* the newest commit on main
    flow,        \* the canary workflow in flight: its commit and its next step
    canary,      \* the commit of the rolling release, or None
    stable,      \* the commit of the latest v* release, or None
    published,   \* (history) the builds that were ever published
    bin,         \* the installed binary
    staged,      \* pyq.new
    channel,     \* what ~/.pyq/channel reads: a channel, "" or None
    setting,     \* the channel that "pyq channel" is writing, or None
    pc,          \* pc[p]: where client p is
    own,         \* own[p]: the build that p runs
    release,     \* release[p]: the release that p resolved
    tarball,     \* tarball[p]: what p downloaded
    digest       \* digest[p]: the build whose checksum p downloaded

publisher == <<head, flow, canary, stable, published>>
config == <<channel, setting>>
client == <<pc, own, release, tarball, digest>>
vars == <<publisher, bin, staged, config, client>>

-----------------------------------------------------------------------------
(* Data *)

Clients == Upgraders \cup Installers
Maybe(S) == S \cup {None}
Builds == [commit : Commits, from : Channels]
\* The commit is what a stable release's tag stands for, and what the marker in the
\* canary's text says, or None.
Releases == [on : Channels, commit : Maybe(Commits)]

Labels == {"idle", "resolve", "decide", "tarball", "digest", "verify", "replace",
           "copy", "copying", "move", "mark", "marking"}

TypeOK ==
    /\ head \in Commits
    /\ flow \in Maybe([commit : Commits, step : {"delete", "create"}])
    /\ canary \in Maybe(Commits)
    /\ stable \in Maybe(Commits)
    /\ published \subseteq Builds
    /\ bin \in Builds \cup {Torn}
    /\ staged \in Builds \cup {None, Torn}
    /\ channel \in Channels \cup {"", None}
    /\ setting \in Maybe(Channels)
    /\ pc \in [Clients -> Labels]
    /\ own \in [Clients -> Builds \cup {None, Torn}]
    /\ release \in [Clients -> Maybe(Releases)]
    /\ tarball \in [Clients -> Builds \cup {None, Corrupt}]
    /\ digest \in [Clients -> Maybe(Builds)]

\* Some release was installed, by hand or by the installer.
Init ==
    /\ head = 1
    /\ flow = None
    /\ canary = 1
    /\ stable \in {None, 1}
    /\ bin \in [commit : {1}, from : {"canary"} \cup (IF stable = None THEN {} ELSE {"stable"})]
    /\ published = [commit : {1}, from : {"canary"} \cup (IF stable = None THEN {} ELSE {"stable"})]
    /\ staged = None
    /\ channel \in Channels \cup {None}
    /\ setting = None
    /\ pc = [p \in Clients |-> "idle"]
    /\ own = [p \in Clients |-> None]
    /\ release = [p \in Clients |-> None]
    /\ tarball = [p \in Clients |-> None]
    /\ digest = [p \in Clients |-> None]

-----------------------------------------------------------------------------
(* The release workflow *)

\* A push to main supersedes the canary flow in flight, wherever it is.
Push ==
    /\ head < MaxCommit
    /\ head' = head + 1
    /\ flow' = [commit |-> head + 1, step |-> "delete"]
    /\ UNCHANGED <<canary, stable, published, bin, staged, config, client>>

\* gh release delete canary || true
DeleteCanary ==
    /\ flow # None
    /\ flow.step = "delete"
    /\ canary' = None
    /\ flow' = [flow EXCEPT !.step = "create"]
    /\ UNCHANGED <<head, stable, published, bin, staged, config, client>>

CreateCanary ==
    /\ flow # None
    /\ flow.step = "create"
    /\ canary' = flow.commit
    /\ published' = published \cup {[commit |-> flow.commit, from |-> "canary"]}
    /\ flow' = None
    /\ UNCHANGED <<head, stable, bin, staged, config, client>>

\* The build fails, the delete did nothing and the create finds the release there, the
\* create itself fails, or the job is cancelled.  Nothing tries again before the next
\* push: after the delete there is no canary until then.
FlowFails ==
    /\ flow # None
    /\ flow' = None
    /\ UNCHANGED <<head, canary, stable, published, bin, staged, config, client>>

\* A v* tag, whose release is the latest from now on.  A tag is taken to name its
\* commit's Cargo version; that it grows is the maintainers' habit ("the workflow only
\* ever publishes forward", upgrade.rs 211-213), which no step of the workflow checks.
TagStable ==
    /\ \E c \in 1 .. head :
          /\ TagsGrow /\ stable # None => VersionOf[c] > VersionOf[stable]
          /\ stable' = c
          /\ published' = published \cup {[commit |-> c, from |-> "stable"]}
    /\ UNCHANGED <<head, flow, canary, bin, staged, config, client>>

-----------------------------------------------------------------------------
(* The channel file, which is truncated and then written *)

\* pyq channel <name>
Choose(ch) ==
    /\ setting = None
    /\ setting' = ch
    /\ channel' = ""
    /\ UNCHANGED <<publisher, bin, staged, client>>

Chosen ==
    /\ setting # None
    /\ setting' = None
    /\ channel' = setting
    /\ UNCHANGED <<publisher, bin, staged, client>>

\* The process dies, or the disk is full: the file stays empty.
ChoiceLost ==
    /\ setting # None
    /\ setting' = None
    /\ UNCHANGED <<publisher, bin, staged, channel, client>>

\* Mutant: the channel that is baked in comes first.
ConfiguredAsBuilt(build) == build.from

\* configured()
Configured(build) == IF channel \in Channels THEN channel ELSE build.from

-----------------------------------------------------------------------------
(* The clients *)

Goto(p, label) == pc' = [pc EXCEPT ![p] = label]
From(p, here, there) == pc[p] = here /\ Goto(p, there)

\* pyq upgrade is started from the binary that is installed now.
Start(p) ==
    /\ p \in Upgraders
    /\ bin # Torn
    /\ From(p, "idle", "resolve")
    /\ own' = [own EXCEPT ![p] = bin]
    /\ UNCHANGED <<publisher, bin, staged, config, release, tarball, digest>>

\* The commit of the release that a channel resolves to now, or None.
Current(ch) == IF ch = "stable" THEN stable ELSE canary

\* The releases that a request for ch may find; the canary's text names its commit,
\* unless somebody published it by hand.
Found(ch) ==
    [on : {ch}, commit : IF ch = "stable" THEN {stable} ELSE {canary, None}]

\* What is left of a release in the URLs of its assets: the canary's name no commit.
Urls(found) == [found EXCEPT !.commit = IF found.on = "stable" THEN @ ELSE None]

\* fetch_release
Resolve(p) ==
    /\ From(p, "resolve", "decide")
    /\ Current(Configured(own[p])) # None
    /\ \E found \in Found(Configured(own[p])) : release' = [release EXCEPT ![p] = found]
    /\ UNCHANGED <<publisher, bin, staged, config, own, tarball, digest>>

\* install.sh asks for the channel it was told, whatever is installed.
ResolveInstall(p) ==
    /\ p \in Installers
    /\ From(p, "idle", "tarball")
    /\ \E ch \in Channels :
          /\ Current(ch) # None
          /\ \E found \in Found(ch) : release' = [release EXCEPT ![p] = Urls(found)]
    /\ UNCHANGED <<publisher, bin, staged, config, own, tarball, digest>>

\* compare: a stable release by its version, a canary release by the commit in its text;
\* without that it is compared by its tag, "canary", which no commit is a prefix of.
Behind(p) ==
    IF release[p].on = "stable"
    THEN VersionOf[release[p].commit] > VersionOf[own[p].commit]
    ELSE release[p].commit # own[p].commit

Reset(p) ==
    /\ Goto(p, "idle")
    /\ own' = [own EXCEPT ![p] = None]
    /\ release' = [release EXCEPT ![p] = None]
    /\ tarball' = [tarball EXCEPT ![p] = None]
    /\ digest' = [digest EXCEPT ![p] = None]

\* "already up to date"
UpToDate(p) ==
    /\ pc[p] = "decide"
    /\ ~Behind(p)
    /\ Reset(p)
    /\ UNCHANGED <<publisher, bin, staged, config>>

\* It is behind, or told to --force.
Install(p) ==
    /\ From(p, "decide", "tarball")
    /\ release' = [release EXCEPT ![p] = Urls(@)]
    /\ UNCHANGED <<publisher, bin, staged, config, own, tarball, digest>>

\* Mutant: assets are fetched from the repository's latest release.
ServedLatest(p) == IF stable # None THEN stable ELSE canary

\* What the URL of p's release serves now; the canary's URLs outlive the canary.
Served(p) == IF release[p].on = "stable" THEN release[p].commit ELSE canary

\* Mutant: a "not found" page is taken for the tarball.
GetTarballAnyway(p) ==
    /\ From(p, "tarball", "digest")
    /\ tarball' = [tarball EXCEPT ![p] = [commit |-> Served(p), from |-> release[p].on]]
    /\ UNCHANGED <<publisher, bin, staged, config, own, release, digest>>

GetTarball(p) ==
    /\ From(p, "tarball", "digest")
    /\ Served(p) # None
    /\ tarball' = [tarball EXCEPT ![p] = [commit |-> Served(p), from |-> release[p].on]]
    /\ UNCHANGED <<publisher, bin, staged, config, own, release, digest>>

GetDamaged(p) ==
    /\ From(p, "tarball", "digest")
    /\ Served(p) # None
    /\ tarball' = [tarball EXCEPT ![p] = Corrupt]
    /\ UNCHANGED <<publisher, bin, staged, config, own, release, digest>>

GetDigest(p) ==
    /\ From(p, "digest", "verify")
    /\ Served(p) # None
    /\ digest' = [digest EXCEPT ![p] = [commit |-> Served(p), from |-> release[p].on]]
    /\ UNCHANGED <<publisher, bin, staged, config, own, release, tarball>>

\* Mutant: that there is a checksum is enough.
HasDigest(p) == digest[p] # None

Matches(p) == tarball[p] = digest[p]

Verify(p) ==
    /\ pc[p] = "verify"
    /\ Matches(p)
    /\ Goto(p, IF p \in Upgraders THEN "replace" ELSE "copy")
    /\ digest' = [digest EXCEPT ![p] = None]
    /\ UNCHANGED <<publisher, bin, staged, config, own, release, tarball>>

\* What the archive holds, once extracted.
Extracted(p) == IF tarball[p] = Corrupt THEN Torn ELSE tarball[p]

\* self_replace renames a copy of the new binary over the installed one.
Replace(p) ==
    /\ pc[p] = "replace"
    /\ bin' = Extracted(p)
    /\ Reset(p)
    /\ UNCHANGED <<publisher, staged, config>>

\* install.sh: cp to pyq.new, chmod, mv.
Copy(p) ==
    /\ From(p, "copy", "copying")
    /\ staged' = Torn
    /\ UNCHANGED <<publisher, bin, config, own, release, tarball, digest>>

Copied(p) ==
    /\ From(p, "copying", "move")
    /\ staged' = Extracted(p)
    /\ tarball' = [tarball EXCEPT ![p] = None]
    /\ UNCHANGED <<publisher, bin, config, own, release, digest>>

Move(p) ==
    /\ staged # None
    /\ From(p, "move", "mark")
    /\ bin' = staged
    /\ staged' = None
    /\ UNCHANGED <<publisher, config, own, release, tarball, digest>>

\* install.sh: the channel that was installed is the one to follow.
Mark(p) ==
    /\ From(p, "mark", "marking")
    /\ channel' = ""
    /\ UNCHANGED <<publisher, bin, staged, setting, own, release, tarball, digest>>

Marked(p) ==
    /\ pc[p] = "marking"
    /\ channel' = release[p].on
    /\ Reset(p)
    /\ UNCHANGED <<publisher, bin, staged, setting>>

\* There is no such release, its asset is gone, or the checksum does not match.
Refuse(p) ==
    /\ \/ pc[p] = "resolve" /\ Current(Configured(own[p])) = None
       \/ pc[p] \in {"tarball", "digest"} /\ Served(p) = None
       \/ pc[p] = "verify" /\ ~Matches(p)
    /\ Reset(p)
    /\ UNCHANGED <<publisher, bin, staged, config>>

\* A request fails, the disk is full or not writable, or the process dies.
Fails(p) ==
    /\ pc[p] # "idle"
    /\ Reset(p)
    /\ UNCHANGED <<publisher, bin, staged, config>>

-----------------------------------------------------------------------------

Publish == Push \/ DeleteCanary \/ CreateCanary \/ FlowFails \/ TagStable

Configure == (\E ch \in Channels : Choose(ch)) \/ Chosen \/ ChoiceLost

Proceed(p) ==
    \/ Resolve(p) \/ UpToDate(p) \/ Install(p)
    \/ GetTarball(p) \/ GetDigest(p) \/ Verify(p) \/ Replace(p)
    \/ Copy(p) \/ Copied(p) \/ Move(p) \/ Mark(p) \/ Marked(p)
    \/ Refuse(p)

Next ==
    \/ Publish \/ Configure
    \/ \E p \in Clients : \/ Start(p) \/ ResolveInstall(p)
                          \/ Proceed(p) \/ GetDamaged(p) \/ Fails(p)

Spec == Init /\ [][Next]_vars

\* A job of the workflow ends, one way or the other; users keep asking for upgrades and
\* wait for them.
FairSpec ==
    /\ Spec
    /\ WF_vars(DeleteCanary \/ CreateCanary \/ FlowFails)
    /\ \A p \in Upgraders : WF_vars(Start(p) \/ Proceed(p))

-----------------------------------------------------------------------------
(* Properties *)

\* Whatever is fetched while releases are replaced, damaged on the way, or cut short
\* by a crash: the installed binary is one that was published, whole
\* (upgrade.rs 156-199, install.sh 71-81).
BinaryIsPublished == bin \in published

\* An upgrade along the channel its own build came from never installs an older
\* build than the one that ran it, though canary is compared only by "differs"
\* (upgrade.rs 86-91: "the canary tag only rolls forward, so a differing prefix
\* means behind") and fetched by a name that moves meanwhile.  On the stable channel this
\* is so where tags grow.
ForwardOnly ==
    [][\A p \in Upgraders :
          Replace(p) /\ own[p].from = release[p].on => bin'.commit >= own[p].commit]_vars

\* Nobody pushes, tags, switches channels or runs the installer any more, and
\* neither the network nor the disk fails.
Settled ==
    [][~(\/ Push \/ TagStable \/ Configure
         \/ \E p \in Installers : ResolveInstall(p) \/ Proceed(p)
         \/ \E p \in Upgraders : GetDamaged(p) \/ (Fails(p) /\ ~Proceed(p)))]_vars

\* The installed binary is the build that its channel offers, if it offers one; where the
\* file says nothing, the binary's own channel is followed.  Excepted is a canary build
\* on the stable channel whose version is already that of the latest stable release:
\* compare looks at versions alone (upgrade.rs 74-79) and leaves it there, though "pyq
\* channel" announces that upgrade moves to the latest stable build (channel.rs 86-89).
Latest ==
    LET ch == IF channel \in Channels THEN channel ELSE bin.from
    IN  /\ bin # Torn
        /\ ch = "canary" /\ canary # None => bin.commit = canary
        /\ ch = "stable" /\ stable # None =>
              \/ bin.commit = stable
              \/ bin.from = "canary" /\ VersionOf[bin.commit] >= VersionOf[stable]

\* Once nothing is released any more, users who go on asking come to the build that is
\* on offer for their channel, whatever downloads, installations and publications failed
\* or were cut short before, and stay there (upgrade.rs 70-95, 156-199).
CatchesUp == <>Settled => <>[]Latest

=============================================================================
