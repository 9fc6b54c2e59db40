------------------------------ MODULE TillUpdate ------------------------------
(***************************************************************************)
(* How a till gets its next version: the manifest the server fetches, keeps    *)
(* and hands out, the updater of the till that offers, verifies and starts the  *)
(* installer, and the minimum version below which the server refuses a till.    *)
(***************************************************************************)
EXTENDS Integers, Sequences

CONSTANTS
    Releases,     \* versions in the order of semantic versioning, oldest first
    Legacy,       \* the release of the environment variables, 0 for none
    FreshFor,     \* POS_UPDATE_MANIFEST_CACHE_MS, in ticks
    StaleFor,     \* POS_UPDATE_MANIFEST_STALE_MS, in ticks
    MaxUnsent,    \* bound: sales in the outbox, and sales made during openPath
    MaxReleases   \* bound: changes of the published release

ASSUME UpdateAssumption ==
    /\ Legacy \in 0..Len(Releases) /\ FreshFor \in Nat /\ StaleFor \in Nat

None == 0
Release == 1..Len(Releases)

VARIABLES
    published,  \* the release of the manifest's source, None for available=false
    everOut,    \* history: the releases ever published
    changes,    \* changes of the source so far
    cached,     \* the server's cache: a release, its age, or nothing yet
    fetching,   \* inFlight
    minimum,    \* POS_MIN_APP_VERSION, a release
    version,    \* what the till runs
    step,       \* the till's check: "idle" when checking is false
    manifest,   \* the update the check is about
    offered,    \* lastOfferedVersion
    outbox,     \* sales pending or sending
    clicked,    \* a payment sent to the main process and not yet saved
    since,      \* history: sales saved under the dialog that asks to install
    during      \* history: sales saved while shell.openPath is awaited

releaseVars == <<published, everOut, changes, minimum>>
cacheVars == <<cached, fetching>>
updater == <<version, step, manifest, offered>>
salesVars == <<outbox, clicked, since, during>>
updVars == <<releaseVars, cacheVars, updater, salesVars>>

-----------------------------------------------------------------------------
(* compareVersions.  A version has three numbers and the identifiers of a       *)
(* prerelease; localeCompare is the order of ranks.                            *)
Numeric(n) == [numeric |-> TRUE, rank |-> n]
Word(n) == [numeric |-> FALSE, rank |-> n]
Version(a, b, c, pre) == [core |-> <<a, b, c>>, prerelease |-> pre]

CompareIdentifier(l, r) ==
    IF l.numeric # r.numeric THEN (IF l.numeric THEN -1 ELSE 1) ELSE l.rank - r.rank

FirstDifference(diff, indices) ==
    LET at == {i \in indices : diff[i] # 0}
    IN IF at = {} THEN 0 ELSE diff[CHOOSE i \in at : \A j \in at : i <= j]

ComparePrerelease(l, r) ==
    LET n == IF Len(l) > Len(r) THEN Len(l) ELSE Len(r)
        diff == [i \in 1..n |-> IF i > Len(l) THEN -1 ELSE IF i > Len(r) THEN 1
                                ELSE CompareIdentifier(l[i], r[i])]
    IN FirstDifference(diff, 1..n)

\* A mutant: a release and its own prereleases compare by their identifiers only.
CompareVersionsPlain(l, r) ==
    LET core == FirstDifference([i \in 1..3 |-> l.core[i] - r.core[i]], 1..3)
    IN IF core # 0 THEN core ELSE ComparePrerelease(l.prerelease, r.prerelease)

CompareVersions(l, r) ==
    LET core == FirstDifference([i \in 1..3 |-> l.core[i] - r.core[i]], 1..3)
    IN IF core # 0 THEN core
       ELSE CASE l.prerelease = <<>> /\ r.prerelease # <<>> -> 1
              [] r.prerelease = <<>> /\ l.prerelease # <<>> -> -1
              [] OTHER -> ComparePrerelease(l.prerelease, r.prerelease)

Newer(a, b) == CompareVersions(Releases[a], Releases[b]) > 0

\* selectUpdate, and the version offered last in this process.
Selected(m) == m # None /\ Newer(m, version) /\ m # offered

\* assertPosCompatibility, on the till.
Compatible == ~Newer(minimum, version)

\* comparePosVersions: the server's copy of the comparison, to the letter.
ComparePosVersions(l, r) == CompareVersions(l, r)

\* PosProtocolGuard.
GuardPasses == ComparePosVersions(Releases[version], Releases[minimum]) >= 0

Served == Compatible /\ GuardPasses

-----------------------------------------------------------------------------
NoCache == [release |-> None, age |-> StaleFor + 1]

UpdInit ==
    /\ published \in {None, 1} /\ everOut = {published} \ {None} /\ changes = 0
    /\ cached = NoCache /\ fetching = FALSE /\ minimum = 1
    /\ version = 1 /\ step = "idle" /\ manifest = None /\ offered = None
    /\ outbox = 0 /\ clicked = FALSE /\ since = 0 /\ during = 0

\* A release is published, or withdrawn; the minimum follows what is published.
Publish(r) ==
    /\ r # published /\ changes < MaxReleases
    /\ published' = r
    /\ everOut' = everOut \cup ({r} \ {None})
    /\ changes' = changes + 1
    /\ UNCHANGED <<minimum, cacheVars, updater, salesVars>>

RaiseMinimum(r) ==
    /\ r \in everOut /\ Newer(r, minimum)
    /\ minimum' = r
    /\ UNCHANGED <<published, everOut, changes, cacheVars, updater, salesVars>>

Tick ==
    /\ cached.age <= StaleFor
    /\ cached' = [cached EXCEPT !.age = @ + 1]
    /\ UNCHANGED <<releaseVars, fetching, updater, salesVars>>

-----------------------------------------------------------------------------
\* What follows for the till that waits for the manifest m.
Told(m) ==
    IF step # "asking" THEN UNCHANGED updater
    ELSE /\ IF Selected(m) THEN step' = "offered" /\ manifest' = m
            ELSE step' = "idle" /\ manifest' = None
         /\ UNCHANGED <<version, offered>>

\* check gives up: the catch and the finally of check.
GivesUp ==
    IF step = "idle" THEN UNCHANGED updater
    ELSE step' = "idle" /\ manifest' = None /\ UNCHANGED <<version, offered>>

\* check: the timer, the flag, and GET /pos-updates/latest.
Check ==
    /\ step = "idle"
    /\ step' = "asking"
    /\ UNCHANGED <<version, manifest, offered, releaseVars, cacheVars, salesVars>>

\* resolve with a fresh cache.
ResolvedFromCache ==
    /\ step = "asking" /\ cached.age <= FreshFor
    /\ Told(cached.release)
    /\ UNCHANGED <<releaseVars, cacheVars, salesVars>>

\* resolve goes to the source; this till or another asked.
FetchStarts ==
    /\ cached.age > FreshFor /\ ~fetching
    /\ fetching' = TRUE
    /\ UNCHANGED <<releaseVars, cached, updater, salesVars>>

FetchRemote ==
    /\ fetching
    /\ fetching' = FALSE
    /\ cached' = [release |-> published, age |-> 0]
    /\ Told(published)
    /\ UNCHANGED <<releaseVars, salesVars>>

\* The source does not answer, or with a manifest that parsePosUpdateManifest
\* refuses: the cache while it is not too old, then the environment, then 503.
FetchFails ==
    /\ fetching
    /\ fetching' = FALSE
    /\ IF cached.age <= StaleFor THEN Told(cached.release)
       ELSE IF Legacy # None THEN Told(Legacy)
       ELSE IF step = "asking" THEN GivesUp ELSE UNCHANGED updater
    /\ UNCHANGED <<releaseVars, cached, salesVars>>

NoAnswer ==
    /\ step = "asking"
    /\ GivesUp
    /\ UNCHANGED <<releaseVars, cacheVars, salesVars>>

-----------------------------------------------------------------------------
\* The dialogs are modal to the window: no button of the till works under one.
InDialog == step \in {"offered", "unsent", "install"}

\* offerUpdate returned: the version counts as offered.
Concluded == step' = "idle" /\ offered' = manifest /\ manifest' = None /\ UNCHANGED version

\* "Later" in either dialog, or the notice about unsent sales read.
Later ==
    /\ InDialog
    /\ Concluded
    /\ UNCHANGED <<releaseVars, cacheVars, salesVars>>

AcceptOffer ==
    /\ step = "offered"
    /\ step' = "downloading"
    /\ UNCHANGED <<version, manifest, offered, releaseVars, cacheVars, salesVars>>

\* pendingOutboxCount after the download.
Installable == outbox = 0

\* downloadInstaller: length and checksum are right, the file is in place.
Downloaded ==
    /\ step = "downloading"
    /\ IF Installable THEN step' = "install" /\ since' = 0 /\ during' = 0
       ELSE step' = "unsent" /\ UNCHANGED <<since, during>>
    /\ UNCHANGED <<version, manifest, offered, outbox, clicked, releaseVars, cacheVars>>

\* An error of the download, of its verification or of its disk writes.
DownloadFails ==
    /\ step = "downloading"
    /\ GivesUp
    /\ UNCHANGED <<releaseVars, cacheVars, salesVars>>

\* "Install now": the dialog is gone, and while shell.openPath is awaited the till
\* works as ever.
InstallNow ==
    /\ step = "install"
    /\ step' = "opening"
    /\ UNCHANGED <<version, manifest, offered, releaseVars, cacheVars, salesVars>>

\* The installer runs and the application quits, whatever was saved meanwhile; the
\* next start has forgotten everything of the check.
RunInstaller ==
    /\ step = "opening"
    /\ version' = manifest
    /\ step' = "idle" /\ manifest' = None /\ offered' = None
    /\ clicked' = FALSE
    /\ since' = 0 /\ during' = 0
    /\ UNCHANGED <<outbox, releaseVars, cacheVars>>

\* shell.openPath reports an error.
OpenFails ==
    /\ step = "opening"
    /\ GivesUp
    /\ UNCHANGED <<releaseVars, cacheVars, salesVars>>

RestartApp ==
    /\ step' = "idle" /\ manifest' = None /\ offered' = None /\ clicked' = FALSE
    /\ UNCHANGED <<version, outbox, since, during, releaseVars, cacheVars>>

-----------------------------------------------------------------------------
\* pos:sale is called, and saves.
Pay ==
    /\ ~InDialog /\ ~clicked /\ outbox < MaxUnsent
    /\ step = "opening" => during < MaxUnsent
    /\ clicked' = TRUE
    /\ UNCHANGED <<outbox, since, during, releaseVars, cacheVars, updater>>

SaleSaved ==
    /\ clicked
    /\ clicked' = FALSE /\ outbox' = outbox + 1
    /\ since' = CASE step = "install" -> since + 1 [] step = "opening" -> since [] OTHER -> 0
    /\ during' = IF step = "opening" THEN during + 1 ELSE 0
    /\ UNCHANGED <<releaseVars, cacheVars, updater>>

Upload ==
    /\ Served /\ outbox > 0
    /\ outbox' = outbox - 1
    /\ UNCHANGED <<clicked, since, during, releaseVars, cacheVars, updater>>

UpdNext ==
    \/ \E r \in Release : Publish(r) \/ RaiseMinimum(r)
    \/ Publish(None) \/ Tick
    \/ Check \/ ResolvedFromCache \/ FetchStarts \/ FetchRemote \/ FetchFails \/ NoAnswer
    \/ Later \/ AcceptOffer \/ Downloaded \/ DownloadFails
    \/ InstallNow \/ RunInstaller \/ OpenFails
    \/ RestartApp \/ Pay \/ SaleSaved \/ Upload

-----------------------------------------------------------------------------
\* The version a till runs only moves forward in semantic versioning, to a release
\* that was published or is the environment's, and over no unsent sale but the one
\* whose payment was under way when the dialog opened and those saved after it was
\* answered, while the installer was being started (selectUpdate, offerUpdate).
UpdateSafe ==
    [][version' # version =>
          /\ version' > version
          /\ version' \in everOut \cup {Legacy}
          /\ outbox <= since + during /\ since <= 1]_updVars
=============================================================================
