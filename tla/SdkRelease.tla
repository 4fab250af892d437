---------------------------- MODULE SdkRelease ----------------------------
(***************************************************************************)
(* The SDK source release: scripts/sdk/package_client_sdks.sh with the     *)
(* scripts of tools/ci that build archives and metadata, the checks a      *)
(* package passes on its way (package, compatibility matrix, external      *)
(* handoff, consumer templates, consumer smoke, release evidence), the two *)
(* jobs of release-evidence.yml around them, the release the assets are    *)
(* attached to one by one, and a receiver that downloads and unpacks it.   *)
(*                                                                         *)
(* A hash is the content it is the hash of.  An archive is the commit and  *)
(* the toolchain it was made from and the classes of the entries in it.    *)
(* A script that nothing can disturb (it runs on a fresh runner and on its *)
(* own directory) is one step; uploads to the release are one step each.   *)
(*                                                                         *)
(* Definitions whose name begins with Faulty are no part of the model:     *)
(* each is the definition beside it with one plausible programming error,  *)
(* kept to see which properties would notice it.                           *)
(***************************************************************************)
EXTENDS Integers, Sequences, FiniteSets

CONSTANTS
  Commits,
  KindSeq,      \* artifact kinds, in the order of their file names
  Generated,    \* the kinds whose content a toolchain generates
  None,         \* a missing file, an absent value
  Damaged,      \* the content of a file that arrived damaged
  Tracked,      \* [Commits -> [Kinds -> entries git tracks there]]
  Supported,    \* commits with a matching row in the compatibility matrix
  ClientOnly,   \* commits whose packaged Rust workspace is the clients' one
  Runners,      \* machines: version of the image, tools on it, and what the
                \* checkout holds besides: [Kinds -> entries]
  MaxAttempts,  \* bound: attempts of the workflow
  MaxIncidents  \* bound: failing jobs, lost or damaged files

Kinds == {KindSeq[i] : i \in DOMAIN KindSeq}

(* Entries by what the scripts make of them: what the tables of the checks *)
(* require of an archive, what the consumer layout needs besides, other    *)
(* sources, paths a consumer must not get, build output that an --exclude  *)
(* names, other build output, secrets, other files that git ignores,       *)
(* symbolic links, and changes that git status reports.                    *)
Committed == {"required", "layout", "plain", "internal", "link"}
Local == {"excluded", "cache", "secret", "ignored", "edited"}
Entry == Committed \cup Local

Archive ==
  [commit : Commits, tool : {m.version : m \in Runners} \cup {None},
   entries : SUBSET Entry]

Toolchains == {"cargo", "npm", "swift", "java"}

ASSUME ReleaseConstants ==
  /\ KindSeq \in Seq(Kinds)
  /\ Tracked \in [Commits -> [Kinds -> SUBSET Committed]]
  /\ Supported \subseteq Commits /\ ClientOnly \subseteq Commits
  /\ \A m \in Runners : m.tools \subseteq Toolchains /\ m.local \in [Kinds -> SUBSET Local]
  /\ {MaxAttempts, MaxIncidents} \subseteq Nat

(* File names: an archive of a kind and a commit, the three metadata files *)
(* and the evidence archive of a commit.                                   *)
ArchiveName(k, c) == <<k, c>>
Manifest == <<"manifest.json", None>>
Sums == <<"SHA256SUMS", None>>
Sbom == <<"sbom.spdx.json", None>>
Evidence(c) == <<"evidence", c>>
ArchiveNames(c) == {ArchiveName(k, c) : k \in Kinds}
Metadata == {Manifest, Sums, Sbom}

(* The name of an archive ends in a commit and is that of no evidence.     *)
ASSUME NamesApart == None \notin Commits /\ "evidence" \notin Kinds
Names == Metadata \cup UNION {ArchiveNames(c) \cup {Evidence(c)} : c \in Commits}

(* A directory maps the names of its files to their contents.              *)
IsDir(d) == DOMAIN d \subseteq Names
Only(d, names) == [n \in names \cap DOMAIN d |-> d[n]]
With(d, n, content) == [m \in DOMAIN d \cup {n} |-> IF m = n THEN content ELSE d[m]]

VARIABLES
  tag,       \* the commit the tag points to
  attempts,  \* attempts of release-evidence, oldest first
  release,   \* the assets of the tag's release; None before there is one
  copy,      \* the package directory the receiver has
  accepted,  \* the commit it was accepted for by the evidence check
  vendor,    \* the receiver's vendor directory of each commit
  sources,   \* where the receiver got packages from (bound: once each)
  incidents

vars == <<tag, attempts, release, copy, accepted, vendor, sources, incidents>>

Steps == {"package", "publish", "attach", "upload", "done", "failed"}

TypeOK ==
  /\ tag \in Commits \cup {None}
  /\ \A r \in DOMAIN attempts :
       LET a == attempts[r] IN
       /\ a.sha \in Commits /\ a.step \in Steps
       /\ a.out # None => IsDir(a.out) /\ a.out[Manifest].commit = a.sha
       /\ a.got # None => IsDir(a.got)
       /\ a.todo \subseteq Names /\ a.open \subseteq a.todo
  /\ Len(attempts) \in 0..MaxAttempts
  /\ release # None => IsDir(release)
  /\ copy # None => IsDir(copy)
  /\ accepted \in Commits \cup {None}
  /\ \A c \in Commits :
       /\ vendor[c].items \subseteq [kind : Kinds, entry : Entry, archive : Archive]
       /\ vendor[c].from # None <=> vendor[c].done
  /\ sources \subseteq {"release", "workstation"}
  /\ incidents \in 0..MaxIncidents

-----------------------------------------------------------------------------
(* build_sdk_source_archive.py and build_sdk_release_metadata.py *)

sha256_file(content) == content

(* An archive takes what is in the tree but for excluded paths, and none   *)
(* is made of a tree with a symbolic link in it.                           *)
build_archive(c, k, machine, entries) ==
  [commit |-> c, tool |-> IF k \in Generated THEN machine.version ELSE None,
   entries |-> entries \ {"excluded"}]
CanArchive(entries) == "link" \notin entries

build_sbom(c, files) ==
  [commit |-> c, packages |-> [n \in DOMAIN files |-> sha256_file(files[n])]]

(* main of the metadata script: exactly one archive of each kind, all of   *)
(* this commit.                                                            *)
ArtifactsComplete(d, c) == DOMAIN d \ Metadata = ArchiveNames(c)

build_metadata(d, c, dirty, mode) ==
  LET files == Only(d, ArchiveNames(c))
      sbom == build_sbom(c, files)
      sums == [n \in DOMAIN files \cup {Sbom} |->
                 sha256_file(IF n = Sbom THEN sbom ELSE files[n])]
      manifest ==
        [commit |-> c, dirty |-> dirty, mode |-> mode,
         version_matrix |-> c, sdk_versions |-> c,
         sbom |-> sha256_file(sbom),
         artifacts |-> [n \in DOMAIN files |-> sha256_file(files[n])]]
  IN  With(With(With(files, Sbom, sbom), Sums, sums), Manifest, manifest)

-----------------------------------------------------------------------------
(* check_sdk_release_package.py *)

validate_archive(a) ==
  /\ a # Damaged
  /\ {"link", "cache", "secret"} \cap a.entries = {}
  /\ "required" \in a.entries

validate_sums(d, m) ==
  /\ Sums \in DOMAIN d
  /\ d[Sums] = With(m.artifacts, Sbom, m.sbom)

validate_sbom(d, m) ==
  /\ Sbom \in DOMAIN d /\ d[Sbom] # Damaged
  /\ m.sbom = sha256_file(d[Sbom])
  /\ \A n \in DOMAIN m.artifacts :
       n \in DOMAIN d[Sbom].packages /\ d[Sbom].packages[n] = m.artifacts[n]

Readable(d) == Manifest \in DOMAIN d /\ d[Manifest] # Damaged

FaultyArtifactMatches(d, m, n) ==
  /\ n \in DOMAIN d
  /\ validate_archive(d[n])
ArtifactMatches(d, m, n) ==
  /\ n \in DOMAIN d
  /\ m.artifacts[n] = sha256_file(d[n])
  /\ validate_archive(d[n])

(* The checkout the script is run in is that of commit root.               *)
validate_manifest(d, root, expected_commit, require_strict, require_clean) ==
  /\ Readable(d)
  /\ LET m == d[Manifest] IN
     /\ m.commit = expected_commit
     /\ require_clean => ~m.dirty
     /\ require_strict => m.mode \in {"strict", "strict-upstream"}
     /\ m.version_matrix = root /\ m.sdk_versions = root
     /\ DOMAIN m.artifacts = ArchiveNames(m.commit)
     /\ \A n \in DOMAIN m.artifacts : ArtifactMatches(d, m, n)
     /\ validate_sums(d, m)
     /\ validate_sbom(d, m)

-----------------------------------------------------------------------------
(* check_external_sdk_handoff.py *)

Boundary == Entry \ {"internal", "link"}

(* What safe_extract_archive may have written of an archive: everything,   *)
(* or what comes before the entry it refuses.                              *)
Extracts(d, m, i) ==
  LET n == ArchiveName(KindSeq[i], m.commit)
  IN  n \in DOMAIN d /\ d[n] # Damaged /\ d[n].entries \subseteq Boundary
        /\ "required" \in d[n].entries

Items(d, m, i, entries) ==
  LET n == ArchiveName(KindSeq[i], m.commit)
  IN  {[kind |-> KindSeq[i], entry |-> e, archive |-> d[n]] : e \in entries}

(* Writing to a path replaces what is there.                               *)
Overwrite(old, new) ==
  new \cup {x \in old : \A y \in new : x.kind # y.kind \/ x.entry # y.entry}

ItemsOf(d, m) ==
  UNION {Items(d, m, i, d[ArchiveName(KindSeq[i], m.commit)].entries) :
           i \in DOMAIN KindSeq}

validate_vendor_layout(items) ==
  \A k \in Kinds :
    \A e \in {"required", "layout"} :
      \E x \in items : x.kind = k /\ x.entry = e

(* What is checked before anything is written.                             *)
HandoffAllowed(d, root, expected_commit, require_strict, require_clean) ==
  /\ Readable(d) /\ d[Manifest].commit = expected_commit
  /\ {Sums, Sbom} \subseteq DOMAIN d =>
       validate_manifest(d, root, expected_commit, require_strict, require_clean)

CompleteHandoff(d, root, c) ==
  /\ HandoffAllowed(d, root, c, TRUE, TRUE)
  /\ DOMAIN d[Manifest].artifacts = ArchiveNames(c)
  /\ \A i \in DOMAIN KindSeq : Extracts(d, d[Manifest], i)
  /\ validate_vendor_layout(ItemsOf(d, d[Manifest]))

-----------------------------------------------------------------------------
(* check_external_consumer_templates.py, check_sdk_compatibility_matrix.py *)
(* and check_external_release_consumer_smoke.py *)

ConsumerInputs(d, c) ==
  \A n \in ArchiveNames(c) : {"required", "layout"} \subseteq d[n].entries

check_external_consumer_templates(d, expected_commit) ==
  /\ Readable(d) /\ d[Manifest].commit = expected_commit
  /\ DOMAIN d[Manifest].artifacts = ArchiveNames(expected_commit)
  /\ \A n \in ArchiveNames(expected_commit) :
       n \in DOMAIN d /\ d[n] # Damaged /\ "link" \notin d[n].entries
  /\ ConsumerInputs(d, expected_commit)

check_sdk_compatibility_matrix(d) ==
  /\ Readable(d)
  /\ \A n \in DOMAIN d[Manifest].artifacts : n[2] = d[Manifest].commit
  /\ d[Manifest].commit \in Supported

validate_rust_workspace(c) == c \in ClientOnly

(* Without --strict a missing toolchain is skipped.                        *)
run_smoke_commands(machine, strict) == strict => Toolchains \subseteq machine.tools

check_external_release_consumer_smoke(d, c, machine, strict, run_commands) ==
  /\ check_external_consumer_templates(d, c)
  /\ validate_rust_workspace(c)
  /\ run_commands => run_smoke_commands(machine, strict)

-----------------------------------------------------------------------------
(* check_release_evidence_assets.py *)

validate_evidence_zip(d, c) ==
  /\ Evidence(c) \in DOMAIN d /\ d[Evidence(c)] # Damaged
  /\ d[Evidence(c)].commit_sha = c
  /\ d[Evidence(c)].workflow = "release-evidence"

check_release_evidence_assets(d, c) ==
  /\ validate_manifest(d, c, c, TRUE, TRUE)
  /\ validate_evidence_zip(d, c)

-----------------------------------------------------------------------------
(* package_client_sdks.sh *)

(* The tree of a checkout: what the commit has, and what lies around.      *)
Tree(c, m) == [k \in Kinds |-> Tracked[c][k] \cup m.local[k]]
Dirty(m) == \E k \in Kinds : "edited" \in m.local[k]

Archives(c, m) ==
  [n \in ArchiveNames(c) |-> build_archive(c, n[1], m, Tree(c, m)[n[1]])]

Package(c, m, mode) == build_metadata(Archives(c, m), c, Dirty(m), mode)

(* A directory with a package in it is not a missing one.                  *)
ASSUME PackageIsThere ==
  \A c \in Commits, m \in Runners : Package(c, m, "strict-upstream") # None

(* Nothing refused: no changes unless they are allowed, no links, no build *)
(* output but what is excluded, complete metadata, and its own check.      *)
Packs(c, m, allow_dirty, mode) ==
  /\ Dirty(m) => allow_dirty
  /\ \A k \in Kinds : CanArchive(Tree(c, m)[k])
  /\ \A n \in ArchiveNames(c) : "cache" \notin Archives(c, m)[n].entries
  /\ ArtifactsComplete(Archives(c, m), c)
  /\ validate_manifest(Package(c, m, mode), c, c, mode # "skipped", ~Dirty(m))

-----------------------------------------------------------------------------
NoVendor == [items |-> {}, from |-> None, done |-> FALSE]

Init ==
  /\ tag = None /\ attempts = <<>> /\ release = None
  /\ copy = None /\ accepted = None
  /\ vendor = [c \in Commits |-> NoVendor]
  /\ sources = {} /\ incidents = 0

receiver == <<copy, accepted, vendor, sources>>

Attempt(c) ==
  [sha |-> c, step |-> "package", out |-> None, got |-> None, todo |-> {}, open |-> {}]

Incident == incidents < MaxIncidents /\ incidents' = incidents + 1

(* A tag is pushed, or moved to another commit; the workflow starts.       *)
PushTag(c) ==
  /\ c # tag /\ Len(attempts) < MaxAttempts
  /\ tag' = c /\ attempts' = Append(attempts, Attempt(c))
  /\ UNCHANGED <<release, receiver, incidents>>

Ended(r) == attempts[r].step \in {"done", "failed"}

(* All jobs of an attempt that has ended are run again; or only the second *)
(* job, with what the first one has stored.                                *)
Retry(r) ==
  /\ Ended(r) /\ Len(attempts) < MaxAttempts
  /\ attempts' = Append(attempts, Attempt(attempts[r].sha))
  /\ UNCHANGED <<tag, release, receiver, incidents>>

RetryPublish(r) ==
  /\ attempts[r].step = "failed" /\ attempts[r].out # None
  /\ Len(attempts) < MaxAttempts
  /\ attempts' = Append(attempts, [Attempt(attempts[r].sha) EXCEPT
                                    !.step = "publish", !.out = attempts[r].out])
  /\ UNCHANGED <<tag, release, receiver, incidents>>

FaultyStop(a, step) == [a EXCEPT !.step = step, !.got = None, !.todo = {}]
Stop(a, step) == [a EXCEPT !.step = step, !.got = None, !.todo = {}, !.open = {}]

(* The first job, on a fresh runner: the package of the checkout, verified *)
(* upstream; its matrix, template and smoke checks; and its storing.       *)
RunPackage(r, m) ==
  LET a == attempts[r]
      out == Package(a.sha, m, "strict-upstream")
      ok == /\ Packs(a.sha, m, FALSE, "strict-upstream")
            /\ check_sdk_compatibility_matrix(out)
            /\ check_external_release_consumer_smoke(out, a.sha, m, TRUE, TRUE)
  IN  /\ a.step = "package"
      /\ attempts' = [attempts EXCEPT ![r] =
                         IF ok THEN [a EXCEPT !.out = out, !.step = "publish"]
                         ELSE Stop(a, "failed")]
      /\ UNCHANGED <<tag, release, receiver, incidents>>

(* Every check of the package in the second job.                           *)
FaultyPublishChecks(d, c) ==
  /\ CompleteHandoff(d, c, c)
  /\ check_external_release_consumer_smoke(d, c, None, FALSE, FALSE)
  /\ check_sdk_compatibility_matrix(d)
PublishChecks(d, c) ==
  /\ validate_manifest(d, c, c, TRUE, TRUE)
  /\ CompleteHandoff(d, c, c)
  /\ check_external_release_consumer_smoke(d, c, None, FALSE, FALSE)
  /\ check_sdk_compatibility_matrix(d)

Publish(r, got) ==
  LET a == attempts[r] IN
  /\ a.step = "publish"
  /\ attempts' = [attempts EXCEPT ![r] =
                     IF PublishChecks(got, a.sha)
                     THEN [a EXCEPT !.got = got, !.step = "attach"]
                     ELSE Stop(a, "failed")]
  /\ UNCHANGED <<tag, release, receiver>>

(* The second job gets the stored package; or a file of it gets lost on    *)
(* the way, or arrives damaged.                                            *)
RunPublish(r) == Publish(r, attempts[r].out) /\ UNCHANGED incidents

Worse(d) ==
  UNION {{Only(d, DOMAIN d \ {n}), With(d, n, Damaged)} : n \in DOMAIN d}

RunPublishBadly(r) ==
  /\ attempts[r].step = "publish" /\ Incident
  /\ \E got \in Worse(attempts[r].out) : Publish(r, got)

(* A verification suite, a toolchain build, an upload or the runner fails. *)
FailStep(r) ==
  /\ ~Ended(r) /\ Incident
  /\ attempts' = [attempts EXCEPT ![r] = Stop(attempts[r], "failed")]
  /\ UNCHANGED <<tag, release, receiver>>

-----------------------------------------------------------------------------
(* Attach evidence to release *)

evidence(r) ==
  [commit_sha |-> attempts[r].sha, workflow |-> "release-evidence", attempt |-> r]
Assets(r) == With(attempts[r].got, Evidence(attempts[r].sha), evidence(r))

(* Bound: after its only download nobody looks at the release again.       *)
Watched == "release" \notin sources

(* Without a release, one with all assets is created at once.              *)
CreateRelease(r) ==
  /\ attempts[r].step = "attach" /\ release = None /\ Watched
  /\ release' = Assets(r)
  /\ attempts' = [attempts EXCEPT ![r] = Stop(attempts[r], "done")]
  /\ UNCHANGED <<tag, receiver, incidents>>

(* Somebody writes the release entry before the workflow gets there.       *)
CreateEntry ==
  /\ tag # None /\ release = None /\ Watched
  /\ release' = [n \in {} |-> None]
  /\ UNCHANGED <<tag, attempts, receiver, incidents>>

(* The assets already there are looked up once.                            *)
StartUpload(r) ==
  /\ attempts[r].step = "attach" /\ release # None /\ Watched
  /\ attempts' = [attempts EXCEPT ![r].step = "upload",
                                  ![r].todo = DOMAIN Assets(r),
                                  ![r].open = DOMAIN Assets(r) \ DOMAIN release]
  /\ UNCHANGED <<tag, release, receiver, incidents>>

(* --clobber deletes an asset that was there, and then uploads (bound:     *)
(* what was missing first, then one asset at a time, in any order).        *)
DeleteAsset(r) ==
  /\ attempts[r].step = "upload" /\ attempts[r].open = {} /\ Watched
  /\ \E n \in attempts[r].todo \cap DOMAIN release :
       /\ release' = Only(release, DOMAIN release \ {n})
       /\ attempts' = [attempts EXCEPT ![r].open = {n}]
  /\ UNCHANGED <<tag, receiver, incidents>>

UploadAsset(r) ==
  /\ attempts[r].step = "upload" /\ Watched
  /\ \E n \in attempts[r].open \ DOMAIN release :
       LET a == attempts[r] IN
       /\ release' = With(release, n, Assets(r)[n])
       /\ attempts' = [attempts EXCEPT ![r] =
                          IF a.todo = {n} THEN Stop(a, "done")
                          ELSE [a EXCEPT !.todo = a.todo \ {n}, !.open = a.open \ {n}]]
  /\ UNCHANGED <<tag, receiver, incidents>>

(* The other attempt has put an asset where there was none, or deleted one *)
(* that was there: refused.                                                *)
UploadConflict(r) ==
  /\ attempts[r].step = "upload"
  /\ \E n \in attempts[r].todo :
       (n \in attempts[r].open) = (n \in DOMAIN release)
  /\ attempts' = [attempts EXCEPT ![r] = Stop(attempts[r], "failed")]
  /\ UNCHANGED <<tag, release, receiver, incidents>>

-----------------------------------------------------------------------------
(* The receiver *)

(* The assets are downloaded into an empty directory.                      *)
Download ==
  /\ release # None /\ Watched
  /\ copy' = release /\ accepted' = None /\ sources' = sources \cup {"release"}
  /\ UNCHANGED <<tag, attempts, release, vendor, incidents>>

Unfinished(c) == vendor[c].items # {} /\ ~vendor[c].done

(* A developer hands over what the script packed on a workstation (bound:  *)
(* once, when the download could not be unpacked).                         *)
LocalPackage(c) ==
  /\ sources = {"release"} /\ Unfinished(c)
  /\ \E m \in Runners, allow_dirty \in BOOLEAN, mode \in {"strict", "skipped"} :
       /\ Packs(c, m, allow_dirty, mode)
       /\ copy' = Package(c, m, mode)
  /\ accepted' = None /\ sources' = sources \cup {"workstation"}
  /\ UNCHANGED <<tag, attempts, release, vendor, incidents>>

CheckAssets ==
  /\ copy # None /\ tag # None /\ accepted # tag
  /\ check_release_evidence_assets(copy, tag)
  /\ accepted' = tag
  /\ UNCHANGED <<tag, attempts, release, copy, vendor, sources, incidents>>

FaultyMayHandOff(d, c, items) == HandoffAllowed(d, c, c, TRUE, TRUE)
MayHandOff(d, c, items) ==
  /\ HandoffAllowed(d, c, c, TRUE, TRUE)
  /\ items = {}                       \* VENDOR_TARGET_EXISTS otherwise

(* The archives are unpacked in order, until one of them is refused.       *)
Handoff(c) ==
  /\ copy # None /\ MayHandOff(copy, c, vendor[c].items)
  /\ LET m == copy[Manifest]
         bad == {i \in DOMAIN KindSeq : ~Extracts(copy, m, i)}
         old == vendor[c].items
     IN  IF bad = {}
         THEN LET items == Overwrite(old, ItemsOf(copy, m))
                  done == validate_vendor_layout(items)
              IN  vendor' = [vendor EXCEPT ![c] =
                               [items |-> items, done |-> done,
                                from |-> IF done THEN copy ELSE None]]
         ELSE LET first == CHOOSE i \in bad : \A j \in bad : i <= j
                  n == ArchiveName(KindSeq[first], c)
                  written == UNION {Items(copy, m, i, copy[ArchiveName(KindSeq[i], c)].entries) :
                                      i \in 1..(first - 1)}
              IN  \E part \in SUBSET (IF n \in DOMAIN copy /\ copy[n] # Damaged
                                      THEN copy[n].entries \cap Boundary ELSE {}) :
                    vendor' = [vendor EXCEPT ![c] =
                                 [NoVendor EXCEPT !.items =
                                    Overwrite(old, written \cup Items(copy, m, first, part))]]
  /\ UNCHANGED <<tag, attempts, release, copy, accepted, sources, incidents>>

(* The receiver removes what a refused package has left.                   *)
ClearVendor(c) ==
  /\ Unfinished(c)
  /\ vendor' = [vendor EXCEPT ![c] = NoVendor]
  /\ UNCHANGED <<tag, attempts, release, copy, accepted, sources, incidents>>

RunnerStep(r) ==
  \/ \E m \in Runners : RunPackage(r, m)
  \/ RunPublish(r) \/ RunPublishBadly(r) \/ FailStep(r) \/ CreateRelease(r)
  \/ StartUpload(r) \/ DeleteAsset(r) \/ UploadAsset(r) \/ UploadConflict(r)

Next ==
  \/ \E c \in Commits : PushTag(c) \/ LocalPackage(c) \/ Handoff(c) \/ ClearVendor(c)
  \/ \E r \in DOMAIN attempts : Retry(r) \/ RetryPublish(r) \/ RunnerStep(r)
  \/ CreateEntry \/ Download \/ CheckAssets

Spec == Init /\ [][Next]_vars

-----------------------------------------------------------------------------
OfAttempt(d, c, r) ==
  /\ attempts[r].sha = c /\ attempts[r].out # None
  /\ \A n \in ArchiveNames(c) : n \in DOMAIN d /\ d[n] = attempts[r].out[n]

SafeToShip(d, c) ==
  \A n \in ArchiveNames(c) :
    /\ d[n].commit = c
    /\ d[n].entries \cap {"internal", "link", "cache", "secret", "edited"} = {}
    /\ {"required", "layout"} \subseteq d[n].entries

(* What an attempt begins to attach is the whole package its first job (or *)
(* that of the attempt it repeats) has made of the tag's commit: nothing   *)
(* lost or damaged in between, no path a consumer must not get, and no     *)
(* build output, secret or uncommitted change from the runner's checkout.  *)
AttachedIsVerified ==
  \A r \in DOMAIN attempts :
    LET a == attempts[r] IN
    a.step \in {"attach", "upload"} =>
      /\ a.got = a.out /\ SafeToShip(a.got, a.sha)
      /\ a.sha \in Supported /\ a.sha \in ClientOnly

(* A release the evidence check accepts holds the archives of one attempt  *)
(* for the tag's commit, although the tag may have moved, two attempts     *)
(* replace each other's assets one by one, and either may have stopped in  *)
(* the middle, or the download came while they were at it.                 *)
AcceptedIsWhole ==
  accepted # None =>
    /\ \E r \in DOMAIN attempts : OfAttempt(copy, accepted, r)
    /\ SafeToShip(copy, accepted)

(* A vendor directory the handoff has approved, with checksums and SBOM at *)
(* hand, holds exactly the files of the archives its manifest names, of a  *)
(* strictly verified clean package; nothing is left of a directory that an *)
(* earlier, refused package was partly unpacked into.                      *)
VendoredIsVerified ==
  \A c \in Commits :
    LET d == vendor[c].from IN
    vendor[c].done /\ {Sums, Sbom} \subseteq DOMAIN d =>
      /\ ~d[Manifest].dirty /\ d[Manifest].mode # "skipped"
      /\ \A n \in ArchiveNames(c) : d[Manifest].artifacts[n] = d[n]
      /\ vendor[c].items = ItemsOf(d, d[Manifest])
      /\ SafeToShip(d, c)
=============================================================================
