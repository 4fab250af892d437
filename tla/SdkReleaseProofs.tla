-------------------------- MODULE SdkReleaseProofs -------------------------
(***************************************************************************)
(* Theorems about SdkRelease, for any commits, kinds of artifacts, runners *)
(* and bounds.                                                             *)
(***************************************************************************)
EXTENDS SdkRelease, WellFoundedInduction, TLAPS

-----------------------------------------------------------------------------
(* The invariant.                                                          *)

(* What the package script makes of a clean checkout of a commit, and has  *)
(* checked.                                                                *)
PackModes == {"strict-upstream", "strict", "skipped"}
Packages == {Package(c, m, "strict-upstream") : c \in Commits, m \in Runners}
Checked(d, c) == validate_manifest(d, c, c, TRUE, TRUE)
Made(p, c) ==
  /\ \E m \in Runners : ~Dirty(m) /\ p = Package(c, m, "strict-upstream")
  /\ Checked(p, c)

(* The jobs: what the first one stored is a package of the commit, and     *)
(* what the second one goes on with is that package, which it has checked. *)
AttemptType ==
  [sha : Commits, step : Steps, out : Packages \cup {None},
   got : Packages \cup {None}, todo : SUBSET Names, open : SUBSET Names]

AssetNames(c) == ArchiveNames(c) \cup Metadata \cup {Evidence(c)}

Verified(a) ==
  /\ a.out # None /\ Made(a.out, a.sha) /\ SafeToShip(a.out, a.sha)
  /\ a.sha \in Supported /\ a.sha \in ClientOnly

AttemptOK(a) ==
  /\ a.todo \subseteq AssetNames(a.sha) /\ a.open \subseteq a.todo
  /\ a.step = "package" => a.out = None
  /\ a.step = "publish" => a.out # None
  /\ a.out # None => Made(a.out, a.sha)
  /\ a.step \in {"attach", "upload"} => a.got = a.out /\ Verified(a)

Jobs ==
  /\ attempts \in Seq(AttemptType) /\ Len(attempts) <= MaxAttempts
  /\ \A r \in DOMAIN attempts : AttemptOK(attempts[r])

(* A directory of assets: its archives are archives, and its manifest is   *)
(* the one of an attempt that was checked, or of a package that somebody   *)
(* made on a workstation, which has no evidence beside it.                 *)
ArchiveOK(n, x) ==
  n \in Names /\ \A c \in Commits : n \in ArchiveNames(c) => x \in Archive

OfVerified(x) ==
  \E r \in DOMAIN attempts :
    Verified(attempts[r]) /\ x = attempts[r].out[Manifest]
OfScript(x) ==
  \E c \in Commits, m \in Runners, mode \in PackModes :
    x = Package(c, m, mode)[Manifest]

Published(d) ==
  \A n \in DOMAIN d :
    ArchiveOK(n, d[n]) /\ (n = Manifest => OfVerified(d[n]))
ByHand(d) ==
  \A n \in DOMAIN d :
    /\ ArchiveOK(n, d[n]) /\ (n = Manifest => OfScript(d[n]))
    /\ \A c \in Commits : n # Evidence(c)

Uploading == \E r \in DOMAIN attempts : attempts[r].step = "upload"
ReleasePublished == release # None \/ Uploading => Published(release)

Directories ==
  /\ ReleasePublished
  /\ copy # None => Published(copy) \/ ByHand(copy)

Vendored ==
  /\ vendor = [c \in Commits |-> vendor[c]]
  /\ \A c \in Commits :
       /\ vendor[c].items \subseteq [kind : Kinds, entry : Entry, archive : Archive]
       /\ vendor[c].done \in BOOLEAN
       /\ (vendor[c].from # None) <=> vendor[c].done

ReleaseInv ==
  /\ tag \in Commits \cup {None} /\ accepted \in Commits \cup {None}
  /\ sources \subseteq {"release", "workstation"}
  /\ incidents \in 0..MaxIncidents
  /\ Jobs /\ Directories /\ AcceptedIsWhole /\ Vendored /\ VendoredIsVerified

-----------------------------------------------------------------------------
(* Names and directories.                                                  *)

(* The names of archives, of the files about them and of evidence differ.  *)
LEMMA NameFacts ==
  /\ Manifest # Sums /\ Manifest # Sbom /\ Sums # Sbom
  /\ \A c \in Commits : /\ ArchiveNames(c) \cap Metadata = {}
                        /\ Evidence(c) \notin Metadata
                        /\ Evidence(c) \in Names /\ ArchiveNames(c) \subseteq Names
  /\ \A c, d \in Commits : Evidence(d) \notin ArchiveNames(c)
  /\ Metadata \subseteq Names
  /\ \A c \in Commits, k \in Kinds :
       ArchiveName(k, c) \in ArchiveNames(c) /\ ArchiveName(k, c)[1] = k
  /\ \A c \in Commits : \A n \in ArchiveNames(c) :
       n[1] \in Kinds /\ n = ArchiveName(n[1], c)
<1>1. Manifest # Sums /\ Manifest # Sbom /\ Sums # Sbom
  BY DEF Manifest, Sums, Sbom
<1>2. ASSUME NEW c \in Commits
      PROVE  /\ ArchiveNames(c) \cap Metadata = {}
             /\ Evidence(c) \notin Metadata
             /\ Evidence(c) \in Names /\ ArchiveNames(c) \subseteq Names
  <2>1. \A k : ArchiveName(k, c) \notin Metadata
    BY NamesApart DEF ArchiveName, Metadata, Manifest, Sums, Sbom
  <2>2. Evidence(c) \notin Metadata
    BY NamesApart DEF Evidence, Metadata, Manifest, Sums, Sbom
  <2>3. QED
    BY <2>1, <2>2 DEF ArchiveNames, Names
<1>3. \A c, d \in Commits : Evidence(d) \notin ArchiveNames(c)
  BY NamesApart DEF Evidence, ArchiveNames, ArchiveName
<1>4. \A c \in Commits, k \in Kinds :
        ArchiveName(k, c) \in ArchiveNames(c) /\ ArchiveName(k, c)[1] = k
  BY DEF ArchiveNames, ArchiveName
<1>5. \A c \in Commits : \A n \in ArchiveNames(c) :
        n[1] \in Kinds /\ n = ArchiveName(n[1], c)
  BY DEF ArchiveNames, ArchiveName
<1>6. QED
  BY <1>1, <1>2, <1>3, <1>4, <1>5 DEF Names

(* A directory of archives with the three files about them beside it.      *)
LEMMA BuiltFacts ==
  ASSUME NEW c \in Commits, NEW f, NEW s, NEW u, NEW x,
         DOMAIN f = ArchiveNames(c),
         NEW p, p = With(With(With(f, Sbom, s), Sums, u), Manifest, x)
  PROVE  /\ DOMAIN p = ArchiveNames(c) \cup Metadata /\ p[Manifest] = x
         /\ \A n \in ArchiveNames(c) : p[n] = f[n]
<1>1. PICK p1 : p1 = With(f, Sbom, s)
  OBVIOUS
<1>2. PICK p2 : p2 = With(p1, Sums, u)
  OBVIOUS
<1>3. p = With(p2, Manifest, x)
  BY <1>1, <1>2
<1>4. \A n \in ArchiveNames(c) : n # Manifest /\ n # Sums /\ n # Sbom
  BY NameFacts DEF Metadata
<1>5. /\ DOMAIN p1 = ArchiveNames(c) \cup {Sbom}
      /\ \A n \in ArchiveNames(c) : p1[n] = f[n]
  BY <1>1, <1>4 DEF With
<1>6. /\ DOMAIN p2 = ArchiveNames(c) \cup {Sbom, Sums}
      /\ \A n \in ArchiveNames(c) : p2[n] = f[n]
  <2>1. DOMAIN p2 = DOMAIN p1 \cup {Sums}
    BY <1>2 DEF With
  <2>2. \A n \in DOMAIN p1 \ {Sums} : p2[n] = p1[n]
    BY <1>2 DEF With
  <2>3. QED
    BY <1>4, <1>5, <2>1, <2>2
<1>7. /\ DOMAIN p = ArchiveNames(c) \cup {Sbom, Sums, Manifest} /\ p[Manifest] = x
      /\ \A n \in ArchiveNames(c) : p[n] = f[n]
  <2>1. DOMAIN p = DOMAIN p2 \cup {Manifest} /\ p[Manifest] = x
    BY <1>3 DEF With
  <2>2. \A n \in DOMAIN p2 \ {Manifest} : p[n] = p2[n]
    BY <1>3 DEF With
  <2>3. QED
    BY <1>4, <1>6, <2>1, <2>2
<1>8. QED
  BY <1>7 DEF Metadata

(* What an archive of a checkout has (build_archive).                      *)
LEMMA ArchivesFacts ==
  ASSUME NEW c \in Commits, NEW m \in Runners
  PROVE  /\ DOMAIN Archives(c, m) = ArchiveNames(c)
         /\ \A n \in ArchiveNames(c) :
              /\ Archives(c, m)[n] \in Archive /\ Archives(c, m)[n].commit = c
              /\ Archives(c, m)[n].entries = Tree(c, m)[n[1]] \ {"excluded"}
<1>1. DOMAIN Archives(c, m) = ArchiveNames(c)
  BY DEF Archives
<1>2. ASSUME NEW n \in ArchiveNames(c)
      PROVE  /\ Archives(c, m)[n] \in Archive /\ Archives(c, m)[n].commit = c
             /\ Archives(c, m)[n].entries = Tree(c, m)[n[1]] \ {"excluded"}
  <2>1. n[1] \in Kinds
    BY NameFacts
  <2>2. Tree(c, m)[n[1]] \in SUBSET Entry
    <3>1. Tracked[c][n[1]] \in SUBSET Committed /\ m.local[n[1]] \in SUBSET Local
      BY <2>1, ReleaseConstants
    <3>2. QED
      BY <2>1, <3>1 DEF Tree, Entry
  <2>3. PICK k, T, E, t : /\ k = n[1] /\ T = Tree(c, m)[k] /\ E = T \ {"excluded"}
                          /\ t = IF k \in Generated THEN m.version ELSE None
    OBVIOUS
  <2>4. Archives(c, m)[n] = [commit |-> c, tool |-> t, entries |-> E]
    BY <1>2, <2>3 DEF Archives, build_archive
  <2>5. E \in SUBSET Entry /\ t \in {r.version : r \in Runners} \cup {None}
    BY <2>2, <2>3
  <2>6. QED
    BY <2>3, <2>4, <2>5 DEF Archive
<1>3. QED
  BY <1>1, <1>2

(* What is in a package: the archives of the commit as the checkout had    *)
(* them, and three files about them (build_archive, build_metadata).       *)
Contents(p, c, m, mode) ==
  /\ DOMAIN p = ArchiveNames(c) \cup Metadata
  /\ p[Manifest].commit = c /\ p[Manifest].dirty = Dirty(m)
  /\ p[Manifest].mode = mode
  /\ DOMAIN p[Manifest].artifacts = ArchiveNames(c)
  /\ \A n \in ArchiveNames(c) :
       /\ p[Manifest].artifacts[n] = p[n] /\ p[n] \in Archive
       /\ p[n].commit = c
       /\ p[n].entries = Tree(c, m)[n[1]] \ {"excluded"}

LEMMA PackageFacts ==
  ASSUME NEW c \in Commits, NEW m \in Runners, NEW mode \in PackModes,
         NEW p, p = Package(c, m, mode)
  PROVE  Contents(p, c, m, mode)
<1>1. PICK f : f = Only(Archives(c, m), ArchiveNames(c))
  OBVIOUS
<1>2. DOMAIN f = ArchiveNames(c)
  BY <1>1, ArchivesFacts DEF Only
<1>3. \A n \in ArchiveNames(c) : f[n] = Archives(c, m)[n]
  BY <1>1, ArchivesFacts DEF Only
<1>4. PICK s, u, q : /\ s = build_sbom(c, f)
                     /\ u = [n \in DOMAIN f \cup {Sbom} |->
                               sha256_file(IF n = Sbom THEN s ELSE f[n])]
                     /\ q = [n \in DOMAIN f |-> sha256_file(f[n])]
  OBVIOUS
<1>5. PICK x : x = [commit |-> c, dirty |-> Dirty(m), mode |-> mode,
                    version_matrix |-> c, sdk_versions |-> c,
                    sbom |-> sha256_file(s), artifacts |-> q]
  OBVIOUS
<1>6. /\ x.commit = c /\ x.dirty = Dirty(m) /\ x.mode = mode
      /\ x.artifacts = q
  BY <1>5
<1>7. DOMAIN q = ArchiveNames(c) /\ \A n \in ArchiveNames(c) : q[n] = f[n]
  BY <1>2, <1>4 DEF sha256_file
<1>8. p = With(With(With(f, Sbom, s), Sums, u), Manifest, x)
  BY <1>1, <1>4, <1>5 DEF Package, build_metadata
<1>9. /\ DOMAIN p = ArchiveNames(c) \cup Metadata /\ p[Manifest] = x
       /\ \A n \in ArchiveNames(c) : p[n] = f[n]
  BY <1>2, <1>8, BuiltFacts
<1>10. QED
  BY <1>3, <1>6, <1>7, <1>9, ArchivesFacts DEF Contents

-----------------------------------------------------------------------------
(* What the checks find.                                                   *)

(* What the package check finds of a directory (validate_manifest).        *)
LEMMA ManifestFacts ==
  ASSUME NEW d, NEW c, Checked(d, c)
  PROVE  /\ Manifest \in DOMAIN d /\ d[Manifest] # Damaged
         /\ d[Manifest].commit = c
         /\ ~d[Manifest].dirty
         /\ d[Manifest].mode \in {"strict", "strict-upstream"}
         /\ DOMAIN d[Manifest].artifacts = ArchiveNames(c)
         /\ \A n \in ArchiveNames(c) :
              /\ n \in DOMAIN d /\ d[Manifest].artifacts[n] = d[n]
              /\ d[n] # Damaged
              /\ {"link", "cache", "secret"} \cap d[n].entries = {}
              /\ "required" \in d[n].entries
         /\ Sums \in DOMAIN d
         /\ d[Sums] = With(d[Manifest].artifacts, Sbom, d[Manifest].sbom)
         /\ Sbom \in DOMAIN d /\ d[Sbom] # Damaged
BY DEF Checked, validate_manifest, Readable, ArtifactMatches, validate_archive,
       validate_sums, validate_sbom, sha256_file

(* A checkout without changes has none in its archives (git status).       *)
LEMMA CleanFacts ==
  ASSUME NEW c \in Commits, NEW m \in Runners, ~Dirty(m), NEW k \in Kinds
  PROVE  "edited" \notin Tree(c, m)[k]
<1>1. "edited" \notin m.local[k]
  BY DEF Dirty
<1>2. Tracked[c][k] \in SUBSET Committed
  BY ReleaseConstants
<1>3. Tree(c, m)[k] = Tracked[c][k] \cup m.local[k]
  BY DEF Tree
<1>4. QED
  BY <1>1, <1>2, <1>3 DEF Committed

(* Archives as the manifest names them, without uncommitted changes.       *)
CleanArchives(p, c) ==
  \A n \in ArchiveNames(c) :
    /\ p[Manifest].artifacts[n] = p[n]
    /\ p[n] \in Archive /\ p[n].commit = c
    /\ "edited" \notin p[n].entries

(* What an attempt's first job has stored.                                 *)
LEMMA MadeFacts ==
  ASSUME NEW c \in Commits, NEW p, Made(p, c)
  PROVE  /\ p \in Packages /\ DOMAIN p = ArchiveNames(c) \cup Metadata
         /\ p = [n \in DOMAIN p |-> p[n]]
         /\ p[Manifest].commit = c
         /\ \E m \in Runners : p[Manifest] = Package(c, m, "strict-upstream")[Manifest]
         /\ CleanArchives(p, c)
<1>1. PICK m \in Runners : ~Dirty(m) /\ p = Package(c, m, "strict-upstream")
  BY DEF Made
<1>2. p \in Packages
  BY <1>1 DEF Packages
<1>3. /\ DOMAIN p = ArchiveNames(c) \cup Metadata /\ p[Manifest].commit = c
      /\ \A n \in ArchiveNames(c) :
           /\ p[Manifest].artifacts[n] = p[n]
           /\ p[n] \in Archive /\ p[n].commit = c
           /\ p[n].entries = Tree(c, m)[n[1]] \ {"excluded"}
  <2>1. PICK mode \in PackModes : mode = "strict-upstream"
    BY DEF PackModes
  <2>2. p = Package(c, m, mode)
    BY <1>1, <2>1
  <2>3. Contents(p, c, m, mode)
    BY <2>2, PackageFacts
  <2>4. QED
    BY <2>3 DEF Contents
<1>4. p = [n \in DOMAIN p |-> p[n]]
  BY <1>1 DEF Package, build_metadata, With
<1>5. \A n \in ArchiveNames(c) : "edited" \notin p[n].entries
  BY <1>1, <1>3, NameFacts, CleanFacts
<1>6. CleanArchives(p, c)
  BY <1>3, <1>5 DEF CleanArchives
<1>7. QED
  BY <1>1, <1>2, <1>3, <1>4, <1>6

(* Every file of a package is checked: one that is missing or damaged is   *)
(* found out, so that what passes is what was stored.                      *)
LEMMA NothingLost ==
  ASSUME NEW c \in Commits, NEW p, Made(p, c), NEW got \in {p} \cup Worse(p),
         Checked(got, c)
  PROVE  got = p
<1>1. /\ DOMAIN p = ArchiveNames(c) \cup {Manifest, Sums, Sbom}
      /\ p = [n \in DOMAIN p |-> p[n]]
  BY MadeFacts DEF Metadata
<1>2. DOMAIN p \subseteq DOMAIN got
  BY <1>1, ManifestFacts
<1>3. ASSUME NEW n \in DOMAIN p, got = Only(p, DOMAIN p \ {n})
      PROVE  FALSE
  BY <1>2, <1>3 DEF Only
<1>4. ASSUME NEW n \in DOMAIN p, got = With(p, n, Damaged)
      PROVE  got = p
  <2>1. /\ got[n] = Damaged /\ DOMAIN got = DOMAIN p
        /\ \A k \in DOMAIN p : k # n => got[k] = p[k]
    BY <1>4 DEF With
  <2>2. n = Sums
    BY <1>1, <2>1, ManifestFacts
  <2>3. got[Manifest] = p[Manifest]
    BY <1>1, <2>1, <2>2, NameFacts
  <2>4. got[Sums] = p[Sums]
    BY <2>3, ManifestFacts DEF Made
  <2>5. \A k \in DOMAIN p : got[k] = p[k]
    BY <2>1, <2>2, <2>4
  <2>6. got = [k \in DOMAIN got |-> got[k]]
    BY <1>4 DEF With
  <2>7. QED
    BY <1>1, <2>1, <2>5, <2>6
<1>5. QED
  BY <1>3, <1>4 DEF Worse

(* What the second job may attach: the package itself, fit to ship.        *)
LEMMA PublishedSound ==
  ASSUME NEW c \in Commits, NEW p, Made(p, c), NEW got \in {p} \cup Worse(p),
         PublishChecks(got, c)
  PROVE  /\ got = p /\ SafeToShip(p, c) /\ c \in Supported /\ c \in ClientOnly
         /\ p \in Packages
<1>1. got = p
  <2>1. Checked(got, c)
    BY DEF PublishChecks, Checked
  <2>2. QED
    BY <2>1, NothingLost
<1>2. \A n \in ArchiveNames(c) : p[n].commit = c /\ "edited" \notin p[n].entries
  <2>1. CleanArchives(p, c)
    BY MadeFacts
  <2>2. QED
    BY <2>1 DEF CleanArchives
<1>3. p[Manifest].commit = c
  BY MadeFacts
<1>4. c \in Supported /\ c \in ClientOnly
  BY <1>1, <1>3 DEF PublishChecks, check_sdk_compatibility_matrix,
     check_external_release_consumer_smoke, validate_rust_workspace
<1>5. ASSUME NEW n \in ArchiveNames(c)
      PROVE  /\ p[n].commit = c
             /\ p[n].entries \cap {"internal", "link", "cache", "secret", "edited"} = {}
             /\ {"required", "layout"} \subseteq p[n].entries
  <2>1. p[n].commit = c /\ "edited" \notin p[n].entries
    BY <1>2
  <2>2. {"link", "cache", "secret"} \cap p[n].entries = {}
    BY ManifestFacts DEF Made
  <2>3. {"required", "layout"} \subseteq p[n].entries
    BY <1>1 DEF PublishChecks, check_external_release_consumer_smoke,
       check_external_consumer_templates, ConsumerInputs
  <2>4. p[n].entries \subseteq Boundary
    <3>1. n[1] \in Kinds /\ n = ArchiveName(n[1], c)
      BY NameFacts
    <3>2. PICK i \in DOMAIN KindSeq : KindSeq[i] = n[1]
      BY <3>1 DEF Kinds
    <3>3. Extracts(p, p[Manifest], i)
      BY <1>1 DEF PublishChecks, CompleteHandoff
    <3>4. QED
      BY <1>3, <3>1, <3>2, <3>3 DEF Extracts
  <2>5. QED
    BY <2>1, <2>2, <2>3, <2>4 DEF Boundary
<1>6. SafeToShip(p, c)
  BY <1>5 DEF SafeToShip
<1>7. QED
  BY <1>1, <1>4, <1>6, MadeFacts

-----------------------------------------------------------------------------
(* The jobs.                                                               *)

(* No step changes what an attempt is for, or what its first job stored;   *)
(* uploads begin when there is a release.                                  *)
Keeps ==
  \A r \in DOMAIN attempts :
    /\ r \in DOMAIN attempts' /\ attempts'[r].sha = attempts[r].sha
    /\ attempts[r].out # None => attempts'[r].out = attempts[r].out
Attaches == Uploading' => Uploading \/ release # None

(* What rests on an attempt that was checked goes on doing so.             *)
LEMMA VerifiedStays ==
  ASSUME Keeps
  PROVE  /\ \A x : OfVerified(x) => OfVerified(x)'
         /\ \A d : Published(d) => Published(d)'
         /\ \A d, c, r : r \in DOMAIN attempts /\ OfAttempt(d, c, r) =>
              r \in DOMAIN attempts' /\ OfAttempt(d, c, r)'
<1>1. ASSUME NEW x, OfVerified(x)
      PROVE  OfVerified(x)'
  <2>1. PICK r \in DOMAIN attempts :
          Verified(attempts[r]) /\ x = attempts[r].out[Manifest]
    BY <1>1 DEF OfVerified
  <2>2. /\ r \in DOMAIN attempts' /\ attempts'[r].out = attempts[r].out
        /\ attempts'[r].sha = attempts[r].sha
    BY <2>1 DEF Keeps, Verified
  <2>3. Verified(attempts'[r])
    BY <2>1, <2>2 DEF Verified
  <2>4. QED
    BY <2>1, <2>2, <2>3 DEF OfVerified
<1>2. ASSUME NEW d, Published(d)
      PROVE  Published(d)'
  BY <1>1, <1>2 DEF Published
<1>3. ASSUME NEW d, NEW c, NEW r \in DOMAIN attempts, OfAttempt(d, c, r)
      PROVE  r \in DOMAIN attempts' /\ OfAttempt(d, c, r)'
  BY <1>3 DEF Keeps, OfAttempt
<1>4. QED
  BY <1>1, <1>2, <1>3

LEMMA DirectoriesStay ==
  ASSUME Keeps, Directories, copy' = copy,
         (release' = release /\ Attaches) \/ Published(release)'
  PROVE  Directories'
<1>1. ReleasePublished'
  BY VerifiedStays DEF Directories, ReleasePublished, Attaches
<1>2. copy # None => Published(copy)' \/ ByHand(copy)'
  BY VerifiedStays DEF Directories, ByHand, OfScript
<1>3. QED
  BY <1>1, <1>2 DEF Directories

LEMMA AcceptedStays ==
  ASSUME Keeps, AcceptedIsWhole, UNCHANGED <<copy, accepted>>
  PROVE  AcceptedIsWhole'
BY VerifiedStays DEF AcceptedIsWhole

(* One attempt goes on; another is added.                                  *)
LEMMA JobsAfter ==
  ASSUME Jobs, NEW r \in DOMAIN attempts, NEW a \in AttemptType, AttemptOK(a),
         a.sha = attempts[r].sha,
         attempts[r].out # None => a.out = attempts[r].out,
         a.step = "upload" => attempts[r].step = "upload" \/ release # None,
         attempts' = [attempts EXCEPT ![r] = a]
  PROVE  Jobs' /\ Keeps /\ Attaches
<1>1. attempts \in Seq(AttemptType) /\ Len(attempts) <= MaxAttempts
  BY DEF Jobs
<1>2. attempts' \in Seq(AttemptType) /\ Len(attempts') = Len(attempts)
  BY <1>1
<1>3. /\ DOMAIN attempts' = DOMAIN attempts /\ attempts'[r] = a
      /\ \A q \in DOMAIN attempts : q # r => attempts'[q] = attempts[q]
  BY <1>1
<1>4. \A q \in DOMAIN attempts' : AttemptOK(attempts'[q])
  BY <1>3 DEF Jobs
<1>5. QED
  BY <1>1, <1>2, <1>3, <1>4 DEF Jobs, Keeps, Attaches, Uploading

LEMMA JobsAppended ==
  ASSUME Jobs, NEW a \in AttemptType, AttemptOK(a), a.step # "upload",
         Len(attempts) < MaxAttempts,
         attempts' = Append(attempts, a)
  PROVE  Jobs' /\ Keeps /\ Attaches
<1>1. attempts \in Seq(AttemptType) /\ MaxAttempts \in Nat
  BY ReleaseConstants DEF Jobs
<1>2. attempts' \in Seq(AttemptType) /\ Len(attempts') = Len(attempts) + 1
  BY <1>1
<1>3. /\ DOMAIN attempts' = DOMAIN attempts \cup {Len(attempts) + 1}
      /\ attempts'[Len(attempts) + 1] = a
      /\ \A q \in DOMAIN attempts : attempts'[q] = attempts[q]
  BY <1>1
<1>4. \A q \in DOMAIN attempts' : AttemptOK(attempts'[q])
  BY <1>3 DEF Jobs
<1>5. QED
  BY <1>1, <1>2, <1>3, <1>4 DEF Jobs, Keeps, Attaches, Uploading

LEMMA StopFacts ==
  ASSUME NEW a \in AttemptType, AttemptOK(a), NEW step \in {"done", "failed"}
  PROVE  /\ Stop(a, step) \in AttemptType /\ AttemptOK(Stop(a, step))
         /\ Stop(a, step).sha = a.sha /\ Stop(a, step).out = a.out
         /\ Stop(a, step).step # "upload"
<1>1. PICK b : b = Stop(a, step)
  OBVIOUS
<1>2. /\ b.sha = a.sha /\ b.out = a.out /\ b.got = None /\ b.step = step
      /\ b.todo = {} /\ b.open = {}
  BY <1>1 DEF Stop, AttemptType
<1>3. b \in AttemptType
  BY <1>1 DEF Stop, AttemptType, Steps
<1>4. AttemptOK(b)
  BY <1>2 DEF AttemptOK
<1>5. QED
  BY <1>1, <1>2, <1>3, <1>4

(* Every attempt is one that the jobs can have left so.                    *)
LEMMA AttemptFacts ==
  ASSUME Jobs, NEW r \in DOMAIN attempts
  PROVE  attempts[r] \in AttemptType /\ AttemptOK(attempts[r])
<1>1. attempts[r] \in AttemptType
  BY DEF Jobs
<1>2. QED
  BY <1>1 DEF Jobs

LEMMA StopStep ==
  ASSUME Jobs, NEW r \in DOMAIN attempts, NEW step \in {"done", "failed"},
         attempts' = [attempts EXCEPT ![r] = Stop(attempts[r], step)]
  PROVE  Jobs' /\ Keeps /\ Attaches
<1>1. PICK a : a = Stop(attempts[r], step)
  OBVIOUS
<1>2. attempts[r] \in AttemptType /\ AttemptOK(attempts[r])
  BY AttemptFacts
<1>3. /\ a \in AttemptType /\ AttemptOK(a) /\ a.sha = attempts[r].sha
      /\ a.out = attempts[r].out /\ a.step # "upload"
  BY <1>1, <1>2, StopFacts
<1>4. QED
  BY <1>1, <1>3, JobsAfter

(* A new attempt begins without a package, or with one that is stored.     *)
LEMMA StartStep ==
  ASSUME Jobs, Len(attempts) < MaxAttempts, NEW c \in Commits,
         attempts' = Append(attempts, Attempt(c))
  PROVE  Jobs' /\ Keeps /\ Attaches
<1>1. PICK a : a = Attempt(c)
  OBVIOUS
<1>2. /\ a.sha = c /\ a.step = "package" /\ a.out = None /\ a.todo = {}
      /\ a.open = {} /\ a \in AttemptType
  BY <1>1 DEF Attempt, AttemptType, Steps
<1>3. AttemptOK(a)
  BY <1>2 DEF AttemptOK
<1>4. QED
  BY <1>1, <1>2, <1>3, JobsAppended

LEMMA RetryPublishStep ==
  ASSUME Jobs, NEW r \in DOMAIN attempts, RetryPublish(r)
  PROVE  Jobs' /\ Keeps /\ Attaches
<1>1. PICK b : b = attempts[r]
  OBVIOUS
<1>2. b \in AttemptType /\ AttemptOK(b) /\ b.out # None
  BY <1>1, AttemptFacts DEF RetryPublish
<1>3. PICK a : a = [Attempt(b.sha) EXCEPT !.step = "publish", !.out = b.out]
  OBVIOUS
<1>4. a = [sha |-> b.sha, step |-> "publish", out |-> b.out, got |-> None,
           todo |-> {}, open |-> {}]
  BY <1>3 DEF Attempt
<1>5. a \in AttemptType
  BY <1>2, <1>4 DEF AttemptType, Steps
<1>6. AttemptOK(a)
  BY <1>2, <1>4 DEF AttemptOK
<1>7. QED
  BY <1>1, <1>3, <1>4, <1>5, <1>6, JobsAppended DEF RetryPublish

(* The first job stores a package only after the package check, with the   *)
(* commit required clean (package_client_sdks.sh).                         *)
LEMMA RunPackageStep ==
  ASSUME Jobs, NEW r \in DOMAIN attempts, NEW m \in Runners, RunPackage(r, m)
  PROVE  Jobs' /\ Keeps /\ Attaches
<1>1. PICK b : b = attempts[r]
  OBVIOUS
<1>2. b \in AttemptType /\ AttemptOK(b) /\ b.step = "package" /\ b.sha \in Commits
  BY <1>1, AttemptFacts DEF RunPackage, AttemptType
<1>3. PICK out : out = Package(b.sha, m, "strict-upstream")
  OBVIOUS
<1>4. CASE attempts' = [attempts EXCEPT ![r] = Stop(attempts[r], "failed")]
  BY <1>4, StopStep
<1>5. CASE /\ Packs(b.sha, m, FALSE, "strict-upstream")
           /\ attempts' = [attempts EXCEPT ![r] =
                             [attempts[r] EXCEPT !.out = out, !.step = "publish"]]
  <2>1. ~Dirty(m)
    BY <1>5 DEF Packs
  <2>2. Checked(out, b.sha)
    BY <1>3, <1>5, <2>1 DEF Packs, Checked
  <2>3. Made(out, b.sha) /\ out \in Packages /\ out # None
    BY <1>2, <1>3, <2>1, <2>2, PackageIsThere DEF Made, Packages
  <2>4. PICK a : a = [b EXCEPT !.out = out, !.step = "publish"]
    OBVIOUS
  <2>5. /\ a \in AttemptType /\ a.sha = b.sha /\ a.out = out /\ a.step = "publish"
        /\ a.todo = b.todo /\ a.open = b.open
    BY <1>2, <2>3, <2>4 DEF AttemptType, Steps
  <2>6. AttemptOK(a)
    BY <1>2, <2>3, <2>5 DEF AttemptOK
  <2>7. attempts' = [attempts EXCEPT ![r] = a]
    BY <1>1, <1>5, <2>4
  <2>8. attempts[r].out = None
    BY <1>1, <1>2 DEF AttemptOK
  <2>9. QED
    BY <1>1, <2>5, <2>6, <2>7, <2>8, JobsAfter
<1>6. QED
  BY <1>1, <1>3, <1>4, <1>5 DEF RunPackage

(* The second job goes on with what it has checked again.                  *)
LEMMA PublishStep ==
  ASSUME Jobs, NEW r \in DOMAIN attempts,
         NEW got \in {attempts[r].out} \cup Worse(attempts[r].out), Publish(r, got)
  PROVE  Jobs' /\ Keeps /\ Attaches
<1>1. PICK b : b = attempts[r]
  OBVIOUS
<1>2. b \in AttemptType /\ AttemptOK(b) /\ b.step = "publish" /\ b.sha \in Commits
  BY <1>1, AttemptFacts DEF Publish, AttemptType
<1>3. b.out # None /\ Made(b.out, b.sha)
  BY <1>2 DEF AttemptOK
<1>4. CASE attempts' = [attempts EXCEPT ![r] = Stop(attempts[r], "failed")]
  BY <1>4, StopStep
<1>5. CASE /\ PublishChecks(got, b.sha)
           /\ attempts' = [attempts EXCEPT ![r] =
                             [attempts[r] EXCEPT !.got = got, !.step = "attach"]]
  <2>1. PICK p : p = b.out
    OBVIOUS
  <2>2. /\ got = p /\ SafeToShip(p, b.sha) /\ b.sha \in Supported
        /\ b.sha \in ClientOnly /\ p \in Packages
    BY <1>1, <1>2, <1>3, <1>5, <2>1, PublishedSound
  <2>3. PICK a : a = [b EXCEPT !.got = got, !.step = "attach"]
    OBVIOUS
  <2>4. /\ a \in AttemptType /\ a.sha = b.sha /\ a.out = p /\ a.got = p
        /\ a.step = "attach" /\ a.todo = b.todo /\ a.open = b.open
    BY <1>2, <2>1, <2>2, <2>3 DEF AttemptType, Steps
  <2>5. AttemptOK(a)
    BY <1>2, <1>3, <2>1, <2>2, <2>4 DEF AttemptOK, Verified
  <2>6. attempts' = [attempts EXCEPT ![r] = a]
    BY <1>1, <1>5, <2>3
  <2>7. QED
    BY <1>1, <2>1, <2>4, <2>5, <2>6, JobsAfter
<1>6. QED
  BY <1>1, <1>4, <1>5 DEF Publish

-----------------------------------------------------------------------------
(* The release.                                                            *)

(* What an attempt attaches is the package and its evidence.               *)
LEMMA AssetFacts ==
  ASSUME Jobs, NEW r \in DOMAIN attempts, attempts[r].step \in {"attach", "upload"}
  PROVE  /\ DOMAIN Assets(r) = AssetNames(attempts[r].sha)
         /\ Published(Assets(r))
<1>1. PICK b : b = attempts[r]
  OBVIOUS
<1>2. PICK p, c : p = b.out /\ c = b.sha
  OBVIOUS
<1>3. b \in AttemptType /\ AttemptOK(b) /\ c \in Commits
  BY <1>1, <1>2, AttemptFacts DEF AttemptType
<1>4. b.got = p /\ Verified(b) /\ Made(p, c)
  BY <1>1, <1>2, <1>3 DEF AttemptOK, Verified
<1>5. PICK d : d = Assets(r)
  OBVIOUS
<1>6. d = With(p, Evidence(c), evidence(r))
  BY <1>1, <1>2, <1>4, <1>5 DEF Assets
<1>7. DOMAIN p = ArchiveNames(c) \cup Metadata /\ CleanArchives(p, c)
  BY <1>3, <1>4, MadeFacts
<1>8. DOMAIN d = AssetNames(c)
  BY <1>6, <1>7 DEF With, AssetNames
<1>9. Evidence(c) \notin ArchiveNames(c) /\ Evidence(c) \notin Metadata
  BY <1>3, NameFacts
<1>10. \A n \in ArchiveNames(c) \cup Metadata : d[n] = p[n]
  BY <1>6, <1>7, <1>9 DEF With
<1>11. ASSUME NEW n \in DOMAIN d
       PROVE  ArchiveOK(n, d[n])
  <2>1. n \in Names
    BY <1>3, <1>8, NameFacts DEF AssetNames
  <2>2. ASSUME NEW k \in Commits, n \in ArchiveNames(k)
        PROVE  d[n] \in Archive
    <3>1. n \in ArchiveNames(c)
      BY <1>3, <1>8, <2>2, NameFacts DEF AssetNames
    <3>2. QED
      BY <1>7, <1>10, <3>1 DEF CleanArchives
  <2>3. QED
    BY <2>1, <2>2 DEF ArchiveOK
<1>12. OfVerified(d[Manifest])
  <2>1. d[Manifest] = p[Manifest]
    BY <1>10 DEF Metadata
  <2>2. QED
    BY <1>1, <1>2, <1>4, <2>1 DEF OfVerified
<1>13. QED
  BY <1>1, <1>2, <1>5, <1>8, <1>11, <1>12 DEF Published

(* Putting one asset of a verified package into the release, and taking    *)
(* one out, leave every manifest there one of a verified package.          *)
LEMMA PublishedWith ==
  ASSUME NEW d, Published(d), NEW e, Published(e), NEW n \in DOMAIN e,
         NEW f, f = With(d, n, e[n])
  PROVE  Published(f)
<1>1. DOMAIN f = DOMAIN d \cup {n} /\ f[n] = e[n]
  BY DEF With
<1>2. \A k \in DOMAIN d : k # n => f[k] = d[k]
  BY DEF With
<1>3. QED
  BY <1>1, <1>2 DEF Published

LEMMA PublishedOnly ==
  ASSUME NEW d, Published(d), NEW S, NEW f, f = Only(d, S)
  PROVE  Published(f)
<1>1. DOMAIN f \subseteq DOMAIN d /\ \A k \in DOMAIN f : f[k] = d[k]
  BY DEF Only
<1>2. QED
  BY <1>1 DEF Published

(* CreateRelease, UploadAsset, DeleteAsset: of the steps of a job these    *)
(* are the ones that touch the release.                                    *)
LEMMA CreateReleaseStep ==
  ASSUME Jobs, NEW r \in DOMAIN attempts, CreateRelease(r)
  PROVE  Jobs' /\ Keeps /\ Published(release')
<1>1. Jobs' /\ Keeps
  BY StopStep DEF CreateRelease
<1>2. Published(release')
  BY AssetFacts DEF CreateRelease
<1>3. QED
  BY <1>1, <1>2

LEMMA StartUploadStep ==
  ASSUME Jobs, NEW r \in DOMAIN attempts, StartUpload(r)
  PROVE  Jobs' /\ Keeps /\ Attaches
<1>1. PICK b : b = attempts[r]
  OBVIOUS
<1>2. b \in AttemptType /\ AttemptOK(b) /\ b.step = "attach"
  BY <1>1, AttemptFacts DEF StartUpload
<1>3. PICK T, O : T = DOMAIN Assets(r) /\ O = T \ DOMAIN release
  OBVIOUS
<1>4. T = AssetNames(b.sha) /\ b.sha \in Commits
  BY <1>1, <1>2, <1>3, AssetFacts DEF AttemptType
<1>5. T \subseteq Names
  BY <1>4, NameFacts DEF AssetNames
<1>6. PICK a : a = [b EXCEPT !.step = "upload", !.todo = T, !.open = O]
  OBVIOUS
<1>7. /\ a \in AttemptType /\ a.sha = b.sha /\ a.out = b.out /\ a.got = b.got
      /\ a.step = "upload" /\ a.todo = T /\ a.open = O
  BY <1>2, <1>3, <1>5, <1>6 DEF AttemptType, Steps
<1>8. AttemptOK(a)
  BY <1>2, <1>3, <1>4, <1>7 DEF AttemptOK, Verified
<1>9. attempts' = [attempts EXCEPT ![r] = a]
  <2>1. attempts' = [attempts EXCEPT ![r].step = "upload", ![r].todo = T, ![r].open = O]
    BY <1>3 DEF StartUpload
  <2>2. attempts \in Seq(AttemptType)
    BY DEF Jobs
  <2>3. QED
    BY <1>1, <1>2, <1>6, <2>1, <2>2 DEF AttemptType
<1>10. QED
  BY <1>1, <1>7, <1>8, <1>9, JobsAfter DEF StartUpload

LEMMA DeleteAssetStep ==
  ASSUME Jobs, NEW r \in DOMAIN attempts, ReleasePublished, DeleteAsset(r)
  PROVE  Jobs' /\ Keeps /\ Published(release')
<1>1. PICK n : /\ n \in attempts[r].todo \cap DOMAIN release
               /\ release' = Only(release, DOMAIN release \ {n})
               /\ attempts' = [attempts EXCEPT ![r].open = {n}]
  BY DEF DeleteAsset
<1>2. PICK b : b = attempts[r]
  OBVIOUS
<1>3. b \in AttemptType /\ AttemptOK(b)
  BY <1>2, AttemptFacts
<1>4. PICK a : a = [b EXCEPT !.open = {n}]
  OBVIOUS
<1>5. /\ a \in AttemptType /\ a.sha = b.sha /\ a.out = b.out /\ a.got = b.got
      /\ a.step = b.step /\ a.todo = b.todo /\ a.open = {n}
  BY <1>1, <1>2, <1>3, <1>4 DEF AttemptType
<1>6. AttemptOK(a)
  BY <1>1, <1>2, <1>3, <1>5 DEF AttemptOK, Verified
<1>7. attempts' = [attempts EXCEPT ![r] = a]
  BY <1>1, <1>2, <1>4
<1>8. Jobs' /\ Keeps
  BY <1>2, <1>5, <1>6, <1>7, JobsAfter
<1>9. Published(release')
  BY <1>1, PublishedOnly DEF ReleasePublished, Uploading, DeleteAsset
<1>10. QED
  BY <1>8, <1>9

LEMMA UploadAssetStep ==
  ASSUME Jobs, NEW r \in DOMAIN attempts, ReleasePublished, UploadAsset(r)
  PROVE  Jobs' /\ Keeps /\ Published(release')
<1>1. PICK b : b = attempts[r]
  OBVIOUS
<1>2. PICK n \in b.open \ DOMAIN release :
        /\ release' = With(release, n, Assets(r)[n])
        /\ attempts' = [attempts EXCEPT ![r] =
                          IF b.todo = {n} THEN Stop(b, "done")
                          ELSE [b EXCEPT !.todo = b.todo \ {n}, !.open = b.open \ {n}]]
  BY <1>1 DEF UploadAsset
<1>3. b \in AttemptType /\ AttemptOK(b) /\ b.step = "upload"
  BY <1>1, AttemptFacts DEF UploadAsset
<1>4. Jobs' /\ Keeps
  <2>1. CASE attempts' = [attempts EXCEPT ![r] = Stop(b, "done")]
    BY <1>1, <2>1, StopStep
  <2>2. CASE attempts' = [attempts EXCEPT ![r] =
                            [b EXCEPT !.todo = b.todo \ {n}, !.open = b.open \ {n}]]
    <3>1. PICK a : a = [b EXCEPT !.todo = b.todo \ {n}, !.open = b.open \ {n}]
      OBVIOUS
    <3>2. /\ a \in AttemptType /\ a.sha = b.sha /\ a.out = b.out /\ a.got = b.got
          /\ a.step = b.step /\ a.todo = b.todo \ {n} /\ a.open = b.open \ {n}
      BY <1>3, <3>1 DEF AttemptType
    <3>3. AttemptOK(a)
      BY <1>3, <3>2 DEF AttemptOK, Verified
    <3>4. QED
      BY <1>1, <2>2, <3>1, <3>2, <3>3, JobsAfter
  <2>3. QED
    BY <1>2, <2>1, <2>2
<1>5. Published(release')
  <2>1. PICK e : e = Assets(r)
    OBVIOUS
  <2>2. Published(e) /\ DOMAIN e = AssetNames(b.sha)
    BY <1>1, <1>3, <2>1, AssetFacts
  <2>3. n \in DOMAIN e
    BY <1>2, <1>3, <2>2 DEF AttemptOK
  <2>4. Published(release)
    BY <1>1, <1>3 DEF ReleasePublished, Uploading
  <2>5. QED
    BY <1>2, <2>1, <2>2, <2>3, <2>4, PublishedWith
<1>6. QED
  BY <1>4, <1>5

-----------------------------------------------------------------------------
(* The receiver.                                                           *)

(* The manifest of a directory that passes the package check is that of a  *)
(* clean package, whose archives are the ones in the directory.            *)
LEMMA SourceFacts ==
  ASSUME NEW c \in Commits, NEW d, Checked(d, c),
         NEW k \in Commits, NEW m \in Runners, NEW mode \in PackModes,
         d[Manifest] = Package(k, m, mode)[Manifest]
  PROVE  \A n \in ArchiveNames(c) : d[n].commit = c /\ "edited" \notin d[n].entries
<1>1. PICK p : p = Package(k, m, mode)
  OBVIOUS
<1>2. /\ p[Manifest].commit = k /\ p[Manifest].dirty = Dirty(m)
      /\ \A n \in ArchiveNames(k) :
           /\ p[Manifest].artifacts[n] = p[n] /\ p[n].commit = k
           /\ p[n].entries = Tree(k, m)[n[1]] \ {"excluded"}
  <2>1. Contents(p, k, m, mode)
    BY <1>1, PackageFacts
  <2>2. QED
    BY <2>1 DEF Contents
<1>3. /\ d[Manifest].commit = c /\ ~d[Manifest].dirty
      /\ \A n \in ArchiveNames(c) : d[Manifest].artifacts[n] = d[n]
  BY ManifestFacts
<1>4. k = c /\ ~Dirty(m)
  BY <1>1, <1>2, <1>3
<1>5. ASSUME NEW n \in ArchiveNames(c)
      PROVE  d[n].commit = c /\ "edited" \notin d[n].entries
  <2>1. d[n] = p[n] /\ p[n].commit = c
    BY <1>1, <1>2, <1>3, <1>4
  <2>2. n[1] \in Kinds
    BY NameFacts
  <2>3. "edited" \notin Tree(c, m)[n[1]]
    BY <1>4, <2>2, CleanFacts
  <2>4. QED
    BY <1>2, <1>4, <2>1, <2>3
<1>6. QED
  BY <1>5

(* What a workstation makes has no evidence beside it.                     *)
LEMMA LocalPackageStep ==
  ASSUME NEW c \in Commits, LocalPackage(c)
  PROVE  ByHand(copy')
<1>1. PICK m \in Runners, mode \in {"strict", "skipped"} : copy' = Package(c, m, mode)
  BY DEF LocalPackage
<1>2. PICK p : p = copy'
  OBVIOUS
<1>3. mode \in PackModes /\ p = Package(c, m, mode)
  BY <1>1, <1>2 DEF PackModes
<1>4. /\ DOMAIN p = ArchiveNames(c) \cup Metadata
      /\ \A n \in ArchiveNames(c) : p[n] \in Archive
  <2>1. Contents(p, c, m, mode)
    BY <1>3, PackageFacts
  <2>2. QED
    BY <2>1 DEF Contents
<1>5. ASSUME NEW n \in DOMAIN p
      PROVE  /\ ArchiveOK(n, p[n]) /\ (n = Manifest => OfScript(p[n]))
             /\ \A k \in Commits : n # Evidence(k)
  <2>1. n \in Names
    BY <1>4, NameFacts
  <2>2. \A k \in Commits : n # Evidence(k)
    BY <1>4, NameFacts
  <2>3. \A k \in Commits : n \in ArchiveNames(k) => n \in ArchiveNames(c)
    BY <1>4, NameFacts
  <2>4. n = Manifest => OfScript(p[n])
    BY <1>3 DEF OfScript
  <2>5. QED
    BY <1>4, <2>1, <2>2, <2>3, <2>4 DEF ArchiveOK
<1>6. QED
  BY <1>2, <1>5 DEF ByHand

(* The evidence beside a manifest shows that the manifest is the one of a  *)
(* verified attempt, and the hashes in it that the archives are that       *)
(* attempt's (check_release_evidence_assets.py).                           *)
LEMMA CheckAssetsStep ==
  ASSUME Jobs, Directories, tag \in Commits \cup {None}, CheckAssets
  PROVE  AcceptedIsWhole'
<1>1. PICK c, d : c = tag /\ d = copy
  OBVIOUS
<1>2. /\ c \in Commits /\ d # None /\ Checked(d, c) /\ Evidence(c) \in DOMAIN d
      /\ accepted' = c /\ copy' = d /\ attempts' = attempts
  BY <1>1 DEF CheckAssets, check_release_evidence_assets, validate_evidence_zip, Checked
<1>3. Published(d)
  BY <1>1, <1>2 DEF Directories, ByHand
<1>4. /\ Manifest \in DOMAIN d /\ d[Manifest].commit = c
      /\ \A n \in ArchiveNames(c) : n \in DOMAIN d /\ d[Manifest].artifacts[n] = d[n]
  BY <1>2, ManifestFacts
<1>5. PICK r \in DOMAIN attempts :
        Verified(attempts[r]) /\ d[Manifest] = attempts[r].out[Manifest]
  BY <1>3, <1>4 DEF Published, OfVerified
<1>6. PICK p, k : p = attempts[r].out /\ k = attempts[r].sha
  OBVIOUS
<1>7. p # None /\ Made(p, k) /\ SafeToShip(p, k) /\ k \in Commits
  BY <1>5, <1>6, AttemptFacts DEF Verified, AttemptType
<1>8. p[Manifest].commit = k /\ CleanArchives(p, k)
  BY <1>7, MadeFacts
<1>9. k = c
  BY <1>4, <1>5, <1>6, <1>8
<1>10. \A n \in ArchiveNames(c) : n \in DOMAIN d /\ d[n] = p[n]
  BY <1>4, <1>5, <1>6, <1>8, <1>9 DEF CleanArchives
<1>11. OfAttempt(d, c, r)
  BY <1>6, <1>7, <1>9, <1>10 DEF OfAttempt
<1>12. SafeToShip(d, c)
  BY <1>7, <1>9, <1>10 DEF SafeToShip
<1>13. OfAttempt(d, c, r)'
  BY <1>2, <1>11 DEF OfAttempt
<1>14. QED
  BY <1>2, <1>12, <1>13 DEF AcceptedIsWhole

(* Archives are unpacked in order: before the first one that is refused,   *)
(* none is.                                                                *)
Least(bad) == CHOOSE i \in bad : \A j \in bad : i <= j

LEMMA LeastIndex ==
  ASSUME NEW bad \in SUBSET DOMAIN KindSeq, bad # {},
         NEW first, first = Least(bad)
  PROVE  first \in bad /\ \A i \in 1..(first - 1) : i \in DOMAIN KindSeq \ bad
<1>1. DOMAIN KindSeq = 1..Len(KindSeq) /\ Len(KindSeq) \in Nat
  BY ReleaseConstants
<1>2. bad \subseteq Nat
  BY <1>1
<1>3. PICK x \in bad : \A y \in bad : ~ (<<y, x>> \in OpToRel(<, Nat))
  BY <1>2, NatLessThanWellFounded, WFMin
<1>4. \A y \in bad : x <= y
  <2>1. \A y \in Nat : x \in Nat /\ y < x => <<y, x>> \in OpToRel(<, Nat)
    BY Zenon DEF OpToRel
  <2>2. \A y \in bad : ~ (y < x)
    BY <1>2, <1>3, <2>1
  <2>3. QED
    BY <1>2, <2>2
<1>5. first \in bad /\ \A j \in bad : first <= j
  BY <1>4 DEF Least
<1>6. ASSUME NEW i \in 1..(first - 1)
      PROVE  i \in DOMAIN KindSeq \ bad
  <2>1. first \in 1..Len(KindSeq) /\ first \in Nat
    BY <1>1, <1>2, <1>5
  <2>2. i \in Int /\ 1 <= i /\ i < first
    BY <2>1
  <2>3. i \notin bad
    BY <1>5, <2>1, <2>2
  <2>4. QED
    BY <1>1, <2>1, <2>2, <2>3
<1>7. QED
  BY <1>5, <1>6

VendorItems == [kind : Kinds, entry : Entry, archive : Archive]

(* What an archive leaves in the vendor directory.                         *)
LEMMA ItemsTyped ==
  ASSUME NEW d, NEW c \in Commits, NEW m, m.commit = c, NEW i \in DOMAIN KindSeq,
         \A n \in DOMAIN d : ArchiveOK(n, d[n]),
         NEW E \in SUBSET Entry,
         E # {} => ArchiveName(KindSeq[i], c) \in DOMAIN d
  PROVE  Items(d, m, i, E) \in SUBSET VendorItems
<1>1. PICK n, k : k = KindSeq[i] /\ n = ArchiveName(k, c)
  OBVIOUS
<1>2. k \in Kinds /\ n \in ArchiveNames(c)
  BY <1>1, NameFacts DEF Kinds
<1>3. ASSUME NEW e \in E
      PROVE  [kind |-> k, entry |-> e, archive |-> d[n]] \in VendorItems
  <2>1. d[n] \in Archive
    BY <1>1, <1>2 DEF ArchiveOK
  <2>2. QED
    BY <1>2, <2>1 DEF VendorItems
<1>4. QED
  BY <1>1, <1>3 DEF Items

LEMMA ExtractsFacts ==
  ASSUME NEW d, NEW c, NEW m, m.commit = c, NEW i, Extracts(d, m, i)
  PROVE  /\ ArchiveName(KindSeq[i], c) \in DOMAIN d
         /\ d[ArchiveName(KindSeq[i], c)] # Damaged
         /\ d[ArchiveName(KindSeq[i], c)].entries \in SUBSET Boundary
BY DEF Extracts

(* The vendor directory of a commit becomes x: nothing else changes.       *)
LEMMA VendorAfter ==
  ASSUME Vendored, VendoredIsVerified, NEW c \in Commits, NEW x,
         x.items \subseteq VendorItems, x.done \in BOOLEAN, (x.from # None) <=> x.done,
         vendor' = [vendor EXCEPT ![c] = x],
         x.done /\ {Sums, Sbom} \subseteq DOMAIN x.from =>
           /\ ~x.from[Manifest].dirty /\ x.from[Manifest].mode # "skipped"
           /\ \A n \in ArchiveNames(c) : x.from[Manifest].artifacts[n] = x.from[n]
           /\ x.items = ItemsOf(x.from, x.from[Manifest])
           /\ SafeToShip(x.from, c)
  PROVE  Vendored' /\ VendoredIsVerified'
<1>1. DOMAIN vendor = Commits
  BY DEF Vendored
<1>2. /\ vendor' = [k \in Commits |-> vendor'[k]] /\ vendor'[c] = x
      /\ \A k \in Commits : k # c => vendor'[k] = vendor[k]
  BY <1>1
<1>3. Vendored'
  BY <1>2 DEF Vendored, VendorItems
<1>4. VendoredIsVerified'
  BY <1>2 DEF VendoredIsVerified
<1>5. QED
  BY <1>3, <1>4

(* A directory with checksums and SBOM that the handoff unpacks whole is   *)
(* that of a clean, strictly verified package.                             *)
LEMMA UnpackedFacts ==
  ASSUME Jobs, NEW c \in Commits, NEW d, Checked(d, c), Published(d) \/ ByHand(d),
         \A i \in DOMAIN KindSeq : Extracts(d, d[Manifest], i),
         NEW items, items = ItemsOf(d, d[Manifest]), validate_vendor_layout(items)
  PROVE  SafeToShip(d, c)
<1>1. Manifest \in DOMAIN d /\ d[Manifest].commit = c
  BY ManifestFacts
<1>2. \E k \in Commits, m \in Runners, mode \in PackModes :
        d[Manifest] = Package(k, m, mode)[Manifest]
  <2>1. CASE Published(d)
    <3>1. OfVerified(d[Manifest])
      BY <1>1, <2>1 DEF Published
    <3>2. PICK r \in DOMAIN attempts :
            /\ Made(attempts[r].out, attempts[r].sha)
            /\ d[Manifest] = attempts[r].out[Manifest]
      BY <3>1 DEF OfVerified, Verified
    <3>3. PICK k, p : k = attempts[r].sha /\ p = attempts[r].out
      OBVIOUS
    <3>4. k \in Commits
      BY <3>3, AttemptFacts DEF AttemptType
    <3>5. PICK m \in Runners : p = Package(k, m, "strict-upstream")
      BY <3>2, <3>3 DEF Made
    <3>6. PICK mode \in PackModes : mode = "strict-upstream"
      BY DEF PackModes
    <3>7. d[Manifest] = Package(k, m, mode)[Manifest]
      BY <3>2, <3>3, <3>5, <3>6
    <3>8. QED
      BY <3>4, <3>7
  <2>2. CASE ByHand(d)
    BY <1>1, <2>2 DEF ByHand, OfScript
  <2>3. QED
    BY <2>1, <2>2
<1>3. \A n \in ArchiveNames(c) : d[n].commit = c /\ "edited" \notin d[n].entries
  BY <1>2, SourceFacts
<1>4. ASSUME NEW n \in ArchiveNames(c)
      PROVE  /\ d[n].entries \cap {"internal", "link", "cache", "secret", "edited"} = {}
             /\ {"required", "layout"} \subseteq d[n].entries
  <2>1. PICK k \in Kinds : n = ArchiveName(k, c)
    BY NameFacts
  <2>2. PICK i \in DOMAIN KindSeq : KindSeq[i] = k
    BY DEF Kinds
  <2>3. d[n].entries \in SUBSET Boundary
    BY <1>1, <2>1, <2>2, ExtractsFacts
  <2>4. {"link", "cache", "secret"} \cap d[n].entries = {} /\ "required" \in d[n].entries
    BY ManifestFacts
  <2>5. "layout" \in d[n].entries
    <3>1. PICK x \in items : x.kind = k /\ x.entry = "layout"
      BY DEF validate_vendor_layout
    <3>2. PICK j \in DOMAIN KindSeq :
            x \in Items(d, d[Manifest], j, d[ArchiveName(KindSeq[j], c)].entries)
      BY <1>1, <3>1 DEF ItemsOf
    <3>3. x.kind = KindSeq[j] /\ x.entry \in d[ArchiveName(KindSeq[j], c)].entries
      BY <3>2 DEF Items
    <3>4. QED
      BY <2>1, <3>1, <3>3
  <2>6. QED
    BY <1>3, <2>3, <2>4, <2>5 DEF Boundary
<1>5. QED
  BY <1>3, <1>4 DEF SafeToShip

(* The handoff only writes into an empty vendor directory, and approves    *)
(* what it has unpacked whole (check_external_sdk_handoff.py).             *)
LEMMA HandoffStep ==
  ASSUME Jobs, Directories, Vendored, VendoredIsVerified, NEW c \in Commits, Handoff(c)
  PROVE  Vendored' /\ VendoredIsVerified'
<1>1. PICK d, m, bad : /\ d = copy /\ m = d[Manifest]
                       /\ bad = {i \in DOMAIN KindSeq : ~Extracts(d, m, i)}
  OBVIOUS
<1>2. /\ d # None /\ HandoffAllowed(d, c, c, TRUE, TRUE) /\ vendor[c].items = {}
  BY <1>1 DEF Handoff, MayHandOff
<1>3. m.commit = c
  BY <1>1, <1>2 DEF HandoffAllowed
<1>4. /\ Published(d) \/ ByHand(d)
      /\ \A n \in DOMAIN d : ArchiveOK(n, d[n])
  BY <1>1, <1>2 DEF Directories, Published, ByHand
<1>5. \A new : Overwrite({}, new) = new
  BY DEF Overwrite
<1>6. ASSUME NEW i \in DOMAIN KindSeq \ bad
      PROVE  Items(d, m, i, d[ArchiveName(KindSeq[i], c)].entries) \in SUBSET VendorItems
  <2>1. Extracts(d, m, i)
    BY <1>1
  <2>2. PICK E : E = d[ArchiveName(KindSeq[i], c)].entries
    OBVIOUS
  <2>3. /\ ArchiveName(KindSeq[i], c) \in DOMAIN d /\ E \in SUBSET Boundary
    BY <1>3, <2>1, <2>2, ExtractsFacts
  <2>4. E \in SUBSET Entry
    BY <2>3 DEF Boundary
  <2>5. QED
    BY <1>3, <1>4, <2>2, <2>3, <2>4, ItemsTyped
<1>7. CASE bad = {}
  <2>1. PICK items, done : /\ items = ItemsOf(d, m)
                           /\ done = validate_vendor_layout(items)
    OBVIOUS
  <2>2. PICK x : x = [items |-> items, done |-> done, from |-> IF done THEN d ELSE None]
    OBVIOUS
  <2>3. vendor' = [vendor EXCEPT ![c] = x]
    <3>1. Overwrite(vendor[c].items, ItemsOf(d, m)) = items
      BY <1>2, <1>5, <2>1
    <3>2. QED
      BY <1>1, <1>7, <2>1, <2>2, <3>1 DEF Handoff
  <2>4. done \in BOOLEAN /\ (done <=> validate_vendor_layout(items))
    BY <2>1 DEF validate_vendor_layout
  <2>5. x.items = items /\ (x.done <=> done) /\ x.done \in BOOLEAN
    BY <2>2, <2>4
  <2>6. (x.done => x.from = d) /\ (~x.done => x.from = None)
    BY <2>2, <2>4
  <2>7. items \subseteq VendorItems
    <3>1. \A i \in DOMAIN KindSeq :
            Items(d, m, i, d[ArchiveName(KindSeq[i], c)].entries) \in SUBSET VendorItems
      BY <1>6, <1>7
    <3>2. QED
      BY <1>3, <2>1, <3>1 DEF ItemsOf
  <2>8. ASSUME x.done, {Sums, Sbom} \subseteq DOMAIN x.from
        PROVE  /\ ~d[Manifest].dirty /\ d[Manifest].mode # "skipped"
               /\ \A n \in ArchiveNames(c) : d[Manifest].artifacts[n] = d[n]
               /\ items = ItemsOf(d, d[Manifest])
               /\ SafeToShip(d, c)
    <3>1. Checked(d, c)
      BY <1>2, <2>6, <2>8 DEF HandoffAllowed, Checked
    <3>2. /\ ~d[Manifest].dirty /\ d[Manifest].mode # "skipped"
          /\ \A n \in ArchiveNames(c) : d[Manifest].artifacts[n] = d[n]
      BY <3>1, ManifestFacts
    <3>3. \A i \in DOMAIN KindSeq : Extracts(d, d[Manifest], i)
      BY <1>1, <1>7
    <3>4. items = ItemsOf(d, d[Manifest]) /\ validate_vendor_layout(items)
      BY <1>1, <2>1, <2>4, <2>5, <2>8
    <3>5. SafeToShip(d, c)
      BY <1>4, <3>1, <3>3, <3>4, UnpackedFacts
    <3>6. QED
      BY <3>2, <3>4, <3>5
  <2>9. QED
    BY <1>2, <2>3, <2>5, <2>6, <2>7, <2>8, VendorAfter
<1>8. CASE bad # {}
  <2>1. PICK first, n : /\ first = CHOOSE i \in bad : \A j \in bad : i <= j
                        /\ n = ArchiveName(KindSeq[first], c)
    OBVIOUS
  <2>2. PICK written : written =
          UNION {Items(d, m, i, d[ArchiveName(KindSeq[i], c)].entries) : i \in 1..(first - 1)}
    OBVIOUS
  <2>3. PICK part \in SUBSET (IF n \in DOMAIN d /\ d[n] # Damaged
                              THEN d[n].entries \cap Boundary ELSE {}) :
          vendor' = [vendor EXCEPT ![c] =
            [NoVendor EXCEPT !.items =
               Overwrite(vendor[c].items, written \cup Items(d, m, first, part))]]
    <3> DEFINE mm == copy[Manifest]
               bb == {i \in DOMAIN KindSeq : ~Extracts(copy, mm, i)}
               ff == CHOOSE i \in bb : \A j \in bb : i <= j
               nn == ArchiveName(KindSeq[ff], c)
               ww == UNION {Items(copy, mm, i, copy[ArchiveName(KindSeq[i], c)].entries) :
                              i \in 1..(ff - 1)}
    <3>1. bb = bad /\ mm = m
      BY <1>1
    <3>2. ff = first
      BY <2>1, <3>1
    <3>3. bb # {}
      BY <1>8, <3>1
    <3>4. \E part \in SUBSET (IF nn \in DOMAIN copy /\ copy[nn] # Damaged
                               THEN copy[nn].entries \cap Boundary ELSE {}) :
            vendor' = [vendor EXCEPT ![c] =
              [NoVendor EXCEPT !.items =
                 Overwrite(vendor[c].items, ww \cup Items(copy, mm, ff, part))]]
      BY <3>3, Zenon DEF Handoff
    <3>5. nn = n /\ ww = written
      BY <1>1, <2>1, <2>2, <3>1, <3>2
    <3> HIDE DEF mm, bb, ff, nn, ww
    <3>6. QED
      BY <1>1, <3>1, <3>2, <3>4, <3>5
  <2>4. PICK items : items = written \cup Items(d, m, first, part)
    OBVIOUS
  <2>5. PICK x : x = [NoVendor EXCEPT !.items = items]
    OBVIOUS
  <2>6. x.items = items /\ x.done = FALSE /\ x.from = None
    BY <2>5 DEF NoVendor
  <2>7. vendor' = [vendor EXCEPT ![c] = x]
    BY <1>2, <1>5, <2>3, <2>4, <2>5
  <2>8. first \in bad /\ \A i \in 1..(first - 1) : i \in DOMAIN KindSeq \ bad
    <3>1. bad \in SUBSET DOMAIN KindSeq
      BY <1>1
    <3>2. first = Least(bad)
      BY <2>1 DEF Least
    <3>3. QED
      BY <1>8, <3>1, <3>2, LeastIndex
  <2>9. written \subseteq VendorItems
    BY <1>6, <2>2, <2>8
  <2>10. Items(d, m, first, part) \in SUBSET VendorItems
    <3>1. part \in SUBSET Entry /\ (part # {} => n \in DOMAIN d)
      BY <2>3 DEF Boundary
    <3>2. first \in DOMAIN KindSeq
      BY <1>1, <2>8
    <3>3. QED
      BY <1>3, <1>4, <2>1, <3>1, <3>2, ItemsTyped
  <2>11. items \subseteq VendorItems
    BY <2>4, <2>9, <2>10
  <2>12. QED
    BY <2>6, <2>7, <2>11, VendorAfter
<1>9. QED
  BY <1>7, <1>8

LEMMA ClearVendorStep ==
  ASSUME Vendored, VendoredIsVerified, NEW c \in Commits, ClearVendor(c)
  PROVE  Vendored' /\ VendoredIsVerified'
<1>1. NoVendor.items = {} /\ NoVendor.done = FALSE /\ NoVendor.from = None
  BY DEF NoVendor
<1>2. vendor' = [vendor EXCEPT ![c] = NoVendor]
  BY DEF ClearVendor
<1>3. QED
  BY <1>1, <1>2, VendorAfter

-----------------------------------------------------------------------------
(* The invariant holds.                                                    *)

LEMMA ReleaseStart == Init => ReleaseInv
<1> SUFFICES ASSUME Init PROVE ReleaseInv
  OBVIOUS
<1>1. tag = None /\ accepted = None /\ sources = {} /\ incidents = 0
  BY DEF Init
<1>2. incidents \in 0..MaxIncidents
  BY <1>1, ReleaseConstants
<1>3. Jobs /\ ~Uploading
  <2>1. attempts \in Seq(AttemptType) /\ Len(attempts) = 0 /\ DOMAIN attempts = {}
    BY DEF Init
  <2>2. QED
    BY <2>1, ReleaseConstants DEF Jobs, Uploading
<1>4. Directories
  BY <1>3 DEF Init, Directories, ReleasePublished
<1>5. AcceptedIsWhole
  BY <1>1 DEF AcceptedIsWhole
<1>6. /\ vendor = [c \in Commits |-> vendor[c]]
      /\ \A c \in Commits : /\ vendor[c].items = {} /\ vendor[c].from = None
                            /\ vendor[c].done = FALSE
  BY DEF Init, NoVendor
<1>7. Vendored /\ VendoredIsVerified
  BY <1>6 DEF Vendored, VendoredIsVerified
<1>8. QED
  BY <1>1, <1>2, <1>3, <1>4, <1>5, <1>7 DEF ReleaseInv

(* The steps of the workflow leave the receiver alone.                     *)
Workflow ==
  \/ \E c \in Commits : PushTag(c)
  \/ CreateEntry
  \/ \E r \in DOMAIN attempts : Retry(r) \/ RetryPublish(r) \/ RunnerStep(r)

Receiver ==
  \/ \E c \in Commits : LocalPackage(c) \/ Handoff(c) \/ ClearVendor(c)
  \/ Download \/ CheckAssets

LEMMA IncidentFacts ==
  ASSUME incidents \in 0..MaxIncidents, Incident
  PROVE  incidents' \in 0..MaxIncidents
BY ReleaseConstants DEF Incident

LEMMA RunnerKeeps ==
  ASSUME ReleaseInv, NEW r \in DOMAIN attempts, RunnerStep(r)
  PROVE  /\ Jobs' /\ Keeps /\ UNCHANGED <<tag, receiver>>
         /\ (release' = release /\ Attaches) \/ Published(release)'
         /\ incidents' \in 0..MaxIncidents
<1>1. Jobs /\ ReleasePublished /\ incidents \in 0..MaxIncidents
  BY DEF ReleaseInv, Directories
<1>2. ASSUME NEW m \in Runners, RunPackage(r, m)
      PROVE  Jobs' /\ Keeps /\ Attaches /\ UNCHANGED <<tag, receiver, release, incidents>>
  BY <1>1, <1>2, RunPackageStep DEF RunPackage
<1>3. CASE RunPublish(r)
  <2>1. Jobs' /\ Keeps /\ Attaches
    BY <1>1, <1>3, PublishStep DEF RunPublish
  <2>2. QED
    BY <1>1, <1>3, <2>1 DEF RunPublish, Publish
<1>4. CASE RunPublishBadly(r)
  <2>1. PICK got \in Worse(attempts[r].out) : Publish(r, got)
    BY <1>4 DEF RunPublishBadly
  <2>2. Jobs' /\ Keeps /\ Attaches
    BY <1>1, <2>1, PublishStep
  <2>3. incidents' \in 0..MaxIncidents
    BY <1>1, <1>4, IncidentFacts DEF RunPublishBadly
  <2>4. QED
    BY <2>1, <2>2, <2>3 DEF Publish
<1>5. CASE FailStep(r)
  <2>1. Jobs' /\ Keeps /\ Attaches
    BY <1>1, <1>5, StopStep DEF FailStep
  <2>2. incidents' \in 0..MaxIncidents
    BY <1>1, <1>5, IncidentFacts DEF FailStep
  <2>3. QED
    BY <1>5, <2>1, <2>2 DEF FailStep
<1>6. CASE CreateRelease(r)
  <2>1. Jobs' /\ Keeps /\ Published(release')
    BY <1>1, <1>6, CreateReleaseStep
  <2>2. Published(release)'
    BY <2>1, VerifiedStays
  <2>3. QED
    BY <1>1, <1>6, <2>1, <2>2 DEF CreateRelease
<1>7. CASE StartUpload(r)
  BY <1>1, <1>7, StartUploadStep DEF StartUpload
<1>8. CASE DeleteAsset(r)
  <2>1. Jobs' /\ Keeps /\ Published(release')
    BY <1>1, <1>8, DeleteAssetStep
  <2>2. Published(release)'
    BY <2>1, VerifiedStays
  <2>3. QED
    BY <1>1, <1>8, <2>1, <2>2 DEF DeleteAsset
<1>9. CASE UploadAsset(r)
  <2>1. Jobs' /\ Keeps /\ Published(release')
    BY <1>1, <1>9, UploadAssetStep
  <2>2. Published(release)'
    BY <2>1, VerifiedStays
  <2>3. QED
    BY <1>1, <1>9, <2>1, <2>2 DEF UploadAsset
<1>10. CASE UploadConflict(r)
  <2>1. Jobs' /\ Keeps /\ Attaches
    BY <1>1, <1>10, StopStep DEF UploadConflict
  <2>2. QED
    BY <1>1, <1>10, <2>1 DEF UploadConflict
<1>11. QED
  BY <1>1, <1>2, <1>3, <1>4, <1>5, <1>6, <1>7, <1>8, <1>9, <1>10 DEF RunnerStep

LEMMA WorkflowKeeps ==
  ASSUME ReleaseInv, Workflow
  PROVE  ReleaseInv'
<1>1. /\ Jobs /\ incidents \in 0..MaxIncidents /\ Directories /\ AcceptedIsWhole
      /\ Vendored /\ VendoredIsVerified /\ tag \in Commits \cup {None}
      /\ accepted \in Commits \cup {None} /\ sources \subseteq {"release", "workstation"}
  BY DEF ReleaseInv
<1>2. /\ Jobs' /\ Keeps /\ UNCHANGED receiver
      /\ (release' = release /\ Attaches) \/ Published(release)'
      /\ incidents' \in 0..MaxIncidents /\ tag' \in Commits \cup {None}
  <2>1. ASSUME NEW c \in Commits, PushTag(c)
        PROVE  /\ Jobs' /\ Keeps /\ Attaches /\ tag' = c
               /\ UNCHANGED <<release, receiver, incidents>>
    BY <1>1, <2>1, StartStep DEF PushTag
  <2>2. ASSUME NEW r \in DOMAIN attempts, Retry(r)
        PROVE  /\ Jobs' /\ Keeps /\ Attaches
               /\ UNCHANGED <<tag, release, receiver, incidents>>
    <3>1. PICK c \in Commits : c = attempts[r].sha
      BY <1>1, AttemptFacts DEF AttemptType
    <3>2. QED
      BY <1>1, <2>2, <3>1, StartStep DEF Retry
  <2>3. ASSUME NEW r \in DOMAIN attempts, RetryPublish(r)
        PROVE  /\ Jobs' /\ Keeps /\ Attaches
               /\ UNCHANGED <<tag, release, receiver, incidents>>
    <3>1. Jobs' /\ Keeps /\ Attaches
      BY <1>1, <2>3, RetryPublishStep
    <3>2. QED
      BY <2>3, <3>1 DEF RetryPublish
  <2>4. ASSUME NEW r \in DOMAIN attempts, RunnerStep(r)
        PROVE  /\ Jobs' /\ Keeps /\ UNCHANGED <<tag, receiver>>
               /\ (release' = release /\ Attaches) \/ Published(release)'
               /\ incidents' \in 0..MaxIncidents
    BY <2>4, RunnerKeeps
  <2>5. CASE CreateEntry
    <3>1. DOMAIN release' = {} /\ UNCHANGED <<tag, attempts, receiver, incidents>>
      BY <2>5 DEF CreateEntry
    <3>2. Published(release)'
      BY <3>1 DEF Published
    <3>3. Jobs' /\ Keeps
      BY <1>1, <3>1 DEF Jobs, Keeps
    <3>4. QED
      BY <1>1, <3>1, <3>2, <3>3
  <2>6. QED
    BY <1>1, <2>1, <2>2, <2>3, <2>4, <2>5 DEF Workflow
<1>3. UNCHANGED <<copy, accepted, vendor, sources>>
  BY <1>2 DEF receiver
<1>4. Directories'
  BY <1>1, <1>2, <1>3, DirectoriesStay
<1>5. AcceptedIsWhole'
  BY <1>1, <1>2, <1>3, AcceptedStays
<1>6. Vendored' /\ VendoredIsVerified'
  BY <1>1, <1>3 DEF Vendored, VendoredIsVerified
<1>7. QED
  BY <1>1, <1>2, <1>3, <1>4, <1>5, <1>6 DEF ReleaseInv

LEMMA ReceiverKeeps ==
  ASSUME ReleaseInv, Receiver
  PROVE  ReleaseInv'
<1>1. /\ Jobs /\ incidents \in 0..MaxIncidents /\ Directories /\ AcceptedIsWhole
      /\ Vendored /\ VendoredIsVerified /\ tag \in Commits \cup {None}
      /\ accepted \in Commits \cup {None} /\ sources \subseteq {"release", "workstation"}
  BY DEF ReleaseInv
<1>2. UNCHANGED <<tag, attempts, release, incidents>>
  BY DEF Receiver, LocalPackage, Handoff, ClearVendor, Download, CheckAssets
<1>3. Jobs' /\ Keeps /\ Attaches /\ ReleasePublished'
  <2>1. Jobs' /\ Keeps /\ Attaches
    BY <1>1, <1>2 DEF Jobs, Keeps, Attaches, Uploading
  <2>2. ReleasePublished'
    BY <1>1, <1>2, <2>1, VerifiedStays DEF Directories, ReleasePublished, Uploading
  <2>3. QED
    BY <2>1, <2>2
<1>4. (copy # None => Published(copy) \/ ByHand(copy))
         /\ (copy' = copy \/ Published(copy') \/ ByHand(copy')) => Directories'
  <2>1. SUFFICES ASSUME copy # None => Published(copy) \/ ByHand(copy),
                        copy' = copy \/ Published(copy') \/ ByHand(copy')
                 PROVE  copy' # None => Published(copy)' \/ ByHand(copy)'
    BY <1>3 DEF Directories
  <2>2. \A d : ByHand(d) => ByHand(d)'
    BY DEF ByHand, OfScript
  <2>3. \A d : Published(d) => Published(d)'
    BY <1>3, VerifiedStays
  <2>4. QED
    BY <2>1, <2>2, <2>3
<1>5. copy # None => Published(copy) \/ ByHand(copy)
  BY <1>1 DEF Directories
<1>6. vendor' = vendor => Vendored' /\ VendoredIsVerified'
  BY <1>1 DEF Vendored, VendoredIsVerified
<1>7. accepted' = None => AcceptedIsWhole'
  BY DEF AcceptedIsWhole
<1>8. UNCHANGED <<copy, accepted>> => AcceptedIsWhole'
  BY <1>1, <1>3, AcceptedStays
<1>9. ASSUME NEW c \in Commits, LocalPackage(c)
      PROVE  ReleaseInv'
  <2>1. ByHand(copy')
    BY <1>9, LocalPackageStep
  <2>2. /\ accepted' = None /\ vendor' = vendor
        /\ sources' = sources \cup {"workstation"}
    BY <1>9 DEF LocalPackage
  <2>3. QED
    BY <1>1, <1>2, <1>3, <1>4, <1>5, <1>6, <1>7, <2>1, <2>2 DEF ReleaseInv
<1>10. ASSUME NEW c \in Commits, Handoff(c) \/ ClearVendor(c)
       PROVE  ReleaseInv'
  <2>1. Vendored' /\ VendoredIsVerified'
    BY <1>1, <1>10, HandoffStep, ClearVendorStep
  <2>2. UNCHANGED <<copy, accepted, sources>>
    BY <1>10 DEF Handoff, ClearVendor
  <2>3. QED
    BY <1>1, <1>2, <1>3, <1>4, <1>5, <1>8, <2>1, <2>2 DEF ReleaseInv
<1>11. CASE Download
  <2>1. /\ release # None /\ copy' = release /\ accepted' = None /\ vendor' = vendor
        /\ sources' = sources \cup {"release"}
    BY <1>11 DEF Download
  <2>2. Published(copy')
    BY <1>1, <2>1 DEF Directories, ReleasePublished
  <2>3. QED
    BY <1>1, <1>2, <1>3, <1>4, <1>5, <1>6, <1>7, <2>1, <2>2 DEF ReleaseInv
<1>12. CASE CheckAssets
  <2>1. AcceptedIsWhole'
    BY <1>1, <1>12, CheckAssetsStep
  <2>2. accepted' \in Commits \cup {None} /\ UNCHANGED <<copy, vendor, sources>>
    BY <1>1, <1>12 DEF CheckAssets
  <2>3. QED
    BY <1>1, <1>2, <1>3, <1>4, <1>5, <1>6, <2>1, <2>2 DEF ReleaseInv
<1>13. QED
  BY <1>9, <1>10, <1>11, <1>12 DEF Receiver

LEMMA IdleKeeps ==
  ASSUME ReleaseInv, UNCHANGED vars
  PROVE  ReleaseInv'
<1>1. UNCHANGED <<tag, attempts, release, copy, accepted, vendor, sources, incidents>>
  BY DEF vars
<1>2. Jobs' /\ Keeps /\ Attaches
  BY <1>1 DEF ReleaseInv, Jobs, Keeps, Attaches, Uploading
<1>3. Directories'
  BY <1>1, <1>2, DirectoriesStay DEF ReleaseInv
<1>4. AcceptedIsWhole'
  BY <1>1, <1>2, AcceptedStays DEF ReleaseInv
<1>5. QED
  BY <1>1, <1>2, <1>3, <1>4
     DEF ReleaseInv, Vendored, VendoredIsVerified

(* ReleaseInv holds for any number of commits, kinds of artifacts, runners *)
(* attempts and incidents.                                                 *)
THEOREM ReleaseInvariant == Spec => []ReleaseInv
<1>1. Init => ReleaseInv
  BY ReleaseStart
<1>2. ReleaseInv /\ [Next]_vars => ReleaseInv'
  <2> SUFFICES ASSUME ReleaseInv, [Next]_vars PROVE ReleaseInv'
    OBVIOUS
  <2>1. CASE Next
    <3>1. Workflow \/ Receiver
      BY <2>1, Zenon DEF Next, Workflow, Receiver
    <3>2. QED
      BY <3>1, WorkflowKeeps, ReceiverKeeps
  <2>2. CASE UNCHANGED vars
    BY <2>2, IdleKeeps
  <2>3. QED
    BY <2>1, <2>2
<1>3. QED
  BY <1>1, <1>2, PTL DEF Spec

-----------------------------------------------------------------------------
(* What it shows.                                                          *)

LEMMA TypeFollows == ReleaseInv => TypeOK
<1> SUFFICES ASSUME ReleaseInv PROVE TypeOK
  OBVIOUS
<1>1. Jobs /\ Directories /\ Vendored
  BY DEF ReleaseInv
<1>2. ASSUME NEW r \in DOMAIN attempts
      PROVE  LET a == attempts[r] IN
             /\ a.sha \in Commits /\ a.step \in Steps
             /\ a.out # None => IsDir(a.out) /\ a.out[Manifest].commit = a.sha
             /\ a.got # None => IsDir(a.got)
             /\ a.todo \subseteq Names /\ a.open \subseteq a.todo
  <2>1. PICK a, p, c : a = attempts[r] /\ p = a.out /\ c = a.sha
    OBVIOUS
  <2>2. a \in AttemptType /\ AttemptOK(a)
    BY <1>1, <2>1, AttemptFacts
  <2>3. c \in Commits
    BY <2>1, <2>2 DEF AttemptType
  <2>4. p # None => IsDir(p) /\ p[Manifest].commit = c
    <3>1. SUFFICES ASSUME p # None PROVE IsDir(p) /\ p[Manifest].commit = c
      OBVIOUS
    <3>2. Made(p, c)
      BY <2>1, <2>2, <3>1 DEF AttemptOK
    <3>3. DOMAIN p = ArchiveNames(c) \cup Metadata /\ p[Manifest].commit = c
      BY <2>3, <3>2, MadeFacts
    <3>4. QED
      BY <2>3, <3>3, NameFacts DEF IsDir
  <2>5. a.got # None => IsDir(a.got)
    <3>1. SUFFICES ASSUME a.got # None PROVE IsDir(a.got)
      OBVIOUS
    <3>2. PICK k \in Commits, m \in Runners : a.got = Package(k, m, "strict-upstream")
      BY <2>2, <3>1 DEF AttemptType, Packages
    <3>3. PICK mode \in PackModes : mode = "strict-upstream"
      BY DEF PackModes
    <3>4. PICK d : d = a.got
      OBVIOUS
    <3>5. d = Package(k, m, mode)
      BY <3>2, <3>3, <3>4
    <3>6. Contents(d, k, m, mode)
      BY <3>5, PackageFacts
    <3>7. DOMAIN d \subseteq Names
      BY <3>6, NameFacts DEF Contents
    <3>8. QED
      BY <3>4, <3>7 DEF IsDir
  <2>6. a.step \in Steps /\ a.todo \subseteq Names /\ a.open \subseteq a.todo
    BY <2>2 DEF AttemptType, AttemptOK
  <2>7. QED
    BY <2>1, <2>3, <2>4, <2>5, <2>6
<1>3. Len(attempts) \in 0..MaxAttempts
  <2>1. attempts \in Seq(AttemptType) /\ Len(attempts) <= MaxAttempts /\ MaxAttempts \in Nat
    BY <1>1, ReleaseConstants DEF Jobs
  <2>2. QED
    BY <2>1
<1>4. (release # None => IsDir(release)) /\ (copy # None => IsDir(copy))
  BY <1>1 DEF Directories, ReleasePublished, Published, ByHand, ArchiveOK, IsDir
<1>5. \A c \in Commits :
        /\ vendor[c].items \subseteq [kind : Kinds, entry : Entry, archive : Archive]
        /\ vendor[c].from # None <=> vendor[c].done
  BY <1>1 DEF Vendored
<1>6. QED
  BY <1>2, <1>3, <1>4, <1>5 DEF ReleaseInv, TypeOK

(* The types of all variables.                                             *)
THEOREM ReleaseTypeCorrect == Spec => []TypeOK
BY ReleaseInvariant, TypeFollows, PTL

LEMMA AttachedFollows == ReleaseInv => AttachedIsVerified
<1> SUFFICES ASSUME ReleaseInv PROVE AttachedIsVerified
  OBVIOUS
<1>1. ASSUME NEW r \in DOMAIN attempts, attempts[r].step \in {"attach", "upload"}
      PROVE  /\ attempts[r].got = attempts[r].out
             /\ SafeToShip(attempts[r].got, attempts[r].sha)
             /\ attempts[r].sha \in Supported /\ attempts[r].sha \in ClientOnly
  <2>1. AttemptOK(attempts[r])
    BY AttemptFacts DEF ReleaseInv
  <2>2. QED
    BY <1>1, <2>1 DEF AttemptOK, Verified
<1>2. QED
  BY <1>1 DEF AttachedIsVerified

(* What the second job attaches is the package the first one stored, whole *)
(* and fit to ship, whatever was lost or damaged in between.               *)
THEOREM AttachedStaysVerified == Spec => []AttachedIsVerified
BY ReleaseInvariant, AttachedFollows, PTL

LEMMA ReceiverFollows == ReleaseInv => AcceptedIsWhole /\ VendoredIsVerified
BY DEF ReleaseInv

(* A release that check_release_evidence_assets.py accepts holds the       *)
(* archives of one attempt for the tag's commit, however the attempts      *)
(* replaced each other's assets and whenever the download came.            *)
THEOREM AcceptedStaysWhole == Spec => []AcceptedIsWhole
BY ReleaseInvariant, ReceiverFollows, PTL

(* A vendor directory that check_external_sdk_handoff.py approves, with    *)
(* checksums and SBOM at hand, holds exactly the files of a clean,         *)
(* strictly verified package.                                              *)
THEOREM VendoredStaysVerified == Spec => []VendoredIsVerified
BY ReleaseInvariant, ReceiverFollows, PTL

=============================================================================
