-------------------------------- MODULE Website --------------------------------
(***************************************************************************)
(* The public website: commits and releases trigger the deploy workflow,   *)
(* which checks a commit out, makes versions.json from the latest release  *)
(* and the hosted guide from the commit's user guide, and publishes the    *)
(* tree; the downloads page draws itself from the published versions.json. *)
(***************************************************************************)
EXTENDS Naturals, FiniteSets, SequencesExt

CONSTANTS Guides,      \* user guides: sequences of headings, which are
                       \* sequences of words, <<>> for a heading without text
          Plain,       \* a word in lower case, without punctuation, split at blanks
          Contents,    \* "Table of contents", in capitals or not
          Assets,      \* the file names of each release, sequences of words
          MaxCommits   \* bound: commits

ASSUME AssetsAssumption == Assets \in Seq(SUBSET Seq(STRING))
ASSUME GuidesAssumption == Guides \subseteq Seq(Seq(DOMAIN Plain))
ASSUME BoundAssumption  == MaxCommits \in Nat
VARIABLES
  main,      \* commits: guide, the committed pages and versions.json
  released,  \* releases published so far
  due,       \* releases whose workflow has not dispatched the deployment yet
  pending,   \* the commit the next deployment is for, 0 without one
  run,       \* the deployment under way: commit, next step, working tree
  site,      \* what is published: commit, versions.json, pages
  flaky      \* workflow steps may fail; never changes

vars == <<main, released, due, pending, run, site, flaky>>

------------------------------------------------------------------------------
(* versions.json and the downloads page. *)

OsNames   == [darwin |-> "darwin", macos |-> "darwin", linux |-> "linux",
              windows |-> "windows"]
ArchNames == [amd64 |-> "amd64", x86_64 |-> "amd64", arm64 |-> "arm64",
              aarch64 |-> "arm64"]

\* The first word of a file name that is in the table, in the table's spelling.
Match(name, table) ==
  LET hits == {i \in DOMAIN name : name[i] \in DOMAIN table}
  IN  IF hits = {} THEN "" ELSE table[name[Min(hits)]]

\* (Here and below, Op_Mistake is Op with a mistake a property must notice.)
\* The word is taken as it is.
ParseAsset_Mistake(name) ==
  [name |-> name, arch |-> Match(name, ArchNames),
   os |-> Match(name, [w \in DOMAIN OsNames |-> w])]

ParseAsset(name) == [name |-> name, os |-> Match(name, OsNames),
                     arch |-> Match(name, ArchNames)]

\* What is written without a release, or when GitHub does not answer.
NoVersions == [latest |-> 0, assets |-> {}]

VersionsOf(r) ==
  IF r = 0 THEN NoVersions
  ELSE [latest |-> r,
        assets |-> {a \in {ParseAsset(n) : n \in Assets[r]} : a.os # "" /\ a.arch # ""}]

OsOrder == {"darwin", "linux", "windows"}

\* The downloads page's links, in a group for each system that has any; no group:
\* "No published release yet".
Downloads(v) ==
  LET list(os) == {a.name : a \in {b \in v.assets : b.os = os}}
  IN  IF v.latest = 0 THEN <<>>
      ELSE [os \in {o \in OsOrder : list(o) # {}} |-> list(os)]

------------------------------------------------------------------------------
(* The hosted guide. *)

Slugify(heading) == FlattenSeq([i \in DOMAIN heading |-> Plain[heading[i]]])

Index == <<"index">>

Sections(g) == {i \in DOMAIN g : g[i] # <<>> /\ g[i] \notin Contents}

Slugs(g) == {Slugify(g[i]) : i \in Sections(g)}

\* Every heading is listed.
Nav_Mistake(g) == {Index} \cup {Slugify(h) : h \in Range(g)}

\* The links beside every page.
Nav(g) == {Index} \cup Slugs(g)

\* The files that are written for commit n: the overview, then the sections' pages,
\* where the last of several with one name stays.
Pages(n, g) ==
  [s \in {Index} \cup Slugs(g) |->
     LET named == {i \in Sections(g) : Slugify(g[i]) = s}
     IN  [of |-> n, heading |-> IF named = {} THEN <<>> ELSE g[Max(named)]]]

\* A page that is there is not written again.
Built_Mistake(n, g, old) == old @@ Pages(n, g)

\* Pages of an older guide that the new one lacks remain.
Built(n, g, old) ==
  LET new == Pages(n, g)
  IN  [s \in DOMAIN new \cup DOMAIN old |->
         IF s \in DOMAIN new THEN new[s] ELSE old[s]]

------------------------------------------------------------------------------
(* Commits, releases and the workflows. *)

\* No deployment is under way.
Idle == [head |-> 0, step |-> "idle", versions |-> NoVersions, pages |-> <<>>]

Init == /\ main = <<>> /\ released = 0 /\ due = {}
        /\ pending = 0 /\ run = Idle
        /\ site = [head |-> 0, versions |-> NoVersions, pages |-> <<>>]
        /\ flaky \in BOOLEAN

\* A deployment of the head of main, after the one under way; it takes the place
\* of one that waits.
Trigger(head) == pending' = head

\* A commit with the site built again ("make site", with or without GitHub) or
\* as it was.
Commit == \E g \in Guides :
  LET n   == Len(main) + 1
      old == IF main = <<>> THEN [pages |-> <<>>, versions |-> NoVersions]
             ELSE Last(main)
  IN
  /\ n <= MaxCommits
  /\ \/ main' = Append(main, [guide |-> g, pages |-> old.pages,
                              versions |-> old.versions])
     \/ \E v \in {NoVersions, VersionsOf(released)} :
          main' = Append(main, [guide |-> g, pages |-> Built(n, g, old.pages),
                                versions |-> v])
  /\ Trigger(n)
  /\ UNCHANGED <<released, due, run, site, flaky>>

PublishRelease ==
  /\ main # <<>> /\ released < Len(Assets)
  /\ released' = released + 1
  /\ due' = due \cup {released + 1}
  /\ UNCHANGED <<main, pending, run, site, flaky>>

\* The release is left to start the deployment by itself.
Dispatch_Mistake == \E r \in due :
  /\ due' = due \ {r}
  /\ UNCHANGED <<main, released, pending, run, site, flaky>>

\* The release workflow's last step.
Dispatch == \E r \in due :
  /\ due' = due \ {r}
  /\ Trigger(Len(main))
  /\ UNCHANGED <<main, released, run, site, flaky>>

\* The workflow failed between the two.
ReleaseFails == \E r \in due :
  /\ flaky
  /\ due' = due \ {r}
  /\ UNCHANGED <<main, released, pending, run, site, flaky>>

\* One deployment at a time; it works on the commit of its trigger.
Start ==
  /\ run = Idle /\ pending # 0
  /\ run' = [head |-> pending, step |-> "versions",
             versions |-> main[pending].versions, pages |-> main[pending].pages]
  /\ pending' = 0
  /\ UNCHANGED <<main, released, due, site, flaky>>

At(step) == /\ run.step = step
            /\ UNCHANGED <<main, released, due, pending, flaky>>

\* Without an answer the committed file stays.
BuildVersions_Mistake ==
  /\ At("versions")
  /\ \E v \in {VersionsOf(released)} \cup {u \in {run.versions} : flaky} :
       run' = [run EXCEPT !.step = "docs", !.versions = v]
  /\ UNCHANGED site

BuildVersions ==
  /\ At("versions")
  /\ \E v \in {VersionsOf(released)} \cup {u \in {NoVersions} : flaky} :
       run' = [run EXCEPT !.step = "docs", !.versions = v]
  /\ UNCHANGED site

BuildDocs ==
  /\ At("docs")
  /\ run' = [run EXCEPT !.step = "deploy",
               !.pages = Built(run.head, main[run.head].guide, run.pages)]
  /\ UNCHANGED site

Deploy == /\ At("deploy")
          /\ site' = [head |-> run.head, versions |-> run.versions,
                      pages |-> run.pages]
          /\ run' = Idle

RunFails == /\ flaky /\ run # Idle
            /\ run' = Idle
            /\ UNCHANGED <<main, released, due, pending, site, flaky>>

Next == \/ Commit \/ PublishRelease \/ Dispatch \/ ReleaseFails
        \/ Start \/ BuildVersions \/ BuildDocs \/ Deploy \/ RunFails

Spec == Init /\ [][Next]_vars

\* A published release gets dispatched, and deployments start and go on.
FairSpec == /\ Spec
            /\ WF_vars(Dispatch)
            /\ WF_vars(Start \/ BuildVersions \/ BuildDocs \/ Deploy)

------------------------------------------------------------------------------
(* Properties. *)

\* No page of the site has a dead link beside it, the pages left from older
\* guides included.
LinksResolve == \A s \in DOMAIN site.pages :
  Nav(main[site.pages[s].of].guide) \subseteq DOMAIN site.pages

\* A guide whose sections have file names of their own, none of them the
\* overview's, is published whole: every page its overview links to is from the
\* commit deployed, and every section has one.
GuideIsWhole == site.head > 0 =>
  LET g == main[site.head].guide
  IN  Cardinality(Nav(g)) = Cardinality(Sections(g)) + 1 =>
        /\ \A s \in Nav(g) : site.pages[s].of = site.head
        /\ \A i \in Sections(g) : site.pages[Slugify(g[i])].heading = g[i]

\* The downloads page links to every archive of the release it names, once,
\* whatever the archive calls system and processor.
EveryArchiveShown == site.versions.latest > 0 =>
  LET groups   == Downloads(site.versions)
      archives == {n \in Assets[site.versions.latest] :
                     /\ Range(n) \cap DOMAIN OsNames # {}
                     /\ Range(n) \cap DOMAIN ArchNames # {}}
  IN  \A n \in archives :
        Cardinality({os \in DOMAIN groups : n \in groups[os]}) = 1

\* A deployment never takes the site back to an older commit or to an older
\* release; it may lose the release list while GitHub does not answer.
NeverGoesBack == [][/\ site'.head >= site.head
                    /\ \/ site'.versions.latest >= site.versions.latest
                       \/ site'.versions = NoVersions]_vars

\* If nothing fails, every commit and every release gets published, or a later
\* one: no trigger is lost to the deployment under way or to the one waiting.
PublishedInTheEnd ==
  /\ \A n \in 1..MaxCommits : (~flaky /\ Len(main) >= n) ~> site.head >= n
  /\ \A r \in DOMAIN Assets :
       (~flaky /\ released >= r) ~> site.versions.latest >= r
==============================================================================
