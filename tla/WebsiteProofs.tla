----------------------------- MODULE WebsiteProofs -----------------------------
(***************************************************************************)
(* The site never goes back, has no dead links beside its pages, shows the *)
(* guide and every archive of the release it is at, for any guides,        *)
(* releases and number of commits, and whatever fails.                     *)
(***************************************************************************)
EXTENDS Website, SequenceTheorems, FiniteSetTheorems, WellFoundedInduction, TLAPS

\* What a deployment publishes as the release list: nothing, or the list of a
\* release no older than the one on the site.
Fetched(v) == \/ v = NoVersions
              \/ v.latest \in site.versions.latest..released

\* Commits are published in their order: what is published, deployed and waiting
\* is ordered.
HeadsInv ==
  /\ main \in Seq(Range(main)) /\ pending \in 0..Len(main)
  /\ run.head \in 0..Len(main) /\ site.head \in 0..Len(main)
  /\ run # Idle => site.head <= run.head /\ run.head # 0
  /\ pending # 0 => site.head <= pending /\ run.head <= pending

\* While a deployment runs, the release list it made does not grow older than
\* the site's, which only its own end changes.
ReleasesInv ==
  /\ released \in Nat /\ site.versions.latest \in 0..released
  /\ run.step \in {"docs", "deploy"} => Fetched(run.versions)

IInv == HeadsInv /\ ReleasesInv

------------------------------------------------------------------------------
LEMMA OverItsRange ==
  ASSUME NEW S, NEW s \in Seq(S)
  PROVE  s \in Seq(Range(s))
<1>1. Len(s) \in Nat /\ DOMAIN s = 1..Len(s) /\ s \in [1..Len(s) -> S]
  BY LenProperties
<1>2. s \in [1..Len(s) -> Range(s)]
  BY <1>1 DEF Range
<1> QED BY <1>1, <1>2, SeqDef

\* One more commit.
LEMMA Appended ==
  ASSUME main \in Seq(Range(main)), NEW c
  PROVE  /\ Append(main, c) \in Seq(Range(Append(main, c)))
         /\ Len(Append(main, c)) = Len(main) + 1
         /\ Len(main) \in Nat
<1> DEFINE T == Range(main) \cup {c}
<1>1. main \in Seq(T)
  BY SeqMonotonic
<1>2. Append(main, c) \in Seq(T) /\ Len(Append(main, c)) = Len(main) + 1
  <2>1. c \in T
    OBVIOUS
  <2> QED BY <1>1, <2>1, AppendProperties
<1>3. Append(main, c) \in Seq(Range(Append(main, c)))
  BY <1>2, OverItsRange
<1> QED BY <1>1, <1>2, <1>3, LenProperties

LEMMA LatestOf ==
  ASSUME NEW r \in Nat
  PROVE  VersionsOf(r).latest = r
<1>1. CASE r = 0
  BY <1>1 DEF VersionsOf, NoVersions
<1>2. CASE r # 0
  BY <1>2 DEF VersionsOf
<1> QED BY <1>1, <1>2

THEOREM InitIInv == Init => IInv
<1> SUFFICES ASSUME Init PROVE IInv
  OBVIOUS
<1>1. main \in Seq(Range(main)) /\ Len(main) = 0
  <2>1. main = <<>>
    BY DEF Init
  <2>2. <<>> \in Seq({})
    OBVIOUS
  <2>3. main \in Seq(Range(main))
    BY <2>1, <2>2, OverItsRange
  <2> QED BY <2>1, <2>3
<1>2. HeadsInv
  BY <1>1 DEF Init, HeadsInv, Idle
<1>3. ReleasesInv
  BY DEF Init, ReleasesInv, NoVersions, Idle
<1> QED BY <1>2, <1>3 DEF IInv

------------------------------------------------------------------------------
\* A step of Next or a stutter keeps the order of commits.
LEMMA NextHeads == IInv /\ [Next]_vars => HeadsInv'
<1> SUFFICES ASSUME IInv, [Next]_vars PROVE HeadsInv'
  OBVIOUS
<1> USE DEF IInv, HeadsInv
<1>0. Len(main) \in Nat
  BY LenProperties
<1>1. CASE Commit
  <2>1. PICK c : main' = Append(main, c) /\ pending' = Len(main) + 1
    BY <1>1 DEF Commit, Trigger
  <2>2. main' \in Seq(Range(main')) /\ Len(main') = Len(main) + 1
    BY <2>1, Appended
  <2>3. UNCHANGED <<run, site>>
    BY <1>1 DEF Commit
  <2> QED BY <1>0, <2>1, <2>2, <2>3 DEF Idle
<1>2. CASE PublishRelease
  BY <1>2 DEF PublishRelease, Idle
<1>3. CASE Dispatch
  BY <1>0, <1>3 DEF Dispatch, Trigger, Idle
<1>4. CASE ReleaseFails
  BY <1>4 DEF ReleaseFails, Idle
<1>5. CASE Start
  BY <1>0, <1>5 DEF Start, Idle
<1>6. CASE BuildVersions
  <2>1. run'.head = run.head /\ run # Idle
    BY <1>6 DEF BuildVersions, At, Idle
  <2> QED BY <1>6, <2>1 DEF BuildVersions, At
<1>7. CASE BuildDocs
  <2>1. run'.head = run.head /\ run # Idle
    BY <1>7 DEF BuildDocs, At, Idle
  <2> QED BY <1>7, <2>1 DEF BuildDocs, At
<1>8. CASE Deploy
  <2>1. run # Idle /\ run' = Idle /\ site'.head = run.head
    BY <1>8 DEF Deploy, At, Idle
  <2>2. run'.head = 0
    BY <2>1 DEF Idle
  <2> QED BY <1>0, <1>8, <2>1, <2>2 DEF Deploy, At
<1>9. CASE RunFails
  <2>1. run'.head = 0 /\ run' = Idle
    BY <1>9 DEF RunFails, Idle
  <2> QED BY <1>0, <1>9, <2>1 DEF RunFails
<1>10. CASE UNCHANGED vars
  BY <1>10 DEF vars, Idle
<1> QED
  BY <1>1, <1>2, <1>3, <1>4, <1>5, <1>6, <1>7, <1>8, <1>9, <1>10 DEF Next

LEMMA NextReleases == IInv /\ [Next]_vars => ReleasesInv'
<1> SUFFICES ASSUME IInv, [Next]_vars PROVE ReleasesInv'
  OBVIOUS
<1> USE DEF IInv, ReleasesInv, Fetched
<1>1. CASE Commit
  BY <1>1 DEF Commit
<1>2. CASE PublishRelease
  BY <1>2 DEF PublishRelease
<1>3. CASE Dispatch
  BY <1>3 DEF Dispatch
<1>4. CASE ReleaseFails
  BY <1>4 DEF ReleaseFails
<1>5. CASE Start
  BY <1>5 DEF Start
<1>6. CASE BuildVersions
  <2>1. run'.versions \in {VersionsOf(released), NoVersions}
    BY <1>6 DEF BuildVersions, At
  <2>2. VersionsOf(released).latest = released
    BY LatestOf
  <2> QED BY <1>6, <2>1, <2>2 DEF BuildVersions, At
<1>7. CASE BuildDocs
  <2>1. run'.versions = run.versions /\ run.step = "docs"
    BY <1>7 DEF BuildDocs, At
  <2> QED BY <1>7, <2>1 DEF BuildDocs, At
<1>8. CASE Deploy
  <2>1. run'.step = "idle"
    BY <1>8 DEF Deploy, Idle
  <2>2. site'.versions = run.versions /\ Fetched(run.versions)
    BY <1>8 DEF Deploy, At
  <2>3. NoVersions.latest = 0
    BY DEF NoVersions
  <2> QED BY <1>8, <2>1, <2>2, <2>3 DEF Deploy, At
<1>9. CASE RunFails
  BY <1>9 DEF RunFails, Idle
<1>10. CASE UNCHANGED vars
  BY <1>10 DEF vars
<1> QED
  BY <1>1, <1>2, <1>3, <1>4, <1>5, <1>6, <1>7, <1>8, <1>9, <1>10 DEF Next

\* The order of the commits and of the releases is an invariant.
THEOREM Ordered == Spec => []IInv
<1>1. IInv /\ [Next]_vars => IInv'
  BY NextHeads, NextReleases DEF IInv
<1> QED BY <1>1, InitIInv, PTL DEF Spec

\* Spec has the property NeverGoesBack: whatever fails and however pushes and
\* dispatches interleave with the deployment under way, the published commit and
\* the published release only grow, except that a release list GitHub did not
\* deliver is empty.
THEOREM SiteNeverGoesBack == Spec => NeverGoesBack
<1> DEFINE Forward ==
      /\ site'.head >= site.head
      /\ \/ site'.versions.latest >= site.versions.latest
         \/ site'.versions = NoVersions
<1>1. IInv /\ [Next]_vars => [Forward]_vars
  <2> SUFFICES ASSUME IInv, Next PROVE Forward
    OBVIOUS
  <2> USE DEF IInv, HeadsInv, ReleasesInv
  <2>1. CASE site' = site
    BY <2>1
  <2>2. CASE Deploy
    <3>1. run # Idle /\ run.step = "deploy"
      BY <2>2 DEF Deploy, At, Idle
    <3>2. site'.head = run.head /\ site'.versions = run.versions
      BY <2>2 DEF Deploy
    <3> QED BY <3>1, <3>2 DEF Fetched
  <2>3. site' = site \/ Deploy
    BY DEF Next, Commit, PublishRelease, Dispatch, ReleaseFails, Start,
           BuildVersions, BuildDocs, RunFails
  <2> QED BY <2>1, <2>2, <2>3
<1> QED BY <1>1, Ordered, PTL DEF Spec, NeverGoesBack

------------------------------------------------------------------------------
(* Links. *)

\* Every page in a tree of files is of a commit in m, and the tree has the pages
\* it links to.
Sound(m, pages) == \A s \in DOMAIN pages :
  /\ pages[s].of \in 1..Len(m)
  /\ Nav(m[pages[s].of].guide) \subseteq DOMAIN pages

\* So are all trees: the committed ones, the one being built, and the site.
LinksInv == /\ \A i \in 1..Len(main) : Sound(main, main[i].pages)
            /\ Sound(main, run.pages)
            /\ Sound(main, site.pages)

LEMMA SoundGrows ==
  ASSUME main \in Seq(Range(main)), NEW c, NEW pages, Sound(main, pages)
  PROVE  Sound(Append(main, c), pages)
<1>1. \A i \in 1..Len(main) : Append(main, c)[i] = main[i]
  <2>1. main \in Seq(Range(main) \cup {c}) /\ c \in Range(main) \cup {c}
    BY SeqMonotonic
  <2> QED BY <2>1, AppendProperties
<1>2. Len(Append(main, c)) = Len(main) + 1 /\ Len(main) \in Nat
  BY Appended
<1> QED BY <1>1, <1>2 DEF Sound

\* A build writes every page that its pages link to.
LEMMA BuiltSound ==
  ASSUME NEW m, NEW pages, Sound(m, pages), NEW n \in 1..Len(m)
  PROVE  Sound(m, Built(n, m[n].guide, pages))
<1> DEFINE g    == m[n].guide
           tree == Built(n, g, pages)
<1>1. DOMAIN tree = Nav(g) \cup DOMAIN pages
  BY DEF Built, Pages, Nav
<1>2. \A s \in Nav(g) : tree[s].of = n
  BY DEF Built, Pages, Nav
<1>3. \A s \in DOMAIN pages \ Nav(g) : tree[s] = pages[s]
  BY DEF Built, Pages, Nav
<1> SUFFICES ASSUME NEW s \in DOMAIN tree
             PROVE  tree[s].of \in 1..Len(m) /\ Nav(m[tree[s].of].guide) \subseteq DOMAIN tree
  BY DEF Sound
<1>4. CASE s \in Nav(g)
  BY <1>1, <1>2, <1>4
<1>5. CASE s \notin Nav(g)
  <2>1. s \in DOMAIN pages
    BY <1>1, <1>5
  <2> QED BY <1>1, <1>3, <1>5, <2>1 DEF Sound
<1> QED BY <1>4, <1>5

LEMMA InitLinks == Init => LinksInv
<1> SUFFICES ASSUME Init PROVE LinksInv
  OBVIOUS
<1>1. Len(main) = 0 /\ run.pages = <<>> /\ site.pages = <<>>
  BY DEF Init, Idle
<1>2. \A m : Sound(m, <<>>)
  BY DEF Sound
<1> QED BY <1>1, <1>2 DEF LinksInv

\* A commit's own tree is sound, built again or not.
LEMMA CommitLinks ==
  ASSUME HeadsInv, LinksInv, Commit
  PROVE  LinksInv'
<1>1. PICK g \in Guides :
        LET n   == Len(main) + 1
            old == IF main = <<>> THEN [pages |-> <<>>, versions |-> NoVersions]
                   ELSE Last(main)
        IN  \E c : /\ main' = Append(main, c) /\ c.guide = g
                   /\ c.pages = old.pages \/ c.pages = Built(n, g, old.pages)
  BY DEF Commit
<1> DEFINE n   == Len(main) + 1
           old == IF main = <<>> THEN [pages |-> <<>>, versions |-> NoVersions]
                  ELSE Last(main)
<1>2. PICK c : /\ main' = Append(main, c) /\ c.guide = g
               /\ c.pages = old.pages \/ c.pages = Built(n, g, old.pages)
  BY <1>1
<1>3. main \in Seq(Range(main))
  BY DEF HeadsInv
<1>4. Len(main) \in Nat /\ Len(main') = n
  BY <1>2, <1>3, Appended
<1>5. main'[n] = c /\ \A i \in 1..Len(main) : main'[i] = main[i]
  <2>1. main \in Seq(Range(main) \cup {c}) /\ c \in Range(main) \cup {c}
    BY <1>3, SeqMonotonic
  <2> QED BY <1>2, <2>1, AppendProperties
<1>6. Sound(main', old.pages)
  <2>1. CASE main = <<>>
    BY <2>1 DEF Sound
  <2>2. CASE main # <<>>
    <3>1. Len(main) \in 1..Len(main) /\ old = main[Len(main)]
      BY <1>3, <1>4, <2>2, EmptySeq DEF Last
    <3>2. Sound(main, old.pages)
      BY <3>1 DEF LinksInv
    <3> QED BY <1>2, <1>3, <3>2, SoundGrows
  <2> QED BY <2>1, <2>2
<1>7. Sound(main', c.pages)
  <2>1. CASE c.pages = old.pages
    BY <1>6, <2>1
  <2>2. CASE c.pages = Built(n, g, old.pages)
    <3>1. n \in 1..Len(main') /\ main'[n].guide = g
      BY <1>2, <1>4, <1>5
    <3>2. Sound(main', Built(n, main'[n].guide, old.pages))
      BY <1>6, <3>1, BuiltSound
    <3> QED BY <2>2, <3>1, <3>2
  <2> QED BY <1>2, <2>1, <2>2
<1>8. \A i \in 1..Len(main) : Sound(main', main[i].pages)
  BY <1>2, <1>3, SoundGrows DEF LinksInv
<1>9. \A i \in 1..Len(main') : Sound(main', main'[i].pages)
  BY <1>4, <1>5, <1>7, <1>8
<1>10. Sound(main', run.pages) /\ Sound(main', site.pages)
  BY <1>2, <1>3, SoundGrows DEF LinksInv
<1>11. UNCHANGED <<run, site>>
  BY DEF Commit
<1> QED BY <1>9, <1>10, <1>11 DEF LinksInv

LEMMA NextLinks == IInv /\ LinksInv /\ [Next]_vars => LinksInv'
<1> SUFFICES ASSUME HeadsInv, LinksInv, [Next]_vars PROVE LinksInv'
  BY DEF IInv
<1>0. Sound(main, Idle.pages)
  BY DEF Idle, Sound
<1>1. CASE Commit
  BY <1>1, CommitLinks
<1>2. CASE UNCHANGED <<main, run, site>>
  BY <1>2 DEF LinksInv
<1>3. CASE Start
  <2>1. run'.pages = main[pending].pages /\ pending \in 1..Len(main)
    BY <1>3, LenProperties DEF Start, HeadsInv
  <2> QED BY <1>3, <2>1 DEF Start, LinksInv
<1>4. CASE BuildVersions
  <2>1. run'.pages = run.pages
    BY <1>4 DEF BuildVersions, At
  <2> QED BY <1>4, <2>1 DEF BuildVersions, At, LinksInv
<1>5. CASE BuildDocs
  <2>1. run # Idle /\ run.step = "docs"
    BY <1>5 DEF BuildDocs, At, Idle
  <2>2. PICK p : p = Built(run.head, main[run.head].guide, run.pages)
    OBVIOUS
  <2>3. run.head \in 1..Len(main)
    BY <2>1 DEF HeadsInv
  <2>4. Sound(main, p)
    BY <2>2, <2>3, BuiltSound DEF LinksInv
  <2> QED BY <1>5, <2>2, <2>4 DEF BuildDocs, At, LinksInv
<1>6. CASE Deploy
  <2>1. site'.pages = run.pages /\ run'.pages = Idle.pages
    BY <1>6 DEF Deploy
  <2> QED BY <1>0, <1>6, <2>1 DEF Deploy, At, LinksInv
<1>7. CASE RunFails
  <2>1. run'.pages = Idle.pages
    BY <1>7 DEF RunFails
  <2> QED BY <1>0, <1>7, <2>1 DEF RunFails, LinksInv
<1> QED
  BY <1>1, <1>2, <1>3, <1>4, <1>5, <1>6, <1>7
     DEF Next, PublishRelease, Dispatch, ReleaseFails, vars

\* Spec has the invariant LinksResolve: however the committed pages lag behind
\* their guides, no published page links to one that is not there.
THEOREM NoDeadLinks == Spec => []LinksResolve
<1>1. LinksInv => LinksResolve
  BY DEF LinksInv, Sound, LinksResolve
<1> QED BY <1>1, InitLinks, NextLinks, Ordered, PTL DEF Spec

------------------------------------------------------------------------------
(* Guides. *)

\* A tree of files has the pages that commit n makes of its guide.
Whole(m, n, pages) ==
  \A s \in Nav(m[n].guide) : pages[s] = Pages(n, m[n].guide)[s]

\* A deployment's fields.
Shaped(r) == r = [head |-> r.head, step |-> r.step, versions |-> r.versions,
                  pages |-> r.pages]

\* The tree about to be deployed has its commit's pages, and so has the site.
WholeInv == /\ Shaped(run)
            /\ \A i \in 1..Len(main) : main[i].guide \in Guides
            /\ run.step = "deploy" => Whole(main, run.head, run.pages)
            /\ site.head > 0 => Whole(main, site.head, site.pages)

\* A build writes all its pages.
LEMMA BuiltWhole ==
  ASSUME NEW m, NEW n, NEW old
  PROVE  Whole(m, n, Built(n, m[n].guide, old))
<1> DEFINE g == m[n].guide
<1>1. PICK new : new = Pages(n, g)
  OBVIOUS
<1>2. DOMAIN new = Nav(g)
  BY <1>1 DEF Pages, Nav
<1>3. Built(n, g, old) = [s \in DOMAIN new \cup DOMAIN old |->
                            IF s \in DOMAIN new THEN new[s] ELSE old[s]]
  BY <1>1 DEF Built
<1>4. \A s \in Nav(g) : Built(n, g, old)[s] = new[s]
  BY <1>2, <1>3
<1> QED BY <1>1, <1>4 DEF Whole

\* Where every section has a file of its own, its page is its own.
LEMMA OwnPage ==
  ASSUME NEW g \in Guides, NEW n, NEW i \in Sections(g),
         Cardinality(Nav(g)) = Cardinality(Sections(g)) + 1
  PROVE  Pages(n, g)[Slugify(g[i])].heading = g[i]
<1> DEFINE f == [j \in Sections(g) |-> Slugify(g[j])]
<1>1. IsFiniteSet(Sections(g)) /\ Cardinality(Sections(g)) \in Nat
  <2>1. g \in Seq(Seq(DOMAIN Plain))
    BY GuidesAssumption
  <2>2. DOMAIN g = 1..Len(g) /\ Len(g) \in Nat
    BY <2>1, LenProperties
  <2>3. IsFiniteSet(1..Len(g))
    BY <2>2, FS_Interval
  <2>4. Sections(g) \in SUBSET (1..Len(g))
    BY <2>2 DEF Sections
  <2> QED BY <2>3, <2>4, FS_Subset, FS_CardinalityType
<1>2. f \in Surjection(Sections(g), Slugs(g))
  BY DEF Surjection, Slugs
<1>3. /\ IsFiniteSet(Slugs(g)) /\ Cardinality(Slugs(g)) <= Cardinality(Sections(g))
      /\ Cardinality(Slugs(g)) = Cardinality(Sections(g))
           <=> f \in Injection(Sections(g), Slugs(g))
  BY <1>1, <1>2, FS_Surjection
<1>4. Cardinality(Slugs(g)) \in Nat
  BY <1>3, FS_CardinalityType
<1>5. Cardinality(Nav(g)) <= Cardinality(Slugs(g)) + 1
  <2>1. Nav(g) = Slugs(g) \cup {Index}
    BY DEF Nav
  <2>2. Cardinality(Slugs(g) \cup {Index}) =
          IF Index \in Slugs(g) THEN Cardinality(Slugs(g)) ELSE Cardinality(Slugs(g)) + 1
    BY <1>3, FS_AddElement
  <2> QED BY <1>4, <2>1, <2>2
<1>6. f \in Injection(Sections(g), Slugs(g))
  BY <1>1, <1>3, <1>4, <1>5
<1>7. {j \in Sections(g) : Slugify(g[j]) = Slugify(g[i])} = {i}
  <2>1. \A j \in Sections(g) : f[j] = f[i] => j = i
    BY <1>6 DEF Injection, IsInjective
  <2> QED BY <2>1
<1>8. Max({i}) = i
  <2>1. i \in Nat
    BY GuidesAssumption, LenProperties DEF Sections
  <2>2. \E x \in {i} : \A y \in {i} : x >= y
    BY <2>1
  <2> QED BY <2>2 DEF Max
<1>9. Slugify(g[i]) \in {Index} \cup Slugs(g)
  BY DEF Slugs
<1> QED BY <1>7, <1>8, <1>9 DEF Pages

LEMMA InitWhole == Init => WholeInv
BY DEF Init, Idle, WholeInv, Shaped

\* Another commit changes no earlier one.
LEMMA CommitWhole ==
  ASSUME HeadsInv, WholeInv, Commit
  PROVE  WholeInv'
<1>1. PICK c : main' = Append(main, c) /\ c.guide \in Guides
  BY DEF Commit
<1>2. main \in Seq(Range(main)) /\ UNCHANGED <<run, site>>
  BY DEF HeadsInv, Commit
<1>3. Len(main) \in Nat /\ Len(main') = Len(main) + 1
  BY <1>1, <1>2, Appended
<1>4. main'[Len(main) + 1] = c /\ \A i \in 1..Len(main) : main'[i] = main[i]
  <2>1. main \in Seq(Range(main) \cup {c}) /\ c \in Range(main) \cup {c}
    BY <1>2, SeqMonotonic
  <2> QED BY <1>1, <2>1, AppendProperties
<1>5. \A i \in 1..Len(main') : main'[i].guide \in Guides
  BY <1>1, <1>3, <1>4 DEF WholeInv
<1>6. run.step = "deploy" => Whole(main', run.head, run.pages)
  <2>1. run.step = "deploy" => run # Idle
    BY DEF Idle
  <2>2. run.step = "deploy" => run.head \in 1..Len(main)
    BY <1>3, <2>1 DEF HeadsInv
  <2> QED BY <1>4, <2>2 DEF WholeInv, Whole
<1>7. site.head > 0 => Whole(main', site.head, site.pages)
  <2>1. site.head > 0 => site.head \in 1..Len(main)
    BY <1>3 DEF HeadsInv
  <2> QED BY <1>4, <2>1 DEF WholeInv, Whole
<1> QED BY <1>2, <1>5, <1>6, <1>7 DEF WholeInv

LEMMA NextWhole == IInv /\ WholeInv /\ [Next]_vars => WholeInv'
<1> SUFFICES ASSUME HeadsInv, WholeInv, [Next]_vars PROVE WholeInv'
  BY DEF IInv
<1>1. CASE Commit
  BY <1>1, CommitWhole
<1>2. CASE UNCHANGED <<main, run, site>>
  BY <1>2 DEF WholeInv, Whole
<1>3. CASE Start \/ BuildVersions \/ RunFails
  <2>1. PICK a, b, c, d : a = run.head /\ b = run.step /\ c = run.versions /\ d = run.pages
    OBVIOUS
  <2>2. Shaped(run') /\ run'.step # "deploy"
    <3>1. CASE Start
      BY <3>1 DEF Start, Shaped
    <3>2. CASE BuildVersions
      <4>1. PICK u : run' = [run EXCEPT !.step = "docs", !.versions = u]
        BY <3>2 DEF BuildVersions
      <4>2. run = [head |-> a, step |-> b, versions |-> c, pages |-> d]
        BY <2>1 DEF WholeInv, Shaped
      <4>3. run' = [head |-> a, step |-> "docs", versions |-> u, pages |-> d]
        BY <4>1, <4>2
      <4> QED BY <4>3 DEF Shaped
    <3>3. CASE RunFails
      BY <3>3 DEF RunFails, Idle, Shaped
    <3> QED BY <1>3, <3>1, <3>2, <3>3
  <2>3. UNCHANGED <<main, site>>
    BY <1>3 DEF Start, BuildVersions, At, RunFails
  <2> QED BY <2>2, <2>3 DEF WholeInv, Whole
<1>4. CASE BuildDocs
  <2>1. UNCHANGED <<main, site>>
    BY <1>4 DEF BuildDocs, At
  <2>2. PICK p : p = Built(run.head, main[run.head].guide, run.pages)
    OBVIOUS
  <2>3. Whole(main, run.head, p)
    BY <2>2, BuiltWhole
  <2>4. run' = [head |-> run.head, step |-> "deploy", versions |-> run.versions,
                pages |-> p]
    BY <1>4, <2>2 DEF BuildDocs, At, WholeInv, Shaped
  <2> QED BY <2>1, <2>3, <2>4 DEF WholeInv, Whole, Shaped
<1>5. CASE Deploy
  <2>1. run.step = "deploy" /\ main' = main /\ run' = Idle /\ Idle.step # "deploy"
    BY <1>5 DEF Deploy, At, Idle
  <2>2. site'.head = run.head /\ site'.pages = run.pages
    BY <1>5 DEF Deploy
  <2> QED BY <2>1, <2>2 DEF WholeInv, Whole, Idle, Shaped
<1> QED
  BY <1>1, <1>2, <1>3, <1>4, <1>5
     DEF Next, PublishRelease, Dispatch, ReleaseFails, vars

\* Spec has the invariant GuideIsWhole: whatever was committed and whatever older
\* pages are around, the site's overview leads to pages of the commit deployed, and
\* every section of a guide with distinct file names has its page.
THEOREM GuideIsWholeHolds == Spec => []GuideIsWhole
<1>1. IInv /\ WholeInv => GuideIsWhole
  <2> SUFFICES ASSUME HeadsInv, WholeInv, site.head > 0
               PROVE  GuideIsWhole
    BY DEF IInv, GuideIsWhole
  <2>1. PICK g : g = main[site.head].guide
    OBVIOUS
  <2>2. g \in Guides
    BY <2>1, LenProperties DEF HeadsInv, WholeInv
  <2>3. \A s \in Nav(g) : site.pages[s] = Pages(site.head, g)[s]
    BY <2>1 DEF WholeInv, Whole
  <2>4. \A s \in Nav(g) : Pages(site.head, g)[s].of = site.head
    BY DEF Pages, Nav
  <2>5. ASSUME Cardinality(Nav(g)) = Cardinality(Sections(g)) + 1, NEW i \in Sections(g)
        PROVE  site.pages[Slugify(g[i])].heading = g[i]
    <3>1. Slugify(g[i]) \in Nav(g)
      BY DEF Nav, Slugs
    <3> QED BY <2>2, <2>3, <2>5, <3>1, OwnPage
  <2> QED BY <2>1, <2>3, <2>4, <2>5 DEF GuideIsWhole
<1> QED BY <1>1, InitWhole, NextWhole, Ordered, PTL DEF Spec

------------------------------------------------------------------------------
(* Archives. *)

\* A release list is what the script makes of some release, or of none.
Listing(v) == \E r \in 0..Len(Assets) : v = VersionsOf(r)

ListsInv == /\ released \in 0..Len(Assets) /\ Listing(site.versions)
            /\ run.step \in {"docs", "deploy"} => Listing(run.versions)

\* A name with a word of the table is matched.
LEMMA Matched ==
  ASSUME NEW name \in Seq(STRING), NEW table, Range(name) \cap DOMAIN table # {}
  PROVE  \E w \in DOMAIN table : Match(name, table) = table[w]
<1> DEFINE hits == {i \in DOMAIN name : name[i] \in DOMAIN table}
<1>1. hits # {} /\ hits \subseteq Nat
  BY LenProperties DEF Range
<1> HIDE DEF hits
<1>2. PICK x \in hits : \A y \in hits : ~(<<y, x>> \in OpToRel(<, Nat))
  BY <1>1, NatLessThanWellFounded, WFMin
<1>3. \A y \in hits : x <= y
  <2>1. \A i, j \in Nat : i < j => <<i, j>> \in OpToRel(<, Nat)
    BY DEF OpToRel
  <2>2. x \in Nat /\ \A y \in hits : y \in Nat /\ ~(y < x)
    BY <1>1, <1>2, <2>1
  <2> QED BY <2>2
<1>4. Min(hits) \in hits
  BY <1>3 DEF Min
<1> QED BY <1>1, <1>4 DEF hits, Match

LEMMA Parsed ==
  ASSUME NEW n \in Seq(STRING), Range(n) \cap DOMAIN OsNames # {},
         Range(n) \cap DOMAIN ArchNames # {}
  PROVE  /\ ParseAsset(n).os \in OsOrder /\ ParseAsset(n).os # ""
         /\ ParseAsset(n).arch # ""
<1>1. PICK w \in DOMAIN OsNames : Match(n, OsNames) = OsNames[w]
  BY Matched
<1>2. PICK a \in DOMAIN ArchNames : Match(n, ArchNames) = ArchNames[a]
  BY Matched
<1>3. OsNames[w] \in OsOrder /\ OsNames[w] # ""
  <2>1. w \in {"darwin", "macos", "linux", "windows"}
    BY DEF OsNames
  <2>2. /\ OsNames["darwin"] = "darwin" /\ OsNames["macos"] = "darwin"
        /\ OsNames["linux"] = "linux" /\ OsNames["windows"] = "windows"
    BY DEF OsNames
  <2> QED BY <2>1, <2>2 DEF OsOrder
<1>4. ArchNames[a] # ""
  <2>1. a \in {"amd64", "x86_64", "arm64", "aarch64"}
    BY DEF ArchNames
  <2>2. /\ ArchNames["amd64"] = "amd64" /\ ArchNames["x86_64"] = "amd64"
        /\ ArchNames["arm64"] = "arm64" /\ ArchNames["aarch64"] = "arm64"
    BY DEF ArchNames
  <2> QED BY <2>1, <2>2
<1> QED BY <1>1, <1>2, <1>3, <1>4 DEF ParseAsset

\* An archive is listed in the group of its system and in no other.
LEMMA Grouped ==
  ASSUME NEW r \in 1..Len(Assets), NEW n \in Assets[r],
         Range(n) \cap DOMAIN OsNames # {}, Range(n) \cap DOMAIN ArchNames # {}
  PROVE  LET groups == Downloads(VersionsOf(r))
         IN  {os \in DOMAIN groups : n \in groups[os]} = {ParseAsset(n).os}
<1> DEFINE v        == VersionsOf(r)
           groups   == Downloads(v)
           list(os) == {a.name : a \in {b \in v.assets : b.os = os}}
<1>1. Len(Assets) \in Nat /\ n \in Seq(STRING)
  BY AssetsAssumption, LenProperties, ElementOfSeq
<1>2. r # 0
  BY <1>1
<1>3. /\ v.latest = r
      /\ v.assets = {a \in {ParseAsset(m) : m \in Assets[r]} : a.os # "" /\ a.arch # ""}
  BY <1>2 DEF VersionsOf
<1> HIDE DEF v
<1>4. \A m : ParseAsset(m).name = m
  BY DEF ParseAsset
<1>5. \A os : n \in list(os) <=> os = ParseAsset(n).os
  <2>1. ParseAsset(n) \in v.assets
    BY <1>1, <1>3, Parsed
  <2>2. \A a \in v.assets : a.name = n => a = ParseAsset(n)
    BY <1>3, <1>4
  <2> QED BY <1>4, <2>1, <2>2
<1>6. groups = [os \in {o \in OsOrder : list(o) # {}} |-> list(os)]
  BY <1>2, <1>3 DEF Downloads
<1>7. ParseAsset(n).os \in OsOrder
  BY <1>1, Parsed
<1>8. ParseAsset(n).os \in DOMAIN groups
  BY <1>5, <1>6, <1>7
<1>9. \A os \in DOMAIN groups : n \in groups[os] <=> os = ParseAsset(n).os
  BY <1>5, <1>6
<1> QED BY <1>8, <1>9 DEF v

LEMMA NextLists == ListsInv /\ [Next]_vars => ListsInv'
<1> SUFFICES ASSUME ListsInv, [Next]_vars PROVE ListsInv'
  OBVIOUS
<1> USE DEF ListsInv
<1>0. Listing(NoVersions) /\ Len(Assets) \in Nat
  <2>1. Len(Assets) \in Nat
    BY AssetsAssumption, LenProperties
  <2>2. VersionsOf(0) = NoVersions
    BY DEF VersionsOf
  <2> QED BY <2>1, <2>2 DEF Listing
<1>1. CASE PublishRelease
  BY <1>0, <1>1 DEF PublishRelease
<1>2. CASE Start \/ RunFails
  <2>1. run'.step \notin {"docs", "deploy"} /\ UNCHANGED <<released, site>>
    BY <1>2 DEF Start, RunFails, Idle
  <2> QED BY <2>1
<1>3. CASE BuildVersions
  <2>1. run'.versions \in {VersionsOf(released), NoVersions} /\ UNCHANGED <<released, site>>
    BY <1>3 DEF BuildVersions, At
  <2>2. Listing(VersionsOf(released))
    BY DEF Listing
  <2> QED BY <1>0, <2>1, <2>2
<1>4. CASE BuildDocs
  <2>1. run'.versions = run.versions /\ run.step = "docs" /\ UNCHANGED <<released, site>>
    BY <1>4 DEF BuildDocs, At
  <2> QED BY <2>1
<1>5. CASE Deploy
  <2>1. /\ run.step = "deploy" /\ run'.step = "idle" /\ released' = released
        /\ site'.versions = run.versions
    BY <1>5 DEF Deploy, At, Idle
  <2> QED BY <2>1
<1>6. CASE UNCHANGED <<released, run, site>>
  BY <1>6
<1> QED
  BY <1>1, <1>2, <1>3, <1>4, <1>5, <1>6 DEF Next, Commit, Dispatch, ReleaseFails, vars

\* Spec has the invariant EveryArchiveShown: whichever deployments fail and
\* whenever GitHub answers, an archive of the release the downloads page names has
\* one link there, whatever order and spelling its name has.
THEOREM EveryArchiveShownHolds == Spec => []EveryArchiveShown
<1>1. Init => ListsInv
  <2>1. Len(Assets) \in Nat
    BY AssetsAssumption, LenProperties
  <2>2. VersionsOf(0) = NoVersions
    BY DEF VersionsOf
  <2> QED BY <2>1, <2>2 DEF Init, ListsInv, Listing, Idle
<1>2. ListsInv => EveryArchiveShown
  <2> SUFFICES ASSUME ListsInv, site.versions.latest > 0,
                      NEW n \in Assets[site.versions.latest],
                      Range(n) \cap DOMAIN OsNames # {},
                      Range(n) \cap DOMAIN ArchNames # {}
               PROVE  LET groups == Downloads(site.versions)
                      IN  Cardinality({os \in DOMAIN groups : n \in groups[os]}) = 1
    BY DEF EveryArchiveShown
  <2>1. PICK r \in 0..Len(Assets) : site.versions = VersionsOf(r)
    BY DEF ListsInv, Listing
  <2>2. site.versions.latest = r
    BY <2>1, LatestOf
  <2>3. r \in 1..Len(Assets)
    BY <2>2
  <2>4. LET groups == Downloads(VersionsOf(r))
        IN  {os \in DOMAIN groups : n \in groups[os]} = {ParseAsset(n).os}
    BY <2>2, <2>3, Grouped
  <2> QED BY <2>1, <2>4, FS_Singleton
<1> QED BY <1>1, <1>2, NextLists, PTL DEF Spec
==============================================================================
