SPECIFICATION FairSpec
CONSTANTS
  Guides <- MCGuides
  Plain <- MCPlain
  Contents <- MCContents
  Assets <- MCAssets
  MaxCommits = 2
INVARIANTS LinksResolve GuideIsWhole EveryArchiveShown
PROPERTIES NeverGoesBack PublishedInTheEnd
CHECK_DEADLOCK FALSE
