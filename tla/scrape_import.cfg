SPECIFICATION FlowSpec
CONSTANTS
  t1 = t1
  t2 = t2
  Cli = cli
  sight = sight
  Tasks <- TwoTasks
  Titles <- OneTitle
  LastEdition = 2
  ListedIn <- Listing
  HashEdition = 1
  MaxScrapes = 2
INVARIANT FreshManifest
 
INVARIANT ImageNotOlder
PROPERTY ScrapeEnds
