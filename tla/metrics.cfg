SPECIFICATION Spec
CONSTANTS
  Session = {s1, s2}
  Host = {h1}
  Nil = Nil
  Unset = Unset
  MaxPings = 2
  MaxHandlers = 2
INVARIANT TypeOK
INVARIANT CalmScrapeIsExact
INVARIANT NilHostIsZero
PROPERTY ScrapeAnswered
