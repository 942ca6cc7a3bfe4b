\* Two hosts and a name that is not usable, ports within and out of range, bodies of up to three bytes.
CONSTANTS
  Jobs <- MCJobs
  Texts = {"h1", "h2", "no name", "x", "80", "8080", "65616", "-1", "0"}
  BadTexts = {"no name"}
  Number <- MCNumber
  Grow = 2
  PartMax = 2
  ReadMax = 3
SPECIFICATION Spec
INVARIANTS
  TypeOK
  NothingLeaks
  ResultIsWhole
  AsksItsHost
