\* Two tabs, of one browser or of two; a request fails or is cut off by a reload, and may be
\* served later.
CONSTANTS
  Browsers = {b1, b2}
  Tabs = {t1, t2}
  MaxFaults = 1
  None = None
SPECIFICATION FairSpec
INVARIANTS AnsweredButtonIsRight LoggerIsReachable
PROPERTY ButtonComesBack
