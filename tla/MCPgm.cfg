\* One directory page: 9 managed pages in 3 words, the last word with 3
\* bits that stand for no page.
CONSTANTS
  TotalPages = 10
  PageBits = 16
  HeaderBits = 4
  WordBits = 4
SPECIFICATION Spec
INVARIANTS PagesPartitioned CountExact HintSound
PROPERTY ImplementsPool
