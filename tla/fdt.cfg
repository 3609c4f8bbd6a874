CONSTANTS
  f1 = f1
  f2 = f2
  f3 = f3
  f4 = f4
  h1 = h1
  h2 = h2
  Reqs = {r1, r2, r3, r4}
  Files = {f1, f2, f3, f4}
  Host <- MCHost
  Hash <- MCHash
  SIZE = 2
  CHAINS = 2
  FDs = {3, 4, 5, 6}
  FDT = TRUE
  Page = Page
  ErrorPages = {"before"}
SYMMETRY ReqSymmetry
SPECIFICATION Spec
INVARIANTS
  RightContent
  NothingLeaks
  Accounted
  FdtInv
PROPERTY
  ImplementsSharing
