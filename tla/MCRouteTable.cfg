CONSTANTS
  Adders = {a1, a2}
  Clients = {c1}
  Offers <- MCOffers
  Requests <- MCRequests
  Lower <- MCLower
  IsMatch <- MCIsMatch
  CacheMax = 1
SPECIFICATION Spec
INVARIANTS ResolutionsServe  
 
SYMMETRY AdderSymmetry
