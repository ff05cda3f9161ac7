SPECIFICATION Spec
CONSTANTS
  Requests = {r1, r2}
  o1 = o1
  o2 = o2
  Orders = {o1, o2}
  Gigs = {g1}
  logo = logo
  icon = icon
  Slugs = {logo, icon}
  Forms <- FourForms
  MaxStarted = 3
  MaxTags = 3
  MaxCategories = 2
SYMMETRY Symmetry
CHECK_DEADLOCK FALSE
INVARIANTS
  TypeOK
  RatingsExplained
  TagsExplained
  UploadsKeepOrder
