SPECIFICATION MCSpec
CONSTANTS
  x1 = x1  x2 = x2 x3 = x3  p1 = p1  p2 = p2
  Texts = {x1, x2, x3}
  Profiles = {p1, p2}
  MaxPosts = 3
  MaxSends = 3
  MaxEdits = 3
  NoText = NoText
  NoPost = NoPost
  NoProfile = NoProfile
SYMMETRY MCSymmetry
INVARIANTS
  NoDuplicate
PROPERTIES
  ShownStays
  EditReplacesSeen
CHECK_DEADLOCK FALSE
