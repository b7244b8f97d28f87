CONSTANTS
  c1 = c1
  c2 = c2
  x = x
  y = y
  Caller <- Callers
  Segment = {"d", "api", "pay"}
  Name <- Names
  Slot <- Slots
  Templates <- TemplatesOf
  Parts <- SomeParts
  Slug <- SlugFor
  NoSlug = "none"
  NoRow = NoRow
SPECIFICATION Spec
SYMMETRY SymmetryCallers
INVARIANTS TypeOK KeysMatchUnlessOverlapped SamePartsOnceFiled
