SPECIFICATION Spec
CONSTANTS
  MaxNesting = 2
  NoName = NoName
  NoLen = NoLen
  Images <- MCImages
  Suffixed <- MCSuffixed
  Nameless <- MCNameless
  AnonField <- MCAnonField
INVARIANTS SeededOnce NamesApart ProfileFaithful DefsTrue RefusedForCause
