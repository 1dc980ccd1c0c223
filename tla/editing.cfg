SPECIFICATION Spec
CONSTANTS
  Chars = {"a", "b", "x"}
  Start <- LoadedText
  Typed <- TypedKeys
  Carets <- CaretsSet
  Strides <- Back
  Rewrites <- RewriteAll
  Reloads <- OtherTexts
  MaxLen = 5
  MaxCursors = 2
  MaxEntries = 2
  MaxBytes = 6
  MaxEdits = 3
INVARIANTS
  EditorOK
  CleanIsSaved
  BytesExact
PROPERTIES
  KeepsTimeline
