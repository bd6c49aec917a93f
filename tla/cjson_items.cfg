SPECIFICATION Spec
CONSTANTS
  NumItems = 4
  Chars <- MCChars
  Names <- MCNames
  Programs <- MCPrograms
  MaxText = 12
INVARIANTS LinksConsistent OwnedOnce PrintedTextParses TextFits
PROPERTIES DuplicateIsIdentical ImplementsForest ListSpec
