SPECIFICATION Spec
CONSTANTS
  TERM_WIDTH = 5
  TERM_HEIGHT = 3
  FVB_PAGES = 3
  Chars = {"a", "b", ">", " "}
  Letters = {"a", "b"}
  Enders = {"b"}
  BUFFER_SIZE = 4
  MaxLine = 3
  MaxEdits = 4
  Banner <- CheckedBanner
INVARIANTS TypeOK LineShown ScreenFollows
PROPERTIES ViewKeepsPlace BufferUsedFirst ImplementsLineBuffer
