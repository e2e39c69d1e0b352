SPECIFICATION Spec
CONSTANTS
  library = library
  desk = desk
  exports = exports
  album = album
  Exports = {x}
  Thumbs = {t}
  Folders = {album}
  Photos = {photo}
  Paths = {library, desk, exports}
  LibraryPaths = {library}
  Placed <- Tidy
  None = None
  MaxOutside = 2
INVARIANTS WholeOutput
PROPERTIES NothingDestroyed OnlyOwnFolders OwnershipEarned
CHECK_DEADLOCK FALSE
