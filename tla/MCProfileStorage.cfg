\* All the programs, one beside the daemon at a time, and two keys: the one a
\* profile is written with and one that replaces it.
SPECIFICATION Spec
CONSTANTS
  Programs = {"key_tool", "template_tool", "forget_me"}
  MaxKeys = 2
  AtWork = 1
INVARIANTS
  TypeOK
  ManifestIsBacked
  CommittedIsKept
  NothingReadableIsLeft
