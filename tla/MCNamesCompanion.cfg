SPECIFICATION Spec
CONSTANTS
  Identifiers <- FewNames
  Lower <- LowerCase
  Companion <- LengthName
  RustWords = {"match"}
  CWords = {"match"}
  CppWords = {"new"}
  PascalWords = {"begin"}
  Macros = {"SIZE_MAX"}
  Prefixed = {"ml_buf", "ml_cap", "ml_needed", "__d"}
  Temporaries = {"__d"}
  Builtins = {"len"}
  MaxDeclarations = 3
  MaxDepth = 2
INVARIANT LengthIsTheHosts
CHECK_DEADLOCK FALSE
