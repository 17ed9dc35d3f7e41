SPECIFICATION Spec
CONSTANTS
  Threads = {"main", "recv"}
  Severities = {1, 2, 3, 4, 5}
INVARIANTS SessionRestored QuietEnd LogIsClean LogIsOpen
