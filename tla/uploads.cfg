CONSTANTS
  Users = {u1, u2}
  Nobody = nobody
  Files = {f1, f2}
  NoFile = nofile
  Requests = {x1, x2}
  Kinds = {"image", "video", "file"}
  Names = {"original", "preview", "master", "segments", "signed"}
SPECIFICATION Spec
CONSTRAINT Few
INVARIANTS NothingDangles SomethingIsKept
SYMMETRY Alike
CHECK_DEADLOCK FALSE
