CONSTANTS
  Users = {u1, u2}
  Nobody = nobody
  Requests = {q1, q2}
  Roots = {post}
  AnyRoot = post
  Slugs = {"news"}
  MaxChats = 5
  MaxOps = 4
  MaxTopic = 5
SPECIFICATION Spec
INVARIANTS TypeOK SavedAgree NobodyClashes
PROPERTY TopicsAreFresh
SYMMETRY Alike
CHECK_DEADLOCK FALSE
