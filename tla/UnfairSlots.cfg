\* The least number of readings with which a preflight can pass one over: two it
\* refreshes, one it has yet to, and one that waits.
CONSTANTS
  Readings = 4
  Visible = {2}
  Failing = {}
  Watched = 1
  Jobs = 1
  Streak = 1
  Pace = 1
  MaxResets = 0
SPECIFICATION PollSpec
INVARIANTS
  EachReadingIsServed
CHECK_DEADLOCK FALSE
