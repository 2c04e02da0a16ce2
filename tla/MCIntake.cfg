SPECIFICATION Spec
CONSTANTS
  t1 = t1
  t2 = t2
  m1 = m1
  m2 = m2
  bad = bad
  None = None
  Broken = Broken
  Torrents = {t1, t2}
  Links = {m1, m2, bad}
  Files = {"a", "b"}
  Of <- MCOf
  Rows <- MCRows
  Every = 2
  Worlds = {{"drops"}, {"drops", "locked"}, {"launches", "pastes"}, {"overlaps", "pastes"}, {"unseeded", "launches", "pastes"}, {"stops", "launches"}}
  MaxAsks = 2
  MaxClicks = 2
INVARIANTS AnswersItsQuestion ConfirmedAsShown RecordTellsTruth
PROPERTIES CommandsAreTaken DroppedIsParked
CHECK_DEADLOCK FALSE
