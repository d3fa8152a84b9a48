SPECIFICATION FairSpec
CONSTANTS
  s1 = s1
  s2 = s2
  s3 = s3
  v1 = v1
  v2 = v2
  v3 = v3
  i1 = i1
  i2 = i2
  fv1 = fv1
  fv2 = fv2
  fv3 = fv3
  fi1 = fi1
  fi2 = fi2
  video = video
  image = image
  none = none
  Schedules = {s1, s2, s3}
  NoSchedule = none
  Kinds = {video, image}
  Ids = {v1, v2, v3, i1, i2}
  KindOf <- MediaKinds
  Files = {fv1, fv2, fv3, fi1, fi2}
  Media <- ThreeSchedules
  MayFail = FALSE
  OneAtATime = TRUE
  MaxAnswers = 1
  MaxUpdates = 3
  MaxChanges = 2
  MaxRepeats = 0
  MaxCrashes = 1
INVARIANT
  AnswerFollowed
PROPERTIES
  ScheduleApplied
CHECK_DEADLOCK FALSE
