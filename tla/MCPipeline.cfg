CONSTANTS
  N = 2
  c1 = c1
  c2 = c2
  c3 = c3
  f1 = f1
  f2 = f2
  k1 = k1
  k2 = k2
  v = v
  t1 = t1
  t2 = t2
  s1 = s1
  s2 = s2
  s3 = s3
  Content = {c1, c2, c3}
  Format = {f1, f2}
  Conv = {k1, k2}
  ConvVer = {v}
  Text = {t1, t2}
  Seg = {s1, s2, s3}
  Detected <- MCDetected
  Route <- MCRoute
  VersionOf <- MCVersionOf
  Result <- MCResult
  Fits <- MCFits
  Absent = Absent
  None = None
  Fail = Fail
  MaxRules = 2
  Disturbances = {"edit", "kill", "damage", "fault"}
  MaxDisturbances = 2
SPECIFICATION Spec
INVARIANTS TypeOK RecordSound MirrorMatchesManifest RecordCurrent
PROPERTIES SettledIsSkipped Converges
CHECK_DEADLOCK FALSE
