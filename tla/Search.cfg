SPECIFICATION Spec
CONSTANTS
  T = T
  U = U
  NumPatches = 3
  PageSize = 1
  NumSeries = 3
  Subjects = {T, U}
  NoSubject = NoSubject
  SeriesOf <- OnePatchEach
  SubjectOf <- TwoSubjects
  NumPatterns = 2
  MaxEvents = 2
INVARIANTS
  TypeOK
  SearchIsRight
  OneChangeIsHarmless
