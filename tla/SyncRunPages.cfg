\* A source that lists due items page by page and claims what it likes.
CONSTANTS
  c1 = c1
  c2 = c2
  folder = folder
  quiz = quiz
  notice = notice
  lesson = lesson
  due = due
  x = x
  y = y
  r1 = r1
  r2 = r2
  Run = {r1, r2}
  Requests <- WellRequests
  Known = {c1}
  Node = {folder, quiz}
  Item = {notice, lesson, due}
  HomeOf <- MCHomeOf
  KindOf <- MCKindOf
  Container = {folder}
  Assessment = {quiz}
  Attached = {quiz}
  TextOf <- MCTextOf
  Cursor = {k1}
  Root = Root
  Start = Start
  End = End
  Bad = Bad
  Nothing = Nothing
  MaxItems = 2
  MaxTime = 2
SPECIFICATION Spec
INVARIANTS PagesFollowed
