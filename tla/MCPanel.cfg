\* Two posts under way and any answers.
CONSTANTS
  Credential = {right, wrong}
  Blank = Blank
  Post = {p1, p2}
  AnswerTo <- AnyAnswer
  Landing <- MCLanding
  MaxDepth = 3
SPECIFICATION Spec
INVARIANTS TypeOK LoadingIsOwn ErrorIsOwn WayBack
