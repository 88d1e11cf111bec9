SPECIFICATION Spec
CONSTANTS
  LastYear = 2033
  Today <- MCToday
  Typed <- MCTyped
  FirstYear = 2032
  FinalYear = 2034
  MaxDay = 33
PROPERTIES
  CaptionFollows
  ClickGivesWhatIsShown
  KeyMovesByDays
