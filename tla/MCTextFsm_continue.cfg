SPECIFICATION FsmFairSpec
CONSTANTS
  Templates <- StayingTemplates
  Texts <- ShortTexts
PROPERTIES ParsingEnds
CHECK_DEADLOCK FALSE
