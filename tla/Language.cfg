SPECIFICATION Spec
CONSTANTS
  ApiKeySet = TRUE
  Char <- MCChar
  Space = " "
  UpperOf <- MCUpperOf
  Causes <- MCCauses
  Taxonomy <- MCTaxonomy
  Payloads <- MCPayloads
  Remarks <- MCRemarks
  Contexts = {"ISS01"}
  MaxRemarks = 2
  MaxLives = 2
  Numbers <- MCNumbers
  NoticeInputs <- MCNoticeInputs
  Shapes <- MCShapes
  TemplateWords = 4
  MaxLength = 12
INVARIANTS
  LanguageTypeOK
  TypoToleranceExact
  LlmAnswersBounded
  ReadTwoWaysOnlyByModel
  LlmTextCompliant
  InvalidOnlyFromFacts
