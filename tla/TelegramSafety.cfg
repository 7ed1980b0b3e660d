SPECIFICATION TelegramSpec
CONSTANTS
  dm = dm
  team = team
  Chat = {dm, team}
  Group = {team}
  Limit = 2
  MaxUpdates = 2
  MaxTrouble = 2
  Texts <- MCTexts
  Answers <- MCAnswers
INVARIANTS
  RowsMatchMessages
  RepliedIsQuoted
PROPERTIES
  EveryUpdateHandled
CHECK_DEADLOCK FALSE
