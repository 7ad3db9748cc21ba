SPECIFICATION ExchangeSpec
CONSTANTS
  ClientRequests <- MCClientRequests
  AppAnswers <- MCAppAnswers
  Encodings <- MCEncodings
  MediaTypes <- MCMediaTypes
  Languages <- MCLanguages
  CronTables <- MCCronTables
  Triggers <- MCTriggers
  MaxInvocations = 2
INVARIANTS
  BinaryEncoded
CHECK_DEADLOCK FALSE
