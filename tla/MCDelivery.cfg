SPECIFICATION FairSpec
CONSTANTS
  Messages = {m1, m2}
  Servers = {s1}
INVARIANTS
  TypeOK
  LogIsSound
  RecordedMeansTyped
  OutcomeMatchesLog
  RecoveryOnlyPastGrace
  PromptResendIsSafe
PROPERTIES
  RefinesLifecycle
  SenderExits
  StoredMessageSettles
