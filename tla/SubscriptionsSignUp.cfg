SPECIFICATION Spec
CONSTANTS
  web = web
  Forms = {"a"}
  Chats = {}
  Unlinked = Unlinked
  Components = {web}
  Everywhere = Everywhere
  Events <- News
  Confirm = Confirm
  Choices <- WantsAll
  FormAnswers = {"ok", "busy", "broken", "refused"}
  ChatAnswers = {"ok", "busy", "limited", "gone"}
  ConfirmTtl = 1
  ConfirmResend = 1
  PendingKeep = 0
  QuarantineKeep = 0
  MaxAttempts = 2
  RetryDelay <- Delays
  RetryAfter = 2
  Batch = 2
  QuarantineFailures = 3
  QuarantineWindow = 2
  MaxLag = 1
  MaxSignUps = 2
  MaxEvents = 2
  MaxCuts = 0
  MaxLost = 0
PROPERTIES
  StartsOver
