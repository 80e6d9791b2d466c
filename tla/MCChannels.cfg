\* Two channels, one of them slow; two events 10 s apart; an event that cannot be
\* loaded, and an exit of the process at any moment.
SPECIFICATION FairChannelSpec
CONSTANTS
    slack = slack
    webhook = webhook
    r1 = r1
    Type <- TwoTypes
    Request <- OneRequest
    SendContext = 3
    ClientTimeout = 2
    Gap = 2
    AnswerTime <- SlowWebhook
    MaxEvents = 2
    FaultKinds <- AnyFault
INVARIANT ArriveInOrder
INVARIANT QuietWhenOff
INVARIANT NotDelayed
PROPERTY EnabledChannelHears
PROPERTY MailboxPerChannel
