SPECIFICATION MailSpec
CONSTANTS
    WRAP = 5
INVARIANTS
    NoBufferRace
    ReplyIsCurrent
PROPERTIES
    InOrder
    FrameIsAnswered
    ExitEnds
    MailboxContract
