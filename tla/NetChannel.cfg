\* Every use: the sender cancels and sends again (the SUPL PSY), the receiver's
\* process closes its end and opens it again, messages come before it is open.
CONSTANTS
    MaxSend = 4
    MaxRefused = 1
    ReceiverFirst = FALSE
    SenderCancels = TRUE
    ReceiverReopens = TRUE
SPECIFICATION FairSpec
INVARIANTS
    TypeOK
    DeliveredInOrder
    CompletedMeansRead
    NeverRepeatedNorReordered
PROPERTIES
    PublishAfterCompletion
    AcceptedIsCompleted
    SendEnds
    ImplementsMailbox
\* The bound on messages is where a behaviour stops.
CHECK_DEADLOCK FALSE
