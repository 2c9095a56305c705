\* CLbsSuplPsyAdaptation::CancelLocationRequest: cancel the notification of
\* the location request and send the cancel message at once.
CONSTANTS
    MaxSend = 2
    MaxRefused = 0
    ReceiverFirst = TRUE
    SenderCancels = TRUE
    ReceiverReopens = FALSE
SPECIFICATION Spec
INVARIANT
    SendOnlyCompletesWhenRead
CHECK_DEADLOCK FALSE
