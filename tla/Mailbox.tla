------------------------------- MODULE Mailbox -------------------------------
(***************************************************************************)
(* What RLbsNetChannel::SendMessage promises its callers, without saying   *)
(* how: one message at a time, each read once and in order, each send      *)
(* completed only after the message was read, and a further call refused   *)
(* while the previous one is incomplete.  Once either end has disturbed    *)
(* the mailbox it may lose messages and complete a send early, but it      *)
(* still neither repeats nor reorders.                                     *)
(***************************************************************************)
EXTENDS Integers

CONSTANTS MaxSend, MaxRefused

VARIABLES
    accepted,   \* messages accepted, numbered 1 .. accepted
    read,       \* the last message the observer was given (0: none)
    completed,  \* the accepted messages whose request was completed
    refused,    \* calls completed with KErrInUse
    lossy       \* the mailbox was disturbed

mvars == <<accepted, read, completed, refused, lossy>>

Init ==
    /\ accepted = 0
    /\ read = 0
    /\ completed = {}
    /\ refused = 0
    /\ lossy = FALSE

Idle == completed = 1 .. accepted

\* A cancel or a close.
Disturb ==
    /\ lossy' = TRUE
    /\ UNCHANGED <<accepted, read, completed, refused>>

\* Accepting before there is a reader disturbs it too.
Accept ==
    /\ Idle \/ lossy'
    /\ lossy => lossy'
    /\ accepted < MaxSend
    /\ accepted' = accepted + 1
    /\ lossy' \in BOOLEAN
    /\ UNCHANGED <<read, completed, refused>>

Refuse ==
    /\ ~Idle \/ lossy
    /\ refused < MaxRefused
    /\ refused' = refused + 1
    /\ UNCHANGED <<accepted, read, completed, lossy>>

\* Only a disturbed mailbox skips a message, and none goes back.
Read ==
    /\ \E m \in read + 1 .. accepted :
          /\ read' = m
          /\ lossy \/ m = read + 1
    /\ UNCHANGED <<accepted, completed, refused, lossy>>

Complete ==
    /\ \E m \in 1 .. accepted :
          /\ lossy \/ (m = read /\ m = accepted /\ completed = 1 .. (m - 1))
          /\ completed' = completed \union {m}
    /\ UNCHANGED <<accepted, read, refused, lossy>>

Next == Disturb \/ Accept \/ Refuse \/ Read \/ Complete

Spec == Init /\ [][Next]_mvars
=============================================================================
