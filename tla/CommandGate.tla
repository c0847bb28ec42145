----------------------------- MODULE CommandGate -----------------------------
(***************************************************************************)
(* The console of the client: CommandRouter reads one line at a time,      *)
(* ClientController starts the operation it asks for, and the events of    *)
(* EventBus tell the router when the operation is over.  The router keeps  *)
(* a gate, m_operationInProgress: while it is closed, lines typed in       *)
(* command mode are refused.  An operation is a chain of requests to the   *)
(* server that is in flight until its last event; the upload of the        *)
(* device's keys, which sessionStarted sets off, runs in the background    *)
(* and never closes the gate.                                              *)
(***************************************************************************)
EXTENDS Naturals, Sequences, FiniteSets

CONSTANTS
  Users,      \* the usernames that can be typed
  NoUser,     \* m_activeConversationUsername when it is empty
  Tickets,    \* the chains of requests that can be in flight at once (a bound)
  MaxLines    \* lines of a composed message (a bound)

ASSUME GateAssumption ==
  NoUser \notin Users /\ MaxLines \in Nat /\ IsFiniteSet(Tickets)

VARIABLES
  mode,       \* m_inputMode
  busy,       \* m_operationInProgress
  target,     \* m_activeConversationUsername
  recipient,  \* m_compositionRecipientUsername
  lines,      \* m_compositionLines, each the user it was typed for
  inFlight,   \* what each ticket is busy with
  loggedIn,   \* SessionService::m_session.has_value()
  running,    \* no exitRequested yet
  early,      \* history: the gate was opened by an event of another chain
  posted      \* history: the last composed message that was sent

router == <<mode, target, recipient, lines>>
vars == <<mode, busy, target, recipient, lines, inFlight, loggedIn, running,
          early, posted>>

-----------------------------------------------------------------------------
(* Operations and the events they end with *)

Modes == {"command", "registerPassword", "loginPassword", "composition"}
Lists == {"conversations", "inbox", "sync", "sent"}
PeerCommands == {"read", "send", "forward", "trust"}
MessageCommands == {"revoke", "delete", "verify"}
ForegroundKinds ==
  Lists \cup PeerCommands \cup MessageCommands \cup {"register", "login", "logout"}
BackgroundKinds == {"deviceKeys", "preKeys"}
Kinds == ForegroundKinds \cup BackgroundKinds \cup {"none"}

\* The events connected to m_operationInProgress = false.
GateOpeners ==
  {"statusMessage", "commandFailed", "sessionStarted", "sessionEnded",
   "trustPinCreated", "trustPinMatched", "trustPinMismatch",
   "conversationListUpdated", "unreadInboxUpdated", "conversationLogOpened",
   "messageListUpdated", "messageSent", "messageForwarded", "messageRevoked",
   "messageDeleted", "messageDownloaded", "fidelityStatusUpdated",
   "backendUnavailable", "cryptoOperationFailed"}

FailureEvents == {"commandFailed", "cryptoOperationFailed"}

\* The events with which the services report that an operation succeeded.
SuccessEvents ==
  [register |-> {"statusMessage"}, login |-> {"sessionStarted"},
   logout |-> {"sessionEnded"},
   sync |-> {"messageListUpdated"}, sent |-> {"messageListUpdated"},
   conversations |-> {"conversationListUpdated"},
   inbox |-> {"unreadInboxUpdated"}, read |-> {"conversationLogOpened"},
   send |-> {"messageSent"}, forward |-> {"messageForwarded"},
   trust |-> {"trustPinCreated", "trustPinMatched", "trustPinMismatch"},
   revoke |-> {"messageRevoked"}, delete |-> {"messageDeleted"},
   verify |-> {"fidelityStatusUpdated"}]

\* Only these use the crypto provider.
FailuresOf(kind) ==
  IF kind \in {"send", "forward", "trust"} THEN FailureEvents ELSE {"commandFailed"}

Events == FailureEvents \cup UNION {SuccessEvents[k] : k \in ForegroundKinds}

\* Mutants: an event that the router is not connected to.
GateAfterNoMismatch(b, e) == b /\ e \notin GateOpeners \ {"trustPinMismatch"}
GateAfterNoVerdict(b, e) == b /\ e \notin GateOpeners \ {"fidelityStatusUpdated"}

\* m_operationInProgress after event e, when it was b before.
GateAfter(b, e) == b /\ e \notin GateOpeners

Foreground(f) == {t \in Tickets : f[t] \in ForegroundKinds}

TypeOK ==
  /\ mode \in Modes
  /\ busy \in BOOLEAN
  /\ target \in Users \cup {NoUser}
  /\ recipient \in Users \cup {NoUser}
  /\ lines \in Seq(Users \cup {NoUser})
  /\ inFlight \in [Tickets -> Kinds]
  /\ loggedIn \in BOOLEAN
  /\ running \in BOOLEAN
  /\ early \in BOOLEAN
  /\ posted \in [to : Users \cup {NoUser}, body : Seq(Users \cup {NoUser})]

Init ==
  /\ mode = "command"
  /\ busy = FALSE
  /\ target = NoUser
  /\ recipient = NoUser
  /\ lines = <<>>
  /\ inFlight = [t \in Tickets |-> "none"]
  /\ loggedIn \in BOOLEAN       \* main restores a session, or not
  /\ running = TRUE
  /\ early = FALSE
  /\ posted = [to |-> NoUser, body |-> <<>>]

-----------------------------------------------------------------------------
(* Lines typed by the user *)

\* Mutant: the gate is not looked at.
AcceptsCommandBusy == running /\ mode = "command"

\* handleLine passes a line of command mode on only while the gate is open.
AcceptsCommand == running /\ mode = "command" /\ ~busy

\* operationStarted, then the call of the service: it fails before its first
\* request (nobody is logged in, or the address of the peer was known at once
\* and the store or the trust check refused), or its request is in flight.
Begin(kind) ==
  \/ /\ kind \in Lists \cup PeerCommands => loggedIn
     /\ \E t \in Tickets :
          /\ inFlight[t] = "none"
          /\ inFlight' = [inFlight EXCEPT ![t] = kind]
     /\ busy' = TRUE
  \/ /\ \/ kind \in Lists /\ ~loggedIn
        \/ kind \in PeerCommands
     /\ \E e \in FailuresOf(kind) : busy' = GateAfter(TRUE, e)
     /\ UNCHANGED inFlight

\* /register and /login: the next line is the password.
AskPassword(m) ==
  /\ AcceptsCommand
  /\ m \in {"registerPassword", "loginPassword"}
  /\ mode' = m
  /\ busy' = GateAfter(busy, "statusMessage")
  /\ UNCHANGED <<target, recipient, lines, inFlight, loggedIn, running, early, posted>>

EnterPassword ==
  /\ running
  /\ \/ mode = "registerPassword" /\ Begin("register")
     \/ mode = "loginPassword" /\ Begin("login")
  /\ mode' = "command"
  /\ UNCHANGED <<target, recipient, lines, loggedIn, running, early, posted>>

\* /msg <user> or /read <user>
OpenConversation(u) ==
  /\ AcceptsCommand
  /\ target' = u
  /\ Begin("read")
  /\ UNCHANGED <<mode, recipient, lines, loggedIn, running, early, posted>>

\* /msg <user> <text>, /send <user> <text>, or a line without a slash, which
\* goes to the user of the active conversation
SendMessage(u) ==
  /\ AcceptsCommand
  /\ target' = u
  /\ Begin("send")
  /\ UNCHANGED <<mode, recipient, lines, loggedIn, running, early, posted>>

\* /send without a text: for the active conversation if there is one
BeginComposition(u) ==
  /\ AcceptsCommand
  /\ target # NoUser => u = target
  /\ recipient' = u
  /\ target' = u
  /\ lines' = <<>>
  /\ mode' = "composition"
  /\ UNCHANGED <<busy, inFlight, loggedIn, running, early, posted>>

AddLine ==
  /\ running /\ mode = "composition"
  /\ Len(lines) < MaxLines
  /\ lines' = Append(lines, recipient)
  /\ UNCHANGED <<mode, busy, target, recipient, inFlight, loggedIn, running,
                 early, posted>>

\* Mutant: the message goes to the active conversation of the moment.
SubmitToTarget ==
  /\ running /\ mode = "composition" /\ lines # <<>>
  /\ mode' = "command"
  /\ lines' = <<>>
  /\ posted' = [to |-> target, body |-> lines]
  /\ Begin("send")
  /\ UNCHANGED <<target, recipient, loggedIn, running, early>>

\* /send in a composition: submitComposedMessage(recipient, joined lines)
SubmitComposition ==
  /\ running /\ mode = "composition"
  /\ mode' = "command"
  /\ lines' = <<>>
  /\ IF lines = <<>>
       THEN /\ busy' = GateAfter(busy, "commandFailed")
            /\ UNCHANGED <<target, inFlight, posted>>
       ELSE /\ posted' = [to |-> recipient, body |-> lines]
            /\ target' = recipient
            /\ Begin("send")
  /\ UNCHANGED <<recipient, loggedIn, running, early>>

\* /cancel and /back in a composition
LeaveComposition ==
  /\ running /\ mode = "composition"
  /\ mode' = "command"
  /\ lines' = <<>>
  /\ \/ UNCHANGED <<target, busy>>
     \/ target' = NoUser /\ busy' = GateAfter(busy, "statusMessage")
  /\ UNCHANGED <<recipient, inFlight, loggedIn, running, early, posted>>

\* The commands that are answered at once: /help, /whoami, /status, /cancel,
\* /download, and every line that the parser or an argument check refuses.
AnswerAtOnce ==
  /\ AcceptsCommand
  /\ \E e \in {"statusMessage", "messageDownloaded"} \cup FailureEvents :
       busy' = GateAfter(busy, e)
  /\ UNCHANGED <<router, inFlight, loggedIn, running, early, posted>>

\* /back
GoBack ==
  /\ AcceptsCommand
  /\ target' = NoUser
  /\ busy' = GateAfter(busy, "statusMessage")
  /\ UNCHANGED <<mode, recipient, lines, inFlight, loggedIn, running, early, posted>>

\* The other commands that ask the server
RunCommand(kind) ==
  /\ AcceptsCommand
  /\ kind \in Lists \cup {"forward", "trust"} \cup MessageCommands
  /\ Begin(kind)
  /\ UNCHANGED <<router, loggedIn, running, early, posted>>

Logout ==
  /\ AcceptsCommand
  /\ target' = NoUser
  /\ Begin("logout")
  /\ UNCHANGED <<mode, recipient, lines, loggedIn, running, early, posted>>

Exit ==
  /\ AcceptsCommand
  /\ running' = FALSE
  /\ UNCHANGED <<router, busy, inFlight, loggedIn, early, posted>>

-----------------------------------------------------------------------------
(* Answers of the server *)

\* The last answer of an operation, and the event it ends with.  Login and
\* logout change the session before they save it, so a failure to save leaves
\* it changed.  sessionStarted sets the upload of the device's keys off.
Finish(t, e) ==
  /\ running /\ inFlight[t] \in ForegroundKinds
  /\ e \in SuccessEvents[inFlight[t]] \cup FailuresOf(inFlight[t])
  /\ busy' = GateAfter(busy, e)
  /\ target' = IF e = "sessionEnded" THEN NoUser ELSE target
  /\ \/ e = "sessionStarted" /\ loggedIn' = TRUE
     \/ e = "sessionEnded" /\ loggedIn' = FALSE
     \/ e = "commandFailed" /\ inFlight[t] = "login" /\ loggedIn' = TRUE
     \/ e = "commandFailed" /\ inFlight[t] = "logout" /\ loggedIn' = FALSE
     \/ e \notin {"sessionStarted", "sessionEnded"} /\ UNCHANGED loggedIn
  /\ \E k \in (IF e = "sessionStarted" THEN {"deviceKeys", "none"} ELSE {"none"}) :
       inFlight' = [inFlight EXCEPT ![t] = k]
  /\ early' = (early /\ Foreground(inFlight') # {})
  /\ UNCHANGED <<mode, recipient, lines, running, posted>>

\* An operation that goes on reports a failure: the store could not save the
\* tokens its request refreshed, or the first of the two lists it asks for.
FailMidway(t) ==
  /\ running /\ inFlight[t] \in ForegroundKinds \ {"register"}
  /\ busy' = GateAfter(busy, "commandFailed")
  /\ early' = TRUE
  /\ UNCHANGED <<router, inFlight, loggedIn, running, posted>>

\* ensureDeviceKeysUploaded: the device row, then its one-time prekeys.  Only
\* a failure is an event of the gate.
UploadStep(t) ==
  /\ running /\ inFlight[t] \in BackgroundKinds
  /\ inFlight' =
       [inFlight EXCEPT ![t] = IF @ = "deviceKeys" THEN "preKeys" ELSE "none"]
  /\ UNCHANGED <<router, busy, loggedIn, running, early, posted>>

UploadFails(t, e) ==
  /\ running /\ inFlight[t] \in BackgroundKinds
  /\ e \in FailureEvents
  /\ inFlight' = [inFlight EXCEPT ![t] = "none"]
  /\ busy' = GateAfter(busy, e)
  /\ early' = (Foreground(inFlight) # {})
  /\ UNCHANGED <<router, loggedIn, running, posted>>

-----------------------------------------------------------------------------
TypeLine ==
  \/ \E m \in Modes : AskPassword(m)
  \/ EnterPassword
  \/ \E u \in Users : OpenConversation(u) \/ SendMessage(u) \/ BeginComposition(u)
  \/ AddLine
  \/ SubmitComposition
  \/ LeaveComposition
  \/ AnswerAtOnce
  \/ GoBack
  \/ \E kind \in ForegroundKinds : RunCommand(kind)
  \/ Logout
  \/ Exit

Ends(t) == \E e \in Events : Finish(t, e)

Next ==
  \/ TypeLine
  \/ \E t \in Tickets :
       \/ Ends(t)
       \/ FailMidway(t)
       \/ UploadStep(t)
       \/ \E e \in FailureEvents : UploadFails(t, e)

\* Every request is answered or times out, so every operation ends.
Spec == Init /\ [][Next]_vars /\ \A t \in Tickets : WF_vars(Ends(t))

-----------------------------------------------------------------------------
(* Properties *)

\* The gate is never left closed with nothing in flight: no path through the
\* services ends without an event that opens it, or the client would refuse
\* every command from then on (CommandRouter::handleLine).
BusyMeansWorking == busy => Foreground(inFlight) # {}

\* Unless the key upload or a failed save reported a failure while an
\* operation was running, the gate is closed exactly while an operation runs,
\* and no two operations run at the same time.
GateExact ==
  ~early => /\ busy <=> Foreground(inFlight) # {}
            /\ \A s, t \in Foreground(inFlight) : s = t

\* A composed message holds only lines that were typed for the user it is
\* sent to, whatever became of the session and the active conversation while
\* it was being written.
ComposedForRecipient ==
  \A i \in DOMAIN posted.body : posted.body[i] = posted.to

\* In a composition and at a password prompt nothing but background work is
\* going on, since the gate was open when the prompt was entered.
PromptsAreQuiet == mode # "command" /\ ~early => ~busy

IInv ==
  /\ TypeOK
  /\ BusyMeansWorking
  /\ GateExact
  /\ PromptsAreQuiet
  /\ mode = "composition" => recipient \in Users
  /\ \A i \in DOMAIN lines : lines[i] = recipient
  /\ ComposedForRecipient

\* The gate opens again after every operation, whatever it ends with.
GateReopens == busy ~> (~busy \/ ~running)

\* "Operation still in progress. Please wait for it to finish."
\* (ClientConstants.h:35): the router starts no operation while one runs.
OneOperationAtATime == \A s, t \in Foreground(inFlight) : s = t
=============================================================================
