-------------------------- MODULE CommandGateProofs --------------------------
(***************************************************************************)
(* The console's gate: its inductive invariant, for any users, any number  *)
(* of chains of requests in flight and any length of a message.            *)
(***************************************************************************)
EXTENDS CommandGate, TLAPS

\* Every event that ends an operation opens the gate.
LEMMA FinalEventsOpen ==
  ASSUME NEW k \in ForegroundKinds, NEW e \in SuccessEvents[k] \cup FailuresOf(k)
  PROVE  e \in GateOpeners
<1>1. CASE e \in FailuresOf(k)
  BY <1>1 DEF FailuresOf, FailureEvents, GateOpeners
<1>2. CASE e \in SuccessEvents[k]
  BY <1>2 DEF SuccessEvents, ForegroundKinds, Lists, PeerCommands,
     MessageCommands, GateOpeners
<1> QED  BY <1>1, <1>2

\* Starting an operation on a client where none runs leaves the gate exact, and
\* on any client leaves no closed gate without an operation.
LEMMA BeginKeeps ==
  ASSUME inFlight \in [Tickets -> Kinds], NEW kind \in ForegroundKinds, Begin(kind)
  PROVE  /\ inFlight' \in [Tickets -> Kinds]
         /\ busy' \in BOOLEAN
         /\ busy' => Foreground(inFlight') # {}
         /\ Foreground(inFlight) = {} =>
              /\ busy' <=> Foreground(inFlight') # {}
              /\ \A s, t \in Foreground(inFlight') : s = t
<1>1. CASE \E t \in Tickets : /\ inFlight[t] = "none"
                              /\ inFlight' = [inFlight EXCEPT ![t] = kind]
                              /\ busy' = TRUE
  <2>1. PICK t \in Tickets : /\ inFlight[t] = "none"
                             /\ inFlight' = [inFlight EXCEPT ![t] = kind]
                             /\ busy' = TRUE
    BY <1>1
  <2>2. inFlight' \in [Tickets -> Kinds]
    BY <2>1 DEF Kinds
  <2>3. Foreground(inFlight') = Foreground(inFlight) \cup {t}
    BY <2>1 DEF Foreground
  <2> QED  BY <2>1, <2>2, <2>3
<1>2. CASE /\ \E e \in FailuresOf(kind) : busy' = GateAfter(TRUE, e)
           /\ UNCHANGED inFlight
  <2>1. busy' = FALSE
    BY <1>2, FinalEventsOpen DEF GateAfter
  <2> QED  BY <1>2, <2>1
<1> QED  BY <1>1, <1>2 DEF Begin

\* What a line does to the gate and to the operations in flight: nothing, an
\* opening, or the start of an operation.
LEMMA LineKeepsGate ==
  ASSUME TypeOK, BusyMeansWorking, GateExact, early' = early,
         ~early => Foreground(inFlight) = {},
         \/ inFlight' = inFlight /\ busy' \in {FALSE, busy}
         \/ \E kind \in ForegroundKinds : Begin(kind)
  PROVE  /\ inFlight' \in [Tickets -> Kinds]
         /\ busy' \in BOOLEAN
         /\ BusyMeansWorking'
         /\ GateExact'
<1> USE DEF TypeOK, BusyMeansWorking, GateExact
<1>1. CASE inFlight' = inFlight /\ busy' \in {FALSE, busy}
  <2>1. Foreground(inFlight') = Foreground(inFlight)
    BY <1>1
  <2>2. busy' = FALSE \/ busy' = busy
    BY <1>1
  <2>3. early => GateExact'
    OBVIOUS
  <2>4. ~early => ~busy /\ Foreground(inFlight) = {}
    OBVIOUS
  <2>5. busy \in BOOLEAN
    OBVIOUS
  <2>6. busy' \in BOOLEAN /\ (busy' => busy)
    <3>1. CASE busy' = FALSE
      BY <3>1, Zenon
    <3>2. CASE busy' = busy
      BY <3>2, <2>5, Zenon
    <3> QED  BY <2>2, <3>1, <3>2
  <2>7. ~early => GateExact'
    BY <2>1, <2>4, <2>6, Zenon
  <2>8. BusyMeansWorking'
    BY <2>1, <2>6, Zenon
  <2> QED  BY <1>1, <2>3, <2>6, <2>7, <2>8
<1>2. CASE \E kind \in ForegroundKinds : Begin(kind)
  BY <1>2, BeginKeeps
<1> QED  BY <1>1, <1>2

-----------------------------------------------------------------------------
\* The initial states satisfy the invariant.
LEMMA InitIInv == Init => IInv
<1> SUFFICES ASSUME Init PROVE IInv
  OBVIOUS
<1>1. Foreground(inFlight) = {}
  BY DEF Init, Foreground, ForegroundKinds, Lists, PeerCommands, MessageCommands
<1>2. TypeOK
  <2>1. <<>> \in Seq(Users \cup {NoUser})
    OBVIOUS
  <2>2. posted \in [to : Users \cup {NoUser}, body : Seq(Users \cup {NoUser})]
    BY <2>1 DEF Init
  <2>3. inFlight \in [Tickets -> Kinds]
    BY DEF Init, Kinds
  <2> QED  BY <2>1, <2>2, <2>3 DEF Init, TypeOK, Modes
<1>3. lines = <<>> /\ posted.body = <<>> /\ busy = FALSE /\ mode = "command"
  BY DEF Init
<1> QED
  BY <1>1, <1>2, <1>3 DEF IInv, BusyMeansWorking, GateExact, PromptsAreQuiet,
     ComposedForRecipient

\* While the gate is open, or at a prompt, no operation runs unless an early
\* event opened the gate.
LEMMA QuietMeansIdle ==
  ASSUME IInv, ~busy \/ mode # "command", ~early
  PROVE  Foreground(inFlight) = {}
BY DEF IInv, GateExact, PromptsAreQuiet, TypeOK

\* The lines the user types keep the invariant.
LEMMA LineIInv == ASSUME IInv, TypeLine PROVE IInv'
<1> USE GateAssumption
<1>0. IInv /\ TypeOK /\ BusyMeansWorking /\ GateExact
  BY DEF IInv
<1>a. \A b \in BOOLEAN, e \in GateOpeners \cup FailureEvents : GateAfter(b, e) \in {FALSE, b}
  BY DEF GateAfter
<1>1. ASSUME NEW m \in Modes, AskPassword(m) PROVE IInv'
  <2>1. inFlight' = inFlight /\ busy' \in {FALSE, busy} /\ ~busy /\ early' = early
    BY <1>0, <1>1 DEF AskPassword, GateAfter, AcceptsCommand, TypeOK
  <2>2. inFlight' \in [Tickets -> Kinds] /\ busy' \in BOOLEAN /\ BusyMeansWorking' /\ GateExact'
    BY <1>0, <2>1, LineKeepsGate, QuietMeansIdle
  <2> QED
    BY <2>1, <2>2, <1>1 DEF IInv, TypeOK, AskPassword, PromptsAreQuiet,
       ComposedForRecipient, Modes
<1>2. ASSUME EnterPassword PROVE IInv'
  <2>1. (\E kind \in ForegroundKinds : Begin(kind)) /\ early' = early /\ mode # "command"
    BY <1>2 DEF EnterPassword, ForegroundKinds
  <2>2. inFlight' \in [Tickets -> Kinds] /\ busy' \in BOOLEAN /\ BusyMeansWorking' /\ GateExact'
    BY <1>0, <2>1, LineKeepsGate, QuietMeansIdle
  <2> QED
    BY <2>1, <2>2, <1>2 DEF IInv, TypeOK, EnterPassword, PromptsAreQuiet,
       ComposedForRecipient, Modes
<1>3. ASSUME NEW u \in Users, OpenConversation(u) \/ SendMessage(u) PROVE IInv'
  <2>1. (\E kind \in ForegroundKinds : Begin(kind)) /\ early' = early /\ ~busy
    BY <1>3 DEF OpenConversation, SendMessage, AcceptsCommand, ForegroundKinds, PeerCommands
  <2>2. inFlight' \in [Tickets -> Kinds] /\ busy' \in BOOLEAN /\ BusyMeansWorking' /\ GateExact'
    BY <1>0, <2>1, LineKeepsGate, QuietMeansIdle
  <2> QED
    BY <2>1, <2>2, <1>3 DEF IInv, TypeOK, OpenConversation, SendMessage,
       AcceptsCommand, PromptsAreQuiet, ComposedForRecipient, Modes
<1>4. ASSUME NEW u \in Users, BeginComposition(u) PROVE IInv'
  <2>1. inFlight' = inFlight /\ busy' \in {FALSE, busy} /\ ~busy /\ early' = early
    BY <1>4 DEF BeginComposition, AcceptsCommand
  <2>2. inFlight' \in [Tickets -> Kinds] /\ busy' \in BOOLEAN /\ BusyMeansWorking' /\ GateExact'
    BY <1>0, <2>1, LineKeepsGate, QuietMeansIdle
  <2> QED
    BY <2>1, <2>2, <1>4 DEF IInv, TypeOK, BeginComposition, PromptsAreQuiet,
       ComposedForRecipient, Modes
<1>5. ASSUME AddLine PROVE IInv'
  <2>1. inFlight' = inFlight /\ busy' = busy /\ early' = early /\ mode # "command"
    BY <1>5 DEF AddLine
  <2>2. inFlight' \in [Tickets -> Kinds] /\ busy' \in BOOLEAN /\ BusyMeansWorking' /\ GateExact'
    BY <1>0, <2>1, LineKeepsGate, QuietMeansIdle
  <2>3. lines' \in Seq(Users \cup {NoUser}) /\ \A i \in DOMAIN lines' : lines'[i] = recipient'
    BY <1>5 DEF AddLine, IInv, TypeOK
  <2> QED
    BY <2>1, <2>2, <2>3, <1>5 DEF IInv, TypeOK, AddLine, PromptsAreQuiet,
       ComposedForRecipient
<1>6. ASSUME SubmitComposition PROVE IInv'
  <2>1. /\ early' = early /\ mode # "command"
        /\ \/ inFlight' = inFlight /\ busy' \in {FALSE, busy}
           \/ \E kind \in ForegroundKinds : Begin(kind)
    BY <1>0, <1>6 DEF SubmitComposition, GateAfter, ForegroundKinds, PeerCommands, TypeOK
  <2>2. inFlight' \in [Tickets -> Kinds] /\ busy' \in BOOLEAN /\ BusyMeansWorking' /\ GateExact'
    BY <1>0, <2>1, LineKeepsGate, QuietMeansIdle
  <2>3. /\ posted' \in [to : Users \cup {NoUser}, body : Seq(Users \cup {NoUser})]
        /\ ComposedForRecipient' /\ target' \in Users \cup {NoUser}
    BY <1>6 DEF SubmitComposition, IInv, TypeOK, ComposedForRecipient
  <2> QED
    BY <2>1, <2>2, <2>3, <1>6 DEF IInv, TypeOK, SubmitComposition, PromptsAreQuiet, Modes
<1>7. ASSUME LeaveComposition PROVE IInv'
  <2>1. inFlight' = inFlight /\ busy' \in {FALSE, busy} /\ mode # "command" /\ early' = early
    BY <1>0, <1>7 DEF LeaveComposition, GateAfter, TypeOK
  <2>2. inFlight' \in [Tickets -> Kinds] /\ busy' \in BOOLEAN /\ BusyMeansWorking' /\ GateExact'
    BY <1>0, <2>1, LineKeepsGate, QuietMeansIdle
  <2> QED
    BY <2>1, <2>2, <1>7 DEF IInv, TypeOK, LeaveComposition, PromptsAreQuiet,
       ComposedForRecipient, Modes
<1>8. ASSUME AnswerAtOnce \/ GoBack \/ Exit PROVE IInv'
  <2>1. inFlight' = inFlight /\ busy' \in {FALSE, busy} /\ ~busy /\ early' = early
    BY <1>0, <1>8 DEF AnswerAtOnce, GoBack, Exit, GateAfter, AcceptsCommand, TypeOK
  <2>2. inFlight' \in [Tickets -> Kinds] /\ busy' \in BOOLEAN /\ BusyMeansWorking' /\ GateExact'
    BY <1>0, <2>1, LineKeepsGate, QuietMeansIdle
  <2> QED
    BY <2>1, <2>2, <1>8 DEF IInv, TypeOK, AnswerAtOnce, GoBack, Exit, router,
       AcceptsCommand, PromptsAreQuiet, ComposedForRecipient
<1>9. ASSUME (\E kind \in ForegroundKinds : RunCommand(kind)) \/ Logout PROVE IInv'
  <2>1. (\E kind \in ForegroundKinds : Begin(kind)) /\ early' = early /\ ~busy
    BY <1>9 DEF RunCommand, Logout, AcceptsCommand, ForegroundKinds
  <2>2. inFlight' \in [Tickets -> Kinds] /\ busy' \in BOOLEAN /\ BusyMeansWorking' /\ GateExact'
    BY <1>0, <2>1, LineKeepsGate, QuietMeansIdle
  <2> QED
    BY <2>1, <2>2, <1>9 DEF IInv, TypeOK, RunCommand, Logout, router,
       AcceptsCommand, PromptsAreQuiet, ComposedForRecipient
<1> QED
  BY <1>1, <1>2, <1>3, <1>4, <1>5, <1>6, <1>7, <1>8, <1>9 DEF TypeLine

\* The answers of the server keep the invariant.
LEMMA AnswerIInv ==
  ASSUME IInv, NEW t \in Tickets,
         \/ Ends(t) \/ FailMidway(t) \/ UploadStep(t)
         \/ \E e \in FailureEvents : UploadFails(t, e)
  PROVE  IInv'
<1> USE GateAssumption
<1>1. ASSUME NEW e \in Events, Finish(t, e) PROVE IInv'
  <2>1. busy' = FALSE
    BY <1>1, FinalEventsOpen DEF Finish, GateAfter
  <2>2. PICK k \in {"deviceKeys", "none"} : inFlight' = [inFlight EXCEPT ![t] = k]
    BY <1>1 DEF Finish
  <2>3. inFlight' \in [Tickets -> Kinds]
    BY <2>2 DEF IInv, TypeOK, Kinds, BackgroundKinds
  <2>4. Foreground(inFlight') \subseteq Foreground(inFlight) \ {t}
    BY <2>2 DEF Foreground, ForegroundKinds, Lists, PeerCommands, MessageCommands, IInv, TypeOK
  <2>5. early' \in BOOLEAN /\ GateExact'
    <3>1. early' = (early /\ Foreground(inFlight') # {})
      BY <1>1 DEF Finish
    <3>2. t \in Foreground(inFlight)
      BY <1>1 DEF Finish, Foreground
    <3>3. ~early => Foreground(inFlight') = {}
      BY <2>4, <3>2 DEF IInv, GateExact
    <3> QED  BY <2>1, <3>1, <3>3 DEF GateExact, IInv, TypeOK
  <2>6. target' \in Users \cup {NoUser} /\ loggedIn' \in BOOLEAN
    BY <1>1 DEF Finish, IInv, TypeOK
  <2> QED
    BY <2>1, <2>3, <2>5, <2>6, <1>1 DEF Finish, IInv, TypeOK, BusyMeansWorking,
       PromptsAreQuiet, ComposedForRecipient
<1>2. ASSUME FailMidway(t) PROVE IInv'
  <2>1. busy' = FALSE
    BY <1>2 DEF FailMidway, GateAfter, GateOpeners
  <2> QED
    BY <2>1, <1>2 DEF FailMidway, IInv, TypeOK, BusyMeansWorking, GateExact,
       PromptsAreQuiet, ComposedForRecipient, router
<1>3. ASSUME inFlight[t] \in BackgroundKinds, NEW k \in {"preKeys", "none"},
             inFlight' = [inFlight EXCEPT ![t] = k]
      PROVE  inFlight' \in [Tickets -> Kinds] /\ Foreground(inFlight') = Foreground(inFlight)
  BY <1>3 DEF IInv, TypeOK, Kinds, Foreground, BackgroundKinds, ForegroundKinds,
     Lists, PeerCommands, MessageCommands
<1>4. ASSUME UploadStep(t) PROVE IInv'
  <2>1. inFlight' \in [Tickets -> Kinds] /\ Foreground(inFlight') = Foreground(inFlight)
    BY <1>3, <1>4 DEF UploadStep
  <2> QED
    BY <2>1, <1>4 DEF UploadStep, IInv, TypeOK, BusyMeansWorking, GateExact,
       PromptsAreQuiet, ComposedForRecipient, router
<1>5. ASSUME NEW e \in FailureEvents, UploadFails(t, e) PROVE IInv'
  <2>1. inFlight' \in [Tickets -> Kinds] /\ Foreground(inFlight') = Foreground(inFlight)
    BY <1>3, <1>5 DEF UploadFails
  <2>2. busy' = FALSE
    BY <1>5 DEF UploadFails, GateAfter, GateOpeners, FailureEvents
  <2> QED
    BY <2>1, <2>2, <1>5 DEF UploadFails, IInv, TypeOK, BusyMeansWorking, GateExact,
       PromptsAreQuiet, ComposedForRecipient, router
<1> QED  BY <1>1, <1>2, <1>4, <1>5 DEF Ends

\* Every step of the console keeps the invariant.
LEMMA NextIInv == IInv /\ [Next]_vars => IInv'
<1> SUFFICES ASSUME IInv, [Next]_vars PROVE IInv'
  OBVIOUS
<1>1. CASE TypeLine
  BY <1>1, LineIInv
<1>2. CASE \E t \in Tickets : \/ Ends(t) \/ FailMidway(t) \/ UploadStep(t)
                              \/ \E e \in FailureEvents : UploadFails(t, e)
  BY <1>2, AnswerIInv
<1>3. CASE UNCHANGED vars
  BY <1>3 DEF vars, router, IInv, TypeOK, BusyMeansWorking, GateExact,
     PromptsAreQuiet, ComposedForRecipient
<1> QED  BY <1>1, <1>2, <1>3 DEF Next

-----------------------------------------------------------------------------
\* The inductive invariant of the console holds in every state it can reach.
THEOREM Invariance == Spec => []IInv
<1>1. Init => IInv
  BY InitIInv
<1>2. IInv /\ [Next]_vars => IInv'
  BY NextIInv
<1> QED  BY <1>1, <1>2, PTL DEF Spec

\* A closed gate always has an operation behind it, which will open it.
THEOREM NoStuckGate == Spec => []BusyMeansWorking
<1>1. IInv => BusyMeansWorking
  BY DEF IInv
<1> QED  BY <1>1, Invariance, PTL

\* Only a failure of the key upload or of a save lets operations overlap.
THEOREM ExactGate == Spec => []GateExact
<1>1. IInv => GateExact
  BY DEF IInv
<1> QED  BY <1>1, Invariance, PTL

\* A composed message goes to the user it was typed for.
THEOREM CompositionsToRecipient == Spec => []ComposedForRecipient
<1>1. IInv => ComposedForRecipient
  BY DEF IInv
<1> QED  BY <1>1, Invariance, PTL
=============================================================================
