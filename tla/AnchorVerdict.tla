----------------------------- MODULE AnchorVerdict -----------------------------
(***************************************************************************)
(* The client's /verify over the anchoring of AnchorPipeline: it asks the  *)
(* relay for the latest anchor of a message, keeps it with the message in  *)
(* the file that is open, and lets the relay check it when it is           *)
(* confirmed; without an answer it has the anchor kept from before         *)
(* checked.  Requests, workers and other logins go on between the steps.   *)
(*                                                                         *)
(* An anchor the client holds is the row it was read from and the status   *)
(* it had then; its transaction hash is there exactly when it was          *)
(* confirmed, since the worker writes both in one transaction.             *)
(***************************************************************************)
EXTENDS AnchorPipeline

CONSTANTS
    Files,      \* state files of the accounts that use this client
    Slots       \* /verify commands in flight at once (a bound)

VARIABLES
    open,       \* the file the store has open
    held,       \* messages each file holds
    cache,      \* LocalMessage::cachedAnchor of each file's messages
    verify,     \* the command of each slot
    verdict     \* the last status shown for each message

pipeline == vars
client == <<open, held, cache, verify, verdict>>
allVars == <<pipeline, client>>

--------------------------------------------------------------------------------
NoAnchor == [row |-> 0, status |-> "none"]

Anchors == [row : 0..MaxRows,
            status : {"none", "pending", "confirmed", "failed"}]

Verdicts == {"none", "unavailable", "pending", "failed", "mismatch", "verified"}

Idle == [stage |-> "idle", message |-> None, anchor |-> NoAnchor,
         answered |-> FALSE, answer |-> "none", vouched |-> FALSE]

Calls ==
    [stage : {"idle", "fetch", "verify"},
     message : Messages \cup {None},
     anchor : Anchors,            \* fetched, or sent to be checked
     answered : BOOLEAN,
     answer : {"none", "confirmed"},  \* status of the match, "none" if invalid
     vouched : BOOLEAN]           \* history: confirmed when the command began

VerdictTypeOK ==
    /\ open \in Files
    /\ held \in [Files -> SUBSET Messages]
    /\ cache \in [Files -> [Messages -> Anchors]]
    /\ verify \in [Slots -> Calls]
    /\ verdict \in [Messages -> Verdicts]

VerdictInit ==
    /\ Init
    /\ open \in Files
    /\ held = [f \in Files |-> {}]
    /\ cache = [f \in Files |-> [m \in Messages |-> NoAnchor]]
    /\ verify = [s \in Slots |-> Idle]
    /\ verdict = [m \in Messages |-> "none"]

--------------------------------------------------------------------------------
(* The relay's answers *)

\* READ COMMITTED.
RowsOf(m) == {i \in RowIds : rows[i].message = m /\ Committed(i)}

\* get_latest_for_message finds row i, whatever its status.
Latest(m, i) == i \in RowsOf(m) /\ \A j \in RowsOf(m) : j <= i

\* Mutant: digest and record id are not compared.
MatchesAny(i, a) ==
    /\ rows[i].status = "confirmed"
    /\ a.status = "confirmed" => i = a.row

\* Mutant: only the latest row of the message is compared.
MatchesLatest(i, a) ==
    /\ rows[i].message = rows[a.row].message
    /\ rows[i].status = "confirmed"
    /\ Latest(rows[i].message, i)

\* find_matching_anchor: digest, record id and, when there is one, the
\* transaction of anchor a.
Matches(i, a) ==
    /\ rows[i].message = rows[a.row].message
    /\ rows[i].status = "confirmed"
    /\ a.status = "confirmed" => i = a.row

--------------------------------------------------------------------------------
(* /verify *)

Put(s, c) == verify' = [verify EXCEPT ![s] = c]

\* fidelityStatusUpdated: the command ends with a status for its message.
Show(s, v) ==
    /\ verdict' = [verdict EXCEPT ![verify[s].message] = v]
    /\ Put(s, Idle)

\* verifyPublicAnchor of anchor a.
AskRelay(s, a) ==
    Put(s, [verify[s] EXCEPT !.stage = "verify", !.anchor = a,
                             !.answered = FALSE])

Verify(s, m) ==
    /\ verify[s].stage = "idle"
    /\ Put(s, [Idle EXCEPT !.stage = "fetch", !.message = m,
                           !.vouched = Verified(m)])
    /\ UNCHANGED <<pipeline, open, held, cache, verdict>>

Waits(s, stage) == verify[s].stage = stage /\ ~verify[s].answered
Answered(s, stage) == verify[s].stage = stage /\ verify[s].answered

\* The anchor a, or that there is none, arrives.
Answer(s, a) == Put(s, [verify[s] EXCEPT !.answered = TRUE, !.anchor = a])

\* get_message_anchor.
ServeAnchor(s) ==
    LET m == verify[s].message IN
    /\ Waits(s, "fetch")
    /\ \/ RowsOf(m) = {} /\ Answer(s, NoAnchor)
       \/ \E i \in RowIds :
            /\ Latest(m, i)
            /\ Answer(s, [row |-> i, status |-> rows[i].status])
    /\ UNCHANGED <<pipeline, open, held, cache, verdict>>

\* The anchor kept with the message, if the open file holds it.
Kept(m) == IF m \in held[open] THEN cache[open][m] ELSE NoAnchor

\* verify, when there is no answer: refused by the rate limit, timed out, lost.
AnchorLost(s) ==
    LET a == Kept(verify[s].message) IN
    /\ verify[s].stage = "fetch"
    /\ IF a # NoAnchor THEN AskRelay(s, a) ELSE Put(s, Idle)
    /\ UNCHANGED <<pipeline, open, held, cache, verdict>>

\* verify, when the relay answers 404.
NoAnchorYet(s) ==
    /\ Answered(s, "fetch")
    /\ verify[s].anchor = NoAnchor
    /\ Show(s, "unavailable")
    /\ UNCHANGED <<pipeline, open, held, cache>>

\* Mutant: the anchor is kept with whatever was asked about last.
KeepForAll(s) ==
    cache' = [cache EXCEPT ![open] = [m \in Messages |-> verify[s].anchor]]

\* verify: the fetched anchor is kept with the message, in the file open by now.
Keep(s) ==
    cache' = IF verify[s].message \in held[open]
             THEN [cache EXCEPT ![open][verify[s].message] = verify[s].anchor]
             ELSE cache

\* verify: failed, or not confirmed yet.
Unconfirmed(s) ==
    /\ Answered(s, "fetch")
    /\ verify[s].anchor.status \in {"failed", "pending"}
    /\ Keep(s)
    /\ Show(s, verify[s].anchor.status)
    /\ UNCHANGED <<pipeline, open, held>>

\* verify: confirmed, and the transaction hash is one.
Confirmed(s) ==
    /\ Answered(s, "fetch")
    /\ verify[s].anchor.status = "confirmed"
    /\ Keep(s)
    /\ AskRelay(s, verify[s].anchor)
    /\ UNCHANGED <<pipeline, open, held, verdict>>

\* verify_anchor_metadata.  An anchor without a record id is sent with an empty
\* one, which the request's schema refuses: see VerdictLost.
ServeVerdict(s) ==
    LET a == verify[s].anchor IN
    /\ Waits(s, "verify")
    /\ rows[a.row].hasRecordId
    /\ Put(s, [verify[s] EXCEPT
                 !.answered = TRUE,
                 !.answer = IF \E i \in RowIds : Matches(i, a)
                            THEN "confirmed" ELSE "none"])
    /\ UNCHANGED <<pipeline, open, held, cache, verdict>>

\* verifyPublicAnchor: commandFailed.
VerdictLost(s) ==
    /\ verify[s].stage = "verify"
    /\ Put(s, Idle)
    /\ UNCHANGED <<pipeline, open, held, cache, verdict>>

\* verifyPublicAnchor: the match is valid, or there was none.
ShowVerdict(s) ==
    /\ Answered(s, "verify")
    /\ Show(s, IF verify[s].answer = "confirmed" THEN "verified"
               ELSE "mismatch")
    /\ UNCHANGED <<pipeline, open, held, cache>>

--------------------------------------------------------------------------------
(* The rest of the client *)

\* login opens the file of the account.
OpenFile(f) ==
    /\ open' = f
    /\ UNCHANGED <<pipeline, held, cache, verify, verdict>>

\* A list or a send brings a message into the open file; saveMessage keeps the
\* anchor of one that is there already.
Hold(m) ==
    /\ Sent(m)
    /\ held' = [held EXCEPT ![open] = @ \cup {m}]
    /\ UNCHANGED <<pipeline, open, cache, verify, verdict>>

Command(s) ==
    \/ \E m \in Messages : Verify(s, m)
    \/ ServeAnchor(s) \/ AnchorLost(s)
    \/ NoAnchorYet(s) \/ Unconfirmed(s) \/ Confirmed(s)
    \/ ServeVerdict(s) \/ VerdictLost(s) \/ ShowVerdict(s)

VerdictNext ==
    \/ Next /\ UNCHANGED client
    \/ \E s \in Slots : Command(s)
    \/ \E f \in Files : OpenFile(f)
    \/ \E m \in Messages : Hold(m)

VerdictSpec == VerdictInit /\ [][VerdictNext]_allVars

--------------------------------------------------------------------------------
(* Properties *)

\* "Blockchain anchor verified" is shown only for a message whose digest the
\* contract holds, however old the anchor the client had checked is, whatever
\* workers crash and whatever transactions are replaced (verifyPublicAnchor).
VerifiedIsRecorded ==
    \A m \in Messages : verdict[m] = "verified" => ledger[m] # 0

\* A message that was confirmed when /verify began is never answered with a
\* mismatch: neither a later row of the message nor an anchor kept from before
\* it was confirmed makes the check fail (find_matching_anchor).
NoFalseMismatch ==
    \A s \in Slots :
        Answered(s, "verify") /\ verify[s].vouched
        => verify[s].answer = "confirmed"

\* An anchor in the client's hands for message m: a committed row of m, which
\* is confirmed if it was then.
AnchorOf(m, a) ==
    a = NoAnchor \/
      /\ a.row \in RowIds /\ rows[a.row].message = m
      /\ Committed(a.row) /\ a.status # "none"
      /\ a.status = "confirmed" => rows[a.row].status = "confirmed"

\* What is kept with a message, in every file and through logins in between,
\* is an anchor of that message (verify).
KeptWithMessage ==
    \A f \in Files, m \in Messages : AnchorOf(m, cache[f][m])

\* What a command in flight has captured.
CallFits(c) ==
    /\ c.stage # "idle" =>
          /\ c.message \in Messages
          /\ AnchorOf(c.message, c.anchor)
          /\ c.vouched => Verified(c.message)
    /\ c.stage = "verify" => c.anchor # NoAnchor
    /\ c.stage = "verify" /\ c.answered =>
          IF c.answer = "confirmed" THEN Verified(c.message) ELSE ~c.vouched

Captured == \A s \in Slots : CallFits(verify[s])

\* What was shown as verified stays confirmed.
ShownConfirmed ==
    \A m \in Messages : verdict[m] = "verified" => Verified(m)

\* The inductive invariant behind the properties above.
VInv ==
    /\ IInv
    /\ VerdictTypeOK
    /\ KeptWithMessage
    /\ Captured
    /\ ShownConfirmed

\* "If the anchor is pending or failed, the client reports that plainly."
\* (src/client/README.md:247): no mismatch while it is pending.
PendingReported ==
    [][\A m \in Messages :
         verdict'[m] = "mismatch" /\ verdict[m] # "mismatch"
         => ~ \E i \in RowIds :
                 Latest(m, i) /\ rows[i].status = "pending"]_allVars

\* "If the anchor is confirmed, the client calls `POST
\* /api/v1/blockchain/verify`" (src/client/README.md:248): a message confirmed
\* when /verify began is not reported as pending or failed.
ConfirmedChecked ==
    \A s \in Slots :
        Answered(s, "fetch") /\ verify[s].vouched
        => verify[s].anchor.status = "confirmed"
================================================================================
