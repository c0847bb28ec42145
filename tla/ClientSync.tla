------------------------------ MODULE ClientSync ------------------------------
(***************************************************************************)
(* The client's copy of the messages: MessageService lists them page by    *)
(* page, merges what it gets into the cache of JsonLocalStore and marks    *)
(* what a list no longer holds; it sends, forwards, revokes and deletes    *)
(* messages, and opens conversations from the cache.  The table of the     *)
(* server changes under it: other clients, and other devices of the same   *)
(* account, send, revoke and delete at any time, also between two pages.   *)
(*                                                                         *)
(* The cache is in memory, and every save writes all of it to the file of  *)
(* the account that is open; a save fails without a passphrase, and may    *)
(* fail with one.  A login reads the file back, and what a save had failed *)
(* to write is lost.                                                       *)
(*                                                                         *)
(* One row of the table and one entry of the cache stand for a message;    *)
(* their times are reduced to being set or not.  What comes before the     *)
(* last request of a command (usernames, bundles, encryption) is left to   *)
(* TrustOnFirstUse; how a file is written and sealed to LocalStore.        *)
(***************************************************************************)
EXTENDS Naturals, Sequences, FiniteSets

CONSTANTS
  Users,        \* accounts
  NoUser,       \* nobody is signed in: an empty user id or access token
  Slots,        \* chains of requests that can be in flight at once (a bound)
  PageSize,     \* MessagePageLimit
  ShownSize,    \* Paging::ConversationPageSize
  SavesFail,    \* whether the store may fail to save (a fault)
  MaxMessages   \* messages ever sent (a bound)

ASSUME SyncAssumption ==
  /\ NoUser \notin Users
  /\ PageSize \in Nat \ {0} /\ ShownSize \in Nat \ {0} /\ MaxMessages \in Nat
  /\ SavesFail \in BOOLEAN

VARIABLES
  table,    \* server: the messages, in the order they were sent
  me,       \* SessionService::currentUserId
  file,     \* the account whose file the store has open: m_path
  cache,    \* JsonLocalStore::m_messages
  unlocked, \* whether the store has a passphrase: m_secretPassphrase
  disk,     \* the messages in each account's file
  call,     \* the chain of requests of each slot
  gone,     \* history: <<account, message>> it was told, or saw, is hidden,
            \* and that was saved
  mine,     \* history: messages sent from this client
  overlap,  \* history: commands, or a login and a command, have overlapped,
            \* or a login has failed halfway
  torn      \* history: a login has failed halfway

client == <<me, file, cache, unlocked, disk>>
vars == <<table, me, file, cache, unlocked, disk, call, gone, mine, overlap,
          torn>>

-----------------------------------------------------------------------------
(* Messages, cached messages and requests *)

Messages == 1..MaxMessages

\* The columns, and fields, that hide a message from someone.
Columns == {"accessRevoked", "senderDeleted", "recipientDeleted"}
Tombstones == Columns \cup {"deleted"}

Row == [from : Users, to : Users, hidden : SUBSET Columns]

\* readAt and localSenderCopyWirePayloadJson are set or empty.
Entry == [cached : BOOLEAN, tombs : SUBSET Tombstones, read : BOOLEAN,
          copy : BOOLEAN]
NoEntry == [cached |-> FALSE, tombs |-> {}, read |-> FALSE, copy |-> FALSE]
NothingCached == [m \in Messages |-> NoEntry]

\* A message as the server sends it.
Copies == [id : Messages, hidden : SUBSET Columns]

Directions == {"received", "sent"}
Idle == [op |-> "idle", lists |-> <<>>, access |-> NoUser, offset |-> 0,
         found |-> {}, page |-> {}, before |-> {}, quiet |-> FALSE,
         id |-> 0, peer |-> NoUser, answer |-> "none"]

Calls ==
  [op : {"idle", "list", "read", "revoke", "delete", "send", "forward"},
   lists : Seq(Directions),         \* the lists that are still to be fetched
   access : Users \cup {NoUser},    \* whose token the request carries
   offset : Nat,                    \* where the page starts
   found : SUBSET Copies,           \* collected
   page : SUBSET Copies,            \* the answer's messages
   before : SUBSET Messages,        \* history: hidden when the list began
   quiet : BOOLEAN,                 \* history: the table has not changed since
   id : Messages \cup {0},          \* the message it is about
   peer : Users \cup {NoUser},      \* the user it is about
   answer : {"none", "ok"}]

TypeOK ==
  /\ table \in Seq(Row) /\ Len(table) <= MaxMessages
  /\ me \in Users \cup {NoUser}
  /\ file \in Users
  /\ cache \in [Messages -> Entry]
  /\ unlocked \in BOOLEAN
  /\ disk \in [Users -> [Messages -> Entry]]
  /\ call \in [Slots -> Calls]
  /\ gone \subseteq (Users \cup {NoUser}) \X Messages
  /\ mine \subseteq Messages
  /\ overlap \in BOOLEAN
  /\ torn \in BOOLEAN

Init ==
  /\ table = <<>>
  /\ me \in Users
  /\ file = me
  /\ cache = NothingCached
  /\ unlocked = TRUE
  /\ disk = [u \in Users |-> NothingCached]
  /\ call = [s \in Slots |-> Idle]
  /\ gone = {}
  /\ mine = {}
  /\ overlap = FALSE
  /\ torn = FALSE

InFlight == {s \in Slots : call[s] # Idle}

-----------------------------------------------------------------------------
(* The server: visibility and pages *)

Stored == DOMAIN table

\* _sender_visible and _recipient_visible.
Listed(u, dir) ==
  IF dir = "sent"
  THEN {m \in Stored : table[m].from = u
                       /\ "senderDeleted" \notin table[m].hidden}
  ELSE {m \in Stored : table[m].to = u
          /\ table[m].hidden \cap {"accessRevoked", "recipientDeleted"} = {}}

VisibleTo(u) == Listed(u, "sent") \cup Listed(u, "received")

\* list_received and list_sent: the newest first, from offset on.
Page(u, dir, offset) ==
  {m \in Listed(u, dir) :
     Cardinality({n \in Listed(u, dir) : n > m})
       \in offset..(offset + PageSize - 1)}

CopyOf(m) == [id |-> m, hidden |-> table[m].hidden]

\* The table has changed: no list is quiet any more.
Stirred == [t \in Slots |-> [call[t] EXCEPT !.quiet = FALSE]]

-----------------------------------------------------------------------------
(* The cache *)

\* isMessageVisibleToUser.
Shows(u, e, m) ==
  /\ e.cached
  /\ e.tombs \cap {"deleted", "accessRevoked"} = {}
  /\ table[m].from = u => "senderDeleted" \notin e.tombs
  /\ table[m].to = u => "recipientDeleted" \notin e.tombs

\* What account u sees of a cache.
ShownIn(u, entries) == {m \in Stored : Shows(u, entries[m], m)}

\* saveMessage: a time the new message has not set keeps its old value.
Merge(e, hidden, copy) ==
  [cached |-> TRUE, tombs |-> e.tombs \cup hidden, read |-> e.read,
   copy |-> e.copy \/ copy]

\* saveMessages: one after the other from the newest on, until a save fails.
Saved(entries, found, oldest) ==
  [m \in Messages |->
     LET copies == {c \in found : c.id = m /\ c.id >= oldest}
     IN IF copies = {} THEN entries[m]
        ELSE Merge(entries[m], UNION {c.hidden : c \in copies}, FALSE)]

\* The messages a list is about.
Concerns(u, dir, m) ==
  m \in Stored /\ (IF dir = "sent" THEN table[m].from = u ELSE table[m].to = u)

\* Mutant: messages a list no longer holds stay as they are.
TombFromNone(u, dir, e, m) == {}

\* The mark of a message that a list no longer holds.
TombFor(u, dir, e, m) ==
  IF Concerns(u, dir, m) /\ Shows(u, e, m)
  THEN {IF dir = "sent" THEN "senderDeleted" ELSE "accessRevoked"}
  ELSE {}

\* reconcileVisibleMessages.
Reconciled(u, dir, entries, ids) ==
  [m \in Messages |->
     IF m \in ids THEN entries[m]
     ELSE [entries[m] EXCEPT !.tombs = @ \cup TombFor(u, dir, entries[m], m)]]

\* markMessageDeletedFor.
DeletedMark(u, m) ==
  (IF table[m].from = u THEN {"senderDeleted"} ELSE {})
    \cup (IF table[m].to = u THEN {"recipientDeleted"} ELSE {})
    \cup (IF u \in {table[m].from, table[m].to} THEN {} ELSE {"deleted"})

\* messagesWithPeer.
Conversation(u, peer, entries) ==
  {m \in Stored : /\ Shows(u, entries[m], m)
                  /\ \/ table[m].from = u /\ table[m].to = peer
                     \/ table[m].from = peer /\ table[m].to = u}

\* markConversationRead.
MarkedRead(u, peer, entries) ==
  [m \in Messages |->
     [entries[m] EXCEPT !.read =
        @ \/ /\ entries[m].cached
             /\ table[m].from = peer /\ table[m].to = u]]

\* conversationsFor and unreadConversationsFor: received and without readAt.
Unread(u) ==
  {m \in ShownIn(u, cache) : table[m].from # u /\ ~cache[m].read}

\* save: all that memory holds, into the file that is open.
Writes(entries) ==
  /\ unlocked
  /\ disk' = [disk EXCEPT ![file] = entries]

\* save fails: protectSecrets has no passphrase, or the file cannot be written.
SaveFails == SavesFail \/ ~unlocked

Saves(entries) == Writes(entries) \/ (SaveFails /\ UNCHANGED disk)

-----------------------------------------------------------------------------
(* Commands *)

\* The token of the session, or the empty string.
AccessToken == me

\* requestFor: a request with a token carries the one that is held by now.
AskAs(access) == IF access # NoUser /\ me # NoUser THEN me ELSE access

Hidden(u, dir) == {m \in Stored : Concerns(u, dir, m)} \ VisibleTo(u)

\* The first page of a list.
FirstPage(c, lists, u) ==
  [c EXCEPT !.lists = lists, !.access = u, !.offset = 0, !.found = {},
            !.page = {}, !.before = Hidden(u, Head(lists)), !.quiet = TRUE,
            !.answer = "none"]

Begin(s, c) ==
  /\ call[s] = Idle
  /\ call' = [call EXCEPT ![s] = c]
  /\ overlap' = (overlap \/ InFlight # {})
  /\ UNCHANGED <<table, client, gone, mine, torn>>

\* listReceived and listUnreadSenders, listSent, listConversations.
Plans == {<<"received">>, <<"sent">>, <<"received", "sent">>}

List(s, plan) ==
  /\ me # NoUser
  /\ Begin(s, FirstPage([Idle EXCEPT !.op = "list"], plan, AccessToken))

\* readConversation, once the username is resolved.
Read(s, peer) ==
  /\ me # NoUser
  /\ Begin(s, FirstPage([Idle EXCEPT !.op = "read", !.peer = peer],
                        <<"received", "sent">>, AccessToken))

\* revoke and deleteMessage take any message id.
Revoke(s, m) ==
  Begin(s, [Idle EXCEPT !.op = "revoke", !.id = m, !.access = AccessToken])

Delete(s, m) ==
  Begin(s, [Idle EXCEPT !.op = "delete", !.id = m, !.access = AccessToken])

\* sendToAddress, once the message is encrypted.
Send(s, peer) ==
  Begin(s, [Idle EXCEPT !.op = "send", !.peer = peer, !.access = AccessToken])

\* forwardToAddress: findMessage finds hidden messages, too; a message the
\* account sent is readable only with its sender copy.
Forwardable(m) ==
  /\ cache[m].cached
  /\ table[m].from = me => cache[m].copy

Forward(s, m, peer) ==
  /\ Forwardable(m)
  /\ Begin(s, [Idle EXCEPT !.op = "forward", !.id = m, !.peer = peer,
                           !.access = AccessToken])

-----------------------------------------------------------------------------
(* The server answers *)

Waiting(s, ops) == call[s].op \in ops /\ call[s].answer = "none"

ServePage(s) ==
  LET c == call[s] IN
  /\ Waiting(s, {"list", "read"}) /\ c.access # NoUser
  /\ call' = [call EXCEPT
       ![s].answer = "ok",
       ![s].page = {CopyOf(m) : m \in Page(c.access, Head(c.lists), c.offset)}]
  /\ UNCHANGED <<table, client, gone, mine, overlap, torn>>

\* revoke_message_access.
ServeRevoke(s) ==
  LET c == call[s] IN
  /\ Waiting(s, {"revoke"}) /\ c.id \in Stored
  /\ table[c.id].from = c.access
  /\ table' = [table EXCEPT ![c.id].hidden = @ \cup {"accessRevoked"}]
  /\ call' = [Stirred EXCEPT ![s].answer = "ok",
       ![s].page = {[CopyOf(c.id) EXCEPT !.hidden = @ \cup {"accessRevoked"}]}]
  /\ UNCHANGED <<client, gone, mine, overlap, torn>>

\* delete_message_for_user: the sender's side comes first.
DeleteColumn(u, m) ==
  IF table[m].from = u THEN "senderDeleted" ELSE "recipientDeleted"

Deletable(u, m) ==
  /\ m \in Stored
  /\ \/ table[m].from = u /\ m \in Listed(u, "sent")
     \/ table[m].from # u /\ m \in Listed(u, "received")

ServeDelete(s) ==
  LET c == call[s] IN
  /\ Waiting(s, {"delete"}) /\ Deletable(c.access, c.id)
  /\ table' = [table EXCEPT
       ![c.id].hidden = @ \cup {DeleteColumn(c.access, c.id)}]
  /\ call' = [Stirred EXCEPT ![s].answer = "ok"]
  /\ UNCHANGED <<client, gone, mine, overlap, torn>>

\* send_message, forward_message.
ServeSend(s) ==
  LET c == call[s] IN
  /\ Waiting(s, {"send", "forward"}) /\ c.access # NoUser
  /\ c.op = "forward" => c.id \in VisibleTo(c.access)
  /\ Len(table) < MaxMessages
  /\ table' = Append(table, [from |-> c.access, to |-> c.peer, hidden |-> {}])
  /\ call' = [Stirred EXCEPT ![s].answer = "ok",
       ![s].page = {[id |-> Len(table) + 1, hidden |-> {}]}]
  /\ mine' = mine \cup {Len(table) + 1}
  /\ UNCHANGED <<client, gone, overlap, torn>>

\* The request is refused or times out, or its answer is lost after the server
\* acted; the client gives up the command.
Fails(s) ==
  /\ call[s] # Idle
  /\ call' = [call EXCEPT ![s] = Idle]
  /\ UNCHANGED <<table, client, gone, mine, overlap, torn>>

-----------------------------------------------------------------------------
(* The client receives the answer *)

Received(s, op) == call[s].op = op /\ call[s].answer = "ok"

\* Mutant: a full page is the last one, too.
MorePagesThan(c) == Cardinality(c.page) > PageSize

\* fetchMessages: a full page is not the last one.
MorePages(c) == Cardinality(c.page) >= PageSize

NextOffset(c) == c.offset + PageSize

NextPage(s) ==
  LET c == call[s] IN
  /\ Received(s, "list") \/ Received(s, "read")
  /\ MorePages(c)
  /\ call' = [call EXCEPT ![s] =
       [c EXCEPT !.offset = NextOffset(c), !.found = @ \cup c.page,
                 !.page = {}, !.access = AskAs(@), !.answer = "none"]]
  /\ UNCHANGED <<table, client, gone, mine, overlap, torn>>

\* The messages a list has brought, in pages from the newest on.
Collected(c) == c.found \cup c.page

Ids(found) == {x.id : x \in found}

\* saveAndReconcileMessages, for whoever is signed in by now.
AfterList(c, oldest) ==
  Reconciled(me, Head(c.lists), Saved(cache, Collected(c), oldest),
             Ids(Collected(c)))

\* saveMessages stops at the first save that fails; without a passphrase this
\* is the first of all.
StopsAt(found, oldest) ==
  \/ oldest = 0 /\ (unlocked \/ found = {})
  \/ /\ oldest \in Ids(found) /\ SaveFails
     /\ unlocked \/ \A n \in Ids(found) : n <= oldest

\* What the messages saved before that have left in the files.
FilesAfter(found, oldest) ==
  IF \A n \in Ids(found) : n <= oldest THEN disk
  ELSE [disk EXCEPT ![file] = Saved(cache, found, oldest + 1)]

\* openConversationFromCache: unless the device's keys are missing, all of the
\* conversation is marked read, whatever page of it is shown.
Opens(c, entries) ==
  c.op = "read" /\ Conversation(me, c.peer, entries) # {}

Opened(c, entries, opens) ==
  IF opens THEN MarkedRead(me, c.peer, entries) ELSE entries

\* The saves of the marks and of what was read may fail as well, each of them.
LastPage(s, oldest) ==
  LET c == call[s]
      after == AfterList(c, oldest)
      more == Tail(c.lists)
  IN
  /\ Received(s, "list") \/ Received(s, "read")
  /\ ~MorePages(c)
  /\ StopsAt(Collected(c), oldest)
  /\ \E opens \in {FALSE, more = <<>> /\ Opens(c, after)} :
       LET opened == Opened(c, after, opens) IN
       /\ cache' = opened
       /\ \/ SaveFails /\ disk' = FilesAfter(Collected(c), oldest) /\ gone' = gone
          \/ /\ Writes(opened) \/ (SavesFail /\ Writes(after))
             /\ gone' = gone \cup ({c.access} \X c.before)
  /\ call' = [call EXCEPT
       ![s] = IF more = <<>> THEN Idle ELSE FirstPage(c, more, AccessToken)]
  /\ UNCHANGED <<table, me, file, unlocked, mine, overlap, torn>>

\* The message that revoke, send and forward are answered with is saved; what
\* was sent from here with its sender copy.
ReceiveMessage(s) ==
  LET c == call[s] IN
  /\ Received(s, "revoke") \/ Received(s, "send") \/ Received(s, "forward")
  /\ \E x \in c.page : cache' = [cache EXCEPT ![x.id] =
       Merge(@, x.hidden, c.op # "revoke")]
  /\ Saves(cache')
  /\ call' = [call EXCEPT ![s] = Idle]
  /\ UNCHANGED <<table, me, file, unlocked, gone, mine, overlap, torn>>

\* A message that is not cached is not marked, and nothing is saved.
ReceiveDelete(s) ==
  LET c == call[s]
      told == IF c.id \in VisibleTo(c.access) THEN {} ELSE {<<c.access, c.id>>}
  IN
  /\ Received(s, "delete")
  /\ \/ ~cache[c.id].cached /\ UNCHANGED <<cache, disk>> /\ gone' = gone \cup told
     \/ /\ cache[c.id].cached
        /\ cache' = [cache EXCEPT ![c.id].tombs = @ \cup DeletedMark(me, c.id)]
        /\ \/ Writes(cache') /\ gone' = gone \cup told
           \/ SaveFails /\ UNCHANGED <<disk, gone>>
  /\ call' = [call EXCEPT ![s] = Idle]
  /\ UNCHANGED <<table, me, file, unlocked, mine, overlap, torn>>

-----------------------------------------------------------------------------
(* Other clients and the account *)

\* Any user sends from another client.
Post(u, v) ==
  /\ Len(table) < MaxMessages
  /\ table' = Append(table, [from |-> u, to |-> v, hidden |-> {}])
  /\ call' = Stirred
  /\ UNCHANGED <<client, gone, mine, overlap, torn>>

\* Another client of u revokes or deletes.
Hide(u, m, column) ==
  /\ m \in Stored
  /\ \/ column = "accessRevoked" /\ table[m].from = u
     \/ Deletable(u, m) /\ column = DeleteColumn(u, m)
  /\ column \notin table[m].hidden
  /\ table' = [table EXCEPT ![m].hidden = @ \cup {column}]
  /\ call' = Stirred
  /\ UNCHANGED <<client, gone, mine, overlap, torn>>

\* Mutant: the store keeps the file it has open.
FileBefore(u) == file

\* useAccountScopedPath.
FileFor(u) == u

\* Mutant: a login keeps what is in memory.
NotReloaded(u) == cache

\* reload.
Reloaded(u) == disk[FileFor(u)]

\* login, which saves the session.
SignIn(u) ==
  /\ me' = u
  /\ file' = FileFor(u)
  /\ cache' = Reloaded(u)
  /\ unlocked' = TRUE
  /\ overlap' = (overlap \/ InFlight # {})
  /\ UNCHANGED <<table, disk, call, gone, mine, torn>>

\* A login fails once the server has answered it: the index cannot be written,
\* or the account's file cannot be read.  From here on see LocalStore.
SignInFails(u) ==
  /\ \/ UNCHANGED <<file, cache>>
     \/ file' = FileFor(u) /\ cache' = NothingCached
  /\ unlocked' = TRUE
  /\ overlap' = TRUE /\ torn' = TRUE
  /\ UNCHANGED <<table, me, disk, call, gone, mine>>

\* logout opens no other file; the passphrase is forgotten if the save succeeds.
SignOut ==
  /\ me' = NoUser
  /\ \/ Writes(cache) /\ unlocked' = FALSE
     \/ SaveFails /\ UNCHANGED <<disk, unlocked>>
  /\ overlap' = (overlap \/ InFlight # {})
  /\ UNCHANGED <<table, file, cache, call, gone, mine, torn>>

\* Users, pins, tokens and keys are saved with what memory has of the messages.
SaveOther ==
  /\ Writes(cache)
  /\ UNCHANGED <<table, me, file, cache, unlocked, call, gone, mine, overlap,
                 torn>>

\* The program ends and starts again, in the same account's file: without the
\* password nothing is read, with it the session is there unless it was cleared.
Restart ==
  /\ \/ me' = NoUser /\ cache' = NothingCached /\ unlocked' = FALSE
     \/ me' \in {NoUser, file} /\ cache' = disk[file] /\ unlocked' = TRUE
  /\ call' = [s \in Slots |-> Idle]
  /\ UNCHANGED <<table, file, disk, gone, mine, overlap, torn>>

-----------------------------------------------------------------------------
Command(s) ==
  \/ \E plan \in Plans : List(s, plan)
  \/ \E m \in Messages :
       Revoke(s, m) \/ Delete(s, m) \/ \E v \in Users : Forward(s, m, v)
  \/ \E v \in Users : Read(s, v) \/ Send(s, v)

Serve(s) == ServePage(s) \/ ServeRevoke(s) \/ ServeDelete(s) \/ ServeSend(s)

Receive(s) ==
  \/ NextPage(s)
  \/ \E oldest \in 0..MaxMessages : LastPage(s, oldest)
  \/ ReceiveMessage(s)
  \/ ReceiveDelete(s)

Next ==
  \/ \E s \in Slots : Command(s) \/ Serve(s) \/ Fails(s) \/ Receive(s)
  \/ \E u, v \in Users : Post(u, v)
  \/ \E u \in Users, m \in Messages, column \in Columns : Hide(u, m, column)
  \/ \E u \in Users : SignIn(u) \/ SignInFails(u)
  \/ SignOut \/ SaveOther \/ Restart

Spec == Init /\ [][Next]_vars

-----------------------------------------------------------------------------
(* Properties *)

\* f has all that e has: its marks, that it was read and its sender copy.
Keeps(e, f) ==
  /\ e.tombs \subseteq f.tombs
  /\ e.cached => f.cached
  /\ e.read => f.read
  /\ e.copy => f.copy

\* The steps that read memory from a file, or empty it.
Reloads == Restart \/ \E u \in Users : SignIn(u)

\* Unless a login has failed halfway: no list, old or new, no save of one
\* account's memory and no login, logout or restart takes anything back that an
\* account's file holds: that a message was deleted or revoked, that it was
\* read, its sender copy and the message itself; and memory, which is written
\* as a whole, loses nothing but when it is read again (saveMessage, load, save).
KeptForever ==
  [][~torn' => /\ \A u \in Users, m \in Messages : Keeps(disk[u][m], disk'[u][m])
               /\ Reloads \/ \A m \in Messages : Keeps(cache[m], cache'[m])]_vars

\* The account's file, or memory when that file is open, has or shows a message.
Has(u, m) == disk[u][m].cached \/ (file = u /\ cache[m].cached)
Sees(u, m) == m \in ShownIn(u, disk[u]) \/ (file = u /\ m \in ShownIn(u, cache))

\* As long as commands do not overlap: what was hidden from the account when
\* a list began, or was deleted by it, is not shown any more once the list or
\* the deletion was saved, neither by the file nor by memory, even when the
\* pages of the list shifted, and through failing saves, logins, logouts and
\* restarts (reconcileVisibleMessages, markMessageDeletedFor, reload).
HiddenIsHidden ==
  ~overlap =>
    \A u \in Users, m \in Messages : <<u, m>> \in gone => ~Sees(u, m)

\* As long as commands do not overlap: the file of an account, and memory when
\* it is open, hold only messages it sent or received, through every login,
\* logout and restart.
OwnMessagesOnly ==
  ~overlap =>
    \A u \in Users, m \in Messages :
      Has(u, m) => u \in {table[m].from, table[m].to}

\* A list of any number of pages that nothing disturbed leaves the cache with
\* what the server shows: nothing hidden is shown, everything is there, and no
\* message that is still listed disappears (fetchMessages, saveMessages).
SyncExact ==
  [][\A s \in Slots : LastPage(s, 0) /\ call[s].quiet /\ ~overlap =>
       LET dir == Head(call[s].lists)
           listed == Listed(me, dir)
           after == ShownIn(me, cache')
       IN /\ {m \in after : Concerns(me, dir, m)} \subseteq listed
          /\ \A m \in listed :
               /\ cache'[m].cached
               /\ /\ "accessRevoked" \notin table[m].hidden
                  /\ table[m].from # table[m].to
                  /\ cache[m].cached => m \in ShownIn(me, cache)
                  => m \in after]_vars

\* "deletion/revocation tombstones" (docs/client_docs/client-docs.md:85): a
\* message the cache hides was deleted or revoked.
TombstonesTrue ==
  ~overlap /\ me # NoUser =>
    \A m \in Stored :
      /\ table[m].from # table[m].to
      /\ cache[m].cached /\ m \notin ShownIn(me, cache)
      => m \notin VisibleTo(me) \/ "accessRevoked" \in table[m].hidden

\* "No unread messages." (ClientConstants.h:91): reading one page of a
\* conversation marks at most that page read.
UnreadCounted ==
  [][\A s \in Slots : Received(s, "read") /\ me = file =>
       Cardinality({m \in Unread(me) : cache'[m].read}) <= ShownSize]_vars

\* "This sent message was cached before local sender-copy encryption was
\* available." (ClientConstants.h:99): a message sent from here has its copy.
SentHasCopy ==
  \A m \in mine : LET e == disk[table[m].from][m] IN e.cached => e.copy

\* "Persists account state, [...] local sender copies, and deletion/revocation
\* tombstones" (docs/client_docs/client-docs.md:85): the login of the account
\* whose messages are in memory loses nothing of them.
LoginKeeps ==
  [][\A u \in Users : SignIn(u) /\ file = u /\ ~torn =>
       \A m \in Messages : Keeps(cache[m], cache'[m])]_vars

-----------------------------------------------------------------------------
(* The inductive invariant of the proofs *)

\* The message is in the table, and u sent or received it.
Involves(u, m) == m \in Stored /\ u \in {table[m].from, table[m].to}

\* A list has a direction left, and a command has the message or the user that
\* it is about.
CallShaped(c) ==
  /\ c.op \in {"list", "read"} => c.lists # <<>>
  /\ c.op \in {"revoke", "delete", "forward"} => c.id \in Messages
  /\ c.op \in {"send", "forward"} => c.peer \in Users

\* As long as commands do not overlap, the one in flight is of the account
\* that is signed in, and has got that account's messages only.
CallOwn(c) ==
  /\ c.access = me
  /\ \A x \in c.found \cup c.page : Involves(me, x.id)

\* What memory holds is written over the file, so it must be ahead of it: that
\* is why KeptForever holds.
MemoryAhead ==
  ~torn => /\ me # NoUser => file = me /\ unlocked
           /\ unlocked => \A m \in Messages : Keeps(disk[file][m], cache[m])

\* Why OwnMessagesOnly holds: the file is the signed-in account's, and so are
\* the messages on their way into it.
SInv ==
  /\ TypeOK
  /\ \A s \in Slots : CallShaped(call[s])
  /\ MemoryAhead
  /\ torn => overlap
  /\ ~overlap =>
       /\ \A s, t \in InFlight : s = t
       /\ \A s \in InFlight : CallOwn(call[s])
       /\ \A u \in Users, m \in Messages : Has(u, m) => Involves(u, m)

\* What an account was told is hidden is in the table, and it cannot see it.
GoneHidden == \A u \in Users, m \in Messages :
  <<u, m>> \in gone => m \in Stored /\ m \notin VisibleTo(u)

\* The messages on their way into a cache are none that must not be shown: a
\* list has got nothing that was hidden when it began, nor anything the account
\* was told is hidden before, and a revoked message comes with its mark.
CallHidden(c) ==
  /\ c.answer = "ok" => c.access # NoUser
  /\ c.op \in {"list", "read"} =>
       /\ \A m \in c.before :
            Concerns(c.access, Head(c.lists), m) /\ m \notin VisibleTo(c.access)
       /\ \A x \in c.found \cup c.page :
            x.id \notin c.before /\ <<c.access, x.id>> \notin gone
  /\ c.op \in {"send", "forward"} =>
       \A x \in c.page : <<c.access, x.id>> \notin gone
  /\ c.op = "revoke" => \A x \in c.page : "accessRevoked" \in x.hidden
  /\ c.op = "delete" /\ c.answer = "ok" => c.id \in Stored

\* Why HiddenIsHidden holds.
HInv ==
  /\ SInv
  /\ HiddenIsHidden
  /\ ~overlap => /\ GoneHidden
                 /\ \A s \in InFlight : CallHidden(call[s])

\* The messages a list brings before its offset: the newest ones.
Before(u, dir, offset) ==
  {m \in Listed(u, dir) :
     Cardinality({n \in Listed(u, dir) : n > m}) < offset}

\* A list that nothing disturbed has got the messages before its offset as they
\* are, and the page it was answered.
CallExact(c) ==
  c.op \in {"list", "read"} /\ c.quiet =>
    LET dir == Head(c.lists) IN
    /\ c.found = {CopyOf(m) : m \in Before(c.access, dir, c.offset)}
    /\ c.page = IF c.answer = "ok"
                THEN {CopyOf(m) : m \in Page(c.access, dir, c.offset)} ELSE {}

\* Only messages that are cached are marked.
Neat(entries) == \A m \in Messages : ~entries[m].cached => entries[m].tombs = {}

\* Why SyncExact holds.
EInv ==
  /\ HInv
  /\ Neat(cache) /\ \A u \in Users : Neat(disk[u])
  /\ ~overlap => \A s \in InFlight : CallExact(call[s])
=============================================================================
