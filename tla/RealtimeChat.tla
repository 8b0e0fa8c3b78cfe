---------------------------- MODULE RealtimeChat ----------------------------
(***************************************************************************)
(* One conversation of !thute Realtime: its members, messages, receipts    *)
(* and the durable events that tell clients about its messages.            *)
(*                                                                         *)
(* A request loads its rows, checks them and commits; nothing is locked in *)
(* between, and the UPDATE writes only the columns that the request gave   *)
(* another value than it had loaded.  Events are queued after the commit,  *)
(* in a transaction of their own; what becomes of them is RealtimeEvents.  *)
(*                                                                         *)
(* A message is named by its client_message_id.  The time of a request is  *)
(* its number.  "owner" stands for owners and admins.  Reactions, pins and *)
(* typing signals are left out: nothing else reads them.                   *)
(***************************************************************************)
EXTENDS Naturals, FiniteSets

CONSTANTS
  Users, Messages, Bodies,
  Service,      \* sender of what a product publishes itself
  Threads,      \* requests that may be under way at the same time
  MaxRequests,  \* bound on requests
  MaxFaults     \* bound on requests that die

VARIABLES
  member,    \* ConversationMember: role, "none" without a row, and last_read_message_id
  message,   \* Message rows
  receipt,   \* MessageReceipt rows
  events,    \* RealtimeEvent rows about messages: type and the message as told
  thread,    \* requests under way
  lost,      \* history: messages of requests that died before their event was queued
  requests, faults

chatVars == <<member, message, receipt, events, thread, lost, requests, faults>>

Idle == [at |-> "idle"]
NoMember == [role |-> "none", lastRead |-> {}]
NoMessage == [sender |-> {}]
NoReceipt == [state |-> "none", delivered |-> FALSE, read |-> FALSE]

\* The conversation as one of the users created it.
Init ==
  /\ \E creator \in Users, others \in SUBSET Users :
       member = [u \in Users |-> IF u = creator THEN [NoMember EXCEPT !.role = "owner"]
                                 ELSE IF u \in others THEN [NoMember EXCEPT !.role = "member"] ELSE NoMember]
  /\ message = [m \in Messages |-> NoMessage]
  /\ receipt = [m \in Messages |-> [u \in Users |-> NoReceipt]]
  /\ events = {} /\ thread = [t \in Threads |-> Idle]
  /\ lost = {} /\ requests = 0 /\ faults = 0

Members == {u \in Users : member[u].role # "none"}
Now == requests + 1

\* A request that has passed its checks and goes on as r.
Begin(t, r) ==
  /\ thread[t] = Idle /\ requests < MaxRequests /\ requests' = Now
  /\ thread' = [thread EXCEPT ![t] = r]
  /\ UNCHANGED <<member, message, receipt, events, lost, faults>>

Goes(t, r) == thread' = [thread EXCEPT ![t] = r]

\* Mutant of Written: the whole row as the request has it.
WrittenWhole(row, loaded, new) == new

\* The row after an UPDATE of the columns in which new differs from what was loaded.
Written(row, loaded, new) == [c \in DOMAIN row |-> IF new[c] = loaded[c] THEN row[c] ELSE new[c]]

-----------------------------------------------------------------------------
(* Messages. *)

\* send_message, as far as its commit; a message that exists already is only returned.
SendMessage(t, u, m, b) ==
  /\ member[u].role \notin {"none", "viewer"} /\ message[m] = NoMessage
  /\ Begin(t, [at |-> "send", m |-> m, to |-> Members, new |-> [sender |-> {u}, body |-> b, edited |-> 0, deleted |-> 0]])

\* platform_publish_conversation_event: no member sends it and it has no receipts.
PlatformPublish(t, m, b) ==
  /\ message[m] = NoMessage
  /\ Begin(t, [at |-> "send", m |-> m, to |-> {}, new |-> [sender |-> {Service}, body |-> b, edited |-> 0, deleted |-> 0]])

\* The insert.  When another request has the client_message_id, nothing is written and no event
\* is queued: the other's message is returned, or the product gets an error.
SendCommit(t) ==
  LET r == thread[t] IN
  /\ r.at = "send"
  /\ IF message[r.m] = NoMessage
       THEN /\ message' = [message EXCEPT ![r.m] = r.new]
            /\ receipt' = [receipt EXCEPT ![r.m] =
                 [u \in Users |-> IF u \notin r.to THEN @[u]
                                  ELSE IF u \in r.new.sender THEN [state |-> "read", delivered |-> TRUE, read |-> TRUE]
                                  ELSE [NoReceipt EXCEPT !.state = "accepted"]]]
            /\ Goes(t, [at |-> "refresh", type |-> "message", m |-> r.m])
       ELSE Goes(t, Idle) /\ UNCHANGED <<message, receipt>>
  /\ UNCHANGED <<member, events, lost, requests, faults>>

\* The sender, or an owner of the conversation.
MayChange(u, m) ==
  /\ message[m] # NoMessage /\ member[u].role # "none"
  /\ message[m].sender = {u} \/ member[u].role = "owner"

EditMessage(t, u, m, b) ==
  /\ MayChange(u, m) /\ message[m].deleted = 0
  /\ Begin(t, [at |-> "edit", m |-> m, loaded |-> message[m], new |-> [message[m] EXCEPT !.body = b, !.edited = Now]])

DeleteMessage(t, u, m) ==
  /\ MayChange(u, m) /\ message[m].deleted = 0
  /\ Begin(t, [at |-> "delete", m |-> m, loaded |-> message[m], new |-> [message[m] EXCEPT !.deleted = Now]])

\* Mutant of ChangeCommit: an edit, too, tells what it has in memory.
ChangeCommitStale(t) ==
  LET r == thread[t] IN
  /\ r.at \in {"edit", "delete"}
  /\ message' = [message EXCEPT ![r.m] = Written(@, r.loaded, r.new)]
  /\ Goes(t, [at |-> "emit", type |-> IF r.at = "edit" THEN "edited" ELSE "deleted", m |-> r.m, copy |-> r.new])
  /\ UNCHANGED <<member, receipt, events, lost, requests, faults>>

\* The UPDATE of either.  An edit reads the row again before it tells the clients, a deletion
\* tells them of the row as it has it.
ChangeCommit(t) ==
  LET r == thread[t] IN
  /\ r.at \in {"edit", "delete"}
  /\ message' = [message EXCEPT ![r.m] = Written(@, r.loaded, r.new)]
  /\ Goes(t, IF r.at = "edit" THEN [at |-> "refresh", type |-> "edited", m |-> r.m]
             ELSE [at |-> "emit", type |-> "deleted", m |-> r.m, copy |-> r.new])
  /\ UNCHANGED <<member, receipt, events, lost, requests, faults>>

\* db.refresh
Refresh(t) ==
  /\ thread[t].at = "refresh"
  /\ Goes(t, [at |-> "emit", type |-> thread[t].type, m |-> thread[t].m, copy |-> message[thread[t].m]])
  /\ UNCHANGED <<member, message, receipt, events, lost, requests, faults>>

\* idempotency_key: edited_at, or else deleted_at, or else created_at.
Key(type, m, copy) ==
  [type |-> type, m |-> m, time |-> IF copy.edited # 0 THEN copy.edited ELSE copy.deleted]

\* _emit_message_event: a key that was used before adds no event, be it returned or refused.
EmitMessageEvent(t) ==
  LET r == thread[t]
      k == Key(r.type, r.m, r.copy)
  IN
  /\ r.at = "emit"
  /\ events' = IF \E e \in events : e.key = k THEN events ELSE events \cup {[key |-> k, copy |-> r.copy]}
  /\ Goes(t, Idle)
  /\ UNCHANGED <<member, message, receipt, lost, requests, faults>>

\* The request dies: what it has not committed is gone.
Dies(t) ==
  /\ thread[t] # Idle /\ faults < MaxFaults /\ faults' = faults + 1
  /\ Goes(t, Idle)
  /\ lost' = IF thread[t].at \in {"refresh", "emit"} THEN lost \cup {thread[t].m} ELSE lost
  /\ UNCHANGED <<member, message, receipt, events, requests>>

-----------------------------------------------------------------------------
(* Receipts and members. *)

\* acknowledge_message
Acknowledge(t, u, m, state) ==
  LET old == receipt[m][u]
      new == IF state = "read" THEN [state |-> "read", delivered |-> TRUE, read |-> TRUE]
             ELSE [old EXCEPT !.delivered = TRUE, !.state = IF @ = "read" THEN @ ELSE "delivered"]
  IN
  /\ message[m] # NoMessage /\ member[u].role # "none"
  /\ Begin(t, [at |-> "receipt", m |-> m, user |-> u, loaded |-> old, new |-> new,
               moves |-> state = "read" /\ member[u].lastRead # {m}])

\* mark_read does what acknowledging as read does.
MarkRead(t, u, m) == Acknowledge(t, u, m, "read")

\* The commit.  It fails when a receipt to be inserted is there by now, or when the member whose
\* last_read_message_id it moves is gone.
ReceiptCommit(t) ==
  LET r == thread[t]
      fails == \/ r.loaded = NoReceipt /\ receipt[r.m][r.user] # NoReceipt
               \/ r.moves /\ member[r.user].role = "none"
  IN
  /\ r.at = "receipt" /\ Goes(t, Idle)
  /\ IF fails THEN UNCHANGED <<member, receipt>>
     ELSE /\ receipt' = [receipt EXCEPT ![r.m][r.user] = Written(@, r.loaded, r.new)]
          /\ member' = IF r.moves THEN [member EXCEPT ![r.user].lastRead = {r.m}] ELSE member
  /\ UNCHANGED <<message, events, lost, requests, faults>>

\* platform_manage_members: add, remove, or give another role.
ManageMembers(u, role) ==
  /\ requests < MaxRequests /\ requests' = Now /\ role # member[u].role
  /\ member' = [member EXCEPT ![u] = IF role = "none" THEN NoMember ELSE [@ EXCEPT !.role = role]]
  /\ UNCHANGED <<message, receipt, events, thread, lost, faults>>

-----------------------------------------------------------------------------
Next ==
  \/ \E t \in Threads, u \in Users, m \in Messages :
       \/ \E b \in Bodies : SendMessage(t, u, m, b) \/ EditMessage(t, u, m, b)
       \/ DeleteMessage(t, u, m) \/ Acknowledge(t, u, m, "delivered") \/ MarkRead(t, u, m)
  \/ \E t \in Threads, m \in Messages, b \in Bodies : PlatformPublish(t, m, b)
  \/ \E t \in Threads :
       \/ SendCommit(t) \/ ChangeCommit(t) \/ Refresh(t) \/ EmitMessageEvent(t)
       \/ ReceiptCommit(t) \/ Dies(t)
  \/ \E u \in Users, role \in {"none", "viewer", "member", "owner"} : ManageMembers(u, role)

Spec == Init /\ [][Next]_chatVars

-----------------------------------------------------------------------------
(* Properties. *)

Told(m, type) == {e \in events : e.key.m = m /\ e.key.type = type}

\* Once its requests are through, clients have been told of a message: of its existence once,
\* however often it was sent, of the text and the edit time it has, whichever of several
\* overlapping edits wrote them, and of its deletion (_emit_message_event).  A request that dies
\* after its commit tells nobody, and a repetition returns without an event.
ClientsTold ==
  \A m \in Messages :
    message[m] # NoMessage /\ m \notin lost
    /\ (\A t \in Threads : thread[t].at \in {"refresh", "emit"} => thread[t].m # m) =>
      /\ Cardinality(Told(m, "message")) = 1
      /\ \E e \in Told(m, "message") \cup Told(m, "edited") :
           e.copy.body = message[m].body /\ e.copy.edited = message[m].edited
      /\ message[m].deleted # 0 => Told(m, "deleted") # {}

\* No step takes back a deletion or the time a member read a message, whatever older copy of the
\* row its request had loaded (edit_message, acknowledge_message).
NothingTakenBack ==
  [][\A m \in Messages : message[m] # NoMessage =>
       /\ message[m].deleted # 0 => message'[m].deleted # 0
       /\ \A u \in Users : receipt[m][u].read => receipt'[m][u].read]_chatVars
=============================================================================
