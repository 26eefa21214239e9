-------------------------- MODULE DirectMessages --------------------------
(***************************************************************************)
(* One direct conversation: functions/messaging/direct_integrity.js and    *)
(* premium_privacy.js, with the staff removal of admin/messages.js.        *)
(*                                                                         *)
(* Every handler is one transaction behind its ledger: a repeated request  *)
(* answers from the ledger and changes nothing.  What is hard is what the  *)
(* handlers share: two read cursors for an account that hides its receipts *)
(* (one everybody reads, one of the server), two unread counters, the      *)
(* cut-off of "delete for me", the preview and the tombstones.             *)
(***************************************************************************)
EXTENDS Naturals, Sequences, FiniteSets

CONSTANTS
  Users,               \* the two participants
  Premium,             \* who may hold a Premium entitlement
  Kinds,               \* "text", "gif", "media"
  readPageSize,
  MaxMessages,         \* bound: messages sent
  MaxEdits,            \* bound: edits of one message
  Operations           \* bound: which operations an instance exercises

MessagesAssumption ==
  /\ Premium \subseteq Users /\ Cardinality(Users) = 2
  /\ readPageSize \in Nat \ {0} /\ MaxMessages \in Nat /\ MaxEdits \in Nat
  /\ Kinds \subseteq {"text", "gif", "media"}
  /\ Operations \subseteq {"reply", "edit", "delete", "react", "remove", "block",
                           "read", "archive", "forget", "hide"}

VARIABLES
  conv,      \* conversations/{id}
  msg,       \* its messages, by sequence
  priv,      \* directPrivateReadStates and directConversationUnreadStates
  hides,     \* directPrivacyPreferences.hideReadReceipts
  entitled,  \* paidPremiumIsActive
  blocked,   \* one of the two blocks the other
  secret     \* history: messages read without a receipt

vars == <<conv, msg, priv, hides, entitled, blocked, secret>>

last == Len(msg)
Smaller(m, n) == IF m <= n THEN m ELSE n

Init ==
  /\ conv = [exists |-> FALSE, preview |-> "none",
             unreadCounts |-> [u \in Users |-> 0],
             readSequences |-> [u \in Users |-> 0],
             deletedSequences |-> [u \in Users |-> 0],
             deletedBy |-> {}, archivedBy |-> {}]
  /\ msg = <<>>
  /\ priv = [u \in Users |-> [on |-> FALSE, processed |-> 0, hidden |-> 0, unread |-> 0]]
  /\ hides = [u \in Users |-> FALSE] /\ entitled = [u \in Users |-> u \in Premium]
  /\ blocked = FALSE /\ secret = [u \in Users |-> {}]

(* premiumMessagingPrivacy: a stored preference counts only while paid for *)
hideReadReceipts(u) == entitled[u] /\ hides[u]

(* The preview directMessagePreview derives from a message *)
PreviewOf(m) == IF m.isDeleted THEN "deleted" ELSE m.content

(* validateMessage: the exact keys of schema 2 *)
validMessage(m) == m.canonical

--------------------------------
(* Opening and sending *)

openDirectConversation ==
  /\ ~conv.exists /\ ~blocked
  /\ conv' = [conv EXCEPT !.exists = TRUE]
  /\ UNCHANGED <<msg, priv, hides, entitled, blocked, secret>>

(* Own counter to zero, the recipient's up by one: in the root, and in the
   private state of whoever has one. *)
CountsAfterSend(u) ==
  /\ conv' = [conv EXCEPT
       !.preview = msg'[Len(msg')].content,
       !.archivedBy = {}, !.deletedBy = {},
       !.unreadCounts = [v \in Users |-> IF v # u THEN @[v] + 1
                                         ELSE IF priv[u].on THEN @[v] ELSE 0]]
  /\ priv' = [v \in Users |->
       IF ~priv[v].on THEN priv[v]
       ELSE [priv[v] EXCEPT !.unread = IF v = u THEN 0 ELSE @ + 1]]

(* One message more: sent as a text or a GIF, or published by the finalizer
   of an attachment. *)
Publishes(u, kind, reply) ==
  /\ conv.exists /\ ~blocked /\ last < MaxMessages
  /\ msg' = Append(msg, [from |-> u, kind |-> kind, content |-> <<kind, 0>>,
                         readBy |-> {u}, reactions |-> {},
                         isDeleted |-> FALSE, canonical |-> TRUE])
  /\ CountsAfterSend(u)
  /\ UNCHANGED <<hides, entitled, blocked, secret>>

sendDirectMessage(u, kind, reply) ==
  /\ kind # "media"
  /\ reply # 0 => "reply" \in Operations /\ reply \in 1..last /\ validMessage(msg[reply])
  /\ Publishes(u, kind, reply)

finalizeAttachment(u) == "media" \in Kinds /\ Publishes(u, "media", 0)

--------------------------------
(* Changing a message *)

MayChange(u, i) == conv.exists /\ ~blocked /\ i \in 1..last /\ validMessage(msg[i])

editDirectMessage(u, i) ==
  /\ MayChange(u, i) /\ msg[i].from = u /\ ~msg[i].isDeleted /\ msg[i].kind = "text"
  /\ "edit" \in Operations /\ msg[i].content[2] < MaxEdits
  /\ msg' = [msg EXCEPT ![i].content[2] = @ + 1]
  /\ conv' = IF i = last THEN [conv EXCEPT !.preview = msg'[i].content] ELSE conv
  /\ UNCHANGED <<priv, hides, entitled, blocked, secret>>

Tombstone(m) == [m EXCEPT !.content = <<"none", 0>>, !.isDeleted = TRUE, !.reactions = {}]
deleteDirectMessage(u, i) ==
  /\ "delete" \in Operations
  /\ MayChange(u, i) /\ msg[i].from = u /\ ~msg[i].isDeleted
  /\ msg' = [msg EXCEPT ![i] = Tombstone(@)]
  /\ conv' = IF i = last THEN [conv EXCEPT !.preview = "deleted"] ELSE conv
  /\ UNCHANGED <<priv, hides, entitled, blocked, secret>>

(* adminDeleteMessage: a GIF becomes an exact tombstone and takes the preview
   with it; any other message is merged with moderation fields of its own,
   and the conversation is not touched. *)
adminDeleteMessage(i) ==
  /\ "remove" \in Operations /\ i \in 1..last /\ ~msg[i].isDeleted
  /\ \/ /\ msg[i].kind = "gif"
        /\ msg' = [msg EXCEPT ![i] = Tombstone(@)]
        /\ conv' = IF i = last THEN [conv EXCEPT !.preview = "deleted"] ELSE conv
     \/ /\ msg[i].kind # "gif"
        /\ msg' = [msg EXCEPT ![i].content = <<"none", 0>>, ![i].isDeleted = TRUE,
                              ![i].canonical = FALSE]
        /\ UNCHANGED conv
  /\ UNCHANGED <<priv, hides, entitled, blocked, secret>>

setDirectMessageReaction(u, i, on) ==
  /\ "react" \in Operations
  /\ MayChange(u, i) /\ ~msg[i].isDeleted /\ on # (u \in msg[i].reactions)
  /\ msg' = [msg EXCEPT ![i].reactions = IF on THEN @ \union {u} ELSE @ \ {u}]
  /\ UNCHANGED <<conv, priv, hides, entitled, blocked, secret>>

--------------------------------
(* Reading *)

currentSequence(u) == IF priv[u].on THEN priv[u].processed ELSE conv.readSequences[u]
Through(u) == Smaller(currentSequence(u) + readPageSize, last)
Page(u) == currentSequence(u) + 1 .. Through(u)

ReadsHidden(u) ==
  /\ hideReadReceipts(u)
  /\ priv' = [priv EXCEPT ![u] = [on |-> TRUE, processed |-> last, hidden |-> last, unread |-> 0]]
  /\ secret' = [secret EXCEPT ![u] =
       @ \union {i \in currentSequence(u) + 1 .. last : u \notin msg[i].readBy}]
  /\ UNCHANGED <<conv, msg>>

(* mutant: a page at the end leaves the private counter *)
ReadsButKeepsBadge(u) ==
  /\ ~hideReadReceipts(u)
  /\ \A i \in Page(u) : validMessage(msg[i])
  /\ msg' = [i \in 1..last |-> IF i \in Page(u) THEN [msg[i] EXCEPT !.readBy = @ \union {u}]
                                                ELSE msg[i]]
  /\ priv' = IF priv[u].on THEN [priv EXCEPT ![u].processed = Through(u)] ELSE priv
  /\ conv' = IF priv[u].on THEN conv ELSE [conv EXCEPT !.readSequences[u] = Through(u),
                                              !.unreadCounts[u] = IF Through(u) = last THEN 0 ELSE @]
  /\ UNCHANGED secret
ReadsPage(u) ==
  /\ ~hideReadReceipts(u)
  /\ \A i \in Page(u) : validMessage(msg[i])
  /\ msg' = [i \in 1..last |-> IF i \in Page(u) THEN [msg[i] EXCEPT !.readBy = @ \union {u}]
                                                ELSE msg[i]]
  /\ LET completed == Through(u) = last IN
     IF priv[u].on
       THEN /\ priv' = [priv EXCEPT ![u].processed = Through(u),
                                    ![u].unread = IF completed THEN 0 ELSE @]
            /\ UNCHANGED conv
       ELSE /\ conv' = [conv EXCEPT !.readSequences[u] = Through(u),
                                    !.unreadCounts[u] = IF completed THEN 0 ELSE @]
            /\ UNCHANGED priv
  /\ UNCHANGED secret

markDirectConversationRead(u) ==
  /\ "read" \in Operations /\ conv.exists
  /\ ReadsHidden(u) \/ ReadsPage(u)
  /\ UNCHANGED <<hides, entitled, blocked>>

--------------------------------
(* The inbox of one participant *)

ZeroesBadge(u, root) ==
  /\ conv' = IF priv[u].on THEN root ELSE [root EXCEPT !.unreadCounts[u] = 0]
  /\ priv' = IF priv[u].on THEN [priv EXCEPT ![u].unread = 0] ELSE priv

setArchived(u, on) ==
  /\ "archive" \in Operations /\ conv.exists
  /\ IF on THEN ZeroesBadge(u, [conv EXCEPT !.archivedBy = @ \union {u}])
           ELSE conv' = [conv EXCEPT !.archivedBy = @ \ {u}] /\ UNCHANGED priv
  /\ UNCHANGED <<msg, hides, entitled, blocked, secret>>

deleteDirectConversationForMe(u) ==
  /\ "forget" \in Operations /\ conv.exists
  /\ ZeroesBadge(u, [conv EXCEPT !.deletedBy = @ \union {u}, !.archivedBy = @ \ {u},
                                 !.deletedSequences[u] = last])
  /\ UNCHANGED <<msg, hides, entitled, blocked, secret>>

setPremiumMessagingPrivacyV1(u, on) ==
  /\ "hide" \in Operations /\ (on => entitled[u])
  /\ hides' = [hides EXCEPT ![u] = on]
  /\ UNCHANGED <<conv, msg, priv, entitled, blocked, secret>>

(* The entitlement runs out or is bought again; a block is set or lifted:
   other components. *)
EntitlementChanges(u) ==
  /\ u \in Premium /\ entitled' = [entitled EXCEPT ![u] = ~@]
  /\ UNCHANGED <<conv, msg, priv, hides, blocked, secret>>
BlockChanges ==
  /\ "block" \in Operations /\ blocked' = ~blocked
  /\ UNCHANGED <<conv, msg, priv, hides, entitled, secret>>

Next ==
  \/ openDirectConversation \/ BlockChanges
  \/ \E i \in 1..MaxMessages : adminDeleteMessage(i)
  \/ \E u \in Users :
       \/ \E kind \in Kinds, reply \in 0..MaxMessages : sendDirectMessage(u, kind, reply)
       \/ finalizeAttachment(u)
       \/ \E i \in 1..MaxMessages :
            \/ editDirectMessage(u, i) \/ deleteDirectMessage(u, i)
            \/ \E on \in BOOLEAN : setDirectMessageReaction(u, i, on)
       \/ markDirectConversationRead(u) \/ deleteDirectConversationForMe(u)
       \/ \E on \in BOOLEAN : setArchived(u, on) \/ setPremiumMessagingPrivacyV1(u, on)
       \/ EntitlementChanges(u)

Spec == Init /\ [][Next]_vars

--------------------------------
(* Properties *)

TypeOK ==
  /\ conv.unreadCounts \in [Users -> Nat] /\ conv.readSequences \in [Users -> 0..last]
  /\ conv.deletedSequences \in [Users -> 0..last]
  /\ conv.deletedBy \subseteq Users /\ conv.archivedBy \subseteq Users
  /\ \A i \in 1..last : msg[i].readBy \subseteq Users /\ msg[i].from \in msg[i].readBy
  /\ \A u \in Users : /\ priv[u].hidden <= priv[u].processed /\ priv[u].processed <= last
                      /\ priv[u].on => conv.readSequences[u] <= priv[u].processed

(* The counter u is shown *)
Badge(u) == IF priv[u].on THEN priv[u].unread ELSE conv.unreadCounts[u]

(* A message read while receipts were hidden never carries a receipt later,
   when they are shown again or the entitlement has run out (the two cursors
   of markDirectConversationRead). *)
SecretReadsStaySecret == \A u \in Users : \A i \in secret[u] : u \notin msg[i].readBy

(* A badge counts messages of the other one that u has not passed with its
   cursor and can still see: no page leaves a badge behind at the end, and
   no cut-off hides what the badge counts. *)
BadgeHasMessages == \A u \in Users : Badge(u) > 0 =>
  /\ currentSequence(u) < last
  /\ Badge(u) <= Cardinality({i \in conv.deletedSequences[u] + 1 .. last : msg[i].from # u})

(* A thread comes back to the inbox of whoever deleted it only with something
   newer than the cut-off to show (reviveDeletedBy). *)
RevivedThreadsShowSomething == \A u \in Users \ conv.deletedBy :
  conv.deletedSequences[u] = 0 \/ conv.deletedSequences[u] < last

(* The preview is that of the last message, through edits, tombstones and
   later sends, but for the messages staff removed outside the schema. *)
PreviewIsLast == last > 0 /\ validMessage(msg[last]) => conv.preview = PreviewOf(msg[last])

(* What the peer can read of an account that has hidden its receipts does
   not follow its reading: the public cursor stands still, and the public
   counter never falls. *)
PublicCursorFrozen == \A u \in Users : priv[u].on =>
  /\ conv'.readSequences[u] = conv.readSequences[u]
  /\ conv'.unreadCounts[u] >= conv.unreadCounts[u]

(* Whoever deletes a thread never sees again what it then held: the cut-off
   of a participant never falls, and a deletion puts it at the end. *)
CutOffHolds == \A u \in Users :
  /\ conv'.deletedSequences[u] >= conv.deletedSequences[u]
  /\ u \in conv'.deletedBy \ conv.deletedBy => conv'.deletedSequences[u] = last

=============================================================================
