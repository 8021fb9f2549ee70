-------------------------------- MODULE Chat --------------------------------
(***************************************************************************)
(* A support conversation: the customer or shop (support_service chats.py), *)
(* the assistant that answers them and may call for a human (ai_service     *)
(* chat.py and routes/api.py), and the admin (store_ops misc.py).           *)
(* The unread counters are columns of the conversation; the read marks are  *)
(* on the messages.                                                         *)
(*                                                                          *)
(* What is written, its delivery mark and the notifications are left out.   *)
(***************************************************************************)
EXTENDS Integers, Sequences, FiniteSets, SequencesExt, Columns

CONSTANTS
  Requests,    \* request slots
  MaxMessages  \* bound: messages of the conversation

ASSUME BoundsAssumption == MaxMessages \in Nat

VARIABLES
  conv,        \* the conversation: [unreadA, unreadC, handed, isAI]
  msgs,        \* its messages: [from, read]
  req,         \* the requests in flight
  seenA, seenC,  \* history: messages listed for the admin and the customer; the
                 \* answer with the list may still be lost on its way
  overlap      \* whether requests overlap in this behaviour; never changes

vars == <<conv, msgs, req, seenA, seenC, overlap>>

Senders == {"user", "admin", "ai", "system"}
\* Whose messages the customer's counter counts.
Staff == {"admin", "ai", "system"}
Conv == [unreadA : Nat, unreadC : Nat, handed : BOOLEAN, isAI : BOOLEAN]
Index == 1 .. MaxMessages

\* What a request has to send, in order.  The assistant stores the question
\* together with its answer, and a third message when it calls for a human.
Scripts == {<<"user">>, <<"admin">>, <<"user", "ai">>, <<"user", "ai", "system">>}

\* got: the conversation as read; n: the messages there were then; keeps: the
\* request holds on to the object it has read (or created) between commits.
Request == [pc : {"reload", "loaded"}, op : {"send", "openA", "openC", "takeover"},
            todo : Seq(Senders), got : Conv, n : 0 .. MaxMessages, keeps : BOOLEAN]
Idle == [pc |-> "idle"]
Quiet == \A r \in Requests : req[r] = Idle

\* A conversation begun with the assistant; one begun with a human has isAI
\* cleared from the start.
Init ==
  /\ conv = [unreadA |-> 0, unreadC |-> 0, handed |-> FALSE, isAI |-> TRUE]
  /\ msgs = <<>>
  /\ req = [r \in Requests |-> Idle]
  /\ seenA = {} /\ seenC = {}
  /\ overlap \in BOOLEAN

-----------------------------------------------------------------------------
Load(r) ==
  /\ req[r] = Idle /\ (overlap \/ Quiet)
  /\ \E op \in {"send", "openA", "openC", "takeover"}, k \in BOOLEAN,
        t \in Scripts \cup {<<>>} :
       /\ (op = "send") = (t # <<>>)
       /\ Contains(t, "ai") \/ ~ k
       /\ req' = [req EXCEPT ![r] = [pc |-> "loaded", op |-> op, todo |-> t, got |-> conv,
                                     n |-> Len(msgs), keeps |-> k]]
  /\ UNCHANGED <<conv, msgs, seenA, seenC, overlap>>

\* The next message of the same request: session.get reads the row again,
\* unless the object is still held.
Reload(r) ==
  /\ req[r].pc = "reload"
  /\ req' = [req EXCEPT ![r].pc = "loaded", ![r].got = IF req[r].keeps THEN @ ELSE conv]
  /\ UNCHANGED <<conv, msgs, seenA, seenC, overlap>>

Commit(got, new) ==
  conv' = [c \in DOMAIN conv |-> Flush(conv[c], got[c], new[c])]

-----------------------------------------------------------------------------
\* handover_to_admin changes the conversation in the commit of its message.
Escalates_Early(q) == Last(q.todo) = "system"
Escalates(q) == Head(q.todo) = "system"

\* send_message and send_chat: who is told.
Counted_Twice(q) ==
  [q.got EXCEPT !.unreadA = @ + 1, !.unreadC = IF Head(q.todo) \in Staff THEN @ + 1 ELSE @]
Counted(q) ==
  [q.got EXCEPT !.unreadA = IF Head(q.todo) = "user" THEN @ + 1 ELSE @,
                !.unreadC = IF Head(q.todo) \in Staff THEN @ + 1 ELSE @]

\* The conversation as the request leaves it; the admin's answer hands over.
Sent(q) ==
  [Counted(q) EXCEPT !.handed = @ \/ Head(q.todo) = "admin" \/ Escalates(q),
                     !.isAI = @ /\ ~ Escalates(q)]

Send(r) ==
  LET q == req[r]
  IN  /\ q.pc = "loaded" /\ q.op = "send"
      /\ Len(msgs) < MaxMessages
      /\ Commit(q.got, Sent(q))
      /\ msgs' = Append(msgs, [from |-> Head(q.todo), read |-> FALSE])
      /\ req' = [req EXCEPT ![r] = IF Tail(q.todo) = <<>> THEN Idle
                                   ELSE [q EXCEPT !.pc = "reload", !.todo = Tail(@),
                                                  !.got = Sent(q)]]
      /\ UNCHANGED <<seenA, seenC, overlap>>

-----------------------------------------------------------------------------
\* The messages a viewer's request marks: those it had loaded.
MarkRead_All(q, from) == {i \in DOMAIN msgs : msgs[i].from \in from}
MarkRead(q, from) == {i \in 1 .. q.n : msgs[i].from \in from}

Mark(I) == msgs' = [i \in DOMAIN msgs |-> [msgs[i] EXCEPT !.read = @ \/ i \in I]]

\* chat_messages: the admin opens the thread.  What the assistant wrote is
\* marked too.  The thread is listed after the commit; without a change
\* there is none, and the listing is as old as the first read.  The event
\* and the listing after the commit are taken with it: what arrives between
\* is listed too, and where they fail the answer is lost.
OpenAdmin(r) ==
  LET q == req[r]
      inbound == MarkRead(q, Senders \ {"admin"})
      dirty == q.got.unreadA > 0 \/ \E i \in inbound : ~ msgs[i].read
  IN  /\ q.pc = "loaded" /\ q.op = "openA"
      /\ Commit(q.got, [q.got EXCEPT !.unreadA = 0])
      /\ Mark(inbound)
      /\ seenA' = seenA \cup IF dirty THEN DOMAIN msgs ELSE 1 .. q.n
      /\ req' = [req EXCEPT ![r] = Idle]
      /\ UNCHANGED <<seenC, overlap>>

\* list_messages: the customer opens the thread, and is shown what was read
\* before the commit.
OpenCustomer(r) ==
  LET q == req[r]
  IN  /\ q.pc = "loaded" /\ q.op = "openC"
      /\ Commit(q.got, [q.got EXCEPT !.unreadC = 0])
      /\ Mark(MarkRead(q, Staff))
      /\ seenC' = seenC \cup 1 .. q.n
      /\ req' = [req EXCEPT ![r] = Idle]
      /\ UNCHANGED <<seenA, overlap>>

Takeover(r) ==
  LET q == req[r]
  IN  /\ q.pc = "loaded" /\ q.op = "takeover"
      /\ Commit(q.got, [q.got EXCEPT !.handed = TRUE])
      /\ req' = [req EXCEPT ![r] = Idle]
      /\ UNCHANGED <<msgs, seenA, seenC, overlap>>

\* A request ends early: an error, or its process died.
Return(r) ==
  /\ req[r] # Idle
  /\ req' = [req EXCEPT ![r] = Idle]
  /\ UNCHANGED <<conv, msgs, seenA, seenC, overlap>>

Next ==
  \E r \in Requests :
    \/ Load(r) \/ Reload(r) \/ Send(r) \/ OpenAdmin(r) \/ OpenCustomer(r) \/ Takeover(r)
    \/ Return(r)

Spec == Init /\ [][Next]_vars

-----------------------------------------------------------------------------
\* The conversation row, its messages and what a chat request remembers
\* keep the shapes of the chat tables.
TypeOK ==
  /\ conv \in Conv
  /\ msgs \in Seq([from : Senders, read : BOOLEAN])
  /\ req \in [Requests -> Request \cup {Idle}]
  /\ seenA \subseteq Index /\ seenC \subseteq Index
  /\ overlap \in BOOLEAN

From(S) == {i \in DOMAIN msgs : msgs[i].from \in S}

\* However requests overlap, a message is marked read only by an opening that
\* lists it: a customer's for the admin, an admin's for the customer, and what the
\* assistant wrote for either of them.
ReadWasShown ==
  \A i \in DOMAIN msgs :
    msgs[i].read =>
      CASE msgs[i].from = "user" -> i \in seenA
        [] msgs[i].from = "admin" -> i \in seenC
        [] OTHER -> i \in seenA \cup seenC

\* One request at a time, the counters are the messages no opening of either
\* side has listed yet, also within the several commits of a request.
BadgesExact ==
  ~ overlap =>
    /\ conv.unreadA = Cardinality(From({"user"}) \ seenA)
    /\ conv.unreadC = Cardinality(From(Staff) \ seenC)

\* However requests overlap and die, a conversation taken from the assistant
\* is marked as handed over and tells the customer so.
EscalationAnnounced == ~ conv.isAI => conv.handed /\ From({"system"}) # {}
=============================================================================
