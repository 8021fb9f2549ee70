----------------------------- MODULE ChatProofs ------------------------------
(***************************************************************************)
(* For every number of messages and overlapping requests: a message is      *)
(* marked read only when it was shown, and a conversation taken from the    *)
(* assistant says so; and where requests do not overlap, the two counters   *)
(* are the messages either side was not shown yet.                          *)
(***************************************************************************)
EXTENDS Chat, SequenceTheorems, FiniteSetTheorems, TLAPS

Messages == [from : Senders, read : BOOLEAN]

-----------------------------------------------------------------------------
(***************************************************************************)
(* The inductive invariant.  What a request has read lags behind: there may *)
(* be more messages by now, and the conversation may have been handed over  *)
(* since, but neither is ever taken back.  So the messages a viewer marks   *)
(* are still those it had listed, and a request that finds the conversation *)
(* handed over need not write the column.                                   *)
(***************************************************************************)
SnapshotOK(q, ms, c) ==
  q # Idle =>
    /\ q.n <= Len(ms)
    /\ q.got.handed => c.handed
    /\ q.op = "send" => q.todo # << >>

SnapshotsOK == \A r \in Requests : SnapshotOK(req[r], msgs, conv)

Inv ==
  /\ TypeOK
  /\ Len(msgs) <= MaxMessages
  /\ seenA \subseteq DOMAIN msgs /\ seenC \subseteq DOMAIN msgs
  /\ ReadWasShown
  /\ EscalationAnnounced
  /\ SnapshotsOK

\* One request at a time: the counters it read (or wrote last) are those of the
\* row, and a viewer has listed every message.
OneRequest == \A r, s \in Requests : req[r] # Idle /\ req[s] # Idle => r = s

Current(q, ms, c) ==
  q # Idle =>
    /\ q.got.unreadA = c.unreadA /\ q.got.unreadC = c.unreadC
    /\ q.op # "send" => q.n = Len(ms) /\ q.pc = "loaded"

AllCurrent == \A r \in Requests : Current(req[r], msgs, conv)

SerialInv == ~ overlap => OneRequest /\ AllCurrent /\ BadgesExact

-----------------------------------------------------------------------------
\* A request in flight, field by field.
LEMMA Shape ==
  ASSUME Inv, NEW r \in Requests, req[r] # Idle
  PROVE  /\ req[r] \in Request
         /\ req[r].pc \in {"reload", "loaded"}
         /\ req[r].op \in {"send", "openA", "openC", "takeover"}
         /\ req[r].todo \in Seq(Senders) /\ req[r].got \in Conv
         /\ req[r].n \in Nat /\ req[r].n \in 0 .. MaxMessages /\ req[r].n <= Len(msgs)
         /\ req[r].got.handed => conv.handed
         /\ req[r].op = "send" => req[r].todo # << >>
<1>1. req[r] \in Request /\ SnapshotOK(req[r], msgs, conv)
  BY DEF Inv, TypeOK, SnapshotsOK
<1> QED
  BY <1>1, BoundsAssumption DEF Request, SnapshotOK

\* The conversation and its messages.
LEMMA TableShape ==
  ASSUME Inv
  PROVE  /\ msgs \in Seq(Messages) /\ Len(msgs) \in Nat /\ Len(msgs) <= MaxMessages
         /\ DOMAIN msgs = 1 .. Len(msgs) /\ DOMAIN msgs \subseteq Index
         /\ \A i \in DOMAIN msgs : msgs[i] \in Messages
         /\ conv \in Conv
<1>1. msgs \in Seq(Messages) /\ Len(msgs) <= MaxMessages /\ conv \in Conv
  BY DEF Inv, TypeOK, Messages
<1>2. Len(msgs) \in Nat /\ DOMAIN msgs = 1 .. Len(msgs)
  BY <1>1, LenProperties
<1>3. \A i \in DOMAIN msgs : msgs[i] \in Messages
  BY <1>1, <1>2, ElementOfSeq
<1> QED
  BY <1>1, <1>2, <1>3, BoundsAssumption DEF Index

\* What a step of one request may do to the rest.
Grows ==
  /\ Len(msgs') \in Nat /\ Len(msgs) <= Len(msgs')
  /\ conv.handed => conv'.handed

\* One request moves on; the snapshots of the others stay right.
LEMMA RequestsStay ==
  ASSUME Inv, Grows, NEW r \in Requests, NEW q \in Request \cup {Idle},
         req' = [req EXCEPT ![r] = q], SnapshotOK(q, msgs', conv')
  PROVE  req' \in [Requests -> Request \cup {Idle}] /\ SnapshotsOK'
<1>1. req' \in [Requests -> Request \cup {Idle}]
  BY DEF Inv, TypeOK
<1>2. ASSUME NEW s \in Requests
      PROVE  SnapshotOK(req'[s], msgs', conv')
  <2>1. CASE s = r
    BY <2>1 DEF Inv, TypeOK
  <2>2. CASE s # r /\ req[s] = Idle
    BY <2>2 DEF Inv, TypeOK, SnapshotOK
  <2>3. CASE s # r /\ req[s] # Idle
    <3>1. req'[s] = req[s]
      BY <2>3 DEF Inv, TypeOK
    <3>2. req[s].n <= Len(msgs')
      BY <2>3, Shape, TableShape DEF Grows
    <3> QED
      BY <2>3, <3>1, <3>2, Shape DEF SnapshotOK, Grows
  <2> QED
    BY <2>1, <2>2, <2>3
<1> QED
  BY <1>1, <1>2 DEF SnapshotsOK

\* An idle slot has read nothing.
LEMMA IdleOK == Idle \in Request \cup {Idle} /\ \A ms, c : SnapshotOK(Idle, ms, c)
  BY DEF SnapshotOK

\* The commit of the conversation, column by column.
LEMMA CommitIs ==
  ASSUME Inv, NEW got \in Conv, NEW new \in Conv, Commit(got, new)
  PROVE  /\ conv' \in Conv
         /\ conv'.unreadA = Flush(conv.unreadA, got.unreadA, new.unreadA)
         /\ conv'.unreadC = Flush(conv.unreadC, got.unreadC, new.unreadC)
         /\ conv'.handed = Flush(conv.handed, got.handed, new.handed)
         /\ conv'.isAI = Flush(conv.isAI, got.isAI, new.isAI)
<1>1. conv \in Conv
  BY TableShape
<1>2. DOMAIN conv = {"unreadA", "unreadC", "handed", "isAI"}
  BY <1>1 DEF Conv
<1>3. conv' = [unreadA |-> Flush(conv.unreadA, got.unreadA, new.unreadA),
               unreadC |-> Flush(conv.unreadC, got.unreadC, new.unreadC),
               handed |-> Flush(conv.handed, got.handed, new.handed),
               isAI |-> Flush(conv.isAI, got.isAI, new.isAI)]
  BY <1>2 DEF Commit
<1> QED
  BY <1>1, <1>3 DEF Conv, Flush

-----------------------------------------------------------------------------
\* A step that leaves messages and conversation alone.
LEMMA QuietStep ==
  ASSUME Inv, NEW r \in Requests, NEW q \in Request \cup {Idle},
         req' = [req EXCEPT ![r] = q], SnapshotOK(q, msgs, conv),
         UNCHANGED <<conv, msgs, seenA, seenC, overlap>>
  PROVE  Inv'
<1>1. Grows
  BY TableShape DEF Grows
<1>2. req' \in [Requests -> Request \cup {Idle}] /\ SnapshotsOK'
  BY <1>1, RequestsStay
<1>3. TypeOK'
  BY <1>2 DEF Inv, TypeOK
<1>4. ReadWasShown' /\ EscalationAnnounced'
  BY DEF Inv, ReadWasShown, EscalationAnnounced, From
<1> QED
  BY <1>2, <1>3, <1>4 DEF Inv

\* A snapshot taken now is sound.
LEMMA LoadStep ==
  ASSUME Inv, NEW r \in Requests, Load(r)
  PROVE  Inv'
<1>1. PICK op \in {"send", "openA", "openC", "takeover"}, k \in BOOLEAN,
           t \in Scripts \cup {<< >>} :
        /\ (op = "send") = (t # << >>)
        /\ req' = [req EXCEPT ![r] = [pc |-> "loaded", op |-> op, todo |-> t, got |-> conv,
                                      n |-> Len(msgs), keeps |-> k]]
  BY DEF Load
<1> DEFINE q == [pc |-> "loaded", op |-> op, todo |-> t, got |-> conv,
                 n |-> Len(msgs), keeps |-> k]
<1>2. t \in Seq(Senders)
  <2>1. /\ "user" \in Senders /\ "admin" \in Senders /\ "ai" \in Senders
        /\ "system" \in Senders
    BY DEF Senders
  <2>2. t \in {<<"user">>, <<"admin">>, <<"user", "ai">>, <<"user", "ai", "system">>, << >>}
    BY DEF Scripts
  <2>3. /\ <<"user">> \in Seq(Senders) /\ <<"admin">> \in Seq(Senders)
        /\ << >> \in Seq(Senders)
    BY <2>1
  <2>4. <<"user", "ai">> \in Seq(Senders)
    BY <2>1
  <2>5. <<"user", "ai", "system">> \in Seq(Senders)
    BY <2>1
  <2> QED
    BY <2>2, <2>3, <2>4, <2>5
<1>3. Len(msgs) \in 0 .. MaxMessages
  BY TableShape, BoundsAssumption
<1>4. q \in Request
  BY <1>2, <1>3, TableShape DEF Request
<1>5. SnapshotOK(q, msgs, conv)
  BY <1>1, TableShape DEF SnapshotOK
<1>6. /\ req' = [req EXCEPT ![r] = q]
      /\ UNCHANGED <<conv, msgs, seenA, seenC, overlap>>
  BY <1>1 DEF Load
<1> HIDE DEF q
<1> QED
  BY <1>4, <1>5, <1>6, QuietStep

\* A request that waited for the assistant reads again, unless it keeps its objects.
LEMMA ReloadStep ==
  ASSUME Inv, NEW r \in Requests, Reload(r)
  PROVE  Inv'
<1> DEFINE g == IF req[r].keeps THEN req[r].got ELSE conv
           q == [req[r] EXCEPT !.pc = "loaded", !.got = g]
<1>1. req[r] # Idle
  BY DEF Reload, Idle
<1>2. req[r] \in Request /\ g \in Conv /\ (g.handed => conv.handed)
  BY <1>1, Shape, TableShape
<1>3. /\ req' = [req EXCEPT ![r] = q]
      /\ UNCHANGED <<conv, msgs, seenA, seenC, overlap>>
  BY DEF Reload, Inv, TypeOK
<1> HIDE DEF g
<1>4. /\ q \in Request /\ q.n = req[r].n /\ q.got = g /\ q.op = req[r].op
      /\ q.todo = req[r].todo
  BY <1>2 DEF Request
<1> HIDE DEF q
<1>5. SnapshotOK(q, msgs, conv)
  BY <1>1, <1>2, <1>4, Shape DEF SnapshotOK
<1> QED
  BY <1>3, <1>4, <1>5, QuietStep

\* A request ends, or its process dies.
LEMMA ReturnStep ==
  ASSUME Inv, NEW r \in Requests, Return(r)
  PROVE  Inv'
<1>1. /\ req' = [req EXCEPT ![r] = Idle]
      /\ UNCHANGED <<conv, msgs, seenA, seenC, overlap>>
  BY DEF Return
<1> QED
  BY <1>1, IdleOK, QuietStep

\* The conversation a message leaves behind: it is handed over by an admin's
\* answer or by the call for a human, and that call is itself a message.
LEMMA SentIs ==
  ASSUME Inv, NEW r \in Requests, req[r].pc = "loaded", req[r].op = "send"
  PROVE  /\ Head(req[r].todo) \in Senders /\ Tail(req[r].todo) \in Seq(Senders)
         /\ Sent(req[r]) \in Conv
         /\ Sent(req[r]).handed <=> \/ req[r].got.handed
                                   \/ Head(req[r].todo) \in {"admin", "system"}
         /\ Sent(req[r]).isAI <=> req[r].got.isAI /\ Head(req[r].todo) # "system"
         /\ Sent(req[r]).unreadA = IF Head(req[r].todo) = "user" THEN req[r].got.unreadA + 1
                                  ELSE req[r].got.unreadA
         /\ Sent(req[r]).unreadC = IF Head(req[r].todo) \in Staff THEN req[r].got.unreadC + 1
                                  ELSE req[r].got.unreadC
<1>1. req[r] # Idle
  BY DEF Idle
<1>2. req[r].todo \in Seq(Senders) /\ req[r].todo # << >> /\ req[r].got \in Conv
  BY <1>1, Shape
<1>3. Head(req[r].todo) \in Senders /\ Tail(req[r].todo) \in Seq(Senders)
  BY <1>2, HeadTailProperties
<1> DEFINE h == Head(req[r].todo)
           c == Counted(req[r])
<1> HIDE DEF h
<1> DEFINE g == req[r].got
           a == IF h = "user" THEN g.unreadA + 1 ELSE g.unreadA
           b == IF h \in Staff THEN g.unreadC + 1 ELSE g.unreadC
<1>4. c = [g EXCEPT !.unreadA = a, !.unreadC = b]
  BY DEF Counted, h
<1>5. g \in Conv /\ a \in Nat /\ b \in Nat
  BY <1>2 DEF Conv
<1> HIDE DEF g, a, b, c
<1>6. /\ c \in Conv /\ c.handed = g.handed /\ c.isAI = g.isAI
      /\ c.unreadA = a /\ c.unreadC = b
  BY <1>4, <1>5 DEF Conv
<1> DEFINE x == c.handed \/ h = "admin" \/ h = "system"
           y == c.isAI /\ ~ (h = "system")
<1>7. Sent(req[r]) = [c EXCEPT !.handed = x, !.isAI = y]
  BY DEF Sent, Escalates, h, c
<1>8. x \in BOOLEAN /\ y \in BOOLEAN
  OBVIOUS
<1> HIDE DEF x, y
<1>9. /\ Sent(req[r]) \in Conv
      /\ Sent(req[r]).handed = x /\ Sent(req[r]).isAI = y
      /\ Sent(req[r]).unreadA = a /\ Sent(req[r]).unreadC = b
  BY <1>6, <1>7, <1>8 DEF Conv
<1>10. x <=> g.handed \/ h \in {"admin", "system"}
  BY <1>6 DEF x
<1>11. y <=> g.isAI /\ h # "system"
  BY <1>6 DEF y
<1> QED
  BY <1>3, <1>9, <1>10, <1>11 DEF h, g, a, b

\* A message sent: the counters are not part of Inv, the hand-over is.
LEMMA SendStep ==
  ASSUME Inv, NEW r \in Requests, Send(r)
  PROVE  Inv'
<1> DEFINE h == Head(req[r].todo)
           m == [from |-> h, read |-> FALSE]
           x == Sent(req[r])
           q == IF Tail(req[r].todo) = << >> THEN Idle
                ELSE [req[r] EXCEPT !.pc = "reload", !.todo = Tail(@), !.got = x]
<1>1. req[r] # Idle /\ req[r].pc = "loaded" /\ req[r].op = "send"
  BY DEF Send, Idle
<1>2. /\ Len(msgs) < MaxMessages /\ Commit(req[r].got, x)
      /\ msgs' = Append(msgs, m) /\ req' = [req EXCEPT ![r] = q]
      /\ seenA' = seenA /\ seenC' = seenC /\ overlap' = overlap
  BY DEF Send
<1>3. /\ h \in Senders /\ Tail(req[r].todo) \in Seq(Senders) /\ x \in Conv
      /\ x.handed <=> req[r].got.handed \/ h \in {"admin", "system"}
      /\ x.isAI <=> req[r].got.isAI /\ h # "system"
  BY <1>1, SentIs
<1>4. /\ req[r] \in Request /\ req[r].got \in Conv /\ req[r].n <= Len(msgs)
      /\ req[r].got.handed => conv.handed
  BY <1>1, Shape
<1> HIDE DEF x, h
<1>5. /\ conv' \in Conv
      /\ conv'.handed = Flush(conv.handed, req[r].got.handed, x.handed)
      /\ conv'.isAI = Flush(conv.isAI, req[r].got.isAI, x.isAI)
  BY <1>2, <1>3, <1>4, CommitIs
<1>6. m \in Messages
  BY <1>3 DEF Messages
<1>7. /\ msgs' \in Seq(Messages) /\ Len(msgs') = Len(msgs) + 1
      /\ \A i \in 1 .. Len(msgs) : msgs'[i] = msgs[i]
      /\ msgs'[Len(msgs) + 1].from = h /\ ~ msgs'[Len(msgs) + 1].read
  <2>1. m.from = h /\ ~ m.read
    OBVIOUS
  <2> HIDE DEF m
  <2> QED
    BY <1>2, <1>6, <2>1, TableShape, AppendProperties
<1>8. /\ Len(msgs) \in Nat /\ DOMAIN msgs = 1 .. Len(msgs)
      /\ DOMAIN msgs' = 1 .. Len(msgs) + 1
  BY <1>7, TableShape, LenProperties
<1>9. (conv.handed => conv'.handed) /\ (x.handed => conv'.handed)
  BY <1>3, <1>4, <1>5, TableShape DEF Flush, Conv
<1>10. Grows
  BY <1>7, <1>8, <1>9 DEF Grows
<1>11. q \in Request \cup {Idle} /\ SnapshotOK(q, msgs', conv')
  <2>1. CASE Tail(req[r].todo) = << >>
    BY <2>1, IdleOK
  <2>2. CASE Tail(req[r].todo) # << >>
    <3>1. q = [req[r] EXCEPT !.pc = "reload", !.todo = Tail(@), !.got = x]
      BY <2>2
    <3> HIDE DEF q
    <3>2. /\ q \in Request /\ q.n = req[r].n /\ q.got = x
          /\ q.todo = Tail(req[r].todo)
      BY <1>3, <1>4, <3>1 DEF Request
    <3>3. q.n <= Len(msgs')
      BY <1>1, <1>7, <1>8, <3>2, Shape
    <3> QED
      BY <1>9, <2>2, <3>2, <3>3 DEF SnapshotOK
  <2> QED
    BY <2>1, <2>2
<1> HIDE DEF q, m
<1>12. req' \in [Requests -> Request \cup {Idle}] /\ SnapshotsOK'
  BY <1>2, <1>10, <1>11, RequestsStay
<1>13. ReadWasShown'
  <2>1. ASSUME NEW i \in DOMAIN msgs', msgs'[i].read
        PROVE  i \in DOMAIN msgs /\ msgs'[i] = msgs[i]
    BY <1>7, <1>8, <2>1
  <2> QED
    BY <1>2, <2>1 DEF Inv, ReadWasShown
<1>14. EscalationAnnounced'
  <2>1. From({"system"}) \subseteq From({"system"})'
    BY <1>7, <1>8 DEF From
  <2>2. h = "system" => From({"system"})' # {}
    BY <1>7, <1>8 DEF From
  <2>3. CASE conv'.isAI = conv.isAI
    BY <1>9, <2>1, <2>3 DEF Inv, EscalationAnnounced
  <2>4. CASE conv'.isAI # conv.isAI /\ ~ conv'.isAI
    <3>1. req[r].got.isAI /\ ~ x.isAI
      BY <1>3, <1>4, <1>5, <2>4, TableShape DEF Flush, Conv
    <3>2. h = "system"
      BY <1>3, <3>1
    <3> QED
      BY <1>3, <1>9, <2>2, <3>2 DEF EscalationAnnounced
  <2> QED
    BY <1>5, <2>3, <2>4, TableShape DEF EscalationAnnounced, Conv
<1>15. Len(msgs') <= MaxMessages /\ seenA' \subseteq DOMAIN msgs' /\ seenC' \subseteq DOMAIN msgs'
  BY <1>2, <1>7, <1>8, BoundsAssumption DEF Inv
<1>16. TypeOK'
  BY <1>2, <1>5, <1>7, <1>12 DEF Inv, TypeOK, Messages
<1> QED
  BY <1>12, <1>13, <1>14, <1>15, <1>16 DEF Inv

\* The messages after some of them were marked as read.
Marked(I) ==
  /\ msgs' \in Seq(Messages) /\ Len(msgs') = Len(msgs) /\ DOMAIN msgs' = DOMAIN msgs
  /\ \A i \in DOMAIN msgs : /\ msgs'[i].from = msgs[i].from
                            /\ msgs'[i].read => msgs[i].read \/ i \in I

\* A set of messages is marked read.
LEMMA MarkIs ==
  ASSUME Inv, NEW I, Mark(I)
  PROVE  Marked(I)
<1>1. msgs' = [i \in 1 .. Len(msgs) |-> [msgs[i] EXCEPT !.read = @ \/ i \in I]]
  BY TableShape DEF Mark
<1>2. ASSUME NEW i \in 1 .. Len(msgs)
      PROVE  /\ msgs'[i] \in Messages /\ msgs'[i].from = msgs[i].from
             /\ msgs'[i].read => msgs[i].read \/ i \in I
  <2> DEFINE b == msgs[i].read \/ i \in I
  <2>1. msgs'[i] = [msgs[i] EXCEPT !.read = b]
    BY <1>1
  <2>2. b \in BOOLEAN /\ (b => msgs[i].read \/ i \in I)
    OBVIOUS
  <2> HIDE DEF b
  <2>3. msgs'[i] \in Messages /\ msgs'[i].from = msgs[i].from /\ msgs'[i].read = b
    BY <2>1, <2>2, TableShape DEF Messages
  <2> QED
    BY <2>2, <2>3
<1>3. msgs' = [i \in 1 .. Len(msgs) |-> msgs'[i]] /\ DOMAIN msgs' = 1 .. Len(msgs)
  BY <1>1
<1>4. msgs' \in Seq(Messages)
  BY <1>2, <1>3, IsASeq, TableShape
<1>5. Len(msgs') = Len(msgs)
  BY <1>3, <1>4, LenProperties, TableShape
<1> QED
  BY <1>2, <1>3, <1>4, <1>5, TableShape DEF Marked

\* No message is touched.
LEMMA KeptIs ==
  ASSUME Inv, msgs' = msgs
  PROVE  Marked({})
  BY TableShape DEF Marked

\* A viewer's commit: it marks only what it has shown.
LEMMA ViewStep ==
  ASSUME Inv, NEW r \in Requests, req[r] # Idle,
         NEW new \in Conv, Commit(req[r].got, new), new.isAI = req[r].got.isAI,
         req[r].got.handed => new.handed,
         NEW I, Marked(I),
         seenA \subseteq seenA', seenC \subseteq seenC',
         seenA' \subseteq DOMAIN msgs, seenC' \subseteq DOMAIN msgs,
         \A i \in I \cap DOMAIN msgs :
           \/ i \in seenA' /\ msgs[i].from # "admin"
           \/ i \in seenC' /\ msgs[i].from # "user",
         req' = [req EXCEPT ![r] = Idle], overlap' = overlap
  PROVE  Inv'
<1>1. /\ req[r].got \in Conv /\ (req[r].got.handed => conv.handed)
  BY Shape
<1>2. /\ conv' \in Conv
      /\ conv'.handed = Flush(conv.handed, req[r].got.handed, new.handed)
      /\ conv'.isAI = conv.isAI
  BY <1>1, CommitIs DEF Flush
<1>3. conv.handed => conv'.handed
  BY <1>1, <1>2 DEF Flush, Conv
<1>4. Grows
  BY <1>3, TableShape DEF Grows, Marked
<1>5. req' \in [Requests -> Request \cup {Idle}] /\ SnapshotsOK'
  BY <1>4, IdleOK, RequestsStay
<1>6. TypeOK'
  BY <1>2, <1>5, TableShape DEF Inv, TypeOK, Marked, Messages
<1>7. ReadWasShown'
  <2>1. ASSUME NEW i \in DOMAIN msgs, msgs'[i].read
        PROVE  CASE msgs[i].from = "user" -> i \in seenA'
                 [] msgs[i].from = "admin" -> i \in seenC'
                 [] OTHER -> i \in seenA' \cup seenC'
    <3>1. CASE msgs[i].read
      BY <3>1 DEF Inv, ReadWasShown
    <3>2. CASE ~ msgs[i].read
      BY <2>1, <3>2 DEF Marked
    <3> QED
      BY <3>1, <3>2
  <2> QED
    BY <2>1 DEF ReadWasShown, Marked
<1>8. EscalationAnnounced'
  <2>1. From({"system"})' = From({"system"})
    BY DEF From, Marked
  <2> QED
    BY <1>2, <1>3, <2>1 DEF Inv, EscalationAnnounced
<1> QED
  BY <1>5, <1>6, <1>7, <1>8, TableShape DEF Inv, Marked

\* The admin opens the thread.
LEMMA OpenAdminStep ==
  ASSUME Inv, NEW r \in Requests, OpenAdmin(r)
  PROVE  Inv'
<1> DEFINE I == MarkRead(req[r], Senders \ {"admin"})
           new == [req[r].got EXCEPT !.unreadA = 0]
<1>1. req[r] # Idle
  BY DEF OpenAdmin, Idle
<1>2. /\ Commit(req[r].got, new) /\ Mark(I) /\ req' = [req EXCEPT ![r] = Idle]
      /\ seenA' \in {seenA \cup DOMAIN msgs, seenA \cup 1 .. req[r].n}
      /\ seenC' = seenC /\ overlap' = overlap
  BY DEF OpenAdmin
<1>3. Marked(I)
  BY <1>2, MarkIs
<1>4. 1 .. req[r].n \subseteq DOMAIN msgs
  BY <1>1, Shape, TableShape
<1>5. \A i \in I : i \in seenA' /\ msgs[i].from # "admin"
  BY <1>2, <1>4 DEF MarkRead
<1>6. /\ new \in Conv /\ new.isAI = req[r].got.isAI
      /\ new.handed = req[r].got.handed
  BY <1>1, Shape DEF Conv
<1>7. seenA' \subseteq DOMAIN msgs /\ seenA \subseteq seenA' /\ seenC' \subseteq DOMAIN msgs
  BY <1>2, <1>4 DEF Inv
<1>8. req[r].got.handed => new.handed
  BY <1>6
<1> HIDE DEF I, new
<1> QED
  BY <1>1, <1>2, <1>3, <1>5, <1>6, <1>7, <1>8, ViewStep

\* The customer opens the thread.
LEMMA OpenCustomerStep ==
  ASSUME Inv, NEW r \in Requests, OpenCustomer(r)
  PROVE  Inv'
<1> DEFINE I == MarkRead(req[r], Staff)
           new == [req[r].got EXCEPT !.unreadC = 0]
<1>1. req[r] # Idle
  BY DEF OpenCustomer, Idle
<1>2. /\ Commit(req[r].got, new) /\ Mark(I) /\ req' = [req EXCEPT ![r] = Idle]
      /\ seenC' = seenC \cup 1 .. req[r].n
      /\ seenA' = seenA /\ overlap' = overlap
  BY DEF OpenCustomer
<1>3. Marked(I)
  BY <1>2, MarkIs
<1>4. 1 .. req[r].n \subseteq DOMAIN msgs
  BY <1>1, Shape, TableShape
<1>5. \A i \in I : i \in seenC' /\ msgs[i].from # "user"
  BY <1>2, <1>4 DEF MarkRead, Staff
<1>6. /\ new \in Conv /\ new.isAI = req[r].got.isAI
      /\ new.handed = req[r].got.handed
  BY <1>1, Shape DEF Conv
<1>7. seenC' \subseteq DOMAIN msgs /\ seenC \subseteq seenC' /\ seenA' \subseteq DOMAIN msgs
  BY <1>2, <1>4 DEF Inv
<1>8. req[r].got.handed => new.handed
  BY <1>6
<1> HIDE DEF I, new
<1> QED
  BY <1>1, <1>2, <1>3, <1>5, <1>6, <1>7, <1>8, ViewStep

\* The admin takes the conversation over.
LEMMA TakeoverStep ==
  ASSUME Inv, NEW r \in Requests, Takeover(r)
  PROVE  Inv'
<1> DEFINE new == [req[r].got EXCEPT !.handed = TRUE]
<1>1. req[r] # Idle
  BY DEF Takeover, Idle
<1>2. /\ Commit(req[r].got, new) /\ msgs' = msgs /\ req' = [req EXCEPT ![r] = Idle]
      /\ seenC' = seenC /\ seenA' = seenA /\ overlap' = overlap
  BY DEF Takeover
<1>3. Marked({})
  BY <1>2, KeptIs
<1>4. /\ new \in Conv /\ new.isAI = req[r].got.isAI /\ new.handed = TRUE
  BY <1>1, Shape DEF Conv
<1>5. req[r].got.handed => new.handed
  BY <1>4
<1>6. seenC \subseteq DOMAIN msgs /\ seenA \subseteq DOMAIN msgs
  BY DEF Inv
<1> HIDE DEF new
<1> QED
  BY <1>1, <1>2, <1>3, <1>4, <1>5, <1>6, ViewStep

\* An empty conversation satisfies the invariant.
LEMMA InitInv == Init => Inv
<1> SUFFICES ASSUME Init PROVE Inv
  OBVIOUS
<1>1. conv \in Conv /\ conv.isAI
  BY DEF Init, Conv
<1>2. msgs = << >> /\ msgs \in Seq(Messages) /\ Len(msgs) = 0 /\ DOMAIN msgs = {}
  BY EmptySeq DEF Init
<1> QED
  BY <1>1, <1>2, BoundsAssumption
     DEF Init, Inv, TypeOK, Messages, ReadWasShown, EscalationAnnounced, SnapshotsOK, SnapshotOK

\* Every step keeps the invariant.
LEMMA NextInv == Inv /\ [Next]_vars => Inv'
<1> SUFFICES ASSUME Inv, [Next]_vars PROVE Inv'
  OBVIOUS
<1>1. CASE UNCHANGED vars
  BY <1>1 DEF vars, Inv, TypeOK, ReadWasShown, EscalationAnnounced, From, SnapshotsOK
<1>2. ASSUME NEW r \in Requests, Load(r) PROVE Inv'
  BY <1>2, LoadStep
<1>3. ASSUME NEW r \in Requests, Reload(r) PROVE Inv'
  BY <1>3, ReloadStep
<1>4. ASSUME NEW r \in Requests, Send(r) PROVE Inv'
  BY <1>4, SendStep
<1>5. ASSUME NEW r \in Requests, OpenAdmin(r) PROVE Inv'
  BY <1>5, OpenAdminStep
<1>6. ASSUME NEW r \in Requests, OpenCustomer(r) PROVE Inv'
  BY <1>6, OpenCustomerStep
<1>7. ASSUME NEW r \in Requests, Takeover(r) PROVE Inv'
  BY <1>7, TakeoverStep
<1>8. ASSUME NEW r \in Requests, Return(r) PROVE Inv'
  BY <1>8, ReturnStep
<1> QED
  BY <1>1, <1>2, <1>3, <1>4, <1>5, <1>6, <1>7, <1>8 DEF Next

\* Inv holds in every reachable state.
THEOREM InvHolds == Spec => []Inv
<1> QED
  BY InitInv, NextInv, PTL DEF Spec

\* The rows and what the requests hold keep their types.
THEOREM TypeCorrect == Spec => []TypeOK
<1>1. Inv => TypeOK
  BY DEF Inv
<1> QED
  BY <1>1, InvHolds, PTL

\* However requests overlap, chat_messages and list_messages mark as read only
\* what they have shown.
THEOREM MarkedWasShown == Spec => []ReadWasShown
<1>1. Inv => ReadWasShown
  BY DEF Inv
<1> QED
  BY <1>1, InvHolds, PTL

\* However requests overlap and die, handover_to_admin leaves no conversation
\* without assistant and without the message that says so.
THEOREM HandoverAnnounced == Spec => []EscalationAnnounced
<1>1. Inv => EscalationAnnounced
  BY DEF Inv
<1> QED
  BY <1>1, InvHolds, PTL

-----------------------------------------------------------------------------
(***************************************************************************)
(* Requests that do not overlap.                                            *)
(***************************************************************************)
OnlyOne(r) == \A s \in Requests : s # r => req[s] = Idle

\* Without overlap, a request under way is the only one.
LEMMA ItIsOnlyOne ==
  ASSUME SerialInv, ~ overlap, NEW r \in Requests, req[r] # Idle \/ Quiet
  PROVE  OnlyOne(r)
  BY DEF SerialInv, OneRequest, Quiet, OnlyOne

\* The only request moves on and is up to date.
LEMMA SerialRest ==
  ASSUME Inv, NEW r \in Requests, OnlyOne(r), NEW q, req' = [req EXCEPT ![r] = q],
         Current(q, msgs', conv')
  PROVE  OneRequest' /\ AllCurrent'
<1>1. req'[r] = q /\ \A s \in Requests : s # r => req'[s] = Idle
  BY DEF Inv, TypeOK, OnlyOne
<1>2. \A s \in Requests : Current(req'[s], msgs', conv')
  BY <1>1 DEF Current
<1>3. AllCurrent'
  BY <1>2 DEF AllCurrent
<1>4. OneRequest'
  BY <1>1 DEF OneRequest
<1> QED
  BY <1>3, <1>4

\* The only request moves on and writes nothing.
LEMMA SerialQuiet ==
  ASSUME Inv, SerialInv, ~ overlap, NEW r \in Requests, OnlyOne(r), NEW q,
         req' = [req EXCEPT ![r] = q], Current(q, msgs, conv),
         UNCHANGED <<conv, msgs, seenA, seenC, overlap>>
  PROVE  SerialInv'
<1>1. OneRequest' /\ AllCurrent'
  BY SerialRest
<1>2. BadgesExact'
  BY DEF SerialInv, BadgesExact, From
<1> QED
  BY <1>1, <1>2 DEF SerialInv

\* A request that reads or ends writes nothing.
LEMMA SerialMove ==
  ASSUME Inv, SerialInv, ~ overlap, NEW r \in Requests, Load(r) \/ Reload(r) \/ Return(r)
  PROVE  SerialInv'
<1>1. OnlyOne(r)
  BY ItIsOnlyOne DEF Load, Reload, Return, Idle
<1>2. UNCHANGED <<conv, msgs, seenA, seenC, overlap>>
  BY DEF Load, Reload, Return
<1>3. CASE Load(r)
  <2>1. PICK op \in {"send", "openA", "openC", "takeover"}, k \in BOOLEAN,
             t \in Scripts \cup {<< >>} :
          req' = [req EXCEPT ![r] = [pc |-> "loaded", op |-> op, todo |-> t, got |-> conv,
                                     n |-> Len(msgs), keeps |-> k]]
    BY <1>3 DEF Load
  <2> DEFINE q == [pc |-> "loaded", op |-> op, todo |-> t, got |-> conv,
                   n |-> Len(msgs), keeps |-> k]
  <2>2. Current(q, msgs, conv)
    BY DEF Current
  <2>3. req' = [req EXCEPT ![r] = q]
    BY <2>1
  <2> HIDE DEF q
  <2> QED
    BY <1>1, <1>2, <2>2, <2>3, SerialQuiet
<1>4. CASE Reload(r)
  <2> DEFINE g == IF req[r].keeps THEN req[r].got ELSE conv
             q == [req[r] EXCEPT !.pc = "loaded", !.got = g]
  <2>1. req[r] # Idle /\ req[r].pc = "reload"
    BY <1>4 DEF Reload, Idle
  <2>2. Current(req[r], msgs, conv)
    BY DEF SerialInv, AllCurrent
  <2>3. req' = [req EXCEPT ![r] = q]
    BY <1>4 DEF Reload, Inv, TypeOK
  <2>4. g.unreadA = conv.unreadA /\ g.unreadC = conv.unreadC /\ req[r].op = "send"
    BY <2>1, <2>2 DEF Current
  <2> HIDE DEF g
  <2>5. q.got = g /\ q.op = req[r].op
    BY <2>1, Shape DEF Request
  <2> HIDE DEF q
  <2>6. Current(q, msgs, conv)
    BY <2>4, <2>5 DEF Current
  <2> QED
    BY <1>1, <1>2, <2>3, <2>6, SerialQuiet
<1>5. CASE Return(r)
  <2>1. req' = [req EXCEPT ![r] = Idle] /\ Current(Idle, msgs, conv)
    BY <1>5 DEF Return, Current
  <2> QED
    BY <1>1, <1>2, <2>1, SerialQuiet
<1> QED
  BY <1>3, <1>4, <1>5

\* The unseen messages of some senders.
Unseen(ms, S, seen) == {i \in DOMAIN ms : ms[i].from \in S} \ seen

\* The counters, said with the sets of unseen messages.
LEMMA BadgesAre ==
  BadgesExact <=> (~ overlap => /\ conv.unreadA = Cardinality(Unseen(msgs, {"user"}, seenA))
                                /\ conv.unreadC = Cardinality(Unseen(msgs, Staff, seenC)))
  BY DEF BadgesExact, Unseen, From

\* The unseen messages can be counted.
LEMMA UnseenFinite ==
  ASSUME Inv, NEW S, NEW seen
  PROVE  IsFiniteSet(Unseen(msgs, S, seen)) /\ Cardinality(Unseen(msgs, S, seen)) \in Nat
<1>1. IsFiniteSet(1 .. Len(msgs))
  BY TableShape, FS_Interval
<1>2. Unseen(msgs, S, seen) \subseteq 1 .. Len(msgs)
  BY TableShape DEF Unseen
<1> QED
  BY <1>1, <1>2, FS_Subset, FS_CardinalityType

\* A new message is unseen.
LEMMA UnseenAdded ==
  ASSUME Inv, NEW ms, DOMAIN ms = 1 .. Len(msgs) + 1,
         \A i \in 1 .. Len(msgs) : ms[i] = msgs[i],
         NEW S, NEW seen, seen \subseteq DOMAIN msgs
  PROVE  Cardinality(Unseen(ms, S, seen))
           = Cardinality(Unseen(msgs, S, seen))
             + IF ms[Len(msgs) + 1].from \in S THEN 1 ELSE 0
<1> DEFINE k == Len(msgs) + 1
           U == Unseen(msgs, S, seen)
<1>1. IsFiniteSet(U) /\ Cardinality(U) \in Nat
  BY UnseenFinite
<1>2. k \notin U /\ k \notin seen
  BY TableShape DEF Unseen
<1>3. CASE ms[k].from \in S
  <2>1. Unseen(ms, S, seen) = U \cup {k}
    BY <1>2, <1>3, TableShape DEF Unseen
  <2> HIDE DEF U
  <2>2. Cardinality(U \cup {k}) = Cardinality(U) + 1
    BY <1>1, <1>2, FS_AddElement
  <2> QED
    BY <1>3, <2>1, <2>2 DEF U
<1>4. CASE ms[k].from \notin S
  <2>1. Unseen(ms, S, seen) = U
    BY <1>2, <1>4, TableShape DEF Unseen
  <2> QED
    BY <1>1, <1>4, <2>1
<1> QED
  BY <1>3, <1>4

\* A message is sent: the counter of the other side grows by one.
LEMMA SerialSend ==
  ASSUME Inv, SerialInv, ~ overlap, NEW r \in Requests, Send(r)
  PROVE  SerialInv'
<1> DEFINE h == Head(req[r].todo)
           m == [from |-> h, read |-> FALSE]
           x == Sent(req[r])
           q == IF Tail(req[r].todo) = << >> THEN Idle
                ELSE [req[r] EXCEPT !.pc = "reload", !.todo = Tail(@), !.got = x]
<1>1. req[r] # Idle /\ req[r].pc = "loaded" /\ req[r].op = "send"
  BY DEF Send, Idle
<1>2. /\ Commit(req[r].got, x) /\ msgs' = Append(msgs, m) /\ req' = [req EXCEPT ![r] = q]
      /\ seenA' = seenA /\ seenC' = seenC /\ overlap' = overlap
  BY DEF Send
<1>3. /\ h \in Senders /\ x \in Conv
      /\ x.unreadA = IF h = "user" THEN req[r].got.unreadA + 1 ELSE req[r].got.unreadA
      /\ x.unreadC = IF h \in Staff THEN req[r].got.unreadC + 1 ELSE req[r].got.unreadC
  BY <1>1, SentIs
<1>4. req[r] \in Request /\ req[r].got \in Conv
  BY <1>1, Shape
<1>5. req[r].got.unreadA = conv.unreadA /\ req[r].got.unreadC = conv.unreadC
  BY <1>1 DEF SerialInv, AllCurrent, Current
<1> HIDE DEF x, h
<1>6. conv'.unreadA = x.unreadA /\ conv'.unreadC = x.unreadC
  BY <1>2, <1>3, <1>4, <1>5, CommitIs DEF Flush
<1>7. m \in Messages /\ m.from = h
  BY <1>3 DEF Messages
<1> HIDE DEF m
<1>8. /\ Len(msgs') = Len(msgs) + 1 /\ DOMAIN msgs' = 1 .. Len(msgs) + 1
      /\ \A i \in 1 .. Len(msgs) : msgs'[i] = msgs[i]
      /\ msgs'[Len(msgs) + 1].from = h
  BY <1>2, <1>7, TableShape, AppendProperties, LenProperties
<1>9. Current(q, msgs', conv')
  <2>1. CASE q = Idle
    BY <2>1 DEF Current
  <2>2. CASE q = [req[r] EXCEPT !.pc = "reload", !.todo = Tail(@), !.got = x]
    <3> HIDE DEF q
    <3>1. q.got = x /\ q.op = "send"
      BY <1>1, <1>4, <2>2 DEF Request
    <3> QED
      BY <1>6, <3>1 DEF Current
  <2> QED
    BY <2>1, <2>2
<1> HIDE DEF q
<1>10. OneRequest' /\ AllCurrent'
  BY <1>1, <1>2, <1>9, ItIsOnlyOne, SerialRest
<1>11. seenA \subseteq DOMAIN msgs /\ seenC \subseteq DOMAIN msgs
  BY DEF Inv
<1>12. /\ Cardinality(Unseen(msgs', {"user"}, seenA))
            = Cardinality(Unseen(msgs, {"user"}, seenA)) + IF h \in {"user"} THEN 1 ELSE 0
       /\ Cardinality(Unseen(msgs', Staff, seenC))
            = Cardinality(Unseen(msgs, Staff, seenC)) + IF h \in Staff THEN 1 ELSE 0
  BY <1>8, <1>11, UnseenAdded
<1>13. /\ conv.unreadA = Cardinality(Unseen(msgs, {"user"}, seenA))
       /\ conv.unreadC = Cardinality(Unseen(msgs, Staff, seenC))
  BY BadgesAre DEF SerialInv
<1>14. conv.unreadA \in Nat /\ conv.unreadC \in Nat
  BY TableShape DEF Conv
<1>15. /\ conv'.unreadA = Cardinality(Unseen(msgs', {"user"}, seenA))
       /\ conv'.unreadC = Cardinality(Unseen(msgs', Staff, seenC))
  BY <1>3, <1>5, <1>6, <1>12, <1>13, <1>14
<1>16. BadgesExact'
  BY <1>2, <1>15 DEF BadgesExact, Unseen, From
<1> QED
  BY <1>10, <1>16 DEF SerialInv

\* A viewer has listed every message, and clears the counter of his side.
LEMMA SerialView ==
  ASSUME Inv, SerialInv, ~ overlap, overlap' = overlap, NEW r \in Requests, req[r] # Idle,
         req' = [req EXCEPT ![r] = Idle], NEW I, Marked(I),
         NEW new \in Conv, Commit(req[r].got, new),
         \/ new.unreadA = req[r].got.unreadA /\ seenA' = seenA
         \/ new.unreadA = 0 /\ seenA' = DOMAIN msgs,
         \/ new.unreadC = req[r].got.unreadC /\ seenC' = seenC
         \/ new.unreadC = 0 /\ seenC' = DOMAIN msgs
  PROVE  SerialInv'
<1>1. req[r].got.unreadA = conv.unreadA /\ req[r].got.unreadC = conv.unreadC
  BY DEF SerialInv, AllCurrent, Current
<1>2. conv'.unreadA = new.unreadA /\ conv'.unreadC = new.unreadC
  BY <1>1, Shape, CommitIs DEF Flush
<1>3. OneRequest' /\ AllCurrent'
  BY ItIsOnlyOne, SerialRest DEF Current
<1>4. \A S, seen : Unseen(msgs', S, seen) = Unseen(msgs, S, seen)
  BY DEF Unseen, Marked
<1>5. \A S : Cardinality(Unseen(msgs, S, DOMAIN msgs)) = 0
  <2>1. \A S : Unseen(msgs, S, DOMAIN msgs) = {}
    BY DEF Unseen
  <2> QED
    BY <2>1, FS_EmptySet
<1>6. /\ conv.unreadA = Cardinality(Unseen(msgs, {"user"}, seenA))
      /\ conv.unreadC = Cardinality(Unseen(msgs, Staff, seenC))
  BY BadgesAre DEF SerialInv
<1>7. /\ conv'.unreadA = Cardinality(Unseen(msgs', {"user"}, seenA'))
      /\ conv'.unreadC = Cardinality(Unseen(msgs', Staff, seenC'))
  BY <1>1, <1>2, <1>4, <1>5, <1>6
<1>8. BadgesExact'
  BY <1>7 DEF BadgesExact, Unseen, From
<1> QED
  BY <1>3, <1>8 DEF SerialInv

\* A thread that is opened has no unseen message left on that side.
LEMMA SerialViews ==
  ASSUME Inv, SerialInv, ~ overlap, NEW r \in Requests,
         OpenAdmin(r) \/ OpenCustomer(r) \/ Takeover(r)
  PROVE  SerialInv'
<1>1. req[r] # Idle /\ req[r].op # "send"
  BY DEF OpenAdmin, OpenCustomer, Takeover, Idle
<1>2. 1 .. req[r].n = DOMAIN msgs
  BY <1>1, TableShape DEF SerialInv, AllCurrent, Current
<1>3. req[r].got \in Conv /\ seenA \subseteq DOMAIN msgs /\ seenC \subseteq DOMAIN msgs
  BY <1>1, Shape DEF Inv
<1>4. CASE OpenAdmin(r)
  <2> DEFINE I == MarkRead(req[r], Senders \ {"admin"})
             new == [req[r].got EXCEPT !.unreadA = 0]
  <2>1. /\ Commit(req[r].got, new) /\ Mark(I) /\ req' = [req EXCEPT ![r] = Idle]
        /\ seenC' = seenC /\ overlap' = overlap
        /\ seenA' \in {seenA \cup DOMAIN msgs, seenA \cup 1 .. req[r].n}
    BY <1>4 DEF OpenAdmin
  <2>2. seenA' = DOMAIN msgs
    BY <1>2, <1>3, <2>1
  <2>3. new \in Conv /\ new.unreadA = 0 /\ new.unreadC = req[r].got.unreadC
    BY <1>3 DEF Conv
  <2>4. Marked(I)
    BY <2>1, MarkIs
  <2> HIDE DEF I, new
  <2> QED
    BY <1>1, <2>1, <2>2, <2>3, <2>4, SerialView
<1>5. CASE OpenCustomer(r)
  <2> DEFINE I == MarkRead(req[r], Staff)
             new == [req[r].got EXCEPT !.unreadC = 0]
  <2>1. /\ Commit(req[r].got, new) /\ Mark(I) /\ req' = [req EXCEPT ![r] = Idle]
        /\ seenA' = seenA /\ overlap' = overlap /\ seenC' = seenC \cup 1 .. req[r].n
    BY <1>5 DEF OpenCustomer
  <2>2. seenC' = DOMAIN msgs
    BY <1>2, <1>3, <2>1
  <2>3. new \in Conv /\ new.unreadC = 0 /\ new.unreadA = req[r].got.unreadA
    BY <1>3 DEF Conv
  <2>4. Marked(I)
    BY <2>1, MarkIs
  <2> HIDE DEF I, new
  <2> QED
    BY <1>1, <2>1, <2>2, <2>3, <2>4, SerialView
<1>6. CASE Takeover(r)
  <2> DEFINE new == [req[r].got EXCEPT !.handed = TRUE]
  <2>1. /\ Commit(req[r].got, new) /\ msgs' = msgs /\ req' = [req EXCEPT ![r] = Idle]
        /\ seenA' = seenA /\ seenC' = seenC /\ overlap' = overlap
    BY <1>6 DEF Takeover
  <2>2. /\ new \in Conv /\ new.unreadC = req[r].got.unreadC
        /\ new.unreadA = req[r].got.unreadA
    BY <1>3 DEF Conv
  <2>3. Marked({})
    BY <2>1, KeptIs
  <2> HIDE DEF new
  <2> QED
    BY <1>1, <2>1, <2>2, <2>3, SerialView
<1> QED
  BY <1>4, <1>5, <1>6

\* Both counters start at zero.
LEMMA SerialInit == Init => SerialInv
<1> SUFFICES ASSUME Init, ~ overlap PROVE OneRequest /\ AllCurrent /\ BadgesExact
  BY DEF SerialInv
<1>1. OneRequest /\ AllCurrent
  BY DEF Init, OneRequest, AllCurrent, Current
<1>2. conv.unreadA = 0 /\ conv.unreadC = 0 /\ DOMAIN msgs = {}
  BY DEF Init
<1>3. \A S, seen : Unseen(msgs, S, seen) = {}
  BY <1>2 DEF Unseen
<1>4. \A S, seen : Cardinality(Unseen(msgs, S, seen)) = 0
  BY <1>3, FS_EmptySet
<1>5. BadgesExact
  BY <1>2, <1>4, BadgesAre
<1> QED
  BY <1>1, <1>5

\* Every step keeps the counters exact.
LEMMA SerialNext == Inv /\ SerialInv /\ [Next]_vars => SerialInv'
<1> SUFFICES ASSUME Inv, SerialInv, [Next]_vars PROVE SerialInv'
  OBVIOUS
<1>1. CASE UNCHANGED vars
  BY <1>1 DEF vars, SerialInv, OneRequest, AllCurrent, BadgesExact, From
<1>2. CASE overlap /\ Next
  <2>1. overlap' = overlap
    BY <1>2 DEF Next, Load, Reload, Send, OpenAdmin, OpenCustomer, Takeover, Return
  <2> QED
    BY <1>2, <2>1 DEF SerialInv
<1>3. CASE ~ overlap /\ Next
  <2>1. PICK r \in Requests :
          \/ Load(r) \/ Reload(r) \/ Send(r) \/ OpenAdmin(r) \/ OpenCustomer(r)
          \/ Takeover(r) \/ Return(r)
    BY <1>3 DEF Next
  <2>2. CASE Load(r) \/ Reload(r) \/ Return(r)
    BY <1>3, <2>2, SerialMove
  <2>3. CASE Send(r)
    BY <1>3, <2>3, SerialSend
  <2>4. CASE OpenAdmin(r) \/ OpenCustomer(r) \/ Takeover(r)
    BY <1>3, <2>4, SerialViews
  <2> QED
    BY <2>1, <2>2, <2>3, <2>4
<1> QED
  BY <1>1, <1>2, <1>3

\* Without overlap the unread counters of the conversation are what either side
\* has not been shown, whatever commit a request died after.
THEOREM CountersExact == Spec => []BadgesExact
<1>1. SerialInv => BadgesExact
  BY DEF SerialInv, BadgesExact
<1>2. Spec => []SerialInv
  BY InitInv, NextInv, SerialInit, SerialNext, PTL DEF Spec
<1> QED
  BY <1>1, <1>2, PTL
=============================================================================
