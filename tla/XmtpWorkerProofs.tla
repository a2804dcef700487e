-------------------------- MODULE XmtpWorkerProofs --------------------------
(***************************************************************************)
(* Proofs about XmtpWorker, for any sets of identities and slots, any      *)
(* requests and any bounds.  IInv is inductive; the safety properties      *)
(* follow from it.  In the second part the handlers are shown to implement *)
(* IdentityStore.                                                          *)
(***************************************************************************)
EXTENDS XmtpWorker, SequenceTheorems, TLAPS

\* What every step does to the identities: nothing, or a change that starts a
\* new epoch.
Change ==
    /\ identities' \in Seq(Ids) /\ active' \in Nat /\ epoch' \in Nat
    /\ ActiveInRange'
    /\ epoch' > epoch \/ UNCHANGED <<identities, active, epoch>>

\* A handler that is not collecting, loading or restoring has nothing to keep.
LEMMA OtherTasksOK ==
    ASSUME NEW t \in Tasks, t.pc \notin {"load", "restore", "addresses"}
    PROVE  TaskOK(t)'
BY DEF TaskOK

\* A message that is not an identity list has nothing to keep.
LEMMA OtherMessagesOK ==
    ASSUME NEW m \in Messages, m.type # "identity_list"
    PROVE  MessageOK(m)'
BY DEF MessageOK

\* The idle handler is a handler state.
LEMMA IdleType == Idle \in Tasks /\ Idle.pc = "idle"
BY EmptySeq DEF Idle, Tasks, PCs, Kinds

\* A handler that has just started has a type and has collected nothing.
LEMMA StartedType ==
    ASSUME NEW kind \in Kinds
    PROVE  /\ Started(kind) \in Tasks
           /\ Started(kind).kind = kind /\ Started(kind).got = <<>>
           /\ Started(kind).pc = "idle"
BY EmptySeq DEF Started, Idle, Tasks, PCs, Kinds

\* Replies are messages of the type they are made with.
LEMMA ReplyType ==
    ASSUME NEW type \in MsgTypes, NEW of \in Ids \cup {NoId}
    PROVE  Reply(type, of) \in Messages /\ Reply(type, of).type = type
BY EmptySeq DEF Reply, Messages

\* So is an error.
LEMMA ErrorType == ErrorMsg \in Messages /\ ErrorMsg.type = "error"
BY ReplyType DEF ErrorMsg, MsgTypes

\* Whatever a step does to the identities, what holds of a handler in flight
\* or of a list in the outbox still holds: both speak of the current epoch only.
LEMMA ChangeKeepsTask ==
    ASSUME StateOK, Change, NEW t \in Tasks, TaskOK(t)
    PROVE  TaskOK(t)'
BY DEF StateOK, Change, TaskOK, Tasks

\* A change of the identities leaves true what posted messages say.
LEMMA ChangeKeepsMessage ==
    ASSUME StateOK, Change, NEW m \in Messages, MessageOK(m)
    PROVE  MessageOK(m)'
BY DEF StateOK, Change, MessageOK, Messages

\* A handler runs to its next await: the others and the posted lists are kept.
LEMMA AwaitKeeps ==
    ASSUME IInv, Change, NEW s \in Slots, NEW t \in Tasks, TaskOK(t)',
           NEW msgs \in Seq(Messages),
           \A i \in 1..Len(msgs) : MessageOK(msgs[i])',
           Await(s, t, msgs)
    PROVE  TasksOK' /\ OutboxOK'
<1> USE DEF IInv
<1>1. tasks' \in [Slots -> Tasks]
  BY DEF TasksOK, Await
<1>2. \A r \in Slots : TaskOK(tasks[r])'
  <2> SUFFICES ASSUME NEW r \in Slots PROVE TaskOK(tasks[r])'
    OBVIOUS
  <2>1. CASE r = s
    BY <2>1 DEF TasksOK, Await
  <2>2. CASE r # s
    BY <2>2, ChangeKeepsTask DEF TasksOK, Await
  <2> QED BY <2>1, <2>2
<1>3. outbox' \in Seq(Messages) /\ told' \in Nat
  <2>1. outbox' = outbox \o msgs
    BY DEF Await
  <2>2. msgs # <<>> => msgs[1] \in Messages
    OBVIOUS
  <2>3. told' \in Nat
    BY <2>2 DEF Await, OutboxOK, Messages
  <2> QED BY <2>1, <2>3, ConcatProperties DEF OutboxOK
<1>4. \A i \in 1..Len(outbox') : MessageOK(outbox[i])'
  <2> SUFFICES ASSUME NEW i \in 1..Len(outbox') PROVE MessageOK(outbox[i])'
    OBVIOUS
  <2>1. /\ Len(outbox') = Len(outbox) + Len(msgs)
        /\ outbox'[i] = IF i <= Len(outbox) THEN outbox[i] ELSE msgs[i - Len(outbox)]
    BY ConcatProperties DEF Await, OutboxOK
  <2>2. CASE i <= Len(outbox)
    BY <2>1, <2>2, ChangeKeepsMessage DEF OutboxOK
  <2>3. CASE i > Len(outbox)
    BY <2>1, <2>3 DEF OutboxOK
  <2> QED BY <2>2, <2>3 DEF OutboxOK
<1> QED BY <1>1, <1>2, <1>3, <1>4 DEF TasksOK, OutboxOK

\* A handler that has not changed the identities has not started an epoch.
LEMMA NoChange ==
    ASSUME IInv, UNCHANGED <<identities, active, epoch>>
    PROVE  Change
BY DEF IInv, StateOK, Change, ActiveInRange

\* A handler that posts no identity list and then waits, or returns.
LEMMA PlainAwaitKeeps ==
    ASSUME IInv, Change, NEW s \in Slots, NEW t \in Tasks,
           t.pc \notin {"load", "restore", "addresses"},
           NEW msgs \in Seq(Messages),
           \A i \in 1..Len(msgs) : MessageOK(msgs[i])',
           Await(s, t, msgs)
    PROVE  TasksOK' /\ OutboxOK'
BY AwaitKeeps, OtherTasksOK

\* A handler that ends posts messages that stay true.
LEMMA FinishKeeps ==
    ASSUME IInv, Change, NEW s \in Slots, NEW msgs \in Seq(Messages),
           \A i \in 1..Len(msgs) : MessageOK(msgs[i])',
           Finish(s, msgs)
    PROVE  TasksOK' /\ OutboxOK'
BY PlainAwaitKeeps, IdleType DEF Finish

\* One that ends without a message keeps the invariant.
LEMMA SilentKeeps ==
    ASSUME IInv, Change, NEW s \in Slots, Finish(s, <<>>)
    PROVE  TasksOK' /\ OutboxOK'
<1>1. <<>> \in Seq(Messages) /\ 1..Len(<<>>) = {}
  BY EmptySeq
<1>2. \A i \in 1..Len(<<>>) : MessageOK(<<>>[i])'
  BY <1>1
<1> QED BY <1>1, <1>2, FinishKeeps

\* A handler that posts one message other than an identity list and returns.
LEMMA ReplyKeeps ==
    ASSUME IInv, Change, NEW s \in Slots, NEW m \in Messages,
           m.type # "identity_list", Finish(s, <<m>>)
    PROVE  TasksOK' /\ OutboxOK'
<1>1. <<m>> \in Seq(Messages) /\ Len(<<m>>) = 1 /\ <<m>>[1] = m
  OBVIOUS
<1>2. \A i \in 1..Len(<<m>>) : MessageOK(<<m>>[i])'
  <2>1. MessageOK(m)'
    BY OtherMessagesOK
  <2> QED BY <1>1, <2>1 DEF MessageOK
<1> QED BY <1>1, <1>2, FinishKeeps

\* So does one that ends with an error.
LEMMA ErrorKeeps ==
    ASSUME IInv, Change, NEW s \in Slots, Finish(s, <<ErrorMsg>>)
    PROVE  TasksOK' /\ OutboxOK'
BY ErrorType, ReplyKeeps

\* A handler that goes on with a call for the active identity.
LEMMA ForActiveKeeps ==
    ASSUME IInv, UNCHANGED <<identities, active, epoch>>,
           NEW s \in Slots, NEW t \in Tasks,
           NEW pc \in PCs \ {"load", "restore", "addresses"},
           NEW msgs \in Seq(Messages),
           \A i \in 1..Len(msgs) : MessageOK(msgs[i])',
           ForActive(s, t, pc, msgs)
    PROVE  TasksOK' /\ OutboxOK'
<1> DEFINE id == ActiveOf(identities, active)
<1>0. Change
  BY NoChange
<1>1. CASE id = NoId
  <2>1. Finish(s, Append(msgs, ErrorMsg))
    BY <1>1 DEF ForActive
  <2>2. /\ Append(msgs, ErrorMsg) \in Seq(Messages)
        /\ Len(Append(msgs, ErrorMsg)) = Len(msgs) + 1
        /\ \A i \in 1..Len(msgs) : Append(msgs, ErrorMsg)[i] = msgs[i]
        /\ Append(msgs, ErrorMsg)[Len(msgs) + 1] = ErrorMsg
    BY ErrorType, AppendProperties
  <2>3. MessageOK(ErrorMsg)'
    BY ErrorType, OtherMessagesOK
  <2>4. \A i \in 1..Len(Append(msgs, ErrorMsg)) : MessageOK(Append(msgs, ErrorMsg)[i])'
    <3> SUFFICES ASSUME NEW i \in 1..Len(Append(msgs, ErrorMsg))
                 PROVE  MessageOK(Append(msgs, ErrorMsg)[i])'
      OBVIOUS
    <3>1. CASE i \in 1..Len(msgs)
      BY <2>2, <3>1 DEF MessageOK
    <3>2. CASE i = Len(msgs) + 1
      BY <2>2, <2>3, <3>2 DEF MessageOK
    <3> QED BY <2>2, <3>1, <3>2
  <2> QED BY <1>0, <2>1, <2>2, <2>4, FinishKeeps
<1>2. CASE id # NoId
  <2> DEFINE u == [t EXCEPT !.pc = pc, !.id = id]
  <2>1. id \in Ids \cup {NoId}
    BY DEF ActiveOf, IInv, StateOK
  <2>2. u \in Tasks /\ u.pc = pc
    BY <2>1 DEF Tasks
  <2>3. Await(s, u, msgs)
    BY <1>2 DEF ForActive
  <2> QED BY <1>0, <2>2, <2>3, PlainAwaitKeeps
<1> QED BY <1>1, <1>2

\* Going on to list the conversations keeps the invariant.
LEMMA ListConversationsKeeps ==
    ASSUME IInv, UNCHANGED <<identities, active, epoch>>,
           NEW s \in Slots, NEW t \in Tasks, NEW msgs \in Seq(Messages),
           \A i \in 1..Len(msgs) : MessageOK(msgs[i])',
           ListConversations(s, t, msgs)
    PROVE  TasksOK' /\ OutboxOK'
<1>1. Started(t.kind) \in Tasks
  BY StartedType DEF Tasks
<1> QED BY <1>1, ForActiveKeeps DEF ListConversations, PCs

\* Also if nothing is posted before.
LEMMA ListOnlyKeeps ==
    ASSUME IInv, UNCHANGED <<identities, active, epoch>>,
           NEW s \in Slots, NEW t \in Tasks, ListConversations(s, t, <<>>)
    PROVE  TasksOK' /\ OutboxOK'
<1>1. <<>> \in Seq(Messages) /\ 1..Len(<<>>) = {}
  BY EmptySeq
<1>2. \A i \in 1..Len(<<>>) : MessageOK(<<>>[i])'
  BY <1>1
<1> QED BY <1>1, <1>2, ListConversationsKeeps

\* The start of post_identity_list_async takes a snapshot of the state the
\* step ends in.
LEMMA CollectKeeps ==
    ASSUME IInv, Change, NEW s \in Slots, NEW t \in Tasks,
           NEW ids, NEW at, NEW ver,
           ids = identities', at = active', ver = epoch',
           Collect(s, t, ids, at, ver)
    PROVE  TasksOK' /\ OutboxOK'
<1>1. CASE ids = <<>>
  <2> DEFINE m == IdentityListMsg(<<>>, at, ver)
  <2>1. m \in Messages /\ MessageOK(m)'
    BY <1>1, EmptySeq DEF Change, Messages, MsgTypes, IdentityListMsg, MessageOK,
                          ActiveInRange
  <2>2. ErrorMsg \in Messages /\ MessageOK(ErrorMsg)'
    BY ErrorType, OtherMessagesOK
  <2>3. /\ <<m, ErrorMsg>> \in Seq(Messages) /\ Len(<<m, ErrorMsg>>) = 2
        /\ <<m, ErrorMsg>>[1] = m /\ <<m, ErrorMsg>>[2] = ErrorMsg
    BY <2>1, <2>2
  <2>4. Finish(s, <<m, ErrorMsg>>)
    BY <1>1 DEF Collect
  <2>5. \A i \in 1..Len(<<m, ErrorMsg>>) : MessageOK(<<m, ErrorMsg>>[i])'
    <3> HIDE DEF m
    <3> QED BY <2>1, <2>2, <2>3 DEF MessageOK
  <2> HIDE DEF m
  <2> QED BY <2>3, <2>4, <2>5, FinishKeeps
<1>2. CASE ids # <<>>
  <2> DEFINE u == [Started(t.kind) EXCEPT
                     !.pc = "addresses", !.id = ids[1],
                     !.at = at, !.n = Len(ids), !.ver = ver]
  <2>1. /\ Started(t.kind) \in Tasks /\ Started(t.kind).got = <<>>
    BY StartedType DEF Tasks
  <2>2. Len(ids) \in Nat /\ Len(ids) > 0 /\ ids[1] \in Ids
    BY <1>2 DEF Change
  <2>3. u \in Tasks
    BY <2>1, <2>2 DEF Tasks, PCs, Change
  <2>4. /\ u.pc = "addresses" /\ u.id = ids[1] /\ u.at = at
        /\ u.n = Len(ids) /\ u.ver = ver /\ u.got = <<>>
    BY <2>1 DEF Tasks
  <2>5. at < Len(ids)
    BY <1>2 DEF Change, ActiveInRange
  <2>6. Len(u.got) = 0
    BY <2>4
  <2>7. TaskOK(u)'
    BY <2>2, <2>4, <2>5, <2>6 DEF TaskOK, Change
  <2>8. Await(s, u, <<>>)
    BY <1>2 DEF Collect
  <2>9. <<>> \in Seq(Messages) /\ 1..Len(<<>>) = {}
    BY EmptySeq
  <2>10. \A i \in 1..Len(<<>>) : MessageOK(<<>>[i])'
    BY <2>9
  <2> QED BY <2>3, <2>7, <2>8, <2>9, <2>10, AwaitKeeps
<1> QED BY <1>1, <1>2

\* An assignment of identities with an index that fits them, or the panic that
\* takes its place.
LEMMA AssignKeeps ==
    ASSUME IInv, NEW s \in Slots, NEW t \in Tasks,
           NEW ids \in Seq(Ids), NEW at \in Nat,
           at < Len(ids) \/ (ids = <<>> /\ at = 0),
           Assign(s, t, ids, at)
    PROVE  Change /\ TasksOK' /\ OutboxOK'
<1>1. CASE poisoned
  BY <1>1, NoChange, SilentKeeps DEF Assign
<1>2. CASE ~poisoned
  <2>1. /\ identities' = ids /\ active' = at
        /\ epoch' = IF ids = identities /\ at = active THEN epoch ELSE epoch + 1
        /\ Collect(s, t, ids, at, epoch')
    BY <1>2 DEF Assign
  <2>2. Change
    BY <2>1 DEF Change, ActiveInRange, IInv, StateOK
  <2> QED BY <2>1, <2>2, CollectKeeps
<1> QED BY <1>1, <1>2

\* Adding an identity makes it active, in range, and starts collecting.
LEMMA PushKeeps ==
    ASSUME IInv, NEW s \in Slots, NEW t \in Tasks, NEW id \in Ids,
           Push(s, t, id)
    PROVE  Change /\ TasksOK' /\ OutboxOK'
<1>1. /\ identities \in Seq(Ids)
      /\ Append(identities, id) \in Seq(Ids)
      /\ Len(Append(identities, id)) = Len(identities) + 1
      /\ Len(identities) \in Nat
  BY AppendProperties DEF IInv, StateOK
<1>2. Assign(s, t, Append(identities, id), Len(identities))
  BY DEF Push
<1>3. Len(identities) < Len(Append(identities, id))
  BY <1>1
<1> QED BY <1>1, <1>2, <1>3, AssignKeeps

\* The part of the state no handler but its own touches.
LEMMA StateKept ==
    ASSUME IInv, Change, params' \in Seq(Ids), poisoned' \in BOOLEAN,
           used' \subseteq Ids, UNCHANGED pageVars
    PROVE  StateOK'
BY DEF IInv, StateOK, Change, pageVars, ActiveInRange

\* The types of the worker's data survive a change of the identities.
LEMMA RestUnchanged ==
    ASSUME IInv, Change, UNCHANGED <<params, poisoned, used, pageVars>>
    PROVE  StateOK'
BY StateKept DEF IInv, StateOK

\* Requests that are not taken stay well-formed.
LEMMA InboxKept ==
    ASSUME IInv, UNCHANGED inbox
    PROVE  InboxOK'
BY DEF IInv, InboxOK

\* Taking a request leaves a shorter queue of the same requests.
LEMMA TakesKeeps ==
    ASSUME IInv, NEW s \in Slots, NEW kind, Takes(s, kind)
    PROVE  /\ InboxOK'
           /\ Head(inbox) \in Requests
           /\ kind = "restore" => Head(inbox).id \in Ids
<1>1. inbox \in Seq(Requests) /\ inbox # <<>> /\ inbox' = Tail(inbox)
  BY DEF Takes, IInv, InboxOK
<1>2. /\ Head(inbox) \in Requests /\ Tail(inbox) \in Seq(Requests)
      /\ Len(Tail(inbox)) = Len(inbox) - 1 /\ Len(inbox) \in Nat
      /\ \A i \in 1..Len(Tail(inbox)) : Tail(inbox)[i] = inbox[i + 1]
  BY <1>1, HeadTailProperties, LenProperties
<1>3. Len(inbox) > 0 /\ Head(inbox) = inbox[1]
  BY <1>1
<1> QED BY <1>1, <1>2, <1>3 DEF Takes, IInv, InboxOK

-----------------------------------------------------------------------------
(* Requests start their handlers.                                          *)

\* A handler that waits without posting keeps the invariant.
LEMMA AwaitSilently ==
    ASSUME IInv, Change, NEW s \in Slots, NEW t \in Tasks, TaskOK(t)',
           Await(s, t, <<>>)
    PROVE  TasksOK' /\ OutboxOK'
<1>1. <<>> \in Seq(Messages) /\ 1..Len(<<>>) = {}
  BY EmptySeq
<1>2. \A i \in 1..Len(<<>>) : MessageOK(<<>>[i])'
  BY <1>1
<1> QED BY <1>1, <1>2, AwaitKeeps

\* A round of loading starts with a well-formed handler.
LEMMA StartRoundKeeps ==
    ASSUME IInv, UNCHANGED <<identities, active, epoch>>, NEW s \in Slots,
           NEW keys \in Seq(Ids), NEW round \in Nat,
           StartRound(s, keys, round)
    PROVE  TasksOK' /\ OutboxOK'
<1> DEFINE u == [Started("init") EXCEPT
                   !.pc = IF keys = <<>> THEN "make" ELSE "load",
                   !.keys = keys, !.todo = keys, !.round = round]
<1>1. Started("init") \in Tasks
  BY StartedType DEF Kinds
<1>2. u \in Tasks /\ u.pc \in {"make", "load"}
      /\ (u.pc = "load" => u.todo # <<>>)
  BY <1>1 DEF Tasks, PCs
<1>3. TaskOK(u)'
  BY <1>2 DEF TaskOK
<1>4. Await(s, u, <<>>)
  BY DEF StartRound
<1> HIDE DEF u
<1> QED BY <1>2, <1>3, <1>4, NoChange, AwaitSilently

\* Handling init keeps the invariant.
LEMMA HandleInitKeeps ==
    ASSUME IInv, NEW s \in Slots, HandleInit(s)
    PROVE  IInv'
<1>1. InboxOK' /\ Head(inbox) \in Requests
  BY TakesKeeps DEF HandleInit
<1>2. UNCHANGED <<identities, active, epoch, poisoned, used, pageVars>>
  BY DEF HandleInit
<1>3. Change
  BY <1>2, NoChange
<1>4. params' \in Seq(Ids) /\ TasksOK' /\ OutboxOK'
  <2>1. CASE poisoned
    BY <1>3, <2>1, SilentKeeps DEF HandleInit, IInv, StateOK
  <2>2. CASE ~poisoned
    <3>1. params' \in Seq(Ids) /\ StartRound(s, params', 0)
      BY <1>1, <2>2 DEF HandleInit, Requests
    <3> QED BY <1>2, <3>1, StartRoundKeeps
  <2> QED BY <2>1, <2>2
<1>5. StateOK'
  BY <1>2, <1>3, <1>4, StateKept DEF IInv, StateOK
<1> QED BY <1>1, <1>4, <1>5 DEF IInv

\* Handling retry keeps the invariant.
LEMMA HandleRetryKeeps ==
    ASSUME IInv, NEW s \in Slots, HandleRetry(s)
    PROVE  IInv'
<1>1. InboxOK'
  BY TakesKeeps DEF HandleRetry
<1>2. /\ UNCHANGED <<identities, active, epoch>>
      /\ UNCHANGED <<params, poisoned, used, pageVars>>
  BY DEF HandleRetry
<1>3. Change
  BY <1>2, NoChange
<1>4. TasksOK' /\ OutboxOK'
  <2>1. CASE poisoned
    BY <1>3, <2>1, SilentKeeps DEF HandleRetry
  <2>2. CASE ~poisoned
    BY <1>2, <2>2, StartRoundKeeps DEF HandleRetry, IInv, StateOK
  <2> QED BY <2>1, <2>2
<1> QED BY <1>1, <1>2, <1>3, <1>4, RestUnchanged DEF IInv

\* Handling create_identity keeps the invariant.
LEMMA HandleCreateKeeps ==
    ASSUME IInv, NEW s \in Slots, HandleCreateIdentity(s)
    PROVE  IInv'
<1> DEFINE u == [Started("create") EXCEPT !.pc = "make"]
<1>1. InboxOK'
  BY TakesKeeps DEF HandleCreateIdentity
<1>2. /\ UNCHANGED <<identities, active, epoch>>
      /\ UNCHANGED <<params, poisoned, used, pageVars>>
  BY DEF HandleCreateIdentity
<1>3. Change
  BY <1>2, NoChange
<1>4. u \in Tasks /\ TaskOK(u)'
  <2>1. Started("create") \in Tasks
    BY StartedType DEF Kinds
  <2> QED BY <2>1 DEF Tasks, PCs, TaskOK
<1>5. Await(s, u, <<>>)
  BY DEF HandleCreateIdentity
<1>6. TasksOK' /\ OutboxOK'
  <2> HIDE DEF u
  <2> QED BY <1>3, <1>4, <1>5, AwaitSilently
<1> QED BY <1>1, <1>2, <1>3, <1>6, RestUnchanged DEF IInv

\* Handling restore_identity keeps the invariant.
LEMMA HandleRestoreKeeps ==
    ASSUME IInv, NEW s \in Slots, HandleRestoreIdentity(s)
    PROVE  IInv'
<1> DEFINE id == Head(inbox).id
           u  == [Started("restore") EXCEPT !.pc = "restore", !.id = id]
<1>1. InboxOK' /\ id \in Ids
  BY TakesKeeps DEF HandleRestoreIdentity
<1>2. /\ UNCHANGED <<identities, active, epoch>>
      /\ UNCHANGED <<params, poisoned, used, pageVars>>
  BY DEF HandleRestoreIdentity
<1>3. Change
  BY <1>2, NoChange
<1>4. PICK v \in Ids : v = id
  BY <1>1
<1>5. /\ [Started("restore") EXCEPT !.pc = "restore", !.id = v] \in Tasks
      /\ TaskOK([Started("restore") EXCEPT !.pc = "restore", !.id = v])'
  <2>1. Started("restore") \in Tasks
    BY StartedType DEF Kinds
  <2> QED BY <2>1 DEF Tasks, PCs, TaskOK
<1>6. Await(s, [Started("restore") EXCEPT !.pc = "restore", !.id = v], <<>>)
  BY <1>4 DEF HandleRestoreIdentity
<1>7. TasksOK' /\ OutboxOK'
  BY <1>3, <1>5, <1>6, AwaitSilently
<1> QED BY <1>1, <1>2, <1>3, <1>7, RestUnchanged DEF IInv

\* Vec::remove.
LEMMA RemoveAtProperties ==
    ASSUME NEW S, NEW seq \in Seq(S), NEW i \in 1..Len(seq)
    PROVE  /\ RemoveAt(seq, i) \in Seq(S)
           /\ Len(RemoveAt(seq, i)) = Len(seq) - 1
           /\ \A j \in 1..(Len(seq) - 1) :
                 RemoveAt(seq, i)[j] = IF j < i THEN seq[j] ELSE seq[j + 1]
<1> DEFINE front == SubSeq(seq, 1, i - 1)
           back  == SubSeq(seq, i + 1, Len(seq))
<1>1. Len(seq) \in Nat /\ i \in Int /\ \A j \in 1..Len(seq) : seq[j] \in S
  BY LenProperties, ElementOfSeq
<1>2. /\ front \in Seq(S) /\ Len(front) = i - 1
      /\ \A j \in 1..(i - 1) : front[j] = seq[j]
  BY <1>1, SubSeqProperties
<1>3. /\ back \in Seq(S) /\ Len(back) = Len(seq) - i
      /\ \A j \in 1..(Len(seq) - i) : back[j] = seq[i + j]
  <2>1. (i + 1) \in Int /\ Len(seq) \in Int
        /\ \A j \in (i + 1)..Len(seq) : seq[j] \in S
    BY <1>1
  <2>2. /\ back \in Seq(S)
        /\ Len(back) = IF i + 1 <= Len(seq) THEN Len(seq) - (i + 1) + 1 ELSE 0
        /\ \A j \in 1..(Len(seq) - (i + 1) + 1) : back[j] = seq[(i + 1) + j - 1]
    BY <2>1, SubSeqProperties
  <2> QED BY <1>1, <2>2
<1>4. /\ front \o back \in Seq(S)
      /\ Len(front \o back) = Len(front) + Len(back)
      /\ \A j \in 1..(Len(front) + Len(back)) :
            (front \o back)[j] =
               IF j <= Len(front) THEN front[j] ELSE back[j - Len(front)]
  BY <1>2, <1>3, ConcatProperties
<1>5. RemoveAt(seq, i) = front \o back
  BY DEF RemoveAt
<1> HIDE DEF front, back
<1>6. \A j \in 1..(Len(seq) - 1) :
         (front \o back)[j] = IF j < i THEN seq[j] ELSE seq[j + 1]
  <2> SUFFICES ASSUME NEW j \in 1..(Len(seq) - 1)
               PROVE  (front \o back)[j] = IF j < i THEN seq[j] ELSE seq[j + 1]
    OBVIOUS
  <2>1. CASE j < i
    BY <1>1, <1>2, <1>3, <1>4, <2>1
  <2>2. CASE j >= i
    <3>1. j - (i - 1) \in 1..(Len(seq) - i)
      BY <1>1, <2>2
    <3>2. (front \o back)[j] = back[j - (i - 1)]
      BY <1>1, <1>2, <1>3, <1>4, <2>2
    <3>3. back[j - (i - 1)] = seq[i + (j - (i - 1))]
      BY <1>3, <3>1
    <3>4. i + (j - (i - 1)) = j + 1
      BY <1>1
    <3> QED BY <2>2, <3>2, <3>3, <3>4
  <2>3. j < i \/ j >= i
    BY <1>1
  <2> QED BY <2>1, <2>2, <2>3
<1>7. front \o back \in Seq(S) /\ Len(front \o back) = Len(seq) - 1
  BY <1>1, <1>2, <1>3, <1>4
<1> QED BY <1>5, <1>6, <1>7

\* The active index is in range of what a removal leaves.
LEMMA ActiveAfterRemoveInRange ==
    ASSUME IInv, NEW idx \in Nat, idx < Len(identities)
    PROVE  /\ ActiveAfterRemove(idx) \in Nat
           /\ IF Len(identities) = 1 THEN ActiveAfterRemove(idx) = 0
              ELSE ActiveAfterRemove(idx) < Len(identities) - 1
<1>1. Len(identities) \in Nat /\ active \in Nat /\ active < Len(identities)
  BY EmptySeq DEF IInv, StateOK, ActiveInRange
<1>2. CASE Len(identities) = 1
  BY <1>1, <1>2 DEF ActiveAfterRemove
<1>3. CASE Len(identities) > 1 /\ active >= Len(identities) - 1
  BY <1>1, <1>3 DEF ActiveAfterRemove
<1>4. CASE Len(identities) > 1 /\ active < Len(identities) - 1
  BY <1>1, <1>4 DEF ActiveAfterRemove
<1>5. \/ Len(identities) = 1
      \/ Len(identities) > 1 /\ active >= Len(identities) - 1
      \/ Len(identities) > 1 /\ active < Len(identities) - 1
  <2> DEFINE n == Len(identities)
  <2>1. n \in Nat /\ active \in Nat /\ active < n
    BY <1>1
  <2> HIDE DEF n
  <2>2. n = 1 \/ (n > 1 /\ active >= n - 1) \/ (n > 1 /\ active < n - 1)
    BY <2>1
  <2> QED BY <2>2 DEF n
<1> QED BY <1>2, <1>3, <1>4, <1>5

\* Handling remove_identity keeps the invariant.
LEMMA HandleRemoveKeeps ==
    ASSUME IInv, NEW s \in Slots, HandleRemoveIdentity(s)
    PROVE  IInv'
<1> DEFINE idx == Head(inbox).idx
           t   == Started("remove")
           u   == [t EXCEPT !.pc = "make"]
<1>1. InboxOK' /\ idx \in Nat
  BY TakesKeeps DEF HandleRemoveIdentity, Requests
<1>2. UNCHANGED <<params, poisoned, used, pageVars>>
  BY DEF HandleRemoveIdentity
<1>3. t \in Tasks /\ u \in Tasks /\ TaskOK(u)'
  <2>1. Started("remove") \in Tasks
    BY StartedType DEF Kinds
  <2> QED BY <2>1 DEF Tasks, PCs, TaskOK
<1>4. Len(identities) \in Nat /\ identities \in Seq(Ids)
  BY DEF IInv, StateOK
<1> HIDE DEF t, u
<1>5. Change /\ TasksOK' /\ OutboxOK'
  <2>1. CASE poisoned \/ idx >= Len(identities)
    BY <2>1, NoChange, SilentKeeps DEF HandleRemoveIdentity
  <2>2. CASE ~poisoned /\ idx < Len(identities) /\ Len(identities) = 1
    <3>1. /\ identities' = <<>> /\ active' = ActiveAfterRemove(idx)
          /\ epoch' = epoch + 1 /\ Await(s, u, <<>>)
      BY <1>1, <1>4, <2>2 DEF HandleRemoveIdentity, t, u
    <3>2. active' = 0
      BY <1>1, <2>2, <3>1, ActiveAfterRemoveInRange
    <3>3. Change
      BY <3>1, <3>2, EmptySeq DEF Change, ActiveInRange, IInv, StateOK
    <3> QED BY <1>3, <3>1, <3>3, AwaitSilently
  <2>3. CASE ~poisoned /\ idx < Len(identities) /\ Len(identities) # 1
    <3> DEFINE left == RemoveAt(identities, idx + 1)
    <3>1. Assign(s, t, left, ActiveAfterRemove(idx))
      BY <1>1, <1>4, <2>3 DEF HandleRemoveIdentity, t
    <3>2. idx + 1 \in 1..Len(identities)
      BY <1>1, <1>4, <2>3
    <3>3. left \in Seq(Ids) /\ Len(left) = Len(identities) - 1
      BY <1>4, <3>2, RemoveAtProperties
    <3>4. /\ ActiveAfterRemove(idx) \in Nat
          /\ ActiveAfterRemove(idx) < Len(left)
      BY <1>1, <2>3, <3>3, ActiveAfterRemoveInRange
    <3> HIDE DEF left
    <3> QED BY <1>3, <3>1, <3>3, <3>4, AssignKeeps
  <2> QED BY <1>1, <1>4, <2>1, <2>2, <2>3
<1> QED BY <1>1, <1>2, <1>5, RestUnchanged DEF IInv

\* Handling switch_identity keeps the invariant.
LEMMA HandleSwitchKeeps ==
    ASSUME IInv, NEW s \in Slots, HandleSwitchIdentity(s)
    PROVE  IInv'
<1> DEFINE idx == Head(inbox).idx
           at  == IF idx < Len(identities) THEN idx ELSE active
<1>1. InboxOK' /\ idx \in Nat
  BY TakesKeeps DEF HandleSwitchIdentity, Requests
<1>2. UNCHANGED <<params, poisoned, used, pageVars>>
  BY DEF HandleSwitchIdentity
<1>3. Started("switch") \in Tasks
  BY StartedType DEF Kinds
<1>4. Assign(s, Started("switch"), identities, at)
  BY DEF HandleSwitchIdentity
<1>5. /\ identities \in Seq(Ids) /\ at \in Nat
      /\ at < Len(identities) \/ (identities = <<>> /\ at = 0)
  BY <1>1 DEF IInv, StateOK, ActiveInRange
<1> HIDE DEF at
<1>6. Change /\ TasksOK' /\ OutboxOK'
  BY <1>3, <1>4, <1>5, AssignKeeps
<1> QED BY <1>1, <1>2, <1>6, RestUnchanged DEF IInv

\* Handling add_address and remove_address keeps the invariant.
LEMMA HandleAddressKeeps ==
    ASSUME IInv, NEW s \in Slots, HandleAddress(s)
    PROVE  IInv'
<1>1. InboxOK'
  BY TakesKeeps DEF HandleAddress
<1>2. /\ UNCHANGED <<identities, active, epoch>>
      /\ UNCHANGED <<params, poisoned, used, pageVars>>
  BY DEF HandleAddress
<1>3. Change
  BY <1>2, NoChange
<1>4. TasksOK' /\ OutboxOK'
  BY <1>3, ErrorKeeps DEF HandleAddress
<1> QED BY <1>1, <1>2, <1>3, <1>4, RestUnchanged DEF IInv

\* Handling accept_invitation and decline_invitation keeps the invariant.
LEMMA HandleConsentKeeps ==
    ASSUME IInv, NEW s \in Slots, HandleConsent(s)
    PROVE  IInv'
<1>1. InboxOK'
  BY TakesKeeps DEF HandleConsent
<1>2. /\ UNCHANGED <<identities, active, epoch>>
      /\ UNCHANGED <<params, poisoned, used, pageVars>>
  BY DEF HandleConsent
<1>3. Change
  BY <1>2, NoChange
<1>4. TasksOK' /\ OutboxOK'
  <2>1. CASE Finish(s, <<ErrorMsg>>)
    BY <1>3, <2>1, ErrorKeeps
  <2>2. CASE ListConversations(s, Started("consent"), <<>>)
    <3>1. Started("consent") \in Tasks
      BY StartedType DEF Kinds
    <3> QED BY <1>2, <2>2, <3>1, ListOnlyKeeps
  <2> QED BY <2>1, <2>2 DEF HandleConsent
<1> QED BY <1>1, <1>2, <1>3, <1>4, RestUnchanged DEF IInv

\* Handling list keeps the invariant.
LEMMA HandleListKeeps ==
    ASSUME IInv, NEW s \in Slots, HandleList(s)
    PROVE  IInv'
<1>1. InboxOK'
  BY TakesKeeps DEF HandleList
<1>2. /\ UNCHANGED <<identities, active, epoch>>
      /\ UNCHANGED <<params, poisoned, used, pageVars>>
  BY DEF HandleList
<1>3. Change
  BY <1>2, NoChange
<1>4. Started("list") \in Tasks
  BY StartedType DEF Kinds
<1>5. TasksOK' /\ OutboxOK'
  BY <1>2, <1>4, ListOnlyKeeps DEF HandleList
<1> QED BY <1>1, <1>2, <1>3, <1>5, RestUnchanged DEF IInv

\* Handling the requests made for the active identity keeps the invariant.
LEMMA HandleForActiveKeeps ==
    ASSUME IInv, NEW s \in Slots, HandleForActive(s)
    PROVE  IInv'
<1>1. PICK kind \in DOMAIN FirstCall :
         /\ Takes(s, kind)
         /\ ForActive(s, Started(kind), FirstCall[kind], <<>>)
         /\ UNCHANGED <<identities, active, params, poisoned, used, epoch,
                        pageVars>>
  BY DEF HandleForActive
<1>2. InboxOK'
  BY <1>1, TakesKeeps
<1>3. /\ UNCHANGED <<identities, active, epoch>>
      /\ UNCHANGED <<params, poisoned, used, pageVars>>
  BY <1>1
<1>4. Change
  BY <1>3, NoChange
<1>5. kind \in Kinds /\ FirstCall[kind] \in PCs \ {"load", "restore", "addresses"}
  BY DEF FirstCall, Kinds, PCs
<1>6. Started(kind) \in Tasks
  BY <1>5, StartedType
<1>7. <<>> \in Seq(Messages) /\ 1..Len(<<>>) = {}
  BY EmptySeq
<1>8. \A i \in 1..Len(<<>>) : MessageOK(<<>>[i])'
  BY <1>7
<1>9. TasksOK' /\ OutboxOK'
  BY <1>1, <1>3, <1>5, <1>6, <1>7, <1>8, ForActiveKeeps
<1> QED BY <1>2, <1>3, <1>4, <1>9, RestUnchanged DEF IInv

\* Starting any handler keeps the invariant.
LEMMA DispatchKeeps ==
    ASSUME IInv, NEW s \in Slots, Dispatch(s)
    PROVE  IInv'
BY HandleInitKeeps, HandleRetryKeeps, HandleCreateKeeps, HandleRestoreKeeps,
   HandleRemoveKeeps, HandleSwitchKeeps, HandleAddressKeeps,
   HandleConsentKeeps, HandleListKeeps, HandleForActiveKeeps DEF Dispatch

-----------------------------------------------------------------------------
(* Handlers resume.                                                        *)

\* A round of loading that ends keeps the invariant, with and without identities.
LEMMA RoundEndsKeeps ==
    ASSUME IInv, NEW s \in Slots, NEW t \in Tasks, NEW found \in Seq(Ids),
           RoundEnds(s, t, found)
    PROVE  Change /\ TasksOK' /\ OutboxOK'
<1>1. CASE found # <<>>
  <2>1. Assign(s, t, found, 0)
    BY <1>1 DEF RoundEnds
  <2>2. 0 \in Nat /\ 0 < Len(found)
    BY <1>1, EmptySeq
  <2> QED BY <2>1, <2>2, AssignKeeps
<1>2. CASE found = <<>>
  <2>1. UNCHANGED <<identities, active, epoch>>
    BY <1>2 DEF RoundEnds
  <2>2. Change
    BY <2>1, NoChange
  <2>3. CASE Finish(s, <<Reply("connection_error", NoId)>>)
    <3>1. /\ Reply("connection_error", NoId) \in Messages
          /\ Reply("connection_error", NoId).type # "identity_list"
      BY ReplyType DEF MsgTypes
    <3> QED BY <2>2, <2>3, <3>1, ReplyKeeps
  <2> DEFINE u == [t EXCEPT !.pc = "backoff", !.got = <<>>, !.todo = <<>>]
  <2>4. CASE Await(s, u, <<>>)
    <3>1. u \in Tasks /\ u.pc = "backoff"
      BY EmptySeq DEF Tasks, PCs
    <3>2. TaskOK(u)'
      BY <3>1 DEF TaskOK
    <3> HIDE DEF u
    <3> QED BY <2>2, <2>4, <3>1, <3>2, AwaitSilently
  <2>5. \/ Finish(s, <<Reply("connection_error", NoId)>>)
        \/ Await(s, u, <<>>)
    BY <1>2 DEF RoundEnds
  <2> QED BY <2>2, <2>3, <2>4, <2>5
<1> QED BY <1>1, <1>2

\* A handler in flight is well-formed.
LEMMA TaskType ==
    ASSUME IInv, NEW s \in Slots
    PROVE  tasks[s] \in Tasks /\ TaskOK(tasks[s])
BY DEF IInv, TasksOK

\* An await that is over keeps the invariant: a loaded key.
LEMMA KeyLoadedKeeps ==
    ASSUME IInv, NEW s \in Slots, KeyLoaded(s)
    PROVE  IInv'
<1> DEFINE t == tasks[s]
<1>1. /\ t \in Tasks /\ t.pc = "load" /\ t.todo # <<>>
      /\ t.todo \in Seq(Ids) /\ t.got \in Seq(Ids)
  BY TaskType DEF KeyLoaded, TaskOK, Tasks
<1>2. UNCHANGED <<params, poisoned, used, inbox, pageVars>>
  BY DEF KeyLoaded
<1>3. PICK got \in {t.got, Append(t.got, Head(t.todo))} :
         IF Len(t.todo) > 1
         THEN /\ Await(s, [t EXCEPT !.got = got, !.todo = Tail(t.todo)], <<>>)
              /\ UNCHANGED <<identities, active, epoch>>
         ELSE RoundEnds(s, t, got)
  BY DEF KeyLoaded, FromKeyHex
<1>4. got \in Seq(Ids)
  <2> DEFINE todo == t.todo
             loaded == t.got
  <2>1. /\ todo \in Seq(Ids) /\ todo # <<>> /\ loaded \in Seq(Ids)
        /\ got = loaded \/ got = Append(loaded, Head(todo))
    BY <1>1
  <2> HIDE DEF todo, loaded
  <2>2. Head(todo) \in Ids
    BY <2>1, HeadTailProperties
  <2> QED BY <2>1, <2>2, AppendProperties
<1>5. CASE Len(t.todo) > 1
  <2> DEFINE u == [t EXCEPT !.got = got, !.todo = Tail(t.todo)]
  <2>1. /\ Tail(t.todo) \in Seq(Ids) /\ Len(Tail(t.todo)) = Len(t.todo) - 1
    BY <1>1, HeadTailProperties
  <2>2. Tail(t.todo) # <<>>
    <3> DEFINE n == Len(t.todo)
               rest == Tail(t.todo)
    <3>1. n \in Nat /\ n > 1 /\ Len(rest) = n - 1
      BY <1>1, <1>5, <2>1
    <3> HIDE DEF n, rest
    <3>2. Len(rest) # 0
      BY <3>1
    <3>3. rest # <<>>
      BY <3>2, EmptySeq
    <3> QED BY <3>3 DEF rest
  <2>3. u \in Tasks /\ u.pc = "load" /\ u.todo # <<>>
    BY <1>1, <1>4, <2>1, <2>2 DEF Tasks
  <2>4. PICK v \in Tasks : v = u
    BY <2>3
  <2>5. TaskOK(v)'
    BY <2>3, <2>4 DEF TaskOK
  <2>6. UNCHANGED <<identities, active, epoch>> /\ Await(s, v, <<>>)
    BY <1>3, <1>5, <2>4
  <2>7. Change
    BY <2>6, NoChange
  <2>8. TasksOK' /\ OutboxOK'
    BY <2>5, <2>6, <2>7, AwaitSilently
  <2> QED BY <1>2, <2>7, <2>8, RestUnchanged, InboxKept DEF IInv
<1>6. CASE ~(Len(t.todo) > 1)
  <2>1. Change /\ TasksOK' /\ OutboxOK'
    BY <1>1, <1>3, <1>4, <1>6, RoundEndsKeeps
  <2> QED BY <1>2, <2>1, RestUnchanged, InboxKept DEF IInv
<1> QED BY <1>5, <1>6

\* An await that is over keeps the invariant: the first identity made.
LEMMA FirstIdentityMadeKeeps ==
    ASSUME IInv, NEW s \in Slots, FirstIdentityMade(s)
    PROVE  IInv'
<1> DEFINE t == tasks[s]
<1>1. t \in Tasks
  BY TaskType
<1>2. UNCHANGED <<params, poisoned, inbox, pageVars>>
  BY DEF FirstIdentityMade
<1>3. CASE \E id \in Ids : Fresh(id) /\ RoundEnds(s, t, <<id>>)
  <2>1. PICK id \in Ids : Fresh(id) /\ RoundEnds(s, t, <<id>>)
    BY <1>3
  <2>2. <<id>> \in Seq(Ids)
    OBVIOUS
  <2>3. Change /\ TasksOK' /\ OutboxOK'
    BY <1>1, <2>1, <2>2, RoundEndsKeeps
  <2>4. params' \in Seq(Ids) /\ poisoned' \in BOOLEAN /\ used' \subseteq Ids
    BY <1>2, <2>1 DEF Fresh, IInv, StateOK
  <2> QED BY <1>2, <2>3, <2>4, StateKept, InboxKept DEF IInv
<1>4. CASE RoundEnds(s, t, <<>>) /\ UNCHANGED used
  <2>1. <<>> \in Seq(Ids)
    BY EmptySeq
  <2>2. Change /\ TasksOK' /\ OutboxOK'
    BY <1>1, <1>4, <2>1, RoundEndsKeeps
  <2> QED BY <1>2, <1>4, <2>2, RestUnchanged, InboxKept DEF IInv
<1> QED BY <1>3, <1>4 DEF FirstIdentityMade

\* An await that is over keeps the invariant: an elapsed backoff.
LEMMA BackoffElapsedKeeps ==
    ASSUME IInv, NEW s \in Slots, BackoffElapsed(s)
    PROVE  IInv'
<1> DEFINE t == tasks[s]
<1>1. t.keys \in Seq(Ids) /\ t.round + 1 \in Nat
  BY TaskType DEF Tasks
<1>2. /\ UNCHANGED <<identities, active, epoch>>
      /\ UNCHANGED <<params, poisoned, used, pageVars>> /\ UNCHANGED inbox
  BY DEF BackoffElapsed
<1>3. TasksOK' /\ OutboxOK'
  BY <1>1, <1>2, StartRoundKeeps DEF BackoffElapsed
<1> QED BY <1>2, <1>3, NoChange, RestUnchanged, InboxKept DEF IInv

\* An await that is over keeps the invariant: a created identity.
LEMMA IdentityCreatedKeeps ==
    ASSUME IInv, NEW s \in Slots, IdentityCreated(s)
    PROVE  IInv'
<1> DEFINE t == tasks[s]
<1>1. t \in Tasks
  BY TaskType
<1>2. UNCHANGED <<params, poisoned, inbox, pageVars>>
  BY DEF IdentityCreated
<1>3. CASE \E id \in Ids : Fresh(id) /\ Push(s, t, id)
  <2>1. PICK id \in Ids : Fresh(id) /\ Push(s, t, id)
    BY <1>3
  <2>2. Change /\ TasksOK' /\ OutboxOK'
    BY <1>1, <2>1, PushKeeps
  <2>3. params' \in Seq(Ids) /\ poisoned' \in BOOLEAN /\ used' \subseteq Ids
    BY <1>2, <2>1 DEF Fresh, IInv, StateOK
  <2> QED BY <1>2, <2>2, <2>3, StateKept, InboxKept DEF IInv
<1>4. CASE Finish(s, <<ErrorMsg>>) /\ UNCHANGED <<identities, active, epoch, used>>
  <2>1. Change
    BY <1>4, NoChange
  <2>2. TasksOK' /\ OutboxOK'
    BY <1>4, <2>1, ErrorKeeps
  <2> QED BY <1>2, <1>4, <2>1, <2>2, RestUnchanged, InboxKept DEF IInv
<1> QED BY <1>3, <1>4 DEF IdentityCreated

\* An await that is over keeps the invariant: a restored identity.
LEMMA IdentityRestoredKeeps ==
    ASSUME IInv, NEW s \in Slots, IdentityRestored(s)
    PROVE  IInv'
<1> DEFINE t == tasks[s]
<1>1. t \in Tasks /\ t.id \in Ids
  BY TaskType DEF TaskOK, IdentityRestored
<1>2. UNCHANGED <<params, poisoned, inbox, pageVars>>
  BY DEF IdentityRestored
<1>3. CASE FromMnemonic(t.id) /\ Push(s, t, t.id)
  <2>1. Change /\ TasksOK' /\ OutboxOK'
    BY <1>1, <1>3, PushKeeps
  <2>2. params' \in Seq(Ids) /\ poisoned' \in BOOLEAN /\ used' \subseteq Ids
    BY <1>1, <1>2, <1>3 DEF IInv, StateOK, FromMnemonic
  <2> QED BY <1>2, <2>1, <2>2, StateKept, InboxKept DEF IInv
<1>4. CASE Finish(s, <<ErrorMsg>>) /\ UNCHANGED <<identities, active, epoch, used>>
  <2>1. Change
    BY <1>4, NoChange
  <2>2. TasksOK' /\ OutboxOK'
    BY <1>4, <2>1, ErrorKeeps
  <2> QED BY <1>2, <1>4, <2>1, <2>2, RestUnchanged, InboxKept DEF IInv
<1> QED BY <1>3, <1>4 DEF IdentityRestored

\* An await that is over keeps the invariant: the replacement of the last identity.
LEMMA ReplacementMadeKeeps ==
    ASSUME IInv, NEW s \in Slots, ReplacementMade(s)
    PROVE  IInv'
<1> DEFINE t == tasks[s]
<1>1. t \in Tasks
  BY TaskType
<1>2. UNCHANGED <<params, poisoned, inbox, pageVars>>
  BY DEF ReplacementMade
<1>3. CASE \E id \in Ids :
              Fresh(id) /\ Assign(s, t, Append(identities, id), active)
  <2>1. PICK id \in Ids :
           Fresh(id) /\ Assign(s, t, Append(identities, id), active)
    BY <1>3
  <2>2. /\ identities \in Seq(Ids) /\ active \in Nat
        /\ Append(identities, id) \in Seq(Ids)
        /\ Len(Append(identities, id)) = Len(identities) + 1
        /\ Len(identities) \in Nat
    BY AppendProperties DEF IInv, StateOK
  <2>3. active < Len(identities) + 1
    <3>1. active < Len(identities) \/ active = 0
      BY DEF IInv, StateOK, ActiveInRange
    <3> QED BY <2>2, <3>1
  <2>4. Change /\ TasksOK' /\ OutboxOK'
    BY <1>1, <2>1, <2>2, <2>3, AssignKeeps
  <2>5. params' \in Seq(Ids) /\ poisoned' \in BOOLEAN /\ used' \subseteq Ids
    BY <1>2, <2>1 DEF Fresh, IInv, StateOK
  <2> QED BY <1>2, <2>4, <2>5, StateKept, InboxKept DEF IInv
<1>4. CASE /\ Collect(s, t, identities, active, epoch)
           /\ UNCHANGED <<identities, active, epoch, used>>
  <2>1. Change
    BY <1>4, NoChange
  <2>2. TasksOK' /\ OutboxOK'
    BY <1>1, <1>4, <2>1, CollectKeeps
  <2> QED BY <1>2, <1>4, <2>1, <2>2, RestUnchanged, InboxKept DEF IInv
<1> QED BY <1>3, <1>4 DEF ReplacementMade

\* The loop copies one more identity: with Collected(t) it is one longer.
LEMMA CollectedProperties ==
    ASSUME NEW t \in Tasks, t.id \in Ids
    PROVE  /\ Collected(t) \in Seq(Ids)
           /\ Len(Collected(t)) = Len(t.got) + 1
           /\ \A i \in 1..Len(t.got) : Collected(t)[i] = t.got[i]
           /\ Collected(t)[Len(t.got) + 1] = t.id
           /\ Len(t.got) \in Nat
<1>1. t.got \in Seq(Ids)
  BY DEF Tasks
<1> QED BY <1>1, AppendProperties DEF Collected

\* An await that is over keeps the invariant: the addresses of one identity of a list.
LEMMA NextIdentityKeeps ==
    ASSUME IInv, NEW s \in Slots, NextIdentity(s)
    PROVE  IInv'
<1> DEFINE t == tasks[s]
           i == Len(t.got) + 2
           u == [t EXCEPT !.got = Collected(t), !.id = identities[i]]
<1>1. t \in Tasks /\ TaskOK(t) /\ t.pc = "addresses" /\ t.id \in Ids
  BY TaskType DEF NextIdentity, TaskOK
<1>2. /\ UNCHANGED <<identities, active, epoch>>
      /\ UNCHANGED <<params, poisoned, used, pageVars>> /\ UNCHANGED inbox
  BY DEF NextIdentity
<1>3. i <= t.n /\ i <= Len(identities) /\ Await(s, u, <<>>)
  BY DEF NextIdentity
<1>4. /\ Collected(t) \in Seq(Ids) /\ Len(Collected(t)) = Len(t.got) + 1
      /\ \A j \in 1..Len(t.got) : Collected(t)[j] = t.got[j]
      /\ Collected(t)[Len(t.got) + 1] = t.id
      /\ Len(t.got) \in Nat
  BY <1>1, CollectedProperties
<1>5. identities[i] \in Ids
  <2>1. i \in 1..Len(identities)
    BY <1>3, <1>4
  <2> QED BY <2>1, ElementOfSeq DEF IInv, StateOK
<1>6. /\ u \in Tasks /\ u.pc = "addresses" /\ u.id = identities[i]
      /\ u.got = Collected(t) /\ u.n = t.n /\ u.at = t.at /\ u.ver = t.ver
  BY <1>1, <1>4, <1>5 DEF Tasks
<1>7. PICK v \in Tasks : v = u
  BY <1>6
<1>8. Len(v.got) < v.n
  <2> DEFINE g == Len(t.got)
  <2>1. g \in Nat /\ t.n \in Nat /\ Len(v.got) = g + 1 /\ v.n = t.n /\ g + 2 <= t.n
    BY <1>1, <1>3, <1>4, <1>6, <1>7 DEF Tasks
  <2> HIDE DEF g
  <2> QED BY <2>1
<1>9. v.ver = epoch =>
         /\ v.n = Len(identities) /\ v.at = active
         /\ \A j \in 1..Len(v.got) : v.got[j] = identities[j]
         /\ v.id = identities[Len(v.got) + 1]
  <2> SUFFICES ASSUME v.ver = epoch
               PROVE  /\ v.n = Len(identities) /\ v.at = active
                      /\ \A j \in 1..Len(v.got) : v.got[j] = identities[j]
                      /\ v.id = identities[Len(v.got) + 1]
    OBVIOUS
  <2>1. /\ t.n = Len(identities) /\ t.at = active
        /\ \A j \in 1..Len(t.got) : t.got[j] = identities[j]
        /\ t.id = identities[Len(t.got) + 1]
    BY <1>1, <1>6, <1>7 DEF TaskOK
  <2>2. \A j \in 1..(Len(t.got) + 1) : v.got[j] = identities[j]
    BY <1>4, <1>6, <1>7, <2>1
  <2>3. Len(v.got) + 1 = i
    BY <1>4, <1>6, <1>7
  <2> QED BY <1>4, <1>6, <1>7, <2>1, <2>2, <2>3
<1>10. TaskOK(v)'
  BY <1>1, <1>2, <1>5, <1>6, <1>7, <1>8, <1>9 DEF TaskOK
<1>11. Change
  BY <1>2, NoChange
<1>12. TasksOK' /\ OutboxOK'
  BY <1>3, <1>7, <1>10, <1>11, AwaitSilently
<1> QED BY <1>2, <1>11, <1>12, RestUnchanged, InboxKept DEF IInv

\* An await that is over keeps the invariant: the panic at worker.rs:978.
LEMMA IndexPanicsKeeps ==
    ASSUME IInv, NEW s \in Slots, IndexPanics(s)
    PROVE  IInv'
<1>1. /\ UNCHANGED <<identities, active, epoch>>
      /\ UNCHANGED <<params, used, pageVars>> /\ UNCHANGED inbox
      /\ poisoned' = TRUE
  BY DEF IndexPanics
<1>2. Change
  BY <1>1, NoChange
<1>3. TasksOK' /\ OutboxOK'
  BY <1>2, SilentKeeps DEF IndexPanics
<1>4. StateOK'
  BY <1>1, <1>2, StateKept DEF IInv, StateOK
<1> QED BY <1>1, <1>3, <1>4, InboxKept DEF IInv

\* A complete collection has as many entries as the snapshot counted, so the
\* snapshot of active points into it.
LEMMA PostIdentityListKeeps ==
    ASSUME IInv, NEW s \in Slots, PostIdentityList(s)
    PROVE  IInv'
<1> DEFINE t == tasks[s]
           m == IdentityListMsg(Collected(t), t.at, t.ver)
<1>1. t \in Tasks /\ TaskOK(t) /\ t.pc = "addresses" /\ t.id \in Ids
  BY TaskType DEF PostIdentityList, TaskOK
<1>2. /\ UNCHANGED <<identities, active, epoch>>
      /\ UNCHANGED <<params, poisoned, used, pageVars>> /\ UNCHANGED inbox
  BY DEF PostIdentityList
<1>3. Len(t.got) + 1 = t.n /\ PostList(s, t, Collected(t), t.at, t.ver)
  BY DEF PostIdentityList
<1>4. /\ Collected(t) \in Seq(Ids) /\ Len(Collected(t)) = Len(t.got) + 1
      /\ \A j \in 1..Len(t.got) : Collected(t)[j] = t.got[j]
      /\ Collected(t)[Len(t.got) + 1] = t.id
      /\ Len(t.got) \in Nat
  BY <1>1, CollectedProperties
<1>5. /\ m \in Messages /\ m.list = Collected(t)
      /\ m.active = t.at /\ m.ver = t.ver
  BY <1>1, <1>4 DEF IdentityListMsg, Messages, MsgTypes, Tasks
<1>6. PICK w \in Messages : w = m
  BY <1>5
<1>7. t.ver = epoch => Collected(t) = identities
  <2> SUFFICES ASSUME t.ver = epoch PROVE Collected(t) = identities
    OBVIOUS
  <2>1. /\ t.n = Len(identities)
        /\ \A j \in 1..Len(t.got) : t.got[j] = identities[j]
        /\ t.id = identities[Len(t.got) + 1]
    BY <1>1 DEF TaskOK
  <2>2. identities \in Seq(Ids) /\ Len(Collected(t)) = Len(identities)
    BY <1>3, <1>4, <2>1 DEF IInv, StateOK
  <2>3. \A j \in 1..Len(Collected(t)) : Collected(t)[j] = identities[j]
    BY <1>4, <2>1
  <2> QED BY <1>4, <2>2, <2>3, SeqEqual
<1>8. MessageOK(w)'
  <2>1. t.at < Len(Collected(t)) /\ t.ver <= epoch
    BY <1>1, <1>3, <1>4 DEF TaskOK
  <2>2. t.ver = epoch => t.at = active
    BY <1>1 DEF TaskOK
  <2> QED BY <1>2, <1>5, <1>6, <1>7, <2>1, <2>2 DEF MessageOK
<1>9. Change
  BY <1>2, NoChange
<1>10. <<w>> \in Seq(Messages) /\ Len(<<w>>) = 1 /\ <<w>>[1] = w
  OBVIOUS
<1>11. \A i \in 1..Len(<<w>>) : MessageOK(<<w>>[i])'
  BY <1>8, <1>10 DEF MessageOK
<1>12. Finish(s, <<w>>) \/ ListConversations(s, t, <<w>>)
  BY <1>3, <1>6 DEF PostList
<1>13. TasksOK' /\ OutboxOK'
  BY <1>1, <1>2, <1>9, <1>10, <1>11, <1>12, FinishKeeps, ListConversationsKeeps
<1> QED BY <1>2, <1>9, <1>13, RestUnchanged, InboxKept DEF IInv

\* The calls made for one identity: post one reply, go on, or return.
LEMMA ReplyStepKeeps ==
    ASSUME IInv, NEW s \in Slots,
           UNCHANGED <<identities, active, epoch>>,
           UNCHANGED <<params, poisoned, used, pageVars>>, UNCHANGED inbox,
           TasksOK' /\ OutboxOK'
    PROVE  IInv'
BY NoChange, RestUnchanged, InboxKept DEF IInv

\* A handler that ends with an answer keeps the invariant.
LEMMA AnswerKeeps ==
    ASSUME IInv, NEW s \in Slots, UNCHANGED <<identities, active, epoch>>,
           NEW type \in MsgTypes \ {"identity_list"},
           Finish(s, <<Reply(type, tasks[s].id)>>)
    PROVE  TasksOK' /\ OutboxOK'
<1>1. tasks[s].id \in Ids \cup {NoId}
  BY TaskType DEF Tasks
<1>2. PICK m : m = Reply(type, tasks[s].id)
  OBVIOUS
<1>3. m \in Messages /\ m.type # "identity_list"
  BY <1>1, <1>2, ReplyType
<1> QED BY <1>2, <1>3, NoChange, ReplyKeeps

\* A handler that goes on to another call of the same or another identity.
LEMMA NextCallKeeps ==
    ASSUME IInv, NEW s \in Slots, UNCHANGED <<identities, active, epoch>>,
           NEW t \in Tasks, t.pc \notin {"load", "restore", "addresses"},
           Await(s, t, <<>>)
    PROVE  TasksOK' /\ OutboxOK'
BY NoChange, OtherTasksOK, AwaitSilently

\* An await that is over keeps the invariant: listed conversations.
LEMMA ConversationsListedKeeps ==
    ASSUME IInv, NEW s \in Slots, ConversationsListed(s)
    PROVE  IInv'
<1>1. /\ UNCHANGED <<identities, active, epoch>>
      /\ UNCHANGED <<params, poisoned, used, pageVars>> /\ UNCHANGED inbox
  BY DEF ConversationsListed
<1>2. \/ Finish(s, <<Reply("conversations", tasks[s].id)>>)
      \/ Finish(s, <<ErrorMsg>>)
  BY DEF ConversationsListed
<1>3. TasksOK' /\ OutboxOK'
  BY <1>1, <1>2, AnswerKeeps, NoChange, ErrorKeeps DEF MsgTypes
<1> QED BY <1>1, <1>3, ReplyStepKeeps

\* An await that is over keeps the invariant: an action on a group.
LEMMA GroupActionDoneKeeps ==
    ASSUME IInv, NEW s \in Slots, GroupActionDone(s)
    PROVE  IInv'
<1>1. /\ UNCHANGED <<identities, active, epoch>>
      /\ UNCHANGED <<params, poisoned, used, pageVars>> /\ UNCHANGED inbox
  BY DEF GroupActionDone
<1>2. tasks[s] \in Tasks
  BY TaskType
<1>3. ListConversations(s, tasks[s], <<>>) \/ Finish(s, <<ErrorMsg>>)
  BY DEF GroupActionDone
<1>4. TasksOK' /\ OutboxOK'
  BY <1>1, <1>2, <1>3, ListOnlyKeeps, NoChange, ErrorKeeps
<1> QED BY <1>1, <1>4, ReplyStepKeeps

\* An await that is over keeps the invariant: a change of a member's role.
LEMMA RoleChangeDoneKeeps ==
    ASSUME IInv, NEW s \in Slots, RoleChangeDone(s)
    PROVE  IInv'
<1> DEFINE id2 == ActiveOf(identities, active)
           u   == [tasks[s] EXCEPT !.pc = "members", !.id = id2]
<1>1. /\ UNCHANGED <<identities, active, epoch>>
      /\ UNCHANGED <<params, poisoned, used, pageVars>> /\ UNCHANGED inbox
  BY DEF RoleChangeDone
<1>2. id2 \in Ids \cup {NoId}
  BY DEF ActiveOf, IInv, StateOK
<1>3. u \in Tasks /\ u.pc = "members"
  BY <1>2, TaskType DEF Tasks, PCs
<1>4. Finish(s, <<>>) \/ Finish(s, <<ErrorMsg>>) \/ Await(s, u, <<>>)
  BY DEF RoleChangeDone
<1> HIDE DEF u
<1>5. TasksOK' /\ OutboxOK'
  BY <1>1, <1>3, <1>4, NextCallKeeps, NoChange, SilentKeeps, ErrorKeeps
<1> QED BY <1>1, <1>5, ReplyStepKeeps

\* An await that is over keeps the invariant: listed members.
LEMMA MembersListedKeeps ==
    ASSUME IInv, NEW s \in Slots, MembersListed(s)
    PROVE  IInv'
<1>1. /\ UNCHANGED <<identities, active, epoch>>
      /\ UNCHANGED <<params, poisoned, used, pageVars>> /\ UNCHANGED inbox
  BY DEF MembersListed
<1>2. \/ Finish(s, <<Reply("group_members", tasks[s].id)>>)
      \/ Finish(s, <<>>) \/ Finish(s, <<ErrorMsg>>)
  BY DEF MembersListed
<1>3. TasksOK' /\ OutboxOK'
  BY <1>1, <1>2, AnswerKeeps, NoChange, SilentKeeps, ErrorKeeps DEF MsgTypes
<1> QED BY <1>1, <1>3, ReplyStepKeeps

\* An await that is over keeps the invariant: a sent message.
LEMMA MessageSentKeeps ==
    ASSUME IInv, NEW s \in Slots, MessageSent(s)
    PROVE  IInv'
<1> DEFINE u == [tasks[s] EXCEPT !.pc = "fetch"]
<1>1. /\ UNCHANGED <<identities, active, epoch>>
      /\ UNCHANGED <<params, poisoned, used, pageVars>> /\ UNCHANGED inbox
  BY DEF MessageSent
<1>2. u \in Tasks /\ u.pc = "fetch"
  BY TaskType DEF Tasks, PCs
<1>3. Await(s, u, <<>>) \/ Finish(s, <<ErrorMsg>>)
  BY DEF MessageSent
<1> HIDE DEF u
<1>4. TasksOK' /\ OutboxOK'
  BY <1>1, <1>2, <1>3, NextCallKeeps, NoChange, ErrorKeeps
<1> QED BY <1>1, <1>4, ReplyStepKeeps

\* An await that is over keeps the invariant: fetched messages.
LEMMA MessagesFetchedKeeps ==
    ASSUME IInv, NEW s \in Slots, MessagesFetched(s)
    PROVE  IInv'
<1>1. /\ UNCHANGED <<identities, active, epoch>>
      /\ UNCHANGED <<params, poisoned, used, pageVars>> /\ UNCHANGED inbox
  BY DEF MessagesFetched
<1>2. \/ Finish(s, <<Reply("messages", tasks[s].id)>>)
      \/ Finish(s, <<ErrorMsg>>)
  BY DEF MessagesFetched
<1>3. TasksOK' /\ OutboxOK'
  BY <1>1, <1>2, AnswerKeeps, NoChange, ErrorKeeps DEF MsgTypes
<1> QED BY <1>1, <1>3, ReplyStepKeeps

\* Resuming any handler keeps the invariant.
LEMMA ResumeKeeps ==
    ASSUME IInv, NEW s \in Slots, Resume(s)
    PROVE  IInv'
BY KeyLoadedKeeps, FirstIdentityMadeKeeps, BackoffElapsedKeeps,
   IdentityCreatedKeeps, IdentityRestoredKeeps, ReplacementMadeKeeps,
   NextIdentityKeeps, IndexPanicsKeeps, PostIdentityListKeeps,
   ConversationsListedKeeps, GroupActionDoneKeeps, RoleChangeDoneKeeps,
   MembersListedKeeps, MessageSentKeeps, MessagesFetchedKeeps DEF Resume

-----------------------------------------------------------------------------
(* The page.                                                               *)

\* The page's steps keep what is said of the worker.
LEMMA WorkerUntouched ==
    ASSUME IInv, UNCHANGED workerVars,
           screen' \in {"loading", "ready", "offline"}, sent' \in Nat
    PROVE  StateOK' /\ TasksOK' /\ told' \in Nat
BY DEF IInv, StateOK, TasksOK, OutboxOK, workerVars, ActiveInRange, TaskOK

\* A request the page queues is well-formed.
LEMMA QueuedRequestOK ==
    ASSUME IInv, NEW r \in Requests, r.kind = "restore" => r.id \in Ids,
           inbox' = Append(inbox, r)
    PROVE  InboxOK'
<1>1. inbox \in Seq(Requests)
  BY DEF IInv, InboxOK
<1>2. /\ Append(inbox, r) \in Seq(Requests)
      /\ Len(Append(inbox, r)) = Len(inbox) + 1
      /\ \A i \in 1..Len(inbox) : Append(inbox, r)[i] = inbox[i]
      /\ Append(inbox, r)[Len(inbox) + 1] = r
      /\ Len(inbox) \in Nat
  BY <1>1, AppendProperties
<1>3. \A i \in 1..(Len(inbox) + 1) : i \in 1..Len(inbox) \/ i = Len(inbox) + 1
  BY <1>2
<1> QED BY <1>2, <1>3 DEF IInv, InboxOK

\* Messages that stay queued stay true.
LEMMA OutboxUntouched ==
    ASSUME IInv, UNCHANGED workerVars, UNCHANGED outbox
    PROVE  OutboxOK'
BY DEF IInv, OutboxOK, MessageOK, workerVars

\* Queueing or delivering keeps the invariant: a request of the user.
LEMMA HostSendKeeps == ASSUME IInv, HostSend PROVE IInv'
<1>1. /\ UNCHANGED workerVars /\ UNCHANGED outbox
      /\ screen' = screen /\ sent' = sent + 1
  BY DEF HostSend
<1>2. PICK r \in UserRequests : inbox' = Append(inbox, r)
  BY DEF HostSend
<1>3. r \in Requests /\ (r.kind = "restore" => r.id \in Ids)
  BY UserRequestsAssumption
<1>4. screen' \in {"loading", "ready", "offline"} /\ sent' \in Nat
  BY <1>1 DEF IInv, StateOK
<1> QED BY <1>1, <1>2, <1>3, <1>4, WorkerUntouched, QueuedRequestOK,
           OutboxUntouched DEF IInv

\* Queueing or delivering keeps the invariant: the retry button.
LEMMA HostRetryKeeps == ASSUME IInv, HostRetry PROVE IInv'
<1> DEFINE r == Req("retry", 0, NoId, <<>>)
<1>1. /\ UNCHANGED workerVars /\ UNCHANGED outbox
      /\ screen' = "loading" /\ sent' = sent + 1 /\ inbox' = Append(inbox, r)
  BY DEF HostRetry
<1>2. r \in Requests /\ r.kind # "restore"
  BY EmptySeq DEF Req, Requests, Kinds
<1>3. sent' \in Nat
  BY <1>1 DEF IInv, StateOK
<1> HIDE DEF r
<1> QED BY <1>1, <1>2, <1>3, WorkerUntouched, QueuedRequestOK,
           OutboxUntouched DEF IInv

\* Queueing or delivering keeps the invariant: a message delivered to the page.
LEMMA HostReceiveKeeps == ASSUME IInv, HostReceive PROVE IInv'
<1>1. /\ UNCHANGED workerVars /\ UNCHANGED inbox /\ UNCHANGED sent
      /\ outbox # <<>> /\ outbox' = Tail(outbox)
  BY DEF HostReceive
<1>2. screen' \in {"loading", "ready", "offline"} /\ sent' \in Nat
  BY DEF HostReceive, IInv, StateOK
<1>3. /\ outbox \in Seq(Messages) /\ Tail(outbox) \in Seq(Messages)
      /\ Len(outbox) \in Nat /\ Len(Tail(outbox)) = Len(outbox) - 1
      /\ \A i \in 1..Len(Tail(outbox)) : Tail(outbox)[i] = outbox[i + 1]
  BY <1>1, HeadTailProperties, LenProperties DEF IInv, OutboxOK
<1>4. \A i \in 1..Len(Tail(outbox)) : MessageOK(Tail(outbox)[i])
  <2> SUFFICES ASSUME NEW i \in 1..Len(Tail(outbox))
               PROVE  MessageOK(outbox[i + 1])
    BY <1>3
  <2>1. i + 1 \in 1..Len(outbox)
    BY <1>3
  <2> QED BY <2>1 DEF IInv, OutboxOK
<1>5. OutboxOK'
  BY <1>1, <1>2, <1>3, <1>4, WorkerUntouched DEF OutboxOK, MessageOK, workerVars
<1> QED BY <1>1, <1>2, <1>5, WorkerUntouched, InboxKept DEF IInv

-----------------------------------------------------------------------------
(* The invariant and what follows from it.                                 *)

\* The worker starts in the invariant.
LEMMA InitIInv == Init => IInv
<1> SUFFICES ASSUME Init PROVE IInv
  OBVIOUS
<1>1. StateOK
  <2>1. <<>> \in Seq(Ids) /\ Len(<<>>) = 0
    BY EmptySeq
  <2>2. used \subseteq Ids
    BY InitKeysAssumption, ElementOfSeq DEF Init
  <2> QED BY <2>1, <2>2 DEF Init, StateOK, ActiveInRange
<1>2. TasksOK
  BY IdleType DEF Init, TasksOK, TaskOK
<1>3. OutboxOK
  BY EmptySeq DEF Init, OutboxOK
<1>4. InboxOK
  <2>1. PICK keys \in InitKeys : inbox = <<Req("init", 0, NoId, keys)>>
    BY DEF Init
  <2>2. PICK r : r = Req("init", 0, NoId, keys)
    OBVIOUS
  <2>3. r \in Requests /\ r.kind = "init"
    BY <2>2, InitKeysAssumption DEF Req, Requests, Kinds
  <2> QED BY <2>1, <2>2, <2>3 DEF InboxOK
<1> QED BY <1>1, <1>2, <1>3, <1>4 DEF IInv

\* Every step keeps the invariant.
LEMMA NextIInv == IInv /\ [Next]_vars => IInv'
<1> SUFFICES ASSUME IInv, [Next]_vars PROVE IInv'
  OBVIOUS
<1>1. ASSUME NEW s \in Slots, Dispatch(s) PROVE IInv'
  BY <1>1, DispatchKeeps
<1>2. ASSUME NEW s \in Slots, Resume(s) PROVE IInv'
  BY <1>2, ResumeKeeps
<1>3. CASE HostSend \/ HostRetry \/ HostReceive
  BY <1>3, HostSendKeeps, HostRetryKeeps, HostReceiveKeeps
<1>4. CASE UNCHANGED vars
  <2>1. UNCHANGED workerVars /\ UNCHANGED inbox /\ UNCHANGED outbox
        /\ UNCHANGED screen /\ UNCHANGED sent
    BY <1>4 DEF vars, pageVars
  <2>2. screen' \in {"loading", "ready", "offline"} /\ sent' \in Nat
    BY <2>1 DEF IInv, StateOK
  <2> QED BY <2>1, <2>2, WorkerUntouched, OutboxUntouched, InboxKept DEF IInv
<1> QED BY <1>1, <1>2, <1>3, <1>4 DEF Next

\* The inductive invariant of the worker: however many handlers are in flight
\* and however their awaits interleave, every snapshot they hold is consistent
\* in itself, and exact as long as no other handler has changed the identities.
THEOREM InductiveInvariant == Spec => []IInv
BY InitIInv, NextIInv, PTL DEF Spec

\* Every variable of the worker and of its channels has its type.
THEOREM TypeCorrect == Spec => []TypeOK
<1>1. IInv => TypeOK
  BY DEF IInv, StateOK, TasksOK, OutboxOK, InboxOK, TypeOK
<1> QED BY <1>1, InductiveInvariant, PTL

\* WorkerState.active always points into WorkerState.identities, so
\* WorkerState::active finds an identity whenever there is one (worker.rs:44).
THEOREM ActiveAlwaysInRange == Spec => []ActiveInRange
<1>1. IInv => ActiveInRange
  BY DEF IInv, StateOK
<1> QED BY <1>1, InductiveInvariant, PTL

\* Although post_identity_list_async reads active and the identities at
\* different times, the active_idx it posts points into the list it posts.
THEOREM PostedActiveAlwaysInRange == Spec => []PostedActiveInRange
<1>1. IInv => PostedActiveInRange
  BY DEF IInv, OutboxOK, MessageOK, PostedActiveInRange
<1> QED BY <1>1, InductiveInvariant, PTL

\* An identity list collected after the last change of the identities is the
\* worker's list itself, whatever ran while its addresses were fetched.
THEOREM CurrentListAlwaysExact == Spec => []CurrentListIsExact
<1>1. IInv => CurrentListIsExact
  BY DEF IInv, OutboxOK, MessageOK, CurrentListIsExact
<1> QED BY <1>1, InductiveInvariant, PTL

-----------------------------------------------------------------------------
(* After a panic.                                                          *)

\* Once the RefCell is poisoned no assignment of the identities succeeds.
LEMMA PoisonedAssign ==
    ASSUME poisoned, NEW s, NEW t, NEW ids, NEW at, Assign(s, t, ids, at)
    PROVE  UNCHANGED <<identities, active>>
BY DEF Assign

\* No handler that starts then changes them.
LEMMA PoisonedDispatch ==
    ASSUME poisoned, NEW s \in Slots, Dispatch(s)
    PROVE  UNCHANGED <<identities, active, poisoned>>
<1>1. CASE HandleRemoveIdentity(s)
  BY <1>1 DEF HandleRemoveIdentity
<1>2. CASE HandleSwitchIdentity(s)
  BY <1>2, PoisonedAssign DEF HandleSwitchIdentity
<1>3. CASE ~HandleRemoveIdentity(s) /\ ~HandleSwitchIdentity(s)
  BY <1>3 DEF Dispatch, HandleInit, HandleRetry, HandleCreateIdentity,
              HandleRestoreIdentity, HandleAddress, HandleConsent, HandleList,
              HandleForActive
<1> QED BY <1>1, <1>2, <1>3

\* Nor does the end of a round of loading.
LEMMA PoisonedRoundEnds ==
    ASSUME poisoned, NEW s, NEW t, NEW found, RoundEnds(s, t, found)
    PROVE  UNCHANGED <<identities, active>>
BY PoisonedAssign DEF RoundEnds

\* Nor does any handler that resumes.
LEMMA PoisonedResume ==
    ASSUME IInv, poisoned, NEW s \in Slots, Resume(s)
    PROVE  UNCHANGED <<identities, active, poisoned>>
<1>1. poisoned = TRUE
  BY DEF IInv, StateOK
<1>2. CASE KeyLoaded(s)
  BY <1>2, PoisonedRoundEnds DEF KeyLoaded
<1>3. CASE FirstIdentityMade(s)
  BY <1>3, PoisonedRoundEnds DEF FirstIdentityMade
<1>4. CASE IdentityCreated(s)
  BY <1>4, PoisonedAssign DEF IdentityCreated, Push
<1>5. CASE IdentityRestored(s)
  BY <1>5, PoisonedAssign DEF IdentityRestored, Push
<1>6. CASE ReplacementMade(s)
  BY <1>6, PoisonedAssign DEF ReplacementMade
<1>7. CASE IndexPanics(s)
  BY <1>1, <1>7 DEF IndexPanics
<1>8. CASE \/ BackoffElapsed(s) \/ NextIdentity(s) \/ PostIdentityList(s)
           \/ ConversationsListed(s) \/ GroupActionDone(s) \/ RoleChangeDone(s)
           \/ MembersListed(s) \/ MessageSent(s) \/ MessagesFetched(s)
  BY <1>8 DEF BackoffElapsed, NextIdentity, PostIdentityList,
              ConversationsListed, GroupActionDone, RoleChangeDone,
              MembersListed, MessageSent, MessagesFetched
<1> QED BY <1>2, <1>3, <1>4, <1>5, <1>6, <1>7, <1>8 DEF Resume

\* Once a handler has panicked at worker.rs:978 no handler changes the
\* identities any more, for as long as the worker lives.
THEOREM PanicFreezes == Spec => PanicFreezesIdentities
<1>1. IInv /\ [Next]_vars => [poisoned => UNCHANGED <<identities, active, poisoned>>]_vars
  <2> SUFFICES ASSUME IInv, poisoned, Next
               PROVE  UNCHANGED <<identities, active, poisoned>>
    OBVIOUS
  <2>1. CASE HostSend \/ HostRetry \/ HostReceive
    BY <2>1 DEF HostSend, HostRetry, HostReceive, workerVars
  <2> QED BY <2>1, PoisonedDispatch, PoisonedResume DEF Next
<1> QED BY <1>1, InductiveInvariant, PTL DEF Spec, PanicFreezesIdentities

-----------------------------------------------------------------------------
(* Every handler reports.                                                  *)
(*                                                                         *)
(* The one handler that may end without a word is that of a role change;   *)
(* that what waits at "role" is such a handler is an invariant of its own. *)

RoleOK == \A s \in Slots : tasks[s].pc = "role" => tasks[s].kind = "role"

\* The step of handler s: no other moves, and if s ends, it has said so.
Reports(s) ==
    /\ \A r \in Slots \ {s} : tasks'[r] = tasks[r]
    /\ tasks'[s].pc = "role" => tasks'[s].kind = "role"
    /\ tasks[s] # Idle /\ tasks'[s] = Idle =>
          Len(outbox') > Len(outbox) \/ poisoned' \/ tasks[s].kind = "role"

\* A handler that goes on to another await, whatever it posts before.
LEMMA AwaitReports ==
    ASSUME IInv, NEW s \in Slots, NEW u, NEW msgs, Await(s, u, msgs),
           u.pc # "idle", u.pc = "role" => u.kind = "role"
    PROVE  Reports(s)
<1>1. tasks' = [tasks EXCEPT ![s] = u] /\ tasks \in [Slots -> Tasks]
  BY DEF Await, IInv, TasksOK
<1>2. u # Idle
  BY IdleType
<1> QED BY <1>1, <1>2 DEF Reports

\* A handler that returns: with a message, or where none is due.
LEMMA FinishReports ==
    ASSUME IInv, NEW s \in Slots, NEW msgs \in Seq(Messages), Finish(s, msgs),
           \/ msgs # <<>>
           \/ poisoned' \/ tasks[s].kind = "role" \/ tasks[s] = Idle
    PROVE  Reports(s)
<1>1. /\ tasks' = [tasks EXCEPT ![s] = Idle] /\ tasks \in [Slots -> Tasks]
      /\ outbox' = outbox \o msgs /\ outbox \in Seq(Messages)
  BY DEF Finish, Await, IInv, TasksOK, OutboxOK
<1>2. msgs # <<>> => Len(outbox') > Len(outbox)
  <2>1. Len(outbox') = Len(outbox) + Len(msgs)
    BY <1>1, ConcatProperties
  <2>2. Len(outbox) \in Nat /\ Len(msgs) \in Nat
    BY <1>1, LenProperties
  <2>3. msgs # <<>> => Len(msgs) # 0
    BY EmptySeq
  <2> QED BY <2>1, <2>2, <2>3
<1> QED BY <1>1, <1>2, IdleType DEF Reports

\* With one message.
LEMMA ReplyReports ==
    ASSUME IInv, NEW s \in Slots, NEW m \in Messages, Finish(s, <<m>>)
    PROVE  Reports(s)
<1>1. <<m>> \in Seq(Messages) /\ <<m>> # <<>>
  OBVIOUS
<1> QED BY <1>1, FinishReports

\* With an error.
LEMMA ErrorReports ==
    ASSUME IInv, NEW s \in Slots, Finish(s, <<ErrorMsg>>)
    PROVE  Reports(s)
BY ReplyReports, ErrorType

\* Without any.
LEMMA SilenceReports ==
    ASSUME IInv, NEW s \in Slots, Finish(s, <<>>),
           poisoned' \/ tasks[s].kind = "role" \/ tasks[s] = Idle
    PROVE  Reports(s)
<1>1. <<>> \in Seq(Messages)
  OBVIOUS
<1> QED BY <1>1, FinishReports

\* A handler that goes on for the active identity, or reports that there is
\* none.
LEMMA ForActiveReports ==
    ASSUME IInv, NEW s \in Slots, NEW t \in Tasks, NEW pc \in PCs \ {"idle"},
           pc = "role" => t.kind = "role",
           NEW msgs \in Seq(Messages), ForActive(s, t, pc, msgs)
    PROVE  Reports(s)
<1> DEFINE id == ActiveOf(identities, active)
<1>1. CASE id = NoId
  <2>1. Finish(s, Append(msgs, ErrorMsg))
    BY <1>1 DEF ForActive
  <2>2. Append(msgs, ErrorMsg) \in Seq(Messages) /\ Append(msgs, ErrorMsg) # <<>>
    BY ErrorType, AppendProperties
  <2> QED BY <2>1, <2>2, FinishReports
<1>2. CASE id # NoId
  <2> DEFINE u == [t EXCEPT !.pc = pc, !.id = id]
  <2>1. Await(s, u, msgs)
    BY <1>2 DEF ForActive
  <2>2. u.pc = pc /\ u.kind = t.kind
    BY DEF Tasks
  <2> HIDE DEF u
  <2> QED BY <2>1, <2>2, AwaitReports
<1> QED BY <1>1, <1>2

\* The conversation list at the end of another handler.
LEMMA ListReports ==
    ASSUME IInv, NEW s \in Slots, NEW t \in Tasks, NEW msgs \in Seq(Messages),
           ListConversations(s, t, msgs)
    PROVE  Reports(s)
<1>1. Started(t.kind) \in Tasks
  BY StartedType DEF Tasks
<1>2. "sync" \in PCs \ {"idle"}
  BY DEF PCs
<1> QED BY <1>1, <1>2, ForActiveReports DEF ListConversations

\* With nothing posted before it.
LEMMA ListOnlyReports ==
    ASSUME IInv, NEW s \in Slots, NEW t \in Tasks,
           ListConversations(s, t, <<>>)
    PROVE  Reports(s)
<1>1. <<>> \in Seq(Messages)
  OBVIOUS
<1> QED BY <1>1, ListReports

\* The start of post_identity_list_async.
LEMMA CollectReports ==
    ASSUME IInv, NEW s \in Slots, NEW t \in Tasks, NEW ids,
           NEW at \in Nat, NEW ver \in Nat, Collect(s, t, ids, at, ver)
    PROVE  Reports(s)
<1>1. CASE ids = <<>>
  <2> DEFINE m == IdentityListMsg(<<>>, at, ver)
  <2>1. m \in Messages
    BY EmptySeq DEF IdentityListMsg, Messages, MsgTypes
  <2>2. Finish(s, <<m, ErrorMsg>>)
    BY <1>1 DEF Collect
  <2> HIDE DEF m
  <2>3. <<m, ErrorMsg>> \in Seq(Messages) /\ <<m, ErrorMsg>> # <<>>
    BY <2>1, ErrorType
  <2> QED BY <2>2, <2>3, FinishReports
<1>2. CASE ids # <<>>
  <2> DEFINE u == [Started(t.kind) EXCEPT !.pc = "addresses", !.id = ids[1],
                       !.at = at, !.n = Len(ids), !.ver = ver]
  <2>1. Await(s, u, <<>>)
    BY <1>2 DEF Collect
  <2>2. u.pc = "addresses"
    BY DEF Started, Idle
  <2> HIDE DEF u
  <2> QED BY <2>1, <2>2, AwaitReports
<1> QED BY <1>1, <1>2

\* The assignment of the identities.  Where it panics, the worker is poisoned.
LEMMA AssignReports ==
    ASSUME IInv, UNCHANGED poisoned, NEW s \in Slots, NEW t \in Tasks,
           NEW ids, NEW at \in Nat, Assign(s, t, ids, at)
    PROVE  Reports(s)
<1>1. CASE poisoned
  BY <1>1, SilenceReports DEF Assign
<1>2. CASE ~poisoned
  <2>1. /\ epoch' = IF ids = identities /\ at = active THEN epoch ELSE epoch + 1
        /\ Collect(s, t, ids, at, epoch')
    BY <1>2 DEF Assign
  <2>2. epoch' \in Nat
    BY <2>1 DEF IInv, StateOK
  <2> QED BY <2>1, <2>2, CollectReports
<1> QED BY <1>1, <1>2

\* The end of a round of loading.
LEMMA RoundReports ==
    ASSUME IInv, UNCHANGED poisoned, NEW s \in Slots, NEW t \in Tasks,
           NEW found, RoundEnds(s, t, found)
    PROVE  Reports(s)
<1>1. CASE found # <<>>
  BY <1>1, AssignReports DEF RoundEnds
<1>2. CASE found = <<>>
  <2> DEFINE u == [t EXCEPT !.pc = "backoff", !.got = <<>>, !.todo = <<>>]
  <2>1. Reply("connection_error", NoId) \in Messages
    BY ReplyType DEF MsgTypes
  <2>2. u.pc = "backoff"
    BY DEF Tasks
  <2>3. \/ Finish(s, <<Reply("connection_error", NoId)>>)
        \/ Await(s, u, <<>>)
    BY <1>2 DEF RoundEnds
  <2> HIDE DEF u
  <2> QED BY <2>1, <2>2, <2>3, ReplyReports, AwaitReports
<1> QED BY <1>1, <1>2

\* The first call of handle_init.
LEMMA StartRoundReports ==
    ASSUME IInv, NEW s \in Slots, NEW keys, NEW round,
           StartRound(s, keys, round)
    PROVE  Reports(s)
<1> DEFINE u == [Started("init") EXCEPT
                   !.pc = IF keys = <<>> THEN "make" ELSE "load",
                   !.keys = keys, !.todo = keys, !.round = round]
<1>1. Await(s, u, <<>>)
  BY DEF StartRound
<1>2. u.pc \in {"make", "load"}
  BY DEF Started, Idle
<1> HIDE DEF u
<1> QED BY <1>1, <1>2, AwaitReports

\* The position a request names is one from 0.
LEMMA RequestIndex ==
    ASSUME IInv, NEW s \in Slots, NEW kind, Takes(s, kind)
    PROVE  Head(inbox).idx \in Nat
<1>1. inbox \in Seq(Requests) /\ inbox # <<>>
  BY DEF Takes, IInv, InboxOK
<1>2. Head(inbox) \in Requests
  BY <1>1, HeadTailProperties
<1> QED BY <1>2 DEF Requests

\* A handler that starts: it was not there before, so only the others matter.
LEMMA DispatchReports ==
    ASSUME IInv, NEW s \in Slots, Dispatch(s)
    PROVE  Reports(s)
<1>0. tasks[s] = Idle
  BY DEF Dispatch, HandleInit, HandleRetry, HandleCreateIdentity,
         HandleRestoreIdentity, HandleRemoveIdentity, HandleSwitchIdentity,
         HandleAddress, HandleConsent, HandleList, HandleForActive, Takes
<1>1. CASE HandleInit(s)
  BY <1>0, <1>1, SilenceReports, StartRoundReports DEF HandleInit
<1>2. CASE HandleRetry(s)
  BY <1>0, <1>2, SilenceReports, StartRoundReports DEF HandleRetry
<1>3. CASE HandleCreateIdentity(s)
  <2> DEFINE u == [Started("create") EXCEPT !.pc = "make"]
  <2>1. Await(s, u, <<>>)
    BY <1>3 DEF HandleCreateIdentity
  <2>2. u.pc = "make"
    BY DEF Started, Idle
  <2> HIDE DEF u
  <2> QED BY <2>1, <2>2, AwaitReports
<1>4. CASE HandleRestoreIdentity(s)
  <2> DEFINE u == [Started("restore") EXCEPT !.pc = "restore",
                                             !.id = Head(inbox).id]
  <2>1. Await(s, u, <<>>)
    BY <1>4 DEF HandleRestoreIdentity
  <2>2. u.pc = "restore"
    BY DEF Started, Idle
  <2> HIDE DEF u
  <2> QED BY <2>1, <2>2, AwaitReports
<1>5. CASE HandleRemoveIdentity(s)
  <2> DEFINE idx == Head(inbox).idx
             t   == Started("remove")
             u   == [t EXCEPT !.pc = "make"]
  <2>1. Takes(s, "remove") /\ UNCHANGED poisoned
    BY <1>5 DEF HandleRemoveIdentity
  <2>2. idx \in Nat /\ t \in Tasks /\ u.pc = "make"
    BY <2>1, RequestIndex, StartedType DEF Started, Idle, Kinds
  <2>3. \/ Finish(s, <<>>)
        \/ Await(s, u, <<>>)
        \/ /\ idx < Len(identities)
           /\ Assign(s, t, RemoveAt(identities, idx + 1), ActiveAfterRemove(idx))
    <3>1. Len(identities) \in Nat
      BY LenProperties DEF IInv, StateOK
    <3> QED BY <1>5, <2>2, <3>1 DEF HandleRemoveIdentity
  <2>4. idx < Len(identities) => ActiveAfterRemove(idx) \in Nat
    BY <2>2, ActiveAfterRemoveInRange
  <2> HIDE DEF idx, t, u
  <2> QED BY <1>0, <2>1, <2>2, <2>3, <2>4, SilenceReports, AwaitReports,
             AssignReports
<1>6. CASE HandleSwitchIdentity(s)
  <2> DEFINE idx == Head(inbox).idx
             at  == IF idx < Len(identities) THEN idx ELSE active
  <2>1. Takes(s, "switch") /\ UNCHANGED poisoned
    BY <1>6 DEF HandleSwitchIdentity
  <2>2. at \in Nat
    BY <2>1, RequestIndex DEF IInv, StateOK
  <2>3. Started("switch") \in Tasks
    BY StartedType DEF Kinds
  <2>4. Assign(s, Started("switch"), identities, at)
    BY <1>6 DEF HandleSwitchIdentity
  <2> QED BY <2>1, <2>2, <2>3, <2>4, AssignReports
<1>7. CASE HandleAddress(s)
  BY <1>7, ErrorReports DEF HandleAddress
<1>8. CASE HandleConsent(s)
  <2>1. Started("consent") \in Tasks
    BY StartedType DEF Kinds
  <2> QED BY <1>8, <2>1, ListOnlyReports, ErrorReports DEF HandleConsent
<1>9. CASE HandleList(s)
  <2>1. Started("list") \in Tasks
    BY StartedType DEF Kinds
  <2> QED BY <1>9, <2>1, ListOnlyReports DEF HandleList
<1>10. CASE HandleForActive(s)
  <2>1. PICK kind \in DOMAIN FirstCall :
           ForActive(s, Started(kind), FirstCall[kind], <<>>)
    BY <1>10 DEF HandleForActive
  <2>2. /\ kind \in Kinds /\ FirstCall[kind] \in PCs \ {"idle"}
        /\ FirstCall[kind] = "role" => kind = "role"
    BY DEF FirstCall, Kinds, PCs
  <2>3. Started(kind) \in Tasks /\ Started(kind).kind = kind
    BY <2>2, StartedType
  <2>4. <<>> \in Seq(Messages)
    OBVIOUS
  <2> QED BY <2>1, <2>2, <2>3, <2>4, ForActiveReports
<1> QED BY <1>1, <1>2, <1>3, <1>4, <1>5, <1>6, <1>7, <1>8, <1>9, <1>10
        DEF Dispatch

\* A handler that goes on: at every await it posts something before it ends,
\* panics, or was a role change.
LEMMA ResumeReports ==
    ASSUME IInv, RoleOK, NEW s \in Slots, Resume(s)
    PROVE  Reports(s)
<1> DEFINE t == tasks[s]
<1>0. /\ t \in Tasks /\ t.kind \in Kinds /\ t.at \in Nat /\ t.ver \in Nat
      /\ t.id \in Ids \cup {NoId}
      /\ t.pc = "role" => t.kind = "role"
  BY TaskType DEF Tasks, RoleOK
<1>a. ASSUME NEW type \in MsgTypes
      PROVE  Reply(type, t.id) \in Messages
  BY <1>0, ReplyType
<1>1. CASE KeyLoaded(s)
  <2>1. PICK got :
           IF Len(t.todo) > 1
           THEN Await(s, [t EXCEPT !.got = got, !.todo = Tail(t.todo)], <<>>)
           ELSE RoundEnds(s, t, got)
    BY <1>1 DEF KeyLoaded
  <2> DEFINE u == [t EXCEPT !.got = got, !.todo = Tail(t.todo)]
  <2>2. u.pc = "load" /\ UNCHANGED poisoned
    BY <1>0, <1>1 DEF Tasks, KeyLoaded
  <2>3. Await(s, u, <<>>) \/ RoundEnds(s, t, got)
    BY <2>1
  <2> HIDE DEF u, t
  <2> QED BY <1>0, <2>2, <2>3, AwaitReports, RoundReports
<1>2. CASE FirstIdentityMade(s)
  <2>1. \E found : RoundEnds(s, t, found)
    BY <1>2 DEF FirstIdentityMade
  <2>2. UNCHANGED poisoned
    BY <1>2 DEF FirstIdentityMade
  <2> QED BY <1>0, <2>1, <2>2, RoundReports
<1>3. CASE BackoffElapsed(s)
  BY <1>3, StartRoundReports DEF BackoffElapsed
<1>4. CASE IdentityCreated(s)
  <2>1. \/ \E id \in Ids : Assign(s, t, Append(identities, id), Len(identities))
        \/ Finish(s, <<ErrorMsg>>)
    BY <1>4 DEF IdentityCreated, Push
  <2>2. Len(identities) \in Nat /\ UNCHANGED poisoned
    BY <1>4, LenProperties DEF IInv, StateOK, IdentityCreated
  <2> QED BY <1>0, <2>1, <2>2, AssignReports, ErrorReports
<1>5. CASE IdentityRestored(s)
  <2>1. \/ Assign(s, t, Append(identities, t.id), Len(identities))
        \/ Finish(s, <<ErrorMsg>>)
    BY <1>5 DEF IdentityRestored, Push
  <2>2. Len(identities) \in Nat /\ UNCHANGED poisoned
    BY <1>5, LenProperties DEF IInv, StateOK, IdentityRestored
  <2> QED BY <1>0, <2>1, <2>2, AssignReports, ErrorReports
<1>6. CASE ReplacementMade(s)
  <2>1. \/ \E id \in Ids : Assign(s, t, Append(identities, id), active)
        \/ Collect(s, t, identities, active, epoch)
    BY <1>6 DEF ReplacementMade
  <2>2. active \in Nat /\ epoch \in Nat /\ UNCHANGED poisoned
    BY <1>6 DEF IInv, StateOK, ReplacementMade
  <2> QED BY <1>0, <2>1, <2>2, AssignReports, CollectReports
<1>7. CASE NextIdentity(s)
  <2> DEFINE u == [t EXCEPT !.got = Collected(t),
                            !.id = identities[Len(t.got) + 2]]
  <2>1. t.pc = "addresses" /\ Await(s, u, <<>>)
    BY <1>7 DEF NextIdentity
  <2>2. u.pc = "addresses"
    BY <1>0, <2>1 DEF Tasks
  <2> HIDE DEF u
  <2> QED BY <2>1, <2>2, AwaitReports
<1>8. CASE IndexPanics(s)
  BY <1>8, SilenceReports DEF IndexPanics
<1>9. CASE PostIdentityList(s)
  <2> DEFINE m == IdentityListMsg(Collected(t), t.at, t.ver)
  <2>1. t.pc = "addresses" /\ PostList(s, t, Collected(t), t.at, t.ver)
    BY <1>9 DEF PostIdentityList
  <2>2. Collected(t) \in Seq(Ids)
    BY <1>0, <2>1, TaskType, CollectedProperties DEF TaskOK
  <2>3. m \in Messages
    BY <1>0, <2>2 DEF IdentityListMsg, Messages, MsgTypes
  <2>4. Finish(s, <<m>>) \/ ListConversations(s, t, <<m>>)
    BY <2>1 DEF PostList
  <2> HIDE DEF m
  <2>5. <<m>> \in Seq(Messages)
    BY <2>3
  <2> QED BY <1>0, <2>3, <2>4, <2>5, ReplyReports, ListReports
<1>10. CASE ConversationsListed(s)
  BY <1>a, <1>10, ReplyReports, ErrorReports DEF ConversationsListed, MsgTypes
<1>11. CASE GroupActionDone(s)
  BY <1>0, <1>11, ListOnlyReports, ErrorReports DEF GroupActionDone
<1>12. CASE RoleChangeDone(s)
  <2> DEFINE u == [t EXCEPT !.pc = "members",
                            !.id = ActiveOf(identities, active)]
  <2>1. u.pc = "members"
    BY <1>0 DEF Tasks
  <2>2. /\ t.kind = "role"
        /\ Finish(s, <<>>) \/ Await(s, u, <<>>) \/ Finish(s, <<ErrorMsg>>)
    BY <1>0, <1>12 DEF RoleChangeDone
  <2> HIDE DEF u
  <2> QED BY <2>1, <2>2, SilenceReports, AwaitReports, ErrorReports
<1>13. CASE MembersListed(s)
  BY <1>a, <1>13, ReplyReports, SilenceReports, ErrorReports
     DEF MembersListed, MsgTypes
<1>14. CASE MessageSent(s)
  <2> DEFINE u == [t EXCEPT !.pc = "fetch"]
  <2>1. u.pc = "fetch"
    BY <1>0 DEF Tasks
  <2>2. Await(s, u, <<>>) \/ Finish(s, <<ErrorMsg>>)
    BY <1>14 DEF MessageSent
  <2> HIDE DEF u
  <2> QED BY <2>1, <2>2, AwaitReports, ErrorReports
<1>15. CASE MessagesFetched(s)
  BY <1>a, <1>15, ReplyReports, ErrorReports DEF MessagesFetched, MsgTypes
<1> QED BY <1>1, <1>2, <1>3, <1>4, <1>5, <1>6, <1>7, <1>8, <1>9, <1>10,
           <1>11, <1>12, <1>13, <1>14, <1>15 DEF Resume

\* At the start no handler waits at "role"; no step brings another one there.
LEMMA RoleInvariant == Spec => []RoleOK
<1>1. Init => RoleOK
  BY IdleType DEF Init, RoleOK
<1>2. IInv /\ RoleOK /\ [Next]_vars => RoleOK'
  <2> SUFFICES ASSUME IInv, RoleOK, [Next]_vars
               PROVE  RoleOK'
    OBVIOUS
  <2>1. ASSUME NEW s \in Slots, Dispatch(s) \/ Resume(s)
        PROVE  RoleOK'
    <3>1. Reports(s)
      BY <2>1, DispatchReports, ResumeReports
    <3> QED BY <3>1 DEF Reports, RoleOK
  <2>2. CASE HostSend \/ HostRetry \/ HostReceive \/ UNCHANGED vars
    BY <2>2 DEF HostSend, HostRetry, HostReceive, workerVars, vars, RoleOK
  <2> QED BY <2>1, <2>2 DEF Next
<1> QED BY <1>1, <1>2, InductiveInvariant, PTL DEF Spec

\* A handler that ends has posted an answer or an error, unless the worker has
\* panicked or it was a role change, whose second part fails in silence.
THEOREM EveryHandlerReports == Spec => HandlersReport
<1> DEFINE A == \A s \in Slots :
                   tasks[s] # Idle /\ tasks'[s] = Idle =>
                      \/ Len(outbox') > Len(outbox)
                      \/ poisoned'
                      \/ tasks[s].kind = "role"
<1>1. IInv /\ RoleOK /\ [Next]_vars => [A]_vars
  <2> SUFFICES ASSUME IInv, RoleOK, Next
               PROVE  A
    OBVIOUS
  <2>1. ASSUME NEW s \in Slots, Dispatch(s) \/ Resume(s)
        PROVE  A
    <3>1. Reports(s)
      BY <2>1, DispatchReports, ResumeReports
    <3> QED BY <3>1 DEF Reports
  <2>2. CASE HostSend \/ HostRetry \/ HostReceive
    BY <2>2 DEF HostSend, HostRetry, HostReceive, workerVars
  <2> QED BY <2>1, <2>2 DEF Next
<1> QED BY <1>1, InductiveInvariant, RoleInvariant, PTL
        DEF Spec, HandlersReport

-----------------------------------------------------------------------------
(* The handlers implement IdentityStore.                                   *)
(*                                                                         *)
(* What IInv does not say is why start-up never overwrites identities: the *)
(* right to start is a token, first the "init" in the queue, then the      *)
(* handler that runs it, then its connection_error, then the retry button, *)
(* then a "retry" in the queue.  As long as the token is about there are   *)
(* no identities and no handler that could make any.                       *)

\* A handler of handle_init that has not assigned its identities.
Starting(t) ==
    t.pc \in {"load", "backoff"} \/ (t.pc = "make" /\ t.kind = "init")

\* A request for the start-up that waits in the queue, the handler that runs
\* it, its failure on the way to the page, and the retry button.
Queued(i)  == i \in 1..Len(inbox) /\ inbox[i].kind \in {"init", "retry"}
Running(s) == Starting(tasks[s])
Failed(i)  == i \in 1..Len(outbox) /\ outbox[i].type = "connection_error"
Offered    == screen = "offline"

\* There is one of these at most.
OneStart ==
    /\ \A i, j \in Nat : Queued(i) /\ Queued(j) => i = j
    /\ \A r, s \in Slots : Running(r) /\ Running(s) => r = s
    /\ \A i, j \in Nat : Failed(i) /\ Failed(j) => i = j
    /\ \A i \in Nat, s \in Slots : ~(Queued(i) /\ Running(s))
    /\ \A i, j \in Nat : ~(Queued(i) /\ Failed(j))
    /\ \A i \in Nat : ~(Queued(i) /\ Offered)
    /\ \A i \in Nat, s \in Slots : ~(Failed(i) /\ Running(s))
    /\ \A s \in Slots : ~(Running(s) /\ Offered)
    /\ \A i \in Nat : ~(Failed(i) /\ Offered)

SomeStart ==
    \/ \E i \in Nat : Queued(i)
    \/ \E s \in Slots : Running(s)
    \/ \E i \in Nat : Failed(i)
    \/ Offered

\* As long as there is one, nothing else happens to the identities.
Calm ==
    /\ identities = <<>> /\ active = 0 /\ screen # "ready"
    /\ \A s \in Slots : tasks[s] = Idle \/ Running(s)
    /\ \A i \in 1..Len(inbox) : inbox[i].kind \in {"init", "retry", "list"}
    /\ \A i \in 1..Len(outbox) : outbox[i].type \in {"error", "connection_error"}

Phase == OneStart /\ (SomeStart => Calm)

\* A step after which no handler starts and no start-up has failed that did not
\* before.
StartsNothing ==
    /\ \A r \in Slots : Running(r)' => Running(r)
    /\ \A i \in Nat : Failed(i)' => Failed(i)

\* A step that takes nothing from a queue but its first member at most.
Shifts == \E d \in {0, 1} : \A i \in Nat : Queued(i)' => Queued(i + d)

-----------------------------------------------------------------------------
(* What the helpers of the model do to the token.                          *)

\* The idle handler does not start anything.
LEMMA IdleQuiet == Idle \in Tasks /\ ~Starting(Idle)
BY IdleType DEF Starting

\* A handler that posts no connection_error and is not starting by its next
\* await.
LEMMA AwaitQuiet ==
    ASSUME IInv, NEW s \in Slots, NEW u, ~Starting(u),
           NEW msgs \in Seq(Messages),
           \A i \in 1..Len(msgs) : msgs[i].type # "connection_error",
           Await(s, u, msgs)
    PROVE  StartsNothing
<1>1. /\ tasks' = [tasks EXCEPT ![s] = u] /\ outbox' = outbox \o msgs
      /\ tasks \in [Slots -> Tasks] /\ outbox \in Seq(Messages)
  BY DEF Await, IInv, TasksOK, OutboxOK
<1>2. \A r \in Slots : Running(r)' => Running(r)
  BY <1>1 DEF Running
<1>3. ASSUME NEW i \in Nat, Failed(i)'
      PROVE  Failed(i)
  <2>1. i \in 1..Len(outbox \o msgs) /\ (outbox \o msgs)[i].type = "connection_error"
    BY <1>1, <1>3 DEF Failed
  <2>2. Len(outbox \o msgs) = Len(outbox) + Len(msgs)
    BY <1>1, ConcatProperties
  <2>3. Len(outbox) \in Nat /\ Len(msgs) \in Nat
    BY <1>1, LenProperties
  <2>4. CASE i <= Len(outbox)
    <3>1. i \in 1..Len(outbox)
      BY <2>1, <2>2, <2>3, <2>4
    <3>2. (outbox \o msgs)[i] = outbox[i]
      BY <1>1, <2>1, <2>2, <2>3, <2>4, ConcatProperties
    <3> QED BY <2>1, <3>1, <3>2 DEF Failed
  <2>5. CASE i > Len(outbox)
    <3>1. (outbox \o msgs)[i] = msgs[i - Len(outbox)]
      BY <1>1, <2>1, <2>2, <2>3, <2>5, ConcatProperties
    <3>2. i - Len(outbox) \in 1..Len(msgs)
      BY <2>1, <2>2, <2>3, <2>5
    <3> QED BY <2>1, <3>1, <3>2
  <2> QED BY <2>3, <2>4, <2>5
<1> QED BY <1>2, <1>3 DEF StartsNothing

\* A handler that waits without having posted anything.
LEMMA SilentQuiet ==
    ASSUME IInv, NEW s \in Slots, NEW u, ~Starting(u), Await(s, u, <<>>)
    PROVE  StartsNothing
<1>1. <<>> \in Seq(Messages) /\ 1..Len(<<>>) = {}
  OBVIOUS
<1> QED BY <1>1, AwaitQuiet

\* A handler that returns, without a message or with one.
LEMMA EndQuiet ==
    ASSUME IInv, NEW s \in Slots, Finish(s, <<>>)
    PROVE  StartsNothing
BY SilentQuiet, IdleQuiet DEF Finish

\* The message must not be connection_error.
LEMMA ReplyQuiet ==
    ASSUME IInv, NEW s \in Slots, NEW m \in Messages,
           m.type # "connection_error", Finish(s, <<m>>)
    PROVE  StartsNothing
<1>1. <<m>> \in Seq(Messages) /\ Len(<<m>>) = 1 /\ <<m>>[1] = m
  OBVIOUS
<1>2. \A i \in 1..Len(<<m>>) : <<m>>[i].type # "connection_error"
  BY <1>1
<1>3. Await(s, Idle, <<m>>)
  BY DEF Finish
<1> QED BY <1>1, <1>2, <1>3, AwaitQuiet, IdleQuiet

\* An error is one such message.
LEMMA ErrorQuiet ==
    ASSUME IInv, NEW s \in Slots, Finish(s, <<ErrorMsg>>)
    PROVE  StartsNothing
BY ReplyQuiet, ErrorType

\* A handler that goes on with a call for the active identity.
LEMMA ForActiveQuiet ==
    ASSUME IInv, NEW s \in Slots, NEW t \in Tasks,
           NEW pc \in PCs \ {"load", "backoff", "make"},
           NEW msgs \in Seq(Messages),
           \A i \in 1..Len(msgs) : msgs[i].type # "connection_error",
           ForActive(s, t, pc, msgs)
    PROVE  StartsNothing
<1> DEFINE id == ActiveOf(identities, active)
<1>1. CASE id = NoId
  <2>1. Await(s, Idle, Append(msgs, ErrorMsg))
    BY <1>1 DEF ForActive, Finish
  <2>2. /\ Append(msgs, ErrorMsg) \in Seq(Messages)
        /\ Len(Append(msgs, ErrorMsg)) = Len(msgs) + 1 /\ Len(msgs) \in Nat
        /\ \A i \in 1..Len(msgs) : Append(msgs, ErrorMsg)[i] = msgs[i]
        /\ Append(msgs, ErrorMsg)[Len(msgs) + 1] = ErrorMsg
    BY ErrorType, AppendProperties, LenProperties
  <2>3. ASSUME NEW i \in 1..Len(Append(msgs, ErrorMsg))
        PROVE  Append(msgs, ErrorMsg)[i].type # "connection_error"
    <3>1. CASE i \in 1..Len(msgs)
      BY <2>2, <3>1
    <3>2. CASE i = Len(msgs) + 1
      BY <2>2, <3>2, ErrorType
    <3> QED BY <2>2, <3>1, <3>2
  <2> QED BY <2>1, <2>2, <2>3, IdleQuiet, AwaitQuiet
<1>2. CASE id # NoId
  <2>1. Await(s, [t EXCEPT !.pc = pc, !.id = id], msgs)
    BY <1>2 DEF ForActive
  <2>2. ~Starting([t EXCEPT !.pc = pc, !.id = id])
    BY DEF Starting, Tasks
  <2> QED BY <2>1, <2>2, AwaitQuiet
<1> QED BY <1>1, <1>2

\* handle_list as the tail of another handler.
LEMMA ListQuiet ==
    ASSUME IInv, NEW s \in Slots, NEW t \in Tasks, NEW msgs \in Seq(Messages),
           \A i \in 1..Len(msgs) : msgs[i].type # "connection_error",
           ListConversations(s, t, msgs)
    PROVE  StartsNothing
<1>1. Started(t.kind) \in Tasks
  BY StartedType DEF Tasks
<1>2. "sync" \in PCs \ {"load", "backoff", "make"}
  BY DEF PCs
<1> QED BY <1>1, <1>2, ForActiveQuiet DEF ListConversations

\* Nothing need be posted before.
LEMMA ListOnlyQuiet ==
    ASSUME IInv, NEW s \in Slots, NEW t \in Tasks,
           ListConversations(s, t, <<>>)
    PROVE  StartsNothing
<1>1. <<>> \in Seq(Messages) /\ 1..Len(<<>>) = {}
  OBVIOUS
<1> QED BY <1>1, ListQuiet

\* The start of post_identity_list_async.
LEMMA CollectQuiet ==
    ASSUME IInv, NEW s \in Slots, NEW t \in Tasks,
           NEW ids, NEW at \in Nat, NEW ver \in Nat,
           Collect(s, t, ids, at, ver)
    PROVE  StartsNothing
<1>1. CASE ids = <<>>
  <2> DEFINE m == IdentityListMsg(<<>>, at, ver)
  <2>1. m \in Messages /\ m.type = "identity_list"
    BY EmptySeq DEF IdentityListMsg, Messages, MsgTypes
  <2> HIDE DEF m
  <2>2. /\ <<m, ErrorMsg>> \in Seq(Messages) /\ Len(<<m, ErrorMsg>>) = 2
        /\ <<m, ErrorMsg>>[1] = m /\ <<m, ErrorMsg>>[2] = ErrorMsg
    BY <2>1, ErrorType
  <2>3. \A i \in 1..2 : <<m, ErrorMsg>>[i].type # "connection_error"
    BY <2>1, <2>2, ErrorType
  <2>4. Await(s, Idle, <<m, ErrorMsg>>)
    BY <1>1 DEF Collect, Finish, m
  <2> QED BY <2>2, <2>3, <2>4, IdleQuiet, AwaitQuiet
<1>2. CASE ids # <<>>
  <2> DEFINE u == [Started(t.kind) EXCEPT !.pc = "addresses", !.id = ids[1],
                       !.at = at, !.n = Len(ids), !.ver = ver]
  <2>1. Await(s, u, <<>>)
    BY <1>2 DEF Collect
  <2>2. u.pc = "addresses"
    BY StartedType DEF Started, Idle
  <2>3. ~Starting(u)
    BY <2>2 DEF Starting
  <2> QED BY <2>1, <2>3, SilentQuiet
<1> QED BY <1>1, <1>2

\* borrow_mut, the assignment and the refresh.
LEMMA AssignQuiet ==
    ASSUME IInv, NEW s \in Slots, NEW t \in Tasks, NEW ids, NEW at \in Nat,
           Assign(s, t, ids, at)
    PROVE  StartsNothing
<1>1. CASE poisoned
  BY <1>1, EndQuiet DEF Assign
<1>2. CASE ~poisoned
  <2>1. /\ epoch' = IF ids = identities /\ at = active THEN epoch ELSE epoch + 1
        /\ Collect(s, t, ids, at, epoch')
    BY <1>2 DEF Assign
  <2>2. epoch' \in Nat
    BY <2>1 DEF IInv, StateOK
  <2> QED BY <2>1, <2>2, CollectQuiet
<1> QED BY <1>1, <1>2

-----------------------------------------------------------------------------
(* The handlers that have nothing to do with the start-up.                 *)

\* Taking a request shortens the queue by its head.
LEMMA TakesShifts ==
    ASSUME IInv, NEW s \in Slots, NEW kind, Takes(s, kind)
    PROVE  /\ \A i \in Nat : Queued(i)' => Queued(i + 1)
           /\ inbox' = Tail(inbox) /\ Len(inbox) \in Nat \ {0}
           /\ inbox[1].kind = kind /\ Head(inbox) \in Requests
           /\ Len(inbox') = Len(inbox) - 1
           /\ \A i \in 1..Len(inbox') : inbox'[i] = inbox[i + 1]
<1>1. inbox \in Seq(Requests) /\ inbox # <<>> /\ inbox' = Tail(inbox)
      /\ Head(inbox).kind = kind
  BY DEF Takes, IInv, InboxOK
<1>2. /\ Head(inbox) \in Requests /\ Head(inbox) = inbox[1]
      /\ Len(Tail(inbox)) = Len(inbox) - 1 /\ Len(inbox) \in Nat
      /\ \A i \in 1..Len(Tail(inbox)) : Tail(inbox)[i] = inbox[i + 1]
  BY <1>1, HeadTailProperties
<1>3. Len(inbox) # 0
  BY <1>1, EmptySeq
<1> QED BY <1>1, <1>2, <1>3 DEF Queued

\* The start of every other handler.
LEMMA DispatchQuiet ==
    ASSUME IInv, NEW s \in Slots, Dispatch(s),
           ~HandleInit(s), ~HandleRetry(s)
    PROVE  /\ StartsNothing /\ screen' = screen
           /\ \A i \in Nat : Queued(i)' => Queued(i + 1)
<1>1. CASE HandleCreateIdentity(s)
  <2>1. ~Starting([Started("create") EXCEPT !.pc = "make"])
    BY DEF Starting, Started, Idle
  <2> QED BY <1>1, <2>1, SilentQuiet, TakesShifts
          DEF HandleCreateIdentity, pageVars
<1>2. CASE HandleRestoreIdentity(s)
  <2> DEFINE u == [Started("restore") EXCEPT !.pc = "restore",
                                             !.id = Head(inbox).id]
  <2>1. ~Starting(u)
    BY DEF Starting, Started, Idle
  <2> QED BY <1>2, <2>1, SilentQuiet, TakesShifts
          DEF HandleRestoreIdentity, pageVars
<1>3. CASE HandleRemoveIdentity(s)
  <2> DEFINE idx == Head(inbox).idx
             t   == Started("remove")
  <2>1. Takes(s, "remove") /\ screen' = screen
    BY <1>3 DEF HandleRemoveIdentity, pageVars
  <2>2. idx \in Nat /\ t \in Tasks /\ ~Starting([t EXCEPT !.pc = "make"])
    BY <2>1, TakesShifts, StartedType DEF Requests, Starting, Started, Idle, Kinds
  <2>3. \/ Finish(s, <<>>)
        \/ Await(s, [t EXCEPT !.pc = "make"], <<>>)
        \/ /\ idx < Len(identities)
           /\ Assign(s, t, RemoveAt(identities, idx + 1), ActiveAfterRemove(idx))
    <3>1. Len(identities) \in Nat
      BY LenProperties DEF IInv, StateOK
    <3> QED BY <1>3, <2>2, <3>1 DEF HandleRemoveIdentity
  <2>4. idx < Len(identities) => ActiveAfterRemove(idx) \in Nat
    BY <2>2, ActiveAfterRemoveInRange
  <2>5. StartsNothing
    <3> HIDE DEF idx, t
    <3> QED BY <2>2, <2>3, <2>4, EndQuiet, SilentQuiet, AssignQuiet
  <2> QED BY <2>1, <2>5, TakesShifts
<1>4. CASE HandleSwitchIdentity(s)
  <2> DEFINE idx == Head(inbox).idx
             at  == IF idx < Len(identities) THEN idx ELSE active
  <2>1. Takes(s, "switch") /\ screen' = screen
    BY <1>4 DEF HandleSwitchIdentity, pageVars
  <2>2. at \in Nat
    BY <2>1, TakesShifts DEF Requests, IInv, StateOK
  <2>3. Started("switch") \in Tasks
    BY StartedType DEF Kinds
  <2>4. Assign(s, Started("switch"), identities, at)
    BY <1>4 DEF HandleSwitchIdentity
  <2>5. StartsNothing
    BY <2>2, <2>3, <2>4, AssignQuiet
  <2> QED BY <2>1, <2>5, TakesShifts
<1>5. CASE HandleAddress(s)
  BY <1>5, ErrorQuiet, TakesShifts DEF HandleAddress, pageVars
<1>6. CASE HandleConsent(s)
  <2>1. Started("consent") \in Tasks
    BY StartedType DEF Kinds
  <2> QED BY <1>6, <2>1, ListOnlyQuiet, ErrorQuiet, TakesShifts
          DEF HandleConsent, pageVars
<1>7. CASE HandleList(s)
  <2>1. Started("list") \in Tasks
    BY StartedType DEF Kinds
  <2> QED BY <1>7, <2>1, ListOnlyQuiet, TakesShifts DEF HandleList, pageVars
<1>8. CASE HandleForActive(s)
  <2>1. PICK kind \in DOMAIN FirstCall :
           /\ Takes(s, kind)
           /\ ForActive(s, Started(kind), FirstCall[kind], <<>>)
           /\ UNCHANGED pageVars
    BY <1>8 DEF HandleForActive
  <2>2. /\ kind \in Kinds
        /\ FirstCall[kind] \in PCs \ {"load", "backoff", "make"}
    BY DEF FirstCall, Kinds, PCs
  <2>3. Started(kind) \in Tasks
    BY <2>2, StartedType
  <2>4. <<>> \in Seq(Messages) /\ 1..Len(<<>>) = {}
    OBVIOUS
  <2>5. StartsNothing
    BY <2>1, <2>2, <2>3, <2>4, ForActiveQuiet
  <2> QED BY <2>1, <2>5, TakesShifts DEF pageVars
<1> QED BY <1>1, <1>2, <1>3, <1>4, <1>5, <1>6, <1>7, <1>8 DEF Dispatch

\* The types a handler in flight has.
LEMMA FlightType ==
    ASSUME IInv, NEW s \in Slots
    PROVE  /\ tasks[s] \in Tasks /\ tasks[s].kind \in Kinds
           /\ tasks[s].at \in Nat /\ tasks[s].ver \in Nat
           /\ tasks[s].id \in Ids \cup {NoId} /\ tasks[s].got \in Seq(Ids)
           /\ tasks[s].pc = "addresses" => tasks[s].id \in Ids
BY TaskType DEF Tasks, TaskOK

\* A handler in flight that only goes on with another call.
LEMMA NextCallQuiet ==
    ASSUME IInv, NEW s \in Slots, NEW u,
           u.pc \notin {"load", "backoff", "make"}, Await(s, u, <<>>)
    PROVE  StartsNothing
BY SilentQuiet DEF Starting

\* A reply is not a connection_error unless it is made as one.
LEMMA OneReplyQuiet ==
    ASSUME IInv, NEW s \in Slots, NEW type \in MsgTypes \ {"connection_error"},
           Finish(s, <<Reply(type, tasks[s].id)>>)
    PROVE  StartsNothing
BY FlightType, ReplyType, ReplyQuiet

\* The end of post_identity_list_async.
LEMMA PostListQuiet ==
    ASSUME IInv, NEW s \in Slots, NEW t \in Tasks, NEW list \in Seq(Ids),
           NEW at \in Nat, NEW ver \in Nat, PostList(s, t, list, at, ver)
    PROVE  StartsNothing
<1> DEFINE m == IdentityListMsg(list, at, ver)
<1>1. m \in Messages /\ m.type = "identity_list"
  BY DEF IdentityListMsg, Messages, MsgTypes
<1> HIDE DEF m
<1>2. <<m>> \in Seq(Messages) /\ Len(<<m>>) = 1 /\ <<m>>[1] = m
  BY <1>1
<1>3. \A i \in 1..Len(<<m>>) : <<m>>[i].type # "connection_error"
  BY <1>1, <1>2
<1>4. Finish(s, <<m>>) \/ ListConversations(s, t, <<m>>)
  BY DEF PostList, m
<1> QED BY <1>1, <1>2, <1>3, <1>4, ReplyQuiet, ListQuiet

\* Every handler in flight but the one that starts.
LEMMA ResumeQuiet ==
    ASSUME IInv, NEW s \in Slots, Resume(s), ~Running(s)
    PROVE  StartsNothing /\ screen' = screen /\ inbox' = inbox
<1> DEFINE t == tasks[s]
<1>1. t \in Tasks
  BY FlightType
<1>2. t.pc \notin {"load", "backoff"} /\ ~(t.pc = "make" /\ t.kind = "init")
  BY DEF Running, Starting
<1>3. CASE IdentityCreated(s)
  <2>1. \/ \E id \in Ids : Assign(s, t, Append(identities, id), Len(identities))
        \/ Finish(s, <<ErrorMsg>>)
    BY <1>3 DEF IdentityCreated, Push
  <2>2. Len(identities) \in Nat
    BY LenProperties DEF IInv, StateOK
  <2>3. StartsNothing
    BY <1>1, <2>1, <2>2, AssignQuiet, ErrorQuiet
  <2> QED BY <1>3, <2>3 DEF IdentityCreated, pageVars
<1>4. CASE IdentityRestored(s)
  <2>1. \/ Assign(s, t, Append(identities, t.id), Len(identities))
        \/ Finish(s, <<ErrorMsg>>)
    BY <1>4 DEF IdentityRestored, Push
  <2>2. Len(identities) \in Nat
    BY LenProperties DEF IInv, StateOK
  <2>3. StartsNothing
    BY <1>1, <2>1, <2>2, AssignQuiet, ErrorQuiet
  <2> QED BY <1>4, <2>3 DEF IdentityRestored, pageVars
<1>5. CASE ReplacementMade(s)
  <2>1. \/ \E id \in Ids : Assign(s, t, Append(identities, id), active)
        \/ Collect(s, t, identities, active, epoch)
    BY <1>5 DEF ReplacementMade
  <2>2. active \in Nat /\ epoch \in Nat
    BY DEF IInv, StateOK
  <2>3. StartsNothing
    BY <1>1, <2>1, <2>2, AssignQuiet, CollectQuiet
  <2> QED BY <1>5, <2>3 DEF ReplacementMade, pageVars
<1>6. CASE NextIdentity(s)
  <2> DEFINE u == [t EXCEPT !.got = Collected(t),
                            !.id = identities[Len(t.got) + 2]]
  <2>1. t.pc = "addresses" /\ Await(s, u, <<>>)
    BY <1>6 DEF NextIdentity
  <2>2. u.pc = "addresses"
    BY <1>1, <2>1 DEF Tasks
  <2> HIDE DEF u
  <2>3. StartsNothing
    BY <2>1, <2>2, NextCallQuiet
  <2> QED BY <1>6, <2>3 DEF NextIdentity, pageVars
<1>7. CASE IndexPanics(s)
  BY <1>7, EndQuiet DEF IndexPanics, pageVars
<1>8. CASE PostIdentityList(s)
  <2>1. t.pc = "addresses" /\ PostList(s, t, Collected(t), t.at, t.ver)
    BY <1>8 DEF PostIdentityList
  <2>2. Collected(t) \in Seq(Ids)
    BY <2>1, FlightType, CollectedProperties
  <2>3. StartsNothing
    BY <2>1, <2>2, FlightType, PostListQuiet
  <2> QED BY <1>8, <2>3 DEF PostIdentityList, pageVars
<1>9. CASE ConversationsListed(s)
  <2>1. "conversations" \in MsgTypes \ {"connection_error"}
    BY DEF MsgTypes
  <2> QED BY <1>9, <2>1, OneReplyQuiet, ErrorQuiet
          DEF ConversationsListed, pageVars
<1>10. CASE GroupActionDone(s)
  BY <1>1, <1>10, ListOnlyQuiet, ErrorQuiet DEF GroupActionDone, pageVars
<1>11. CASE RoleChangeDone(s)
  <2> DEFINE u == [t EXCEPT !.pc = "members",
                            !.id = ActiveOf(identities, active)]
  <2>1. u.pc = "members"
    BY <1>1 DEF Tasks
  <2>2. Finish(s, <<>>) \/ Await(s, u, <<>>) \/ Finish(s, <<ErrorMsg>>)
    BY <1>11 DEF RoleChangeDone
  <2> HIDE DEF u
  <2>3. StartsNothing
    BY <2>1, <2>2, EndQuiet, NextCallQuiet, ErrorQuiet
  <2> QED BY <1>11, <2>3 DEF RoleChangeDone, pageVars
<1>12. CASE MembersListed(s)
  <2>1. "group_members" \in MsgTypes \ {"connection_error"}
    BY DEF MsgTypes
  <2>2. \/ Finish(s, <<Reply("group_members", tasks[s].id)>>)
        \/ Finish(s, <<>>) \/ Finish(s, <<ErrorMsg>>)
    BY <1>12 DEF MembersListed
  <2>3. StartsNothing
    BY <2>1, <2>2, OneReplyQuiet, EndQuiet, ErrorQuiet
  <2> QED BY <1>12, <2>3 DEF MembersListed, pageVars
<1>13. CASE MessageSent(s)
  <2>1. [t EXCEPT !.pc = "fetch"].pc = "fetch"
    BY <1>1 DEF Tasks
  <2>2. Await(s, [t EXCEPT !.pc = "fetch"], <<>>) \/ Finish(s, <<ErrorMsg>>)
    BY <1>13 DEF MessageSent
  <2>3. StartsNothing
    BY <2>1, <2>2, NextCallQuiet, ErrorQuiet
  <2> QED BY <1>13, <2>3 DEF MessageSent, pageVars
<1>14. CASE MessagesFetched(s)
  <2>1. "messages" \in MsgTypes \ {"connection_error"}
    BY DEF MsgTypes
  <2> QED BY <1>14, <2>1, OneReplyQuiet, ErrorQuiet
          DEF MessagesFetched, pageVars
<1>15. ~KeyLoaded(s) /\ ~FirstIdentityMade(s) /\ ~BackoffElapsed(s)
  BY <1>2 DEF KeyLoaded, FirstIdentityMade, BackoffElapsed
<1> QED
  BY <1>3, <1>4, <1>5, <1>6, <1>7, <1>8, <1>9, <1>10, <1>11, <1>12, <1>13,
     <1>14, <1>15 DEF Resume

-----------------------------------------------------------------------------
(* The token.                                                              *)

\* At the start the "init" in the queue is the token.
LEMMA PhaseInit == Init => Phase
<1> SUFFICES ASSUME Init PROVE Phase
  OBVIOUS
<1>1. PICK keys \in InitKeys : inbox = <<Req("init", 0, NoId, keys)>>
  BY DEF Init
<1>2. Len(inbox) = 1 /\ inbox[1].kind = "init"
  BY <1>1 DEF Req
<1>3. /\ \A s \in Slots : tasks[s] = Idle /\ ~Running(s)
      /\ outbox = <<>> /\ Len(outbox) = 0
      /\ screen = "loading" /\ identities = <<>> /\ active = 0
  BY IdleQuiet DEF Init, Running
<1>4. \A i \in Nat : ~Failed(i) /\ (Queued(i) => i = 1)
  BY <1>2, <1>3 DEF Failed, Queued
<1>5. OneStart
  BY <1>3, <1>4 DEF OneStart, Offered
<1>6. Calm
  BY <1>2, <1>3 DEF Calm
<1> QED BY <1>5, <1>6 DEF Phase

\* Without a token every step is one of those that make none.
LEMMA NoneStays ==
    ASSUME IInv, Next, ~SomeStart
    PROVE  ~SomeStart'
<1>1. StartsNothing /\ (Offered' => Offered) /\ Shifts
  <2>1. ASSUME NEW s \in Slots, Dispatch(s)
        PROVE  StartsNothing /\ screen' = screen /\ Shifts
    <3>1. ~HandleInit(s) /\ ~HandleRetry(s)
      <4>1. ASSUME Takes(s, "init") \/ Takes(s, "retry")
            PROVE  FALSE
        <5>1. Queued(1)
          BY <4>1, TakesShifts DEF Queued
        <5> QED BY <5>1 DEF SomeStart
      <4> QED BY <4>1 DEF HandleInit, HandleRetry
    <3> QED BY <2>1, <3>1, DispatchQuiet DEF Shifts
  <2>2. ASSUME NEW s \in Slots, Resume(s)
        PROVE  StartsNothing /\ screen' = screen /\ Shifts
    <3>1. StartsNothing /\ screen' = screen /\ inbox' = inbox
      BY <2>2, ResumeQuiet DEF SomeStart
    <3>2. \A i \in Nat : Queued(i)' => Queued(i + 0)
      BY <3>1 DEF Queued
    <3> QED BY <3>1, <3>2 DEF Shifts
  <2>3. CASE HostSend
    <3>1. PICK r \in UserRequests : inbox' = Append(inbox, r)
      BY <2>3 DEF HostSend
    <3>2. r \in Requests /\ r.kind \notin {"init", "retry"}
      BY UserRequestsAssumption
    <3>3. /\ Len(inbox') = Len(inbox) + 1 /\ Len(inbox) \in Nat
          /\ inbox'[Len(inbox) + 1] = r
          /\ \A i \in 1..Len(inbox) : inbox'[i] = inbox[i]
      BY <3>1, <3>2, AppendProperties, LenProperties DEF IInv, InboxOK
    <3>4. \A i \in Nat : Queued(i)' => Queued(i + 0)
      BY <3>2, <3>3 DEF Queued
    <3>5. tasks' = tasks /\ outbox' = outbox /\ screen' = screen
      BY <2>3 DEF HostSend, workerVars
    <3> QED BY <3>4, <3>5 DEF Shifts, StartsNothing, Running, Failed, Offered
  <2>4. CASE HostRetry
    BY <2>4 DEF HostRetry, SomeStart, Offered
  <2>5. CASE HostReceive
    <3>1. outbox \in Seq(Messages) /\ outbox # <<>> /\ outbox' = Tail(outbox)
      BY <2>5 DEF HostReceive, IInv, OutboxOK
    <3>2. /\ Head(outbox) = outbox[1] /\ Len(outbox) \in Nat \ {0}
          /\ Len(outbox') = Len(outbox) - 1
          /\ \A i \in 1..Len(outbox') : outbox'[i] = outbox[i + 1]
      BY <3>1, HeadTailProperties, EmptySeq, LenProperties
    <3>3. \A i \in Nat : ~Failed(i)
      BY DEF SomeStart
    <3>4. Head(outbox).type # "connection_error"
      BY <3>2, <3>3 DEF Failed
    <3>5. tasks' = tasks /\ inbox' = inbox /\ (screen' = screen \/ screen' = "ready")
      BY <2>5, <3>4 DEF HostReceive, workerVars
    <3>6. \A i \in Nat : Failed(i)' => Failed(i + 1)
      BY <3>2 DEF Failed
    <3>7. StartsNothing
      BY <3>3, <3>5, <3>6 DEF StartsNothing, Running
    <3>8. \A i \in Nat : Queued(i)' => Queued(i + 0)
      BY <3>5 DEF Queued
    <3> QED BY <3>5, <3>7, <3>8 DEF Shifts, Offered
  <2> QED BY <2>1, <2>2, <2>3, <2>4, <2>5 DEF Next, Offered
<1> QED BY <1>1 DEF SomeStart, StartsNothing, Shifts

\* The token can only be passed on, and the rest stays calm: a step that starts
\* nothing new.
LEMMA FewerKeep ==
    ASSUME OneStart, Calm', NEW d \in {0, 1}, NEW e \in {0, 1},
           \A i \in Nat : Queued(i)' => Queued(i + d),
           \A i \in Nat : Failed(i)' => Failed(i + e),
           \A s \in Slots : Running(s)' => Running(s),
           Offered' => Offered
    PROVE  Phase'
<1>1. \A i, j \in Nat : i + d \in Nat /\ i + e \in Nat
                        /\ (i + d = j + d => i = j) /\ (i + e = j + e => i = j)
  OBVIOUS
<1>2. OneStart'
  BY <1>1 DEF OneStart
<1> QED BY <1>2 DEF Phase

\* Calm and somewhere the token: no identities, and nobody but the token's
\* holder at work.
LEMMA CalmFields ==
    ASSUME IInv, Phase, SomeStart
    PROVE  /\ Calm /\ OneStart /\ identities = <<>> /\ active = 0
           /\ ActiveOf(identities, active) = NoId
BY DEF Phase, Calm, ActiveOf

\* A call for the active identity has none to call for.
LEMMA ForNobody ==
    ASSUME IInv, Phase, SomeStart, NEW s \in Slots, HandleList(s)
    PROVE  Takes(s, "list") /\ Finish(s, <<ErrorMsg>>)
<1>1. Append(<<>>, ErrorMsg) = <<ErrorMsg>>
  OBVIOUS
<1> QED BY <1>1, CalmFields DEF HandleList, ListConversations, ForActive

\* One message more in the outbox.
LEMMA OneMore ==
    ASSUME IInv, NEW s \in Slots, NEW u, NEW m \in Messages,
           Await(s, u, <<m>>)
    PROVE  /\ tasks'[s] = u
           /\ \A r \in Slots : r # s => tasks'[r] = tasks[r]
           /\ Len(outbox) \in Nat /\ Len(outbox') = Len(outbox) + 1
           /\ outbox'[Len(outbox) + 1] = m
           /\ \A i \in 1..Len(outbox) : outbox'[i] = outbox[i]
<1>1. outbox' = outbox \o <<m>> /\ outbox \in Seq(Messages)
  BY DEF Await, IInv, OutboxOK
<1>2. outbox \o <<m>> = Append(outbox, m)
  BY <1>1
<1>3. tasks \in [Slots -> Tasks] /\ tasks' = [tasks EXCEPT ![s] = u]
  BY DEF Await, IInv, TasksOK
<1> QED BY <1>1, <1>2, <1>3, AppendProperties, LenProperties

\* None more.
LEMMA NoneMore ==
    ASSUME IInv, NEW s \in Slots, NEW u, Await(s, u, <<>>)
    PROVE  /\ tasks'[s] = u /\ outbox' = outbox
           /\ \A r \in Slots : r # s => tasks'[r] = tasks[r]
<1>1. outbox' = outbox \o <<>> /\ outbox \in Seq(Messages)
  BY DEF Await, IInv, OutboxOK
<1>2. outbox \o <<>> = outbox
  BY <1>1
<1>3. tasks \in [Slots -> Tasks] /\ tasks' = [tasks EXCEPT ![s] = u]
  BY DEF Await, IInv, TasksOK
<1> QED BY <1>1, <1>2, <1>3

\* Polling before there is an identity: an error, and the token stays.
LEMMA ListKeepsPhase ==
    ASSUME IInv, Phase, SomeStart, NEW s \in Slots, HandleList(s)
    PROVE  Phase'
<1>1. Takes(s, "list") /\ Await(s, Idle, <<ErrorMsg>>) /\ tasks[s] = Idle
  BY ForNobody DEF Finish, Takes
<1>2. UNCHANGED <<identities, active, screen>>
  BY DEF HandleList, pageVars
<1>3. \A r \in Slots : tasks'[r] = tasks[r]
  BY <1>1, OneMore, ErrorType
<1>4. StartsNothing
  BY <1>1, ErrorQuiet DEF Finish
<1>5. Calm'
  <2>1. \A i \in 1..Len(inbox)' : inbox'[i].kind \in {"init", "retry", "list"}
    BY <1>1, TakesShifts, CalmFields DEF Calm
  <2>2. \A i \in 1..Len(outbox)' : outbox'[i].type \in {"error", "connection_error"}
    BY <1>1, OneMore, ErrorType, CalmFields DEF Calm
  <2>3. \A r \in Slots : (tasks[r] = Idle \/ Running(r))'
    BY <1>3, CalmFields DEF Calm, Running
  <2> QED BY <1>2, <2>1, <2>2, <2>3, CalmFields DEF Calm
<1>6. \A i \in Nat : Queued(i)' => Queued(i + 1)
  BY <1>1, TakesShifts
<1>7. \A i \in Nat : Failed(i)' => Failed(i + 0)
  BY <1>4 DEF StartsNothing, Failed
<1>8. \A r \in Slots : Running(r)' => Running(r)
  BY <1>4 DEF StartsNothing
<1>9. Offered' => Offered
  BY <1>2 DEF Offered
<1> QED BY <1>5, <1>6, <1>7, <1>8, <1>9, CalmFields, FewerKeep

\* The "init" or "retry" in the queue is the token, and becomes a handler.
LEMMA StartKeepsPhase ==
    ASSUME IInv, Phase, NEW s \in Slots, HandleInit(s) \/ HandleRetry(s)
    PROVE  Phase'
<1>1. PICK kind \in {"init", "retry"} : Takes(s, kind)
  BY DEF HandleInit, HandleRetry
<1>2. Queued(1)
  BY <1>1, TakesShifts DEF Queued
<1>3. SomeStart
  BY <1>2 DEF SomeStart
<1>4. UNCHANGED <<identities, active, screen>>
  BY DEF HandleInit, HandleRetry, pageVars
<1>5. PICK u : Await(s, u, <<>>) /\ (u = Idle \/ Starting(u))
  <2>1. \/ Finish(s, <<>>)
        \/ \E keys \in Seq(Ids) : StartRound(s, keys, 0)
    <3>1. Head(inbox).keys \in Seq(Ids) /\ params \in Seq(Ids)
      BY <1>1, TakesShifts DEF Requests, IInv, StateOK
    <3> QED BY <3>1 DEF HandleInit, HandleRetry
  <2>2. ASSUME NEW keys \in Seq(Ids), StartRound(s, keys, 0)
        PROVE  \E u : Await(s, u, <<>>) /\ Starting(u)
    <3> DEFINE u == [Started("init") EXCEPT
                       !.pc = IF keys = <<>> THEN "make" ELSE "load",
                       !.keys = keys, !.todo = keys, !.round = 0]
    <3>1. u.pc \in {"make", "load"} /\ u.kind = "init"
      BY DEF Started, Idle
    <3>2. Await(s, u, <<>>)
      BY <2>2 DEF StartRound
    <3> QED BY <3>1, <3>2 DEF Starting
  <2> QED BY <2>1, <2>2 DEF Finish
<1>6. /\ tasks'[s] = u /\ outbox' = outbox
      /\ \A r \in Slots : r # s => tasks'[r] = tasks[r]
  BY <1>5, NoneMore
<1>7. /\ \A i \in Nat : ~Queued(i)' /\ ~Failed(i)' /\ ~Offered'
      /\ \A r \in Slots : Running(r)' => r = s
  <2>1. \A i \in Nat : Queued(i)' => Queued(i + 1)
    BY <1>1, TakesShifts
  <2>2. \A i \in Nat : i + 1 \in Nat /\ (i + 1 = 1 => i = 0)
    OBVIOUS
  <2>3. \A i \in Nat : ~Queued(i)'
    <3>1. ~Queued(0)'
      BY DEF Queued
    <3>2. \A i \in Nat : Queued(i) => i = 1
      BY <1>2, <1>3, CalmFields DEF OneStart
    <3> QED BY <2>1, <2>2, <3>1, <3>2
  <2>4. \A i \in Nat : ~Failed(i)' /\ ~Offered'
    BY <1>2, <1>3, <1>4, <1>6, CalmFields DEF OneStart, Failed, Offered
  <2>5. \A r \in Slots : Running(r)' => r = s
    BY <1>2, <1>3, <1>6, CalmFields DEF OneStart, Running
  <2> QED BY <2>3, <2>4, <2>5
<1>8. OneStart'
  BY <1>7 DEF OneStart
<1>9. Calm'
  <2>1. \A i \in 1..Len(inbox)' : inbox'[i].kind \in {"init", "retry", "list"}
    BY <1>1, <1>3, TakesShifts, CalmFields DEF Calm
  <2>2. \A r \in Slots : (tasks[r] = Idle \/ Running(r))'
    BY <1>3, <1>5, <1>6, CalmFields DEF Calm, Running
  <2> QED BY <1>3, <1>4, <1>6, <2>1, <2>2, CalmFields DEF Calm
<1> QED BY <1>8, <1>9 DEF Phase

\* What is known while a handler runs the start-up: it is the only token.
LEMMA RunningAlone ==
    ASSUME IInv, Phase, NEW s \in Slots, Running(s)
    PROVE  /\ SomeStart /\ Calm /\ ~Offered
           /\ \A i \in Nat : ~Queued(i) /\ ~Failed(i)
           /\ \A r \in Slots : Running(r) => r = s
BY DEF Phase, SomeStart, OneStart

\* It goes on without having posted anything.
LEMMA GoesOn ==
    ASSUME IInv, Phase, NEW s \in Slots, Running(s), NEW u, Starting(u),
           Await(s, u, <<>>), UNCHANGED <<identities, active, inbox, screen>>
    PROVE  Phase'
<1>1. /\ tasks'[s] = u /\ outbox' = outbox
      /\ \A r \in Slots : r # s => tasks'[r] = tasks[r]
  BY NoneMore
<1>2. /\ \A i \in Nat : ~Queued(i)' /\ ~Failed(i)' /\ ~Offered'
      /\ \A r \in Slots : Running(r)' => r = s
  BY <1>1, RunningAlone DEF Queued, Failed, Offered, Running
<1>3. OneStart'
  BY <1>2 DEF OneStart
<1>4. \A r \in Slots : (tasks[r] = Idle \/ Running(r))'
  BY <1>1, RunningAlone DEF Calm, Running
<1>5. Calm'
  BY <1>1, <1>4, RunningAlone DEF Calm
<1> QED BY <1>3, <1>5 DEF Phase

\* It gives up after 30 s: connection_error.
LEMMA GivesUp ==
    ASSUME IInv, Phase, NEW s \in Slots, Running(s),
           Finish(s, <<Reply("connection_error", NoId)>>),
           UNCHANGED <<identities, active, inbox, screen>>
    PROVE  Phase'
<1> DEFINE m == Reply("connection_error", NoId)
<1>0. m \in Messages /\ m.type = "connection_error"
  BY ReplyType DEF MsgTypes
<1> HIDE DEF m
<1>1. /\ tasks'[s] = Idle /\ Len(outbox) \in Nat
      /\ \A r \in Slots : r # s => tasks'[r] = tasks[r]
      /\ Len(outbox') = Len(outbox) + 1 /\ outbox'[Len(outbox) + 1] = m
      /\ \A i \in 1..Len(outbox) : outbox'[i] = outbox[i]
  <2>1. Await(s, Idle, <<m>>)
    BY DEF Finish, m
  <2> QED BY <1>0, <2>1, OneMore
<1>2. \A i \in Nat : Failed(i)' => i = Len(outbox) + 1
  BY <1>1, RunningAlone DEF Failed
<1>3. /\ \A i \in Nat : ~Queued(i)' /\ ~Offered'
      /\ \A r \in Slots : ~Running(r)'
  BY <1>1, IdleQuiet, RunningAlone DEF Queued, Offered, Running
<1>4. OneStart'
  BY <1>2, <1>3 DEF OneStart
<1>5. \A r \in Slots : (tasks[r] = Idle \/ Running(r))'
  BY <1>1, RunningAlone DEF Calm, Running
<1>6. \A i \in 1..Len(outbox)' : outbox'[i].type \in {"error", "connection_error"}
  BY <1>0, <1>1, RunningAlone DEF Calm
<1>7. Calm'
  BY <1>5, <1>6, RunningAlone DEF Calm
<1> QED BY <1>4, <1>7 DEF Phase

\* It ends with identities, or in a panic: there is no token any more.
LEMMA StartsNoMore ==
    ASSUME IInv, Phase, NEW s \in Slots, Running(s), NEW t \in Tasks,
           NEW ids, NEW at \in Nat, Assign(s, t, ids, at),
           UNCHANGED <<inbox, screen>>
    PROVE  Phase'
<1>1. StartsNothing
  BY AssignQuiet
<1>2. ~Running(s)'
  <2>1. \E u, msgs : Await(s, u, msgs) /\ ~Starting(u)
    <3>1. CASE poisoned
      BY <3>1, IdleQuiet DEF Assign, Finish
    <3>2. CASE ~poisoned /\ ids = <<>>
      BY <3>2, IdleQuiet DEF Assign, Collect, Finish
    <3>3. CASE ~poisoned /\ ids # <<>>
      <4> DEFINE u == [Started(t.kind) EXCEPT !.pc = "addresses", !.id = ids[1],
                         !.at = at, !.n = Len(ids), !.ver = epoch']
      <4>1. Await(s, u, <<>>)
        BY <3>3 DEF Assign, Collect
      <4>2. u.pc = "addresses"
        BY DEF Started, Idle
      <4> QED BY <4>1, <4>2 DEF Starting
    <3> QED BY <3>1, <3>2, <3>3
  <2>2. PICK u, msgs : Await(s, u, msgs) /\ ~Starting(u)
    BY <2>1
  <2>3. tasks'[s] = u
    BY <2>2 DEF Await, IInv, TasksOK
  <2> QED BY <2>2, <2>3 DEF Running
<1>3. /\ \A i \in Nat : ~Queued(i)' /\ ~Failed(i)' /\ ~Offered'
      /\ \A r \in Slots : ~Running(r)'
  BY <1>1, <1>2, RunningAlone DEF StartsNothing, Queued, Offered
<1> QED BY <1>3 DEF Phase, OneStart, SomeStart

\* The end of a round of loading.
LEMMA RoundKeepsPhase ==
    ASSUME IInv, Phase, NEW s \in Slots, Running(s),
           NEW found, RoundEnds(s, tasks[s], found),
           UNCHANGED <<inbox, screen>>
    PROVE  Phase'
<1> DEFINE t == tasks[s]
<1>1. t \in Tasks
  BY FlightType
<1>2. CASE found # <<>>
  BY <1>1, <1>2, StartsNoMore DEF RoundEnds
<1>3. CASE found = <<>>
  <2> DEFINE u == [t EXCEPT !.pc = "backoff", !.got = <<>>, !.todo = <<>>]
  <2>1. /\ \/ Finish(s, <<Reply("connection_error", NoId)>>)
           \/ Await(s, u, <<>>)
        /\ UNCHANGED <<identities, active>>
    BY <1>3 DEF RoundEnds
  <2>2. u.pc = "backoff"
    BY <1>1 DEF Tasks
  <2>3. Starting(u)
    BY <2>2 DEF Starting
  <2> HIDE DEF u
  <2> QED BY <2>1, <2>3, GivesUp, GoesOn
<1> QED BY <1>2, <1>3

\* The handler of the start-up resumes.
LEMMA RunningKeepsPhase ==
    ASSUME IInv, Phase, NEW s \in Slots, Running(s), Resume(s)
    PROVE  Phase'
<1> DEFINE t == tasks[s]
<1>1. t \in Tasks
  BY FlightType
<1>2. KeyLoaded(s) \/ FirstIdentityMade(s) \/ BackoffElapsed(s)
  <2>1. t.pc \in {"load", "backoff"} \/ (t.pc = "make" /\ t.kind = "init")
    BY DEF Running, Starting
  <2> QED BY <2>1 DEF Resume, IdentityCreated, IdentityRestored,
            ReplacementMade, NextIdentity, IndexPanics, PostIdentityList,
            ConversationsListed, GroupActionDone, RoleChangeDone,
            MembersListed, MessageSent, MessagesFetched
<1>3. CASE KeyLoaded(s)
  <2>1. /\ UNCHANGED <<inbox, screen>> /\ t.pc = "load"
        /\ \/ \E got : /\ Await(s, [t EXCEPT !.got = got, !.todo = Tail(t.todo)], <<>>)
                       /\ UNCHANGED <<identities, active>>
           \/ \E got : RoundEnds(s, t, got)
    BY <1>3 DEF KeyLoaded, pageVars
  <2>2. ASSUME NEW got,
               Await(s, [t EXCEPT !.got = got, !.todo = Tail(t.todo)], <<>>),
               UNCHANGED <<identities, active>>
        PROVE  Phase'
    <3> DEFINE u == [t EXCEPT !.got = got, !.todo = Tail(t.todo)]
    <3>1. u.pc = "load"
      BY <1>1, <2>1 DEF Tasks
    <3>2. Starting(u)
      BY <3>1 DEF Starting
    <3>3. Await(s, u, <<>>)
      BY <2>2
    <3> HIDE DEF u
    <3> QED BY <2>1, <2>2, <3>2, <3>3, GoesOn
  <2> QED BY <2>1, <2>2, RoundKeepsPhase
<1>4. CASE FirstIdentityMade(s)
  <2>1. /\ UNCHANGED <<inbox, screen>>
        /\ \E found : RoundEnds(s, t, found)
    BY <1>4 DEF FirstIdentityMade, pageVars
  <2> QED BY <2>1, RoundKeepsPhase
<1>5. CASE BackoffElapsed(s)
  <2> DEFINE u == [Started("init") EXCEPT
                     !.pc = IF t.keys = <<>> THEN "make" ELSE "load",
                     !.keys = t.keys, !.todo = t.keys, !.round = t.round + 1]
  <2>1. /\ UNCHANGED <<identities, active, inbox, screen>>
        /\ Await(s, u, <<>>)
    BY <1>5 DEF BackoffElapsed, StartRound, pageVars
  <2>2. u.pc \in {"make", "load"} /\ u.kind = "init"
    BY DEF Started, Idle
  <2>3. Starting(u)
    BY <2>2 DEF Starting
  <2> HIDE DEF u
  <2> QED BY <2>1, <2>3, GoesOn
<1> QED BY <1>2, <1>3, <1>4, <1>5

\* Nothing else runs while there is a token.
LEMMA OthersWait ==
    ASSUME IInv, Phase, SomeStart, NEW s \in Slots
    PROVE  /\ Resume(s) => Running(s)
           /\ Dispatch(s) => HandleInit(s) \/ HandleRetry(s) \/ HandleList(s)
<1>1. ASSUME tasks[s] = Idle
      PROVE  ~Resume(s)
  BY <1>1, IdleType
     DEF Resume, KeyLoaded, FirstIdentityMade, BackoffElapsed, IdentityCreated,
         IdentityRestored, ReplacementMade, NextIdentity, IndexPanics,
         PostIdentityList, ConversationsListed, GroupActionDone,
         RoleChangeDone, MembersListed, MessageSent, MessagesFetched
<1>2. ASSUME NEW kind, Takes(s, kind)
      PROVE  kind \in {"init", "retry", "list"}
  BY <1>2, TakesShifts, CalmFields DEF Calm
<1>3. Dispatch(s) => HandleInit(s) \/ HandleRetry(s) \/ HandleList(s)
  <2>1. /\ ~Takes(s, "create") /\ ~Takes(s, "restore") /\ ~Takes(s, "remove")
        /\ ~Takes(s, "switch") /\ ~Takes(s, "address") /\ ~Takes(s, "consent")
        /\ \A kind \in DOMAIN FirstCall : ~Takes(s, kind)
    BY <1>2 DEF FirstCall
  <2> QED BY <2>1 DEF Dispatch, HandleCreateIdentity, HandleRestoreIdentity,
            HandleRemoveIdentity, HandleSwitchIdentity, HandleAddress,
            HandleConsent, HandleForActive
<1>4. tasks[s] = Idle \/ Running(s)
  BY CalmFields DEF Calm
<1> QED BY <1>1, <1>3, <1>4

\* While there is a token the page can only poll.
LEMMA SendKeepsPhase ==
    ASSUME IInv, Phase, SomeStart, HostSend
    PROVE  Phase'
<1>1. PICK r \in UserRequests : r.kind = "list" /\ inbox' = Append(inbox, r)
  BY CalmFields DEF HostSend, Calm
<1>2. UNCHANGED <<identities, active, tasks, outbox, screen>>
  BY DEF HostSend, workerVars
<1>3. /\ Len(inbox') = Len(inbox) + 1 /\ Len(inbox) \in Nat
      /\ inbox'[Len(inbox) + 1] = r
      /\ \A i \in 1..Len(inbox) : inbox'[i] = inbox[i]
  BY <1>1, UserRequestsAssumption, AppendProperties, LenProperties
     DEF IInv, InboxOK
<1>4. \A i \in Nat : Queued(i)' => Queued(i + 0)
  BY <1>1, <1>3 DEF Queued
<1>5. \A i \in Nat : Failed(i)' => Failed(i + 0)
  BY <1>2 DEF Failed
<1>6. \A r2 \in Slots : Running(r2)' => Running(r2)
  BY <1>2 DEF Running
<1>7. Calm'
  <2>1. \A i \in 1..Len(inbox)' : inbox'[i].kind \in {"init", "retry", "list"}
    BY <1>1, <1>3, CalmFields DEF Calm
  <2>2. \A r2 \in Slots : (tasks[r2] = Idle \/ Running(r2))'
    BY <1>2, CalmFields DEF Calm, Running
  <2> QED BY <1>2, <2>1, <2>2, CalmFields DEF Calm
<1>8. Offered' => Offered
  BY <1>2 DEF Offered
<1> QED BY <1>4, <1>5, <1>6, <1>7, <1>8, CalmFields, FewerKeep

\* The retry button becomes a "retry" in the queue.
LEMMA RetryKeepsPhase ==
    ASSUME IInv, Phase, HostRetry
    PROVE  SomeStart /\ Phase'
<1>1. Offered /\ SomeStart
  BY DEF HostRetry, Offered, SomeStart
<1> DEFINE r == Req("retry", 0, NoId, <<>>)
<1>2. inbox' = Append(inbox, r) /\ screen' = "loading"
  BY DEF HostRetry
<1>3. r.kind = "retry" /\ r \in Requests
  BY EmptySeq DEF Req, Requests, Kinds
<1> HIDE DEF r
<1>4. UNCHANGED <<identities, active, tasks, outbox>>
  BY DEF HostRetry, workerVars
<1>5. /\ Len(inbox') = Len(inbox) + 1 /\ Len(inbox) \in Nat
      /\ inbox'[Len(inbox) + 1] = r
      /\ \A i \in 1..Len(inbox) : inbox'[i] = inbox[i]
  BY <1>2, <1>3, AppendProperties, LenProperties DEF IInv, InboxOK
<1>6. \A i \in Nat : ~Queued(i)
  BY <1>1, CalmFields DEF OneStart
<1>7. \A i \in Nat : Queued(i)' => i = Len(inbox) + 1
  BY <1>5, <1>6 DEF Queued
<1>8. /\ \A i \in Nat : ~Failed(i)' /\ ~Offered'
      /\ \A s \in Slots : ~Running(s)'
  BY <1>1, <1>2, <1>4, CalmFields DEF OneStart, Failed, Offered, Running
<1>9. OneStart'
  BY <1>7, <1>8 DEF OneStart
<1>10. Calm'
  <2>1. \A i \in 1..Len(inbox)' : inbox'[i].kind \in {"init", "retry", "list"}
    BY <1>1, <1>3, <1>5, CalmFields DEF Calm
  <2>2. \A s \in Slots : (tasks[s] = Idle \/ Running(s))'
    BY <1>1, <1>4, CalmFields DEF Calm, Running
  <2> QED BY <1>1, <1>2, <1>4, <2>1, <2>2, CalmFields DEF Calm
<1> QED BY <1>1, <1>9, <1>10 DEF Phase

\* A connection_error becomes the retry button; an error changes nothing.
LEMMA ReceiveKeepsPhase ==
    ASSUME IInv, Phase, SomeStart, HostReceive
    PROVE  Phase'
<1>1. outbox \in Seq(Messages) /\ outbox # <<>> /\ outbox' = Tail(outbox)
  BY DEF HostReceive, IInv, OutboxOK
<1>2. /\ Head(outbox) = outbox[1] /\ Len(outbox) \in Nat \ {0}
      /\ Len(outbox') = Len(outbox) - 1
      /\ \A i \in 1..Len(outbox') : outbox'[i] = outbox[i + 1]
  BY <1>1, HeadTailProperties, EmptySeq, LenProperties
<1>3. UNCHANGED <<identities, active, tasks, inbox>>
  BY DEF HostReceive, workerVars
<1>4. \A i \in Nat : Failed(i)' => Failed(i + 1)
  BY <1>2 DEF Failed
<1>5. \A i \in Nat : Queued(i)' => Queued(i + 0)
  BY <1>3 DEF Queued
<1>6. \A s \in Slots : Running(s)' => Running(s)
  BY <1>3 DEF Running
<1>7. outbox[1].type \in {"error", "connection_error"}
  BY <1>2, CalmFields DEF Calm
<1>8. screen' # "ready"
  BY <1>2, <1>7, CalmFields DEF HostReceive, Calm
<1>9. Calm'
  <2>1. \A i \in 1..Len(outbox)' : outbox'[i].type \in {"error", "connection_error"}
    BY <1>2, CalmFields DEF Calm
  <2>2. \A s \in Slots : (tasks[s] = Idle \/ Running(s))'
    BY <1>3, CalmFields DEF Calm, Running
  <2> QED BY <1>3, <1>8, <2>1, <2>2, CalmFields DEF Calm
<1>10. CASE outbox[1].type = "error"
  <2>1. Offered' => Offered
    BY <1>2, <1>10 DEF HostReceive, Offered
  <2> QED BY <1>4, <1>5, <1>6, <1>9, <2>1, CalmFields, FewerKeep
<1>11. CASE outbox[1].type = "connection_error"
  <2>1. Failed(1)
    BY <1>2, <1>11 DEF Failed
  <2>2. \A i \in Nat : ~Queued(i)' /\ \A s \in Slots : ~Running(s)'
    BY <1>5, <1>6, <2>1, CalmFields DEF OneStart
  <2>3. \A i \in Nat : ~Failed(i)'
    <3>1. \A i \in Nat : Failed(i) => i = 1
      BY <2>1, CalmFields DEF OneStart
    <3>2. ~Failed(0)'
      BY DEF Failed
    <3>3. \A i \in Nat : i + 1 \in Nat /\ (i + 1 = 1 => i = 0)
      OBVIOUS
    <3> QED BY <1>4, <3>1, <3>2, <3>3
  <2>4. OneStart'
    BY <2>2, <2>3 DEF OneStart
  <2> QED BY <1>9, <2>4 DEF Phase
<1> QED BY <1>7, <1>10, <1>11

\* Every step keeps the token single, and the calm around it.
LEMMA PhaseNext ==
    ASSUME IInv, Phase, [Next]_vars
    PROVE  Phase'
<1>1. CASE UNCHANGED vars
  BY <1>1 DEF vars, workerVars, pageVars, Phase, OneStart, SomeStart, Calm,
              Queued, Running, Failed, Offered
<1>2. CASE Next /\ ~SomeStart
  <2>1. ~SomeStart'
    BY <1>2, NoneStays
  <2> QED BY <2>1 DEF Phase, OneStart, SomeStart
<1>3. CASE Next /\ SomeStart
  BY <1>3, OthersWait, StartKeepsPhase, ListKeepsPhase, RunningKeepsPhase,
     SendKeepsPhase, RetryKeepsPhase, ReceiveKeepsPhase DEF Next
<1> QED BY <1>1, <1>2, <1>3

-----------------------------------------------------------------------------
(* The steps of the handlers as operations of the store.                   *)

\* A step of the store, or one that leaves it alone.
StoreStep == Store!StoreNext \/ UNCHANGED <<identities, active>>

\* Selecting an identity by its index.
LEMMA SwitchSimulates ==
    ASSUME IInv, NEW s \in Slots, HandleSwitchIdentity(s)
    PROVE  StoreStep
<1> DEFINE idx == Head(inbox).idx
<1>1. Takes(s, "switch")
  BY DEF HandleSwitchIdentity
<1>2. idx \in Nat
  BY <1>1, TakesShifts DEF Requests
<1>3. \/ UNCHANGED <<identities, active>>
      \/ idx < Len(identities) /\ identities' = identities /\ active' = idx
  BY DEF HandleSwitchIdentity, Assign
<1>4. ASSUME idx < Len(identities), identities' = identities, active' = idx
      PROVE  Store!StoreNext
  <2>1. Len(identities) \in Nat
    BY LenProperties DEF IInv, StateOK
  <2>2. idx + 1 \in 1..Len(identities) /\ active' = (idx + 1) - 1
    BY <1>2, <1>4, <2>1
  <2>3. Store!Select(idx + 1)
    BY <1>4, <2>2 DEF Store!Select
  <2> QED BY <2>2, <2>3 DEF Store!StoreNext
<1> QED BY <1>3, <1>4 DEF StoreStep

\* Removing one: the selected identity stays selected unless it is the one.
LEMMA RemoveSimulates ==
    ASSUME IInv, NEW s \in Slots, HandleRemoveIdentity(s)
    PROVE  StoreStep
<1> DEFINE idx  == Head(inbox).idx
           left == RemoveAt(identities, idx + 1)
           at   == ActiveAfterRemove(idx)
<1>1. Takes(s, "remove")
  BY DEF HandleRemoveIdentity
<1>2. idx \in Nat
  BY <1>1, TakesShifts DEF Requests
<1>3. /\ identities \in Seq(Ids) /\ Len(identities) \in Nat /\ active \in Nat
      /\ idx < Len(identities) => active < Len(identities)
  BY <1>2, LenProperties, EmptySeq DEF IInv, StateOK, ActiveInRange
<1>4. \/ UNCHANGED <<identities, active>>
      \/ /\ idx < Len(identities) /\ active' = at
         /\ \/ identities' = left
            \/ Len(identities) = 1 /\ identities' = <<>>
  BY <1>2, <1>3 DEF HandleRemoveIdentity, Assign, Finish
<1>5. ASSUME idx < Len(identities), active' = at,
             \/ identities' = left
             \/ Len(identities) = 1 /\ identities' = <<>>
      PROVE  Store!StoreNext
  <2>1. idx + 1 \in 1..Len(identities)
    BY <1>2, <1>3, <1>5
  <2>2. /\ left \in Seq(Ids) /\ Len(left) = Len(identities) - 1
        /\ \A j \in 1..(Len(identities) - 1) :
              left[j] = IF j < idx + 1 THEN identities[j] ELSE identities[j + 1]
    BY <1>3, <2>1, RemoveAtProperties
  <2>6. left = Store!RemoveAt(identities, idx + 1)
    BY DEF RemoveAt, Store!RemoveAt
  <2> HIDE DEF left
  <2>3. identities' = left
    BY <1>5, <2>2, EmptySeq
  <2>4. CASE Len(identities) = 1
    <3>1. identities' = <<>>
      BY <2>2, <2>3, <2>4, EmptySeq
    <3>2. active' = 0
      BY <1>2, <1>5, <2>4, ActiveAfterRemoveInRange
    <3>3. Store!Drop(idx + 1)
      BY <2>3, <2>6, <3>1, <3>2 DEF Store!Drop
    <3> QED BY <2>1, <3>3 DEF Store!StoreNext
  <2>5. CASE Len(identities) # 1
    <3> DEFINE n == Len(identities)
    <3>0. n \in Nat /\ n > 1 /\ active < n /\ idx < n
      <4>1. n \in Nat /\ idx < n /\ n # 1 /\ active < n
        BY <1>3, <1>5, <2>5
      <4> HIDE DEF n
      <4> QED BY <1>2, <4>1
    <3>1. at = IF active >= n - 1 THEN n - 2
               ELSE IF idx < active THEN active - 1 ELSE active
      <4>1. at = IF n - 1 = 0 THEN 0
                 ELSE IF active >= n - 1 THEN (n - 1) - 1
                 ELSE IF idx < active THEN active - 1 ELSE active
        BY DEF ActiveAfterRemove
      <4> HIDE DEF n
      <4>2. n - 1 # 0 /\ (n - 1) - 1 = n - 2
        BY <3>0
      <4> QED BY <4>1, <4>2
    <3> HIDE DEF n, at
    <3>2. at \in Nat /\ at < n - 1
      BY <1>2, <1>3, <3>0, <3>1
    <3>3. idx = active => at \in {active, active - 1}
      BY <1>2, <1>3, <3>0, <3>1
    <3>4. idx # active => left[at + 1] = identities[active + 1]
      <4>1. CASE idx < active
        <5>1. at = active - 1
          BY <1>2, <1>3, <3>0, <3>1, <4>1
        <5>2. at + 1 = active /\ active \in 1..(n - 1) /\ ~(active < idx + 1)
          BY <1>2, <1>3, <3>0, <4>1, <5>1
        <5> QED BY <2>2, <5>2 DEF n
      <4>2. CASE idx > active
        <5>1. at = active
          BY <1>2, <1>3, <3>0, <3>1, <4>2
        <5>2. active + 1 \in 1..(n - 1) /\ active + 1 < idx + 1
          BY <1>2, <1>3, <3>0, <4>2
        <5> QED BY <2>2, <5>1, <5>2 DEF n
      <4> QED BY <1>2, <1>3, <4>1, <4>2
    <3>5. idx + 1 = active + 1 => idx = active
      BY <1>2, <1>3
    <3>6. active' < Len(identities') /\ identities' # <<>>
      BY <1>5, <2>2, <2>3, <3>2, EmptySeq DEF n
    <3>7. Store!Drop(idx + 1)
      BY <1>5, <2>3, <2>6, <3>3, <3>4, <3>5, <3>6 DEF Store!Drop
    <3> QED BY <2>1, <3>7 DEF Store!StoreNext
  <2> QED BY <2>4, <2>5
<1> QED BY <1>4, <1>5 DEF StoreStep

\* No other handler changes the identities when it is started.
LEMMA DispatchSimulates ==
    ASSUME IInv, NEW s \in Slots, Dispatch(s)
    PROVE  StoreStep
BY SwitchSimulates, RemoveSimulates
   DEF Dispatch, HandleInit, HandleRetry, HandleCreateIdentity,
       HandleRestoreIdentity, HandleAddress, HandleConsent, HandleList,
       HandleForActive, StoreStep

\* One identity more, selected at once.
LEMMA PushSimulates ==
    ASSUME IInv, NEW s \in Slots, NEW t, NEW id \in Ids, Push(s, t, id)
    PROVE  StoreStep
BY DEF Push, Assign, StoreStep, Store!StoreNext, Store!Add

\* The identities found at start-up: there were none, because of the token.
LEMMA RoundSimulates ==
    ASSUME IInv, Phase, NEW s \in Slots, Running(s), NEW t,
           NEW found \in Seq(Ids), RoundEnds(s, t, found)
    PROVE  StoreStep
<1>1. identities = <<>>
  BY RunningAlone DEF Calm
<1>2. \/ UNCHANGED <<identities, active>>
      \/ found # <<>> /\ identities' = found /\ active' = 0
  BY DEF RoundEnds, Assign
<1> QED BY <1>1, <1>2 DEF StoreStep, Store!StoreNext, Store!Load

\* A handler that resumes does one operation of the store, or none.
LEMMA ResumeSimulates ==
    ASSUME IInv, Phase, NEW s \in Slots, Resume(s)
    PROVE  StoreStep
<1> DEFINE t == tasks[s]
<1>1. CASE KeyLoaded(s)
  <2>1. Running(s)
    BY <1>1 DEF KeyLoaded, Running, Starting
  <2>2. /\ t.got \in Seq(Ids) /\ t.todo \in Seq(Ids) /\ t.todo # <<>>
    BY <1>1, TaskType DEF KeyLoaded, Tasks, TaskOK
  <2>3. Head(t.todo) \in Ids
    BY <2>2
  <2>4. \A got \in {t.got, Append(t.got, Head(t.todo))} : got \in Seq(Ids)
    <3>1. Append(t.got, Head(t.todo)) \in Seq(Ids)
      BY <2>2, <2>3, AppendProperties
    <3> QED BY <2>2, <3>1
  <2>5. \/ UNCHANGED <<identities, active>>
        \/ \E got \in Seq(Ids) : RoundEnds(s, t, got)
    BY <1>1, <2>4 DEF KeyLoaded, FromKeyHex
  <2> QED BY <2>1, <2>5, RoundSimulates DEF StoreStep
<1>2. CASE FirstIdentityMade(s)
  <2>1. Running(s)
    BY <1>2 DEF FirstIdentityMade, Running, Starting
  <2>2. <<>> \in Seq(Ids) /\ \A id \in Ids : <<id>> \in Seq(Ids)
    OBVIOUS
  <2>3. \E found \in Seq(Ids) : RoundEnds(s, t, found)
    BY <1>2, <2>2 DEF FirstIdentityMade
  <2> QED BY <2>1, <2>3, RoundSimulates
<1>3. CASE IdentityCreated(s)
  BY <1>3, PushSimulates DEF IdentityCreated, StoreStep
<1>4. CASE IdentityRestored(s)
  <2>1. t.id \in Ids
    BY <1>4, TaskType DEF IdentityRestored, TaskOK
  <2> QED BY <1>4, <2>1, PushSimulates DEF IdentityRestored, StoreStep
<1>5. CASE ReplacementMade(s)
  BY <1>5 DEF ReplacementMade, Assign, StoreStep, Store!StoreNext, Store!Refill
<1>6. CASE \/ BackoffElapsed(s) \/ NextIdentity(s) \/ IndexPanics(s)
           \/ PostIdentityList(s) \/ ConversationsListed(s)
           \/ GroupActionDone(s) \/ RoleChangeDone(s) \/ MembersListed(s)
           \/ MessageSent(s) \/ MessagesFetched(s)
  BY <1>6 DEF BackoffElapsed, NextIdentity, IndexPanics, PostIdentityList,
              ConversationsListed, GroupActionDone, RoleChangeDone,
              MembersListed, MessageSent, MessagesFetched, StoreStep
<1> QED BY <1>1, <1>2, <1>3, <1>4, <1>5, <1>6 DEF Resume

\* Whatever the handlers, the page and the network do, from outside the
\* identities change only as IdentityStore says.
THEOREM Implementation == Spec => ImplementsStore
<1>1. Init => IInv /\ Phase /\ Store!StoreInit
  BY InitIInv, PhaseInit DEF Init, Store!StoreInit
<1>2. IInv /\ [Next]_vars => IInv'
  BY NextIInv
<1>3. IInv /\ Phase /\ [Next]_vars => Phase'
  BY PhaseNext
<1>4. IInv /\ Phase /\ [Next]_vars => [Store!StoreNext]_(Store!store)
  <2> SUFFICES ASSUME IInv, Phase, [Next]_vars
               PROVE  StoreStep
    BY DEF StoreStep, Store!store
  <2>1. ASSUME NEW s \in Slots, Dispatch(s) \/ Resume(s)
        PROVE  StoreStep
    BY <2>1, DispatchSimulates, ResumeSimulates
  <2>2. CASE HostSend \/ HostRetry \/ HostReceive
    BY <2>2 DEF HostSend, HostRetry, HostReceive, workerVars, StoreStep
  <2>3. CASE UNCHANGED vars
    BY <2>3 DEF vars, workerVars, StoreStep
  <2> QED BY <2>1, <2>2, <2>3 DEF Next
<1> QED BY <1>1, <1>2, <1>3, <1>4, PTL
        DEF Spec, ImplementsStore, Store!StoreSpec
=============================================================================
