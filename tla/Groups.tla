------------------------------- MODULE Groups -------------------------------
(***************************************************************************)
(* Groups as the worker sees them: the operations of an identity on its    *)
(* conversations (src/xmes-xmtp-wasm/src/lib.rs) and the handlers that     *)
(* call them and answer the page (src/xmes-xmtp-wasm/src/worker.rs).       *)
(* Every handler awaits the network, so answers may overtake each other    *)
(* and hold what was true when they were collected.                        *)
(*                                                                         *)
(* XmtpWorker models the queues between page and worker and the identities *)
(* themselves.  Here the identities are fixed, a request is dispatched in  *)
(* the step that sends it and an answer is taken in the step that posts    *)
(* it: a message that waits in a queue is a request sent later or an       *)
(* answer still being collected.                                           *)
(***************************************************************************)
EXTENDS Lists, Naturals, Sequences, FiniteSets, SequencesExt, FiniteSetsExt

CONSTANTS
    Ids,        \* inboxes of the identities on this device
    Others,     \* inboxes of other people
    NoOne,      \* no inbox, no group
    GroupIds,   \* conversation ids, of present and future groups
    InitRoster, \* the members each group has at the start
    InitLog,    \* the senders of the messages it has at the start
    MaxTasks,   \* bound: handlers in flight
    MaxLog      \* bound: messages in a group

Inboxes == Ids \cup Others
Slots   == 1..MaxTasks

ASSUME GroupsAssumption ==
    /\ Ids \cap Others = {} /\ NoOne \notin Inboxes \cup GroupIds
    /\ IsFiniteSet(GroupIds)
    /\ InitRoster \in [GroupIds -> SUBSET Inboxes]
    /\ InitLog \in [GroupIds -> Seq(Inboxes)]
    /\ \A g \in GroupIds : Len(InitLog[g]) <= MaxLog
    /\ MaxTasks \in Nat \ {0} /\ MaxLog \in Nat

VARIABLES
    member,  \* membership of an identity in a group, as XMTP reports it
    consent, \* an identity's consent to a group
    roster,  \* the members of each group
    log,     \* the senders of the messages of each group, oldest first
    recent,  \* all groups, the one with the latest activity first
    active,  \* the worker's active identity
    tasks    \* handlers in flight

network == <<member, consent, roster, log, recent>>
backend == <<network, active, tasks>>

-----------------------------------------------------------------------------
(* What a conversation list says of a group.                               *)

Summary == [id : GroupIds, n : Nat, from : Inboxes \cup {NoOne},
            pending : BOOLEAN]

\* is_pending: an invitation nobody has answered.
IsPending(i, g) == member[i][g] = "invited" /\ consent[i][g] # "allowed"

\* last_message_ns and last_sender_inbox_id; 0 stands for no message.
SummaryOf(i, g) ==
    [id |-> g, n |-> Len(log[g]),
     from |-> IF log[g] = <<>> THEN NoOne ELSE Last(log[g]),
     pending |-> IsPending(i, g)]

\* Mutation: a group stays listed until the leave has been confirmed.
InListUntilLeft(i, g) == member[i][g] \in {"invited", "in"}

\* Groups the identity is leaving or has denied are not listed.
InList(i, g) == member[i][g] \in {"invited", "in"} /\ consent[i][g] # "denied"

\* Identity::list_conversations once sync_all_conversations has answered.
Listing(i) ==
    LET ids == Keep(recent, {k \in 1..Len(recent) : InList(i, recent[k])})
    IN  [k \in 1..Len(ids) |-> SummaryOf(i, ids[k])]

\* The identity has refused the group, or the network has its leave.
HasLeft(i, g) == consent[i][g] = "denied" \/ member[i][g] = "leaving"

ListedIds(list) == {list[k].id : k \in 1..Len(list)}

HasSenders(list) == \E k \in 1..Len(list) : list[k].from # NoOne

-----------------------------------------------------------------------------
(* Handlers in flight.                                                     *)

\* Calls that may fail with an error nobody handles.
Fallible == {"sync", "fetch", "members", "create", "add", "rename", "role",
             "remove", "send"}

PCs == Fallible \cup {"idle", "names", "senders", "leave", "addresses"}

Tasks ==
    [pc   : PCs,
     id   : Ids \cup {NoOne},      \* the identity the call is made for
     gid  : GroupIds \cup {NoOne}, \* the conversation it is about
     who  : Inboxes \cup {NoOne},  \* the member added or removed
     list : Seq(Summary),          \* the list collected
     n    : Nat]                   \* how many messages were collected

\* A handler that is about to make the call pc.
Call(pc, i, g, who) ==
    [pc |-> pc, id |-> i, gid |-> g, who |-> who, list |-> <<>>, n |-> 0]

Idle == Call("idle", NoOne, NoOne, NoOne)

\* The handlers in ts together with the new ones in seq, in free slots.
Launched(ts, seq) ==
    LET free == {s \in Slots : ts[s] = Idle}
        rank(s) == Cardinality({f \in free : f <= s})
    IN  [s \in Slots |-> IF s \in free /\ rank(s) <= Len(seq)
                         THEN seq[rank(s)] ELSE ts[s]]

Room(ts, k) == Cardinality({s \in Slots : ts[s] = Idle}) >= k

\* handle_list for identity i, the one active when it starts.
ListTask(i) == Call("sync", i, NoOne, NoOne)

\* find_group_by_id
Known(i, g) == member[i][g] # "none"

\* A call of identity i on conversation g, or none if i does not have it.
TaskOn(pc, i, g, who) ==
    IF Known(i, g) THEN <<Call(pc, i, g, who)>> ELSE <<>>

\* update_consent_state of identity i for the groups gs it has, from c.
Consented(c, i, gs, state) ==
    [c EXCEPT ![i] = [g \in GroupIds |->
        IF g \in gs /\ Known(i, g) THEN state ELSE c[i][g]]]

-----------------------------------------------------------------------------
(* Requests, up to the handler's first await.  i is the active identity.   *)

CreateRequest(i) == <<Call("create", i, NoOne, NoOne)>>

\* handle_leave and leave_conversation: the consent is denied at once, or the
\* update fails, which is ignored.
LeaveRequest(i, g) == TaskOn("leave", i, g, NoOne)
LeaveConsent(i, g, fails) ==
    IF fails THEN consent ELSE Consented(consent, i, {g}, "denied")

\* handle_accept_invitation for each group in gs, all within one step; where
\* the update fails an error is posted and nothing follows.
AcceptRequests(i, gs) ==
    [k \in 1..Cardinality({g \in gs : Known(i, g)}) |-> ListTask(i)]
AcceptConsent(c, i, gs) == Consented(c, i, gs, "allowed")

\* handle_switch_identity: the identity list it posts shows i as active.
SwitchTask(i) == Call("addresses", i, NoOne, NoOne)

-----------------------------------------------------------------------------
(* Handlers resume without reaching the page.                              *)

\* The list is complete but for the addresses of the senders.
CollectList(s) ==
    LET t == tasks[s] IN
    /\ t.pc = "sync" /\ HasSenders(Listing(t.id))
    /\ tasks' = [tasks EXCEPT ![s] = [t EXCEPT !.pc = "names",
                                               !.list = Listing(t.id)]]
    /\ UNCHANGED <<network, active>>

\* fetch_messages up to the resolution of the senders' addresses.
CollectMessages(s) ==
    LET t == tasks[s] IN
    /\ t.pc = "fetch" /\ log[t.gid] # <<>>
    /\ tasks' = [tasks EXCEPT ![s] = [t EXCEPT !.pc = "senders",
                                               !.n = Len(log[t.gid])]]
    /\ UNCHANGED <<network, active>>

\* An error is posted; no callback of the page takes it.
CallFails(s) ==
    /\ tasks[s].pc \in Fallible
    /\ tasks' = [tasks EXCEPT ![s] = Idle]
    /\ UNCHANGED <<network, active>>

\* The handler in s goes on with handle_list for the identity active now.
ThenList(s) == tasks' = [tasks EXCEPT ![s] = ListTask(active)]

\* g has the latest activity now.
ToFront(g) ==
    <<g>> \o Keep(recent, {k \in 1..Len(recent) : recent[k] # g})

\* create_group: i makes a group for itself.
NewGroup(i) ==
    \E g \in GroupIds :
        /\ roster[g] = {}
        /\ roster' = [roster EXCEPT ![g] = {i}]
        /\ member' = [member EXCEPT ![i][g] = "in"]
        /\ consent' = [consent EXCEPT ![i][g] = "allowed"]
        /\ recent' = ToFront(g)

\* send_text_message: a message of from is the last one of g.
Written(g, from) ==
    /\ Len(log[g]) < MaxLog
    /\ log' = [log EXCEPT ![g] = Append(@, from)]
    /\ recent' = ToFront(g)

GroupCreated(s) ==
    /\ tasks[s].pc = "create"
    /\ NewGroup(tasks[s].id)
    /\ ThenList(s)
    /\ UNCHANGED <<log, active>>

\* leave_group may fail; its result is ignored.
LeaveSent(s) ==
    LET t == tasks[s] IN
    /\ t.pc = "leave"
    /\ member' \in {member, [member EXCEPT ![t.id][t.gid] = "leaving"]}
    /\ ThenList(s)
    /\ UNCHANGED <<consent, roster, log, recent, active>>

MembersAdded(s) ==
    LET t == tasks[s] IN
    /\ t.pc = "add"
    /\ roster' = [roster EXCEPT ![t.gid] = @ \cup {t.who}]
    /\ ThenList(s)
    /\ UNCHANGED <<member, consent, log, recent, active>>

GroupRenamed(s) ==
    /\ tasks[s].pc = "rename"
    /\ ThenList(s)
    /\ UNCHANGED <<network, active>>

\* The members are fetched for the identity that is active by now.
ThenMembers(s) ==
    LET next == TaskOn("members", active, tasks[s].gid, NoOne)
    IN  tasks' = [tasks EXCEPT ![s] = IF next = <<>> THEN Idle ELSE next[1]]

MemberRemoved(s) ==
    LET t == tasks[s] IN
    /\ t.pc = "remove"
    /\ roster' = [roster EXCEPT ![t.gid] = @ \ {t.who}]
    /\ ThenMembers(s)
    /\ UNCHANGED <<member, consent, log, recent, active>>

\* set_admin and set_super_admin; no property tells the roles apart.
RoleChanged(s) ==
    /\ tasks[s].pc = "role"
    /\ ThenMembers(s)
    /\ UNCHANGED <<network, active>>

\* handle_send_message continues with the messages of the conversation.
MessageSent(s) ==
    LET t == tasks[s] IN
    /\ t.pc = "send"
    /\ Written(t.gid, t.id)
    /\ tasks' = [tasks EXCEPT ![s] = [t EXCEPT !.pc = "fetch"]]
    /\ UNCHANGED <<member, consent, roster, active>>

-----------------------------------------------------------------------------
(* What the handler in slot s may post next, as a set of at most one.      *)

\* Mutation: a list without senders to look up is not posted.
ListPostedSome(s) ==
    IF tasks[s].pc = "names" THEN {tasks[s].list} ELSE {}

ListPosted(s) ==
    LET t == tasks[s] IN
    CASE t.pc = "names" -> {t.list}
      [] t.pc = "sync" /\ ~HasSenders(Listing(t.id)) -> {Listing(t.id)}
      [] OTHER -> {}

MessagesPosted(s) ==
    LET t == tasks[s] IN
    CASE t.pc = "senders" -> {t.n}
      [] t.pc = "fetch" /\ log[t.gid] = <<>> -> {0}
      [] OTHER -> {}

MembersPosted(s) ==
    IF tasks[s].pc = "members" THEN {roster[tasks[s].gid]} ELSE {}

Done(s) == [tasks EXCEPT ![s] = Idle]

-----------------------------------------------------------------------------
(* Other people.                                                           *)

\* Another member, or this inbox on another device, writes to the group.
Hears(g, from) ==
    /\ from \in roster[g]
    /\ Written(g, from)
    /\ UNCHANGED <<member, consent, roster, active, tasks>>

\* Someone adds identity i to a group of theirs.
Invites(i, g, by) ==
    /\ by \in Others \cap roster[g] \/ (by \in Others /\ roster[g] = {})
    /\ member[i][g] = "none"
    /\ member' = [member EXCEPT ![i][g] = "invited"]
    /\ roster' = [roster EXCEPT ![g] = @ \cup {i, by}]
    /\ recent' = ToFront(g)
    /\ UNCHANGED <<consent, log, active, tasks>>

GroupsTypeOK ==
    /\ member \in [Ids -> [GroupIds -> {"none", "invited", "in", "leaving"}]]
    /\ consent \in [Ids -> [GroupIds -> {"unknown", "allowed", "denied"}]]
    /\ roster \in [GroupIds -> SUBSET Inboxes]
    /\ log \in [GroupIds -> Seq(Inboxes)]
    /\ \A g \in GroupIds : Len(log[g]) <= MaxLog
    /\ recent \in Seq(GroupIds)
    /\ active \in Ids
    /\ tasks \in [Slots -> Tasks]

\* A list shows of each group one of its messages, once the newest.
ListOK(list) ==
    \A k \in 1..Len(list) :
        LET c == list[k] IN
        /\ c.n \in 0..Len(log[c.id])
        /\ c.from = IF c.n = 0 THEN NoOne ELSE log[c.id][c.n]

\* A handler knows what its call is about, and what it has collected was once
\* so: with this GroupsTypeOK is inductive.
HandlerOK(t) ==
    /\ t.pc # "idle" => t.id \in Ids
    /\ t.pc \notin {"idle", "sync", "names", "create", "addresses"}
           => t.gid \in GroupIds
    /\ t.pc = "add" => t.who \in Inboxes
    /\ t.pc = "senders" => t.n <= Len(log[t.gid])
    /\ ListOK(t.list)

HandlersOK == \A s \in Slots : HandlerOK(tasks[s])

NetworkInit ==
    /\ member = [i \in Ids |-> [g \in GroupIds |->
                    IF i \in InitRoster[g] THEN "in" ELSE "none"]]
    /\ consent = [i \in Ids |-> [g \in GroupIds |->
                    IF i \in InitRoster[g] THEN "allowed" ELSE "unknown"]]
    /\ roster = InitRoster
    /\ log = InitLog
    /\ recent \in {q \in [1..Cardinality(GroupIds) -> GroupIds] :
                      IsInjective(q)}
=============================================================================
