----------------------------- MODULE ProtoServer -----------------------------
(***************************************************************************)
(* MemcachedServer (php_memcached_server.c and the MemcachedServer methods *)
(* of php_memcached.c): a memcached server whose commands are answered by  *)
(* PHP callbacks.                                                          *)
(*                                                                         *)
(* One thread runs a libevent loop.  A connection is watched by one-shot   *)
(* events: each event that fires is handled to its end, and the handler    *)
(* must ask for the next one.  While a callback runs, the PHP code in it   *)
(* may register further callbacks, so a step is one callback; the peers    *)
(* send, stop reading and hang up at any time.                             *)
(***************************************************************************)
EXTENDS Naturals, Sequences, FiniteSets

CONSTANTS
    Clients,        \* connections the server may see
    NoClient,       \* no event is being handled
    Commands,       \* protocol commands, which are also their ON_... events
    MaxSent,        \* bound: MaxSent[c] commands are sent by peer c
    Slow,           \* peers that may stop reading
    ScheduleFails   \* event_base_once may fail

ASSUME ConstantsAssumption ==
    /\ NoClient \notin Clients
    /\ "connect" \notin Commands
    /\ MaxSent \in [Clients -> Nat]
    /\ Slow \subseteq Clients
    /\ ScheduleFails \in BOOLEAN

Events == Commands \cup {"connect"}

\* Packets of an answer: a status, the value of a get or version, an entry of a stat.
Packets == {"SUCCESS", "ERROR", "VALUE", "STAT"}

VARIABLES
    phase,               \* "setup", "loop" (run() dispatches events) or "failed" (it returned)
    callbacks,           \* events with a callback: MEMC_HAS_CB
    socket,              \* socket[c]: "none", "pending" (to be accepted), "open", "closed"
    sent,                \* sent[c]: commands peer c has sent so far
    inbox,               \* inbox[c]: commands to be read from c's socket
    hungup,              \* peers that have closed their end
    stalled,             \* peers that do not read, so that their sockets take no more
    outbox,              \* outbox[c]: packets not yet written to c's socket
    on_connect_invoked,  \* clients whose flag of that name is set
    events,              \* events[c]: one-shot events libevent holds for c
    flags,               \* flags[c]: what the last of them waits for
    handling,            \* the client whose event is being handled
    step,                \* how far s_handle_memcached_event is
    \* history
    connects,            \* connects[c]: calls of the ON_CONNECT callback for c
    admitted,            \* clients a callback accepted, or that none was there to ask about
    served,              \* clients for which a command handler has run
    unscheduled          \* clients whose next event could not be scheduled

peers   == <<sent, inbox, hungup, stalled>>
history == <<connects, admitted, served, unscheduled>>
vars    == <<phase, callbacks, socket, peers, outbox, on_connect_invoked, events, flags,
             handling, step, history>>

-----------------------------------------------------------------------------
(* The PHP script *)

\* MemcachedServer::on: before run(), or in a callback the loop is running.
On(e) ==
    /\ \/ phase = "setup"
       \/ step = "connect" /\ "connect" \in callbacks
       \/ step = "work" /\ callbacks # {}
    /\ callbacks' = callbacks \cup {e}
    /\ UNCHANGED <<phase, socket, peers, outbox, on_connect_invoked, events, flags, handling,
                   step, history>>

\* MemcachedServer::run: the listening socket is there and the loop starts; it does not end.
Run ==
    /\ phase = "setup"
    /\ phase' = "loop"
    /\ UNCHANGED <<callbacks, socket, peers, outbox, on_connect_invoked, events, flags,
                   handling, step, history>>

\* The address cannot be bound: run() releases every callback, though the table still says
\* that they are there, and returns FALSE.  A script that goes on with them is not modelled.
RunFails ==
    /\ phase = "setup"
    /\ phase' = "failed"
    /\ UNCHANGED <<callbacks, socket, peers, outbox, on_connect_invoked, events, flags,
                   handling, step, history>>

-----------------------------------------------------------------------------
(* The peers (external) *)

PeerConnects(c) ==
    /\ phase = "loop" /\ socket[c] = "none"
    /\ socket' = [socket EXCEPT ![c] = "pending"]
    /\ UNCHANGED <<phase, callbacks, peers, outbox, on_connect_invoked, events, flags,
                   handling, step, history>>

PeerSends(c, cmd) ==
    /\ socket[c] \in {"pending", "open"} /\ c \notin hungup
    /\ sent[c] < MaxSent[c]
    /\ sent' = [sent EXCEPT ![c] = @ + 1]
    /\ inbox' = [inbox EXCEPT ![c] = Append(@, cmd)]
    /\ UNCHANGED <<phase, callbacks, socket, hungup, stalled, outbox, on_connect_invoked, events,
                   flags, handling, step, history>>

\* The peer leaves answers unread until the socket is full, which matters when more is due.
PeerStalls(c) ==
    /\ socket[c] = "open" /\ outbox[c] # << >> /\ c \in Slow \ stalled
    /\ stalled' = stalled \cup {c}
    /\ UNCHANGED <<phase, callbacks, socket, sent, inbox, hungup, outbox, on_connect_invoked,
                   events, flags, handling, step, history>>

PeerReads(c) ==
    /\ c \in stalled
    /\ stalled' = stalled \ {c}
    /\ UNCHANGED <<phase, callbacks, socket, sent, inbox, hungup, outbox, on_connect_invoked,
                   events, flags, handling, step, history>>

PeerHangsUp(c) ==
    /\ socket[c] \in {"pending", "open"} /\ c \notin hungup
    /\ hungup' = hungup \cup {c}
    /\ UNCHANGED <<phase, callbacks, socket, sent, inbox, stalled, outbox, on_connect_invoked,
                   events, flags, handling, step, history>>

-----------------------------------------------------------------------------
(* s_accept_cb *)

\* A client is set up, and its first event waits for input.
Accept(c) ==
    /\ phase = "loop" /\ handling = NoClient
    /\ socket[c] = "pending"
    /\ socket' = [socket EXCEPT ![c] = "open"]
    /\ on_connect_invoked' = on_connect_invoked \ {c}
    /\ events' = [events EXCEPT ![c] = @ + 1]
    /\ flags' = [flags EXCEPT ![c] = {"READ"}]
    /\ UNCHANGED <<phase, callbacks, peers, outbox, handling, step, history>>

\* The protocol client or its event cannot be created: all of it is given back.
AcceptFails(c) ==
    /\ phase = "loop" /\ handling = NoClient
    /\ ScheduleFails
    /\ socket[c] = "pending"
    /\ socket' = [socket EXCEPT ![c] = "closed"]
    /\ UNCHANGED <<phase, callbacks, peers, outbox, on_connect_invoked, events, flags,
                   handling, step, history>>

-----------------------------------------------------------------------------
(* s_handle_memcached_event *)

\* libevent finds the event of c ready, forgets it, and calls the handler.
Dispatch(c) ==
    /\ phase = "loop" /\ handling = NoClient
    /\ events[c] > 0
    /\ \/ "WRITE" \in flags[c] /\ c \notin stalled
       \/ "READ" \in flags[c] /\ (inbox[c] # << >> \/ c \in hungup)
    /\ events' = [events EXCEPT ![c] = @ - 1]
    /\ flags' = [flags EXCEPT ![c] = {}]
    /\ handling' = c
    /\ step' = IF c \in on_connect_invoked THEN "work" ELSE "connect"
    /\ UNCHANGED <<phase, callbacks, socket, peers, outbox, on_connect_invoked, history>>

\* Mutant of DestroyClient: the handler falls through to event_base_once.
DestroyClient_Reschedules ==
    /\ socket' = [socket EXCEPT ![handling] = "closed"]
    /\ events' = [events EXCEPT ![handling] = @ + 1]
    /\ inbox' = [inbox EXCEPT ![handling] = << >>]
    /\ outbox' = [outbox EXCEPT ![handling] = << >>]
    /\ stalled' = stalled \ {handling}
    /\ handling' = NoClient
    /\ step' = "idle"
    /\ UNCHANGED <<phase, callbacks, sent, hungup, on_connect_invoked, flags>>

\* The handler gives the client back and returns without asking for another event; what
\* was not read or written yet is lost.
DestroyClient ==
    /\ socket' = [socket EXCEPT ![handling] = "closed"]
    /\ inbox' = [inbox EXCEPT ![handling] = << >>]
    /\ outbox' = [outbox EXCEPT ![handling] = << >>]
    /\ stalled' = stalled \ {handling}
    /\ handling' = NoClient
    /\ step' = "idle"
    /\ UNCHANGED <<phase, callbacks, sent, hungup, on_connect_invoked, events, flags>>

\* Mutant of ConnectAccepted: the flag is left as it was.
ConnectAccepted_KeepsFlag ==
    /\ step = "connect"
    /\ connects' = [connects EXCEPT ![handling] = @ + IF "connect" \in callbacks THEN 1 ELSE 0]
    /\ step' = "work"
    /\ admitted' = admitted \cup {handling}
    /\ UNCHANGED <<phase, callbacks, socket, peers, outbox, on_connect_invoked, events, flags,
                   handling, served, unscheduled>>

\* The first event of a client: there is no ON_CONNECT callback, or it returns SUCCESS.
ConnectAccepted ==
    /\ step = "connect"
    /\ connects' = [connects EXCEPT ![handling] = @ + IF "connect" \in callbacks THEN 1 ELSE 0]
    /\ on_connect_invoked' = on_connect_invoked \cup {handling}
    /\ step' = "work"
    /\ admitted' = admitted \cup {handling}
    /\ UNCHANGED <<phase, callbacks, socket, peers, outbox, events, flags, handling, served,
                   unscheduled>>

\* It returns anything else, or throws: s_invoke_php_callback then says UNKNOWN_COMMAND.
ConnectRejected ==
    /\ step = "connect" /\ "connect" \in callbacks
    /\ connects' = [connects EXCEPT ![handling] = @ + 1]
    /\ DestroyClient
    /\ UNCHANGED <<admitted, served, unscheduled>>

\* Mutant of CallbackResult: a callback that threw answers with its undefined value.
CallbackResult_Undefined(e) ==
    IF e \in callbacks THEN {"SUCCESS", "UNDEF"} ELSE {"ERROR"}

\* What comes of calling the callback of e: SUCCESS or any other status, which is
\* UNKNOWN_COMMAND if there is no callback or it throws.
CallbackResult(e) == {"ERROR"} \cup (IF e \in callbacks THEN {"SUCCESS"} ELSE {})

\* add, append, prepend, increment, decrement, delete, flush, noop, quit, set, replace:
\* the status is the answer.
PlainHandler(cmd) == {<<r>> : r \in CallbackResult(cmd)}

\* get and version answer success with a value.  get means to answer a NULL with
\* KEY_ENOENT, but looks at the PHP reference to the value, which is never NULL itself.
ValueHandler(cmd) == {<<IF r = "SUCCESS" THEN "VALUE" ELSE r>> : r \in CallbackResult(cmd)}

\* stat answers success with entries (any number; one will do here) before the status.
StatHandler(cmd) ==
    LET results == CallbackResult(cmd) IN
    {<<r>> : r \in results}
        \cup (IF "SUCCESS" \in results
              THEN {<<"STAT", "SUCCESS">>} ELSE {})

Handler(cmd) ==
    CASE cmd \in {"get", "version"} -> ValueHandler(cmd)
      [] cmd = "stat"               -> StatHandler(cmd)
      [] OTHER                      -> PlainHandler(cmd)

\* memcached_protocol_client_work (external) reads the next command and calls its handler.
Command ==
    /\ step = "work" /\ inbox[handling] # << >>
    /\ \E answer \in Handler(Head(inbox[handling])) :
          outbox' = [outbox EXCEPT ![handling] = @ \o answer]
    /\ inbox' = [inbox EXCEPT ![handling] = Tail(@)]
    /\ served' = served \cup {handling}
    /\ UNCHANGED <<phase, callbacks, socket, sent, hungup, stalled, on_connect_invoked, events,
                   flags, handling, step, connects, admitted, unscheduled>>

\* It reports an error: the peer has hung up, or a read or write failed.
WorkError ==
    /\ step = "work"
    /\ DestroyClient
    /\ UNCHANGED history

\* How many packets one call may write to the socket of c: some, if there are any and the
\* socket takes more.
Writable(c) == IF outbox[c] = << >> \/ c \in stalled THEN {0} ELSE 1 .. Len(outbox[c])

\* Mutant of WorkDone: READ replaces WRITE instead of joining it.
WorkDone_ReadOnly ==
    /\ step = "work" /\ inbox[handling] = << >> /\ handling \notin hungup
    /\ \E n \in Writable(handling) :
          outbox' = [outbox EXCEPT ![handling] = SubSeq(@, n + 1, Len(@))]
    /\ flags' = [flags EXCEPT ![handling] = {"READ"}]
    /\ step' = "schedule"
    /\ UNCHANGED <<phase, callbacks, socket, peers, on_connect_invoked, events, handling, history>>

\* It has read all there is and written what it could: READ, and WRITE if any is left.
WorkDone ==
    /\ step = "work" /\ inbox[handling] = << >> /\ handling \notin hungup
    /\ \E n \in Writable(handling) :
          outbox' = [outbox EXCEPT ![handling] = SubSeq(@, n + 1, Len(@))]
    /\ flags' = [flags EXCEPT ![handling] =
                    {"READ"} \cup (IF outbox'[handling] # << >> THEN {"WRITE"} ELSE {})]
    /\ step' = "schedule"
    /\ UNCHANGED <<phase, callbacks, socket, peers, on_connect_invoked, events, handling, history>>

\* The handler asks for the next event and returns.
Schedule ==
    /\ step = "schedule"
    /\ events' = [events EXCEPT ![handling] = @ + 1]
    /\ handling' = NoClient
    /\ step' = "idle"
    /\ UNCHANGED <<phase, callbacks, socket, peers, outbox, on_connect_invoked, flags, history>>

\* event_base_once fails: a warning is all there is, and the client is left behind.
ScheduleWarns ==
    /\ step = "schedule" /\ ScheduleFails
    /\ handling' = NoClient
    /\ step' = "idle"
    /\ unscheduled' = unscheduled \cup {handling}
    /\ UNCHANGED <<phase, callbacks, socket, peers, outbox, on_connect_invoked, events, flags,
                   connects, admitted, served>>

-----------------------------------------------------------------------------
Init ==
    /\ phase = "setup"
    /\ callbacks = {}
    /\ socket = [c \in Clients |-> "none"]
    /\ sent = [c \in Clients |-> 0]
    /\ inbox = [c \in Clients |-> << >>]
    /\ hungup = {} /\ stalled = {}
    /\ outbox = [c \in Clients |-> << >>]
    /\ on_connect_invoked = {}
    /\ events = [c \in Clients |-> 0]
    /\ flags = [c \in Clients |-> {}]
    /\ handling = NoClient
    /\ step = "idle"
    /\ connects = [c \in Clients |-> 0]
    /\ admitted = {} /\ served = {} /\ unscheduled = {}

\* The rest of the handler, once an event was dispatched.
Handle ==
    \/ ConnectAccepted \/ ConnectRejected
    \/ Command \/ WorkError \/ WorkDone
    \/ Schedule \/ ScheduleWarns

Next ==
    \/ Run \/ RunFails
    \/ \E e \in Events : On(e)
    \/ \E c \in Clients :
          \/ PeerConnects(c) \/ PeerStalls(c) \/ PeerReads(c) \/ PeerHangsUp(c)
          \/ \E cmd \in Commands : PeerSends(c, cmd)
          \/ Accept(c) \/ AcceptFails(c) \/ Dispatch(c)
    \/ Handle

Spec == Init /\ [][Next]_vars

\* The loop goes on: callbacks return, and libevent serves every event that stays ready.
\* Nothing makes a peer read.
FairSpec ==
    /\ Spec
    /\ WF_vars(Handle)
    /\ \A c \in Clients : SF_vars(Dispatch(c))

-----------------------------------------------------------------------------
(* Properties *)

\* The types of the variables, and of what the event loop keeps of a client.
TypeOK ==
    /\ phase \in {"setup", "loop", "failed"}
    /\ callbacks \in SUBSET Events
    /\ socket \in [Clients -> {"none", "pending", "open", "closed"}]
    /\ sent \in [Clients -> Nat]
    /\ \A c \in Clients : sent[c] <= MaxSent[c]
    /\ inbox \in [Clients -> Seq(Commands)]
    /\ hungup \in SUBSET Clients
    /\ stalled \in SUBSET Clients
    /\ outbox \in [Clients -> Seq(Packets)]
    /\ on_connect_invoked \in SUBSET Clients
    /\ events \in [Clients -> Nat]
    /\ flags \in [Clients -> SUBSET {"READ", "WRITE"}]
    /\ handling \in Clients \cup {NoClient}
    /\ step \in {"idle", "connect", "work", "schedule"}
    /\ connects \in [Clients -> Nat]
    /\ admitted \in SUBSET Clients
    /\ served \in SUBSET Clients
    /\ unscheduled \in SUBSET Clients

\* A one-shot event exists for a client exactly as long as the client is open, is not being
\* handled and was not left behind by a failure to schedule: no event ever refers to a client
\* that was given back, none is handled twice at a time, and none is lost.
OneEventPerClient ==
    \A c \in Clients :
        events[c] = IF socket[c] = "open" /\ handling # c /\ c \notin unscheduled THEN 1 ELSE 0

\* The handler works on an open client to its end.
HandlesOpenClient ==
    /\ handling # NoClient => socket[handling] = "open" /\ handling \notin unscheduled
    /\ step = "idle" <=> handling = NoClient

\* OneEventPerClient in its inductive form.
EventInv ==
    /\ OneEventPerClient
    /\ HandlesOpenClient
    /\ \A c \in unscheduled : socket[c] = "open"

\* No command of a client reaches a handler before ON_CONNECT has accepted the client, and
\* ON_CONNECT is called at most once for it, whatever the callbacks register meanwhile.
ConnectGate ==
    /\ served \subseteq admitted
    /\ \A c \in Clients : connects[c] <= 1

\* ConnectGate in its inductive form.
GateInv ==
    /\ served \subseteq admitted
    /\ \A c \in Clients : c \notin on_connect_invoked /\ socket[c] # "closed" => connects[c] = 0
    /\ \A c \in Clients : connects[c] <= 1
    /\ on_connect_invoked \subseteq admitted
    /\ \A c \in on_connect_invoked : socket[c] \in {"open", "closed"}
    /\ step \in {"work", "schedule"} => handling \in on_connect_invoked
    /\ step = "connect" => handling \notin on_connect_invoked

\* The connection of c has come to an end, or no event watches it any more.
Left(c) == socket[c] = "closed" \/ c \in unscheduled

\* What a client has sent is read even if the client does not read its answers, and the
\* answers are written once it reads them again, unless the connection ends or the client
\* was left behind by a failure to schedule.
Answered ==
    \A c \in Clients :
        /\ (socket[c] = "open" /\ inbox[c] # << >>) ~> (inbox[c] = << >> \/ Left(c))
        /\ <>[](c \notin stalled) =>
              ((socket[c] = "open" /\ outbox[c] # << >>) ~> (outbox[c] = << >> \/ Left(c)))
=============================================================================
