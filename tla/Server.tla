------------------------------- MODULE Server -------------------------------
(***************************************************************************)
(* The RESP server: the accept loop and its shutdown, one thread per       *)
(* connection that reads a command, executes it under the RwLock around    *)
(* the database, and writes the reply, and the clients at the other end.   *)
(* The database is the map that module Db is shown to implement; the       *)
(* standard library's RwLock and the sockets are modelled by what the code *)
(* relies on: readers share, a writer is alone; bytes arrive in order; a   *)
(* write waits while the peer's buffer is full.                            *)
(***************************************************************************)
EXTENDS Layers

CONSTANTS
    Client,
    Command,        \* per client, the commands it may send (see KvService)
    Prompt,         \* the clients that stay, and go on reading their replies
    MaxSends,       \* bound on the commands sent
    Capacity,       \* the replies that fit in a connection's buffers
    Faults          \* "accept", "read", "write": what may fail

Waker == "waker"    \* the connection shutdown makes to its own listener

ASSUME ServerAssumption ==
    /\ Prompt \subseteq Client
    /\ MaxSends \in Nat
    /\ Capacity \in Nat \ {0}
    /\ Faults \subseteq {"accept", "read", "write"}
    /\ Waker \notin Client

Service == INSTANCE KvService WITH
    store <- [k \in Key |-> None], queue <- <<>>, answers <- <<>>, ended <- {}, gone <- {}

\* What carries one of these names and another number of arguments is REJECTED.
HasArguments(m) ==
    /\ m.op = "GET" => Len(m.keys) = 1
    /\ m.op = "SET" => Len(m.keys) = 1 /\ m.value \in Value
    /\ m.op = "DEL" => Len(m.keys) >= 1
    /\ m.op = "ECHO" => m.value \in Value

ASSUME CommandAssumption ==
    /\ Command \in [Client -> SUBSET Service!Commands]
    /\ \A c \in Client : \A m \in Command[c] : HasArguments(m)

VARIABLES
    peer,       \* per client: "away", "open", "half" (done sending) or "gone"
    sent,       \* how many commands were sent (for the bound)
    inbox,      \* per connection, the commands not read yet
    outbox,     \* per connection, the replies not read yet
    backlog,    \* connections waiting for accept
    acceptor,   \* "accepting" or "returned"
    shutdown,   \* the flag
    handle,     \* ShutdownHandle::shutdown: "idle", "flagged" or "done"
    pc,         \* per connection thread: "none", "reading", "waiting", "getting",
                \* "writing", "replying", "closing" or "over"
    args,       \* the command a thread executes
    left,       \* of a DEL, the keys to come
    removed,    \* of a DEL, the count so far
    reply,      \* the reply a thread holds
    store,      \* the database
    seen        \* not in the code: the database when the write lock was last free

peerVars   == <<peer, sent, inbox, outbox>>
acceptVars == <<backlog, acceptor, shutdown, handle>>
callVars   == <<args, left, removed, reply>>
dbVars     == <<store, seen>>
vars == <<peerVars, acceptVars, pc, callVars, dbVars>>

-----------------------------------------------------------------------------
(* The clients.                                                            *)

Connect(c) ==
    /\ peer[c] = "away"
    /\ peer' = [peer EXCEPT ![c] = "open"]
    /\ backlog' = Append(backlog, c)
    /\ UNCHANGED <<sent, inbox, outbox, acceptor, shutdown, handle, pc, callVars, dbVars>>

\* Commands may be sent before earlier ones are answered.
Send(c, m) ==
    /\ peer[c] = "open"
    /\ sent < MaxSends
    /\ sent' = sent + 1
    /\ inbox' = [inbox EXCEPT ![c] = Append(@, m)]
    /\ UNCHANGED <<peer, outbox, acceptVars, pc, callVars, dbVars>>

FinishSending(c) ==
    /\ peer[c] = "open"
    /\ peer' = [peer EXCEPT ![c] = "half"]
    /\ UNCHANGED <<sent, inbox, outbox, acceptVars, pc, callVars, dbVars>>

Receive(c) ==
    /\ peer[c] \in {"open", "half"}
    /\ outbox[c] # <<>>
    /\ outbox' = [outbox EXCEPT ![c] = Tail(@)]
    /\ UNCHANGED <<peer, sent, inbox, acceptVars, pc, callVars, dbVars>>

HangUp(c) ==
    /\ c \notin Prompt
    /\ peer[c] \in {"open", "half"}
    /\ peer' = [peer EXCEPT ![c] = "gone"]
    /\ outbox' = [outbox EXCEPT ![c] = <<>>]
    /\ UNCHANGED <<sent, inbox, acceptVars, pc, callVars, dbVars>>

-----------------------------------------------------------------------------
(* run and shutdown.                                                       *)

\* accept returned, with a connection or an error.  The flag is looked at
\* first: a connection that arrives with it set is dropped.
AcceptReturns ==
    /\ acceptor = "accepting"
    /\ backlog # <<>>
    /\ backlog' = Tail(backlog)
    /\ UNCHANGED <<peerVars, shutdown, handle, callVars, dbVars>>

Stop ==
    /\ AcceptReturns
    /\ shutdown
    /\ acceptor' = "returned"
    /\ pc' = IF Head(backlog) = Waker THEN pc ELSE [pc EXCEPT ![Head(backlog)] = "over"]

Spawn ==
    /\ AcceptReturns
    /\ ~shutdown
    /\ pc' = IF Head(backlog) = Waker THEN pc ELSE [pc EXCEPT ![Head(backlog)] = "reading"]
    /\ UNCHANGED acceptor

\* accept, or dup of the socket in the new thread, failed.
AcceptFails ==
    /\ "accept" \in Faults
    /\ AcceptReturns
    /\ ~shutdown
    /\ pc' = IF Head(backlog) = Waker THEN pc ELSE [pc EXCEPT ![Head(backlog)] = "over"]
    /\ UNCHANGED acceptor

SetFlag ==
    /\ handle = "idle"
    /\ shutdown' = TRUE
    /\ handle' = "flagged"
    /\ UNCHANGED <<peerVars, backlog, acceptor, pc, callVars, dbVars>>

\* Mutant: shutdown only sets the flag.
WakeNot ==
    /\ handle = "flagged"
    /\ handle' = "done"
    /\ UNCHANGED <<peerVars, backlog, acceptor, shutdown, pc, callVars, dbVars>>

Wake ==
    /\ handle = "flagged"
    /\ backlog' = Append(backlog, Waker)
    /\ handle' = "done"
    /\ UNCHANGED <<peerVars, acceptor, shutdown, pc, callVars, dbVars>>

-----------------------------------------------------------------------------
(* serve_connection: reading.                                              *)

Goto(c, label) == pc' = [pc EXCEPT ![c] = label]

Answer(c, r, label) ==
    /\ reply' = [reply EXCEPT ![c] = r]
    /\ Goto(c, label)

\* read_command, and what dispatch does without the database.  A DEL's loop and
\* count, which dispatch starts once it has the lock, are set up here: they are the
\* thread's own.
ReadCommand(c) ==
    /\ pc[c] = "reading"
    /\ inbox[c] # <<>>
    /\ inbox' = [inbox EXCEPT ![c] = Tail(@)]
    /\ LET m == Head(inbox[c]) IN
        \/ /\ m.op \in {"GET", "SET", "DEL"}
           /\ args' = [args EXCEPT ![c] = m]
           /\ left' = [left EXCEPT ![c] = m.keys]
           /\ removed' = [removed EXCEPT ![c] = 0]
           /\ Goto(c, "waiting")
           /\ UNCHANGED reply
        \/ /\ m.op \in Service!Immediate
           /\ Answer(c, Service!ImmediateReply(m), "replying")
           /\ UNCHANGED <<args, left, removed>>
        \/ /\ m.op = "QUIT"
           /\ Answer(c, Service!Ok, "closing")
           /\ UNCHANGED <<args, left, removed>>
        \/ /\ m.op = "MALFORMED"
           /\ Answer(c, Service!Failure, "closing")
           /\ UNCHANGED <<args, left, removed>>
        \/ m.op = "BLANK" /\ UNCHANGED <<pc, callVars>>
    /\ UNCHANGED <<peer, sent, outbox, acceptVars, dbVars>>

\* The end of the stream, between two commands or inside an array (what was read
\* of it is dropped), or an error where the peer left.
ReadEnds(c) ==
    /\ pc[c] = "reading"
    /\ \/ inbox[c] = <<>> /\ peer[c] \in {"half", "gone"}
       \/ peer[c] = "gone"
    /\ Goto(c, "over")
    /\ UNCHANGED <<peerVars, acceptVars, callVars, dbVars>>

-----------------------------------------------------------------------------
(* dispatch under the lock.  The guard of get and put is a temporary of the *)
(* match on its result, the guard of DEL a local: each is dropped before    *)
(* dispatch returns, and the reply is written after that.                   *)

\* Mutant: the guard of a get lives until its reply is written.
LockReadersReplying ==
    {c \in Client : pc[c] = "getting" \/ (pc[c] = "replying" /\ args[c].op = "GET")}

LockReaders == {c \in Client : pc[c] = "getting"}
LockWriters == {c \in Client : pc[c] = "writing"}

LockRead(c) ==
    /\ pc[c] = "waiting"
    /\ args[c].op = "GET"
    /\ LockWriters = {}
    /\ Goto(c, "getting")
    /\ UNCHANGED <<peerVars, acceptVars, callVars, dbVars>>

LockWrite(c) ==
    /\ pc[c] = "waiting"
    /\ args[c].op \in {"SET", "DEL"}
    /\ LockWriters = {} /\ LockReaders = {}
    /\ Goto(c, "writing")
    /\ UNCHANGED <<peerVars, acceptVars, callVars, dbVars>>

Get(c) ==
    /\ pc[c] = "getting"
    /\ \/ Answer(c, Service!Bulk(store[Head(args[c].keys)]), "replying")
       \/ "read" \in Faults /\ Answer(c, Service!Failure, "replying")
    /\ UNCHANGED <<peerVars, acceptVars, args, left, removed, dbVars>>

\* A put that fails may have changed the memtable first.
Set(c) ==
    /\ pc[c] = "writing"
    /\ args[c].op = "SET"
    /\ LET changed == [store EXCEPT ![Head(args[c].keys)] = args[c].value] IN
        \/ store' = changed /\ Answer(c, Service!Ok, "replying")
        \/ /\ "write" \in Faults
           /\ store' \in {store, changed}
           /\ Answer(c, Service!Failure, "replying")
    /\ seen' = store'
    /\ UNCHANGED <<peerVars, acceptVars, args, left, removed>>

\* Mutant: DEL lets go of the lock after a key, and waits for it for the next.
DelKeyUnlocking(c) ==
    /\ pc[c] = "writing"
    /\ args[c].op = "DEL"
    /\ left[c] # <<>>
    /\ IF store[Head(left[c])] = None THEN UNCHANGED <<store, removed>>
       ELSE /\ store' = [store EXCEPT ![Head(left[c])] = None]
            /\ removed' = [removed EXCEPT ![c] = @ + 1]
    /\ left' = [left EXCEPT ![c] = Tail(@)]
    /\ Goto(c, IF Len(left[c]) > 1 THEN "waiting" ELSE "writing")
    /\ UNCHANGED <<peerVars, acceptVars, args, reply, seen>>

\* One turn of DEL's loop.  Only a key that is there is deleted, and counted.
DelKey(c) ==
    /\ pc[c] = "writing"
    /\ args[c].op = "DEL"
    /\ left[c] # <<>>
    /\ IF store[Head(left[c])] = None THEN UNCHANGED <<store, removed>>
       ELSE /\ store' = [store EXCEPT ![Head(left[c])] = None]
            /\ removed' = [removed EXCEPT ![c] = @ + 1]
    /\ left' = [left EXCEPT ![c] = Tail(@)]
    /\ UNCHANGED <<peerVars, acceptVars, pc, args, reply, seen>>

\* The first error ends the loop; what was deleted stays deleted.
DelFails(c) ==
    /\ pc[c] = "writing"
    /\ args[c].op = "DEL"
    /\ left[c] # <<>>
    /\ \/ "read" \in Faults /\ UNCHANGED store
       \/ "write" \in Faults /\ store' \in {store, [store EXCEPT ![Head(left[c])] = None]}
    /\ Answer(c, Service!Failure, "replying")
    /\ seen' = store'
    /\ UNCHANGED <<peerVars, acceptVars, args, left, removed>>

DelDone(c) ==
    /\ pc[c] = "writing"
    /\ args[c].op = "DEL"
    /\ left[c] = <<>>
    /\ Answer(c, Service!Count(removed[c]), "replying")
    /\ seen' = store
    /\ UNCHANGED <<peerVars, acceptVars, args, left, removed, store>>

-----------------------------------------------------------------------------
(* serve_connection: writing.                                              *)

NoCommand == [op |-> "BLANK", keys |-> <<>>, value |-> None]

\* The turn of the loop ends, and the values it held with it.
EndTurn(c) ==
    /\ args' = [args EXCEPT ![c] = NoCommand]
    /\ left' = [left EXCEPT ![c] = <<>>]
    /\ removed' = [removed EXCEPT ![c] = 0]
    /\ reply' = [reply EXCEPT ![c] = Service!Ok]

AfterReply(c) == IF pc[c] = "closing" THEN "over" ELSE "reading"

WriteReply(c) ==
    /\ pc[c] \in {"replying", "closing"}
    /\ peer[c] # "gone"
    /\ Len(outbox[c]) < Capacity
    /\ outbox' = [outbox EXCEPT ![c] = Append(@, reply[c])]
    /\ Goto(c, AfterReply(c))
    /\ EndTurn(c)
    /\ UNCHANGED <<peer, sent, inbox, acceptVars, dbVars>>

\* To a peer that left: the reply is lost, or the write fails and ends the thread.
WriteToGone(c) ==
    /\ pc[c] \in {"replying", "closing"}
    /\ peer[c] = "gone"
    /\ \E label \in {AfterReply(c), "over"} : Goto(c, label)
    /\ EndTurn(c)
    /\ UNCHANGED <<peerVars, acceptVars, dbVars>>

-----------------------------------------------------------------------------
Init ==
    /\ peer = [c \in Client |-> "away"]
    /\ sent = 0
    /\ inbox = [c \in Client |-> <<>>]
    /\ outbox = [c \in Client |-> <<>>]
    /\ backlog = <<>>
    /\ acceptor = "accepting"
    /\ shutdown = FALSE
    /\ handle = "idle"
    /\ pc = [c \in Client |-> "none"]
    /\ args = [c \in Client |-> NoCommand]
    /\ left = [c \in Client |-> <<>>]
    /\ removed = [c \in Client |-> 0]
    /\ reply = [c \in Client |-> Service!Ok]
    /\ store = [k \in Key |-> None]
    /\ seen = store

ClientStep(c) == \/ Connect(c) \/ (\E m \in Command[c] : Send(c, m)) \/ FinishSending(c)
                 \/ Receive(c) \/ HangUp(c)

Accept == Stop \/ Spawn \/ AcceptFails

ShutDown == SetFlag \/ Wake

Serve(c) == \/ ReadCommand(c) \/ ReadEnds(c) \/ LockRead(c) \/ LockWrite(c) \/ Get(c) \/ Set(c)
            \/ DelKey(c) \/ DelFails(c) \/ DelDone(c) \/ WriteReply(c) \/ WriteToGone(c)

Next == Accept \/ ShutDown \/ \E c \in Client : ClientStep(c) \/ Serve(c)

\* Threads are scheduled; of the clients only the prompt ones are relied on, and
\* only to read what they are sent.
Spec == /\ Init /\ [][Next]_vars
        /\ WF_vars(Accept) /\ WF_vars(Wake)
        /\ \A c \in Client : WF_vars(Serve(c))
        /\ \A c \in Prompt : WF_vars(Receive(c))

-----------------------------------------------------------------------------
(* Properties.                                                             *)

\* What clients can tell of the state: the map without what the holder of the
\* write lock has done to it, the commands that have not taken effect, and the
\* replies on their way.
Executing(c) == pc[c] \in {"waiting", "getting", "writing"}

Outstanding(c) == IF Executing(c) THEN <<args[c]>> \o inbox[c] ELSE inbox[c]

Answered(c) ==
    IF peer[c] = "gone" THEN <<>>
    ELSE IF pc[c] \in {"replying", "closing"} THEN Append(outbox[c], reply[c]) ELSE outbox[c]

Abstract == INSTANCE KvService WITH
    store <- seen,
    queue <- [c \in Client |-> Outstanding(c)],
    answers <- [c \in Client |-> Answered(c)],
    ended <- {c \in Client : pc[c] \in {"closing", "over"}},
    gone <- {c \in Client : peer[c] = "gone"}

\* The server is linearizable and answers in order: whatever its threads do
\* side by side, clients see commands executed one at a time, a DEL of several
\* keys included, each client's in the order it sent them, one answer to each
\* and none to a blank one, and nothing executed behind a QUIT or bytes that
\* are no command.
ImplementsKvService == Abstract!Spec

\* A client that reads its replies is served until nothing it sent is left or
\* its connection ends, even when another holds a full buffer and never reads.
CommandsAnswered ==
    \A c \in Prompt :
        pc[c] = "reading" /\ inbox[c] # <<>>
            ~> pc[c] = "over" \/ (pc[c] = "reading" /\ inbox[c] = <<>> /\ outbox[c] = <<>>)

\* shutdown ends run, though accept may be blocked when the flag is set.
ShutdownReturns == shutdown ~> acceptor = "returned"
=============================================================================
