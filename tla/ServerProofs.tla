---------------------------- MODULE ServerProofs ----------------------------
(***************************************************************************)
(* Theorems about the server, for any number of clients and connections,   *)
(* any commands, any sequence of failures and a shutdown at any time: its  *)
(* threads and its lock give each client what KvService promises.          *)
(***************************************************************************)
EXTENDS Server, LayersProofs

Labels == {"none", "reading", "waiting", "getting", "writing", "replying", "closing", "over"}

\* The commands with the arguments they need.
Meant == {m \in Service!Commands : HasArguments(m)}

\* What is enqueued for a thread, its locals, and what it answers.
CallsTypeOK ==
    /\ inbox \in [Client -> Seq(Meant)]
    /\ outbox \in [Client -> Seq(Service!Replies)]
    /\ args \in [Client -> Meant]
    /\ left \in [Client -> Seq(Key)]
    /\ removed \in [Client -> Nat]
    /\ reply \in [Client -> Service!Replies]

ThreadsTypeOK ==
    /\ peer \in [Client -> {"away", "open", "half", "gone"}]
    /\ sent \in Nat
    /\ backlog \in Seq(Client \cup {Waker})
    /\ acceptor \in {"accepting", "returned"}
    /\ shutdown \in BOOLEAN
    /\ handle \in {"idle", "flagged", "done"}
    /\ pc \in [Client -> Labels]

DbTypeOK == store \in Store /\ seen \in Store

TypeOK == ThreadsTypeOK /\ CallsTypeOK /\ DbTypeOK

\* A connection waits for accept once, and until then has no thread.
Queued ==
    /\ \A i \in 1..Len(backlog) : backlog[i] \in Client =>
            pc[backlog[i]] = "none" /\ peer[backlog[i]] # "away"
    /\ \A i, j \in 1..Len(backlog) : backlog[i] = backlog[j] /\ backlog[i] \in Client => i = j
    /\ \A c \in Client : peer[c] = "away" => pc[c] = "none"

\* A thread waits for the lock, with all of its work to do, or holds it, in the
\* mode of its command.
Locking ==
    \A c \in Client :
        /\ pc[c] = "waiting" => /\ args[c].op \in {"GET", "SET", "DEL"}
                                /\ left[c] = args[c].keys /\ removed[c] = 0
        /\ pc[c] = "getting" => args[c].op = "GET"
        /\ pc[c] = "writing" => args[c].op \in {"SET", "DEL"}

\* The lock excludes what it should.
WriterAlone ==
    \A c, d \in Client : pc[c] = "writing" /\ pc[d] \in {"getting", "writing"} => c = d

\* How far a DEL has come: n of its keys are done with.
Deleted(c, n) ==
    LET done == Abstract!KeySet(SubSeq(args[c].keys, 1, n)) IN
    /\ left[c] = SubSeq(args[c].keys, n + 1, Len(args[c].keys))
    /\ store = Abstract!Without(done)
    /\ removed[c] = Cardinality(Abstract!Present(done))

\* What has been done to the map since the lock was last free is the work of the
\* thread that has it for writing.
Progress ==
    /\ (\A c \in Client : pc[c] # "writing") => store = seen
    /\ \A c \in Client : pc[c] = "writing" /\ args[c].op = "SET" => store = seen
    /\ \A c \in Client : pc[c] = "writing" => \E n \in 0..Len(args[c].keys) : Deleted(c, n)

ServerInv == TypeOK /\ Queued /\ Locking /\ WriterAlone /\ Progress

-----------------------------------------------------------------------------
(* Types.                                                                  *)

LEMMA SameService ==
    /\ Service!Ok = Abstract!Ok /\ Service!Failure = Abstract!Failure
    /\ \A v : Service!Bulk(v) = Abstract!Bulk(v)
    /\ \A n : Service!Count(n) = Abstract!Count(n)
BY DEF Service!Ok, Service!Failure, Service!Bulk, Service!Count, Service!Reply,
       Abstract!Ok, Abstract!Failure, Abstract!Bulk, Abstract!Count, Abstract!Reply

LEMMA RepliesType ==
    /\ Service!Ok \in Service!Replies /\ Service!Failure \in Service!Replies
    /\ \A v \in Value \cup {None} : Service!Bulk(v) \in Service!Replies
    /\ \A n \in Nat : Service!Count(n) \in Service!Replies
    /\ Service!EmptyArray \in Service!Replies
BY DEF Service!Ok, Service!Failure, Service!Bulk, Service!Count, Service!EmptyArray,
       Service!Reply, Service!Replies

LEMMA MeantType ==
    ASSUME NEW m \in Meant
    PROVE  /\ m.keys \in Seq(Key) /\ m.value \in Value \cup {None}
           /\ m.op \in Service!Operations
           /\ m.op \in {"GET", "SET"} => Len(m.keys) = 1 /\ Head(m.keys) \in Key
           /\ m.op = "SET" => m.value \in Value
           /\ m.op = "DEL" => Len(m.keys) >= 1
BY DEF Meant, HasArguments, Service!Commands

LEMMA ImmediateReplyType ==
    ASSUME NEW m \in Meant, m.op \in Service!Immediate
    PROVE  /\ Service!ImmediateReply(m) \in Service!Replies
           /\ Service!ImmediateReply(m) = Abstract!ImmediateReply(m)
<1>1. /\ m.value \in Value \cup {None}
      /\ m.op \in {"PING", "ECHO", "COMMAND", "REJECTED"}
    BY MeantType DEF Service!Immediate
<1>2. Service!EmptyArray = Abstract!EmptyArray
    BY DEF Service!EmptyArray, Abstract!EmptyArray, Service!Reply, Abstract!Reply
<1>3. Service!ImmediateReply(m) \in Service!Replies
    BY <1>1, RepliesType DEF Service!ImmediateReply
<1>4. Service!ImmediateReply(m) = Abstract!ImmediateReply(m)
    BY <1>1, <1>2, SameService DEF Service!ImmediateReply, Abstract!ImmediateReply
<1> QED
    BY <1>3, <1>4

LEMMA SentMeant ==
    ASSUME NEW c \in Client, NEW m \in Command[c]
    PROVE  m \in Meant
BY CommandAssumption DEF Meant

LEMMA NoCommandMeant == NoCommand \in Meant
BY DEF NoCommand, Meant, HasArguments, Service!Commands, Service!Operations

LEMMA ThreadsTyped ==
    ASSUME TypeOK, Queued, [Next]_vars
    PROVE  ThreadsTypeOK'
<1> USE DEF acceptVars, callVars, dbVars, peerVars, Labels
<1>1. ThreadsTypeOK
    BY DEF TypeOK
<1>2. ASSUME NEW c \in Client, ClientStep(c)
      PROVE  ThreadsTypeOK'
    <2>1. /\ \E p \in {"open", "half", "gone"} : peer' \in {peer, [peer EXCEPT ![c] = p]}
          /\ sent' \in {sent, sent + 1} /\ backlog' \in {backlog, Append(backlog, c)}
          /\ UNCHANGED <<acceptor, shutdown, handle, pc>>
        BY <1>2 DEF ClientStep, Connect, Send, FinishSending, Receive, HangUp
    <2> QED
        BY <1>1, <2>1 DEF ThreadsTypeOK
<1>3. CASE Accept
    BY <1>1, <1>3 DEF Accept, Stop, Spawn, AcceptFails, AcceptReturns, ThreadsTypeOK
<1>4. CASE ShutDown
    <2>1. /\ shutdown' \in {TRUE, shutdown} /\ handle' \in {"flagged", "done"}
          /\ backlog' \in {backlog, Append(backlog, Waker)}
          /\ UNCHANGED <<peer, sent, acceptor, pc>>
        BY <1>4, Zenon DEF ShutDown, SetFlag, Wake
    <2>2. shutdown' \in BOOLEAN
        BY <1>1, <2>1, Zenon DEF ThreadsTypeOK
    <2>3. backlog' \in Seq(Client \cup {Waker})
        BY <1>1, <2>1 DEF ThreadsTypeOK
    <2> QED
        BY <1>1, <2>1, <2>2, <2>3, Zenon DEF ThreadsTypeOK
<1>5. ASSUME NEW c \in Client, Serve(c)
      PROVE  ThreadsTypeOK'
    <2>1. /\ \E label \in Labels : pc' = [pc EXCEPT ![c] = label]
          /\ UNCHANGED <<peer, sent, acceptVars>>
        BY <1>1, <1>5
        DEF Serve, ReadCommand, ReadEnds, LockRead, LockWrite, Get, Set, DelKey, DelFails, DelDone,
            WriteReply, WriteToGone, Goto, Answer, AfterReply, ThreadsTypeOK
    <2> QED
        BY <1>1, <2>1 DEF ThreadsTypeOK
<1>6. CASE UNCHANGED vars
    BY <1>1, <1>6 DEF vars, ThreadsTypeOK
<1> QED
    BY <1>2, <1>3, <1>4, <1>5, <1>6 DEF Next

LEMMA CallsTyped ==
    ASSUME TypeOK, Locking, [Next]_vars
    PROVE  CallsTypeOK'
<1> USE DEF acceptVars, callVars, dbVars, peerVars
<1>1. CallsTypeOK /\ store \in Store
    BY DEF TypeOK, DbTypeOK
<1>2. ASSUME NEW c \in Client, ClientStep(c)
      PROVE  CallsTypeOK'
    <2>1. CASE Connect(c) \/ FinishSending(c)
        BY <1>1, <2>1 DEF Connect, FinishSending, CallsTypeOK
    <2>2. ASSUME NEW m \in Command[c], Send(c, m) PROVE CallsTypeOK'
        BY <1>1, <2>2, SentMeant DEF Send, CallsTypeOK
    <2>3. CASE Receive(c)
        BY <1>1, <2>3 DEF Receive, CallsTypeOK
    <2>4. CASE HangUp(c)
        BY <1>1, <2>4 DEF HangUp, CallsTypeOK
    <2> QED
        BY <1>2, <2>1, <2>2, <2>3, <2>4 DEF ClientStep
<1>3. CASE Accept \/ ShutDown
    BY <1>1, <1>3
    DEF Accept, Stop, Spawn, AcceptFails, AcceptReturns, ShutDown, SetFlag, Wake, CallsTypeOK
<1>4. ASSUME NEW c \in Client, Serve(c)
      PROVE  CallsTypeOK'
    <2>1. CASE ReadCommand(c)
        <3> DEFINE m == Head(inbox[c])
        <3>1. /\ inbox[c] \in Seq(Meant) /\ inbox[c] # <<>>
              /\ inbox' = [inbox EXCEPT ![c] = Tail(inbox[c])]
              /\ args' \in {args, [args EXCEPT ![c] = m]}
              /\ left' \in {left, [left EXCEPT ![c] = m.keys]}
              /\ removed' \in {removed, [removed EXCEPT ![c] = 0]}
              /\ outbox' = outbox
            BY <1>1, <2>1 DEF ReadCommand, Answer, CallsTypeOK
        <3>2. m \in Meant /\ m.keys \in Seq(Key) /\ Tail(inbox[c]) \in Seq(Meant)
            BY <3>1, MeantType
        <3>3. \/ reply' = reply
              \/ \E r \in Service!Replies : reply' = [reply EXCEPT ![c] = r]
            BY <2>1, <3>2, RepliesType, ImmediateReplyType DEF ReadCommand, Answer
        <3> HIDE DEF m
        <3>4. inbox' \in [Client -> Seq(Meant)] /\ args' \in [Client -> Meant]
            BY <1>1, <3>1, <3>2 DEF CallsTypeOK
        <3>5. left' \in [Client -> Seq(Key)]
            BY <1>1, <3>1, <3>2 DEF CallsTypeOK
        <3>6. removed' \in [Client -> Nat]
            BY <1>1, <3>1 DEF CallsTypeOK
        <3>7. reply' \in [Client -> Service!Replies]
            BY <1>1, <3>3 DEF CallsTypeOK
        <3> QED
            BY <1>1, <3>1, <3>4, <3>5, <3>6, <3>7 DEF CallsTypeOK
    <2>2. CASE ReadEnds(c) \/ LockRead(c)
        BY <1>1, <2>2 DEF ReadEnds, LockRead, CallsTypeOK
    <2>3. CASE LockWrite(c)
        BY <1>1, <2>3 DEF LockWrite, CallsTypeOK
    <2>4. CASE Get(c)
        <3>1. args[c] \in Meant /\ args[c].op = "GET"
            BY <1>1, <2>4 DEF Get, Locking, CallsTypeOK
        <3>2. store[Head(args[c].keys)] \in Value \cup {None}
            BY <1>1, <3>1, MeantType DEF Store
        <3> QED
            BY <1>1, <2>4, <3>2, RepliesType DEF Get, Answer, CallsTypeOK
    <2>5. CASE Set(c) \/ DelFails(c) \/ DelDone(c)
        <3>1. /\ \E r \in Service!Replies : reply' = [reply EXCEPT ![c] = r]
              /\ UNCHANGED <<inbox, outbox, args, left, removed>>
            BY <1>1, <2>5, RepliesType DEF Set, DelFails, DelDone, Answer, CallsTypeOK
        <3> QED
            BY <1>1, <3>1 DEF CallsTypeOK
    <2>6. CASE DelKey(c)
        <3>1. /\ left[c] # <<>> /\ left' = [left EXCEPT ![c] = Tail(left[c])]
              /\ removed' \in {removed, [removed EXCEPT ![c] = removed[c] + 1]}
              /\ UNCHANGED <<inbox, outbox, args, reply>>
            BY <2>6 DEF DelKey
        <3>2. left' \in [Client -> Seq(Key)]
            BY <1>1, <3>1 DEF CallsTypeOK
        <3>3. removed \in [Client -> Nat] /\ removed[c] + 1 \in Nat
            BY <1>1 DEF CallsTypeOK
        <3>4. removed' \in [Client -> Nat]
            BY <3>1, <3>3
        <3> QED
            BY <1>1, <3>1, <3>2, <3>4 DEF CallsTypeOK
    <2>7. CASE WriteReply(c) \/ WriteToGone(c)
        <3>1. /\ outbox' \in {outbox, [outbox EXCEPT ![c] = Append(outbox[c], reply[c])]}
              /\ inbox' = inbox /\ EndTurn(c)
            BY <2>7 DEF WriteReply, WriteToGone
        <3>2. outbox' \in [Client -> Seq(Service!Replies)]
            <4>1. /\ outbox \in [Client -> Seq(Service!Replies)]
                  /\ Append(outbox[c], reply[c]) \in Seq(Service!Replies)
                BY <1>1 DEF CallsTypeOK
            <4> QED
                BY <3>1, <4>1
        <3>3. args' \in [Client -> Meant] /\ reply' \in [Client -> Service!Replies]
            BY <1>1, <3>1, NoCommandMeant, RepliesType DEF EndTurn, CallsTypeOK
        <3>4. left' \in [Client -> Seq(Key)] /\ removed' \in [Client -> Nat]
            BY <1>1, <3>1 DEF EndTurn, CallsTypeOK
        <3> QED
            BY <1>1, <3>1, <3>2, <3>3, <3>4 DEF CallsTypeOK
    <2> QED
        BY <1>4, <2>1, <2>2, <2>3, <2>4, <2>5, <2>6, <2>7 DEF Serve
<1>5. CASE UNCHANGED vars
    BY <1>1, <1>5 DEF vars, CallsTypeOK
<1> QED
    BY <1>2, <1>3, <1>4, <1>5 DEF Next

LEMMA DbTyped ==
    ASSUME TypeOK, [Next]_vars
    PROVE  DbTypeOK'
<1> USE DEF acceptVars, callVars, dbVars, peerVars
<1>1. DbTypeOK
    BY DEF TypeOK
<1>2. CASE UNCHANGED dbVars
    BY <1>1, <1>2 DEF DbTypeOK
<1>3. ASSUME NEW c \in Client, Set(c)
      PROVE  DbTypeOK'
    <2>1. args[c] \in Meant /\ args[c].op = "SET"
        BY <1>3 DEF Set, TypeOK, CallsTypeOK
    <2>2. args[c].value \in Value
        BY <2>1, MeantType
    <2> QED
        BY <1>1, <1>3, <2>2 DEF Set, DbTypeOK, Store
<1>4. ASSUME NEW c \in Client, DelKey(c) \/ DelFails(c) \/ DelDone(c)
      PROVE  DbTypeOK'
    <2>1. \E k : store' \in {store, [store EXCEPT ![k] = None]}
        BY <1>4 DEF DelKey, DelFails, DelDone
    <2>2. seen' \in {seen, store'}
        BY <1>4 DEF DelKey, DelFails, DelDone
    <2> QED
        BY <1>1, <2>1, <2>2 DEF DbTypeOK, Store
<1> QED
    BY <1>2, <1>3, <1>4
    DEF Next, ClientStep, Connect, Send, FinishSending, Receive, HangUp, Accept, Stop, Spawn,
        AcceptFails, AcceptReturns, ShutDown, SetFlag, Wake, Serve, ReadCommand, ReadEnds, LockRead,
        LockWrite, Get, WriteReply, WriteToGone, vars

-----------------------------------------------------------------------------
(* Threads and the lock.                                                   *)

LEMMA QueuedNext ==
    ASSUME TypeOK, Queued, [Next]_vars
    PROVE  Queued'
<1> USE DEF acceptVars, callVars, dbVars, peerVars
<1>1. ThreadsTypeOK
    BY DEF TypeOK
<1>2. ASSUME NEW c \in Client, Connect(c) PROVE Queued'
    BY <1>1, <1>2 DEF Connect, Queued, ThreadsTypeOK
<1>3. ASSUME NEW c \in Client,
             \/ \E m \in Command[c] : Send(c, m)
             \/ FinishSending(c) \/ Receive(c) \/ HangUp(c)
      PROVE  Queued'
    <2>1. /\ UNCHANGED <<backlog, pc>>
          /\ \A d \in Client : peer'[d] = "away" <=> peer[d] = "away"
        BY <1>1, <1>3 DEF Send, FinishSending, Receive, HangUp, ThreadsTypeOK
    <2> QED
        BY <1>1, <2>1 DEF Queued, ThreadsTypeOK
<1>4. CASE Accept
    <2> DEFINE h == Head(backlog)
    <2>1. /\ backlog # <<>> /\ backlog' = Tail(backlog) /\ peer' = peer
          /\ \A d \in Client : pc'[d] # pc[d] => d = h
        BY <1>1, <1>4 DEF Accept, Stop, Spawn, AcceptFails, AcceptReturns, ThreadsTypeOK
    <2>2. /\ Len(backlog') = Len(backlog) - 1
          /\ \A i \in 1..Len(backlog') : backlog'[i] = backlog[i + 1] /\ i + 1 \in 1..Len(backlog)
          /\ h = backlog[1] /\ 1 \in 1..Len(backlog)
        BY <1>1, <2>1 DEF ThreadsTypeOK
    <2> HIDE DEF h
    <2>3. \A i \in 1..Len(backlog') : backlog'[i] \in Client => backlog'[i] # h
        BY <2>2 DEF Queued
    <2>4. \A d \in Client : peer'[d] = "away" => pc'[d] = "none"
        BY <2>1, <2>2 DEF Queued
    <2> QED
        BY <2>1, <2>2, <2>3, <2>4 DEF Queued
<1>5. CASE ShutDown
    BY <1>1, <1>5, ServerAssumption DEF ShutDown, SetFlag, Wake, Queued, ThreadsTypeOK
<1>6. ASSUME NEW c \in Client, Serve(c)
      PROVE  Queued'
    <2>1. /\ pc[c] # "none" /\ \E label : pc' = [pc EXCEPT ![c] = label]
          /\ UNCHANGED <<peer, acceptVars>>
        BY <1>1, <1>6
        DEF Serve, ReadCommand, ReadEnds, LockRead, LockWrite, Get, Set, DelKey, DelFails, DelDone,
            WriteReply, WriteToGone, Goto, Answer, ThreadsTypeOK
    <2> QED
        BY <1>1, <2>1 DEF Queued, ThreadsTypeOK
<1>7. CASE UNCHANGED vars
    BY <1>7 DEF vars, Queued
<1> QED
    BY <1>2, <1>3, <1>4, <1>5, <1>6, <1>7 DEF Next, ClientStep

LEMMA LockingNext ==
    ASSUME TypeOK, Locking, [Next]_vars
    PROVE  Locking'
<1> USE DEF acceptVars, callVars, dbVars, peerVars
<1>1. /\ pc \in [Client -> Labels] /\ args \in [Client -> Meant]
      /\ left \in [Client -> Seq(Key)] /\ removed \in [Client -> Nat]
    BY DEF TypeOK, ThreadsTypeOK, CallsTypeOK
<1>2. CASE Accept
    <2>1. UNCHANGED callVars /\ \E c, label : /\ label \in {"reading", "over"}
                                          /\ pc' \in {pc, [pc EXCEPT ![c] = label]}
        BY <1>2 DEF Accept, Stop, Spawn, AcceptFails, AcceptReturns
    <2> QED
        BY <1>1, <2>1 DEF Locking
<1>3. CASE ShutDown \/ UNCHANGED vars
    BY <1>1, <1>3 DEF ShutDown, SetFlag, Wake, vars, Locking
<1>4. ASSUME NEW c \in Client, ClientStep(c) PROVE Locking'
    BY <1>1, <1>4 DEF ClientStep, Connect, Send, FinishSending, Receive, HangUp, Locking
<1>5. ASSUME NEW c \in Client, Serve(c) PROVE Locking'
    <2>1. CASE ReadCommand(c)
        BY <1>1, <2>1 DEF ReadCommand, Goto, Answer, Locking
    <2>2. CASE LockRead(c) \/ LockWrite(c)
        BY <1>1, <2>2 DEF LockRead, LockWrite, Goto, Locking
    <2>3. CASE ReadEnds(c) \/ Get(c) \/ Set(c) \/ DelKey(c) \/ DelFails(c) \/ DelDone(c)
        BY <1>1, <2>3 DEF ReadEnds, Get, Set, DelKey, DelFails, DelDone, Goto, Answer, Locking
    <2>4. CASE WriteReply(c) \/ WriteToGone(c)
        BY <1>1, <2>4 DEF WriteReply, WriteToGone, AfterReply, EndTurn, Goto, Locking
    <2> QED
        BY <1>5, <2>1, <2>2, <2>3, <2>4 DEF Serve
<1> QED
    BY <1>2, <1>3, <1>4, <1>5 DEF Next

\* A thread that holds the lock for writing keeps it, and its locals, while others
\* take their steps; and only such a thread touches the map.
LockKept ==
    /\ UNCHANGED dbVars
    /\ \A d \in Client : pc'[d] = "writing" <=> pc[d] = "writing"
    /\ \A d \in Client : pc[d] = "writing" =>
            args'[d] = args[d] /\ left'[d] = left[d] /\ removed'[d] = removed[d]

LEMMA LockSteps ==
    ASSUME TypeOK, Queued, [Next]_vars
    PROVE  \/ LockKept
           \/ \E c \in Client : LockWrite(c) \/ Set(c) \/ DelKey(c) \/ DelFails(c) \/ DelDone(c)
<1> USE DEF acceptVars, callVars, dbVars, peerVars
<1>1. /\ pc \in [Client -> Labels] /\ args \in [Client -> Meant] /\ left \in [Client -> Seq(Key)]
      /\ removed \in [Client -> Nat] /\ backlog \in Seq(Client \cup {Waker})
    BY DEF TypeOK, ThreadsTypeOK, CallsTypeOK
<1>2. CASE Accept
    <2> DEFINE h == Head(backlog)
    <2>1. /\ backlog # <<>> /\ UNCHANGED <<callVars, dbVars>>
          /\ \E label \in {"reading", "over"} : pc' \in {pc, [pc EXCEPT ![h] = label]}
        BY <1>2 DEF Accept, Stop, Spawn, AcceptFails, AcceptReturns
    <2>2. h \in Client => pc[h] = "none"
        BY <1>1, <2>1 DEF Queued
    <2> HIDE DEF h
    <2> QED
        BY <1>1, <2>1, <2>2 DEF LockKept
<1>3. CASE ShutDown \/ UNCHANGED vars
    BY <1>3 DEF ShutDown, SetFlag, Wake, vars, LockKept
<1>4. ASSUME NEW c \in Client, ClientStep(c) PROVE LockKept
    BY <1>4 DEF ClientStep, Connect, Send, FinishSending, Receive, HangUp, LockKept
<1>5. ASSUME NEW c \in Client,
             \/ ReadCommand(c) \/ ReadEnds(c) \/ LockRead(c) \/ Get(c)
             \/ WriteReply(c) \/ WriteToGone(c)
      PROVE  LockKept
    <2>1. /\ UNCHANGED dbVars /\ pc[c] # "writing"
          /\ \E label : label # "writing" /\ pc' \in {pc, [pc EXCEPT ![c] = label]}
        BY <1>5
        DEF ReadCommand, ReadEnds, LockRead, Get, WriteReply, WriteToGone, Goto, Answer, AfterReply
    <2>2. \A d \in Client \ {c} :
              args'[d] = args[d] /\ left'[d] = left[d] /\ removed'[d] = removed[d]
        BY <1>1, <1>5
        DEF ReadCommand, ReadEnds, LockRead, Get, WriteReply, WriteToGone, EndTurn
    <2> QED
        BY <1>1, <2>1, <2>2 DEF LockKept
<1> QED
    BY <1>2, <1>3, <1>4, <1>5 DEF Next, Serve

LEMMA WriterAloneNext ==
    ASSUME TypeOK, Queued, WriterAlone, [Next]_vars
    PROVE  WriterAlone'
<1> USE DEF acceptVars, callVars, dbVars, peerVars
<1>1. pc \in [Client -> Labels]
    BY DEF TypeOK, ThreadsTypeOK
<1>2. ASSUME NEW c \in Client, LockRead(c) PROVE WriterAlone'
    BY <1>1, <1>2 DEF LockRead, Goto, LockWriters, WriterAlone
<1>3. ASSUME NEW c \in Client, LockWrite(c) PROVE WriterAlone'
    BY <1>1, <1>3 DEF LockWrite, Goto, LockWriters, LockReaders, WriterAlone
<1>4. ASSUME ~\E c \in Client : LockRead(c) \/ LockWrite(c)
      PROVE  \A d \in Client : pc'[d] \in {"getting", "writing"} => pc'[d] = pc[d]
    <2>1. CASE Accept
        BY <1>1, <2>1 DEF Accept, Stop, Spawn, AcceptFails, AcceptReturns
    <2>2. CASE ShutDown \/ UNCHANGED vars
        BY <2>2 DEF ShutDown, SetFlag, Wake, vars
    <2>3. ASSUME NEW c \in Client, ClientStep(c) PROVE pc' = pc
        BY <2>3 DEF ClientStep, Connect, Send, FinishSending, Receive, HangUp
    <2>4. ASSUME NEW c \in Client, Serve(c)
          PROVE  \/ pc' = pc
                 \/ \E label : label \notin {"getting", "writing"} /\ pc' = [pc EXCEPT ![c] = label]
        BY <1>4, <2>4
        DEF Serve, ReadCommand, ReadEnds, Get, Set, DelKey, DelFails, DelDone, WriteReply,
            WriteToGone, Goto, Answer, AfterReply
    <2> QED
        BY <1>1, <2>1, <2>2, <2>3, <2>4 DEF Next
<1> QED
    BY <1>2, <1>3, <1>4 DEF WriterAlone

-----------------------------------------------------------------------------
(* How far a DEL has come.                                                 *)

LEMMA OneMoreKey ==
    ASSUME NEW s \in Seq(Key), NEW n \in 0..Len(s), SubSeq(s, n + 1, Len(s)) # <<>>
    PROVE  /\ n + 1 \in 1..Len(s) /\ s[n + 1] \in Key
           /\ Head(SubSeq(s, n + 1, Len(s))) = s[n + 1]
           /\ Tail(SubSeq(s, n + 1, Len(s))) = SubSeq(s, (n + 1) + 1, Len(s))
           /\ Abstract!KeySet(SubSeq(s, 1, n + 1))
                = Abstract!KeySet(SubSeq(s, 1, n)) \cup {s[n + 1]}
<1>1. Len(s) \in Nat /\ n \in Nat /\ n < Len(s)
    BY SubSeqProperties
<1>2. n + 1 \in 1..Len(s) /\ s[n + 1] \in Key
    BY <1>1
<1>3. /\ Len(SubSeq(s, 1, n)) = n /\ Len(SubSeq(s, 1, n + 1)) = n + 1
      /\ \A i \in 1..n : SubSeq(s, 1, n)[i] = s[i]
      /\ \A i \in 1..n + 1 : SubSeq(s, 1, n + 1)[i] = s[i]
    BY <1>1
<1>4. /\ DOMAIN SubSeq(s, 1, n) = 1..n /\ DOMAIN SubSeq(s, 1, n + 1) = 1..n + 1
    BY <1>1, <1>3
<1>5. Abstract!KeySet(SubSeq(s, 1, n + 1)) = Abstract!KeySet(SubSeq(s, 1, n)) \cup {s[n + 1]}
    <2>1. 1..n + 1 = (1..n) \cup {n + 1}
        BY <1>1
    <2> QED
        BY <1>3, <1>4, <2>1 DEF Abstract!KeySet
<1>6. Head(SubSeq(s, n + 1, Len(s))) = s[n + 1]
    BY <1>1
<1>7. Tail(SubSeq(s, n + 1, Len(s))) = SubSeq(s, (n + 1) + 1, Len(s))
    BY <1>1
<1> QED
    BY <1>2, <1>5, <1>6, <1>7

LEMMA KeysFinite ==
    ASSUME NEW s \in Seq(Key), NEW n \in 0..Len(s)
    PROVE  IsFiniteSet(Abstract!Present(Abstract!KeySet(SubSeq(s, 1, n))))
<1> DEFINE t == SubSeq(s, 1, n)
           K == Abstract!KeySet(t)
<1>1. t \in Seq(Key) /\ DOMAIN t = 1..Len(t) /\ Len(t) \in Nat
    OBVIOUS
<1>2. t \in Surjection(DOMAIN t, K)
    <2>1. K = {t[i] : i \in DOMAIN t}
        BY DEF Abstract!KeySet
    <2> HIDE DEF t
    <2>2. t \in [DOMAIN t -> Key]
        BY <1>1, LenProperties
    <2>3. t \in [DOMAIN t -> K] /\ \A y \in K : \E x \in DOMAIN t : t[x] = y
        BY <2>1, <2>2
    <2> QED
        BY <2>3, Zenon DEF Surjection
<1>3. IsFiniteSet(DOMAIN t)
    BY <1>1, FS_Interval
<1>4. IsFiniteSet(K)
    BY <1>2, <1>3, FS_Surjection
<1>5. Abstract!Present(K) \in SUBSET K
    BY DEF Abstract!Present
<1> QED
    BY <1>4, <1>5, FS_Subset

\* A turn of DEL's loop: one more key is gone, and counted if it was there.
LEMMA OneMoreDeleted ==
    ASSUME TypeOK, NEW c \in Client, NEW n \in 0..Len(args[c].keys), Deleted(c, n), DelKey(c)
    PROVE  n + 1 \in 0..Len(args[c].keys) /\ Deleted(c, n + 1)'
<1> DEFINE s == args[c].keys
           done == Abstract!KeySet(SubSeq(s, 1, n))
           k == s[n + 1]
<1>1. s \in Seq(Key) /\ n \in 0..Len(s) /\ Len(s) \in Nat
    BY MeantType DEF TypeOK, CallsTypeOK
<1>2. /\ left[c] = SubSeq(s, n + 1, Len(s)) /\ left[c] # <<>>
      /\ store = Abstract!Without(done) /\ removed[c] = Cardinality(Abstract!Present(done))
    BY DEF Deleted, DelKey
<1>3. /\ n + 1 \in 0..Len(s) /\ k \in Key /\ Head(left[c]) = k
      /\ Tail(left[c]) = SubSeq(s, (n + 1) + 1, Len(s))
      /\ Abstract!KeySet(SubSeq(s, 1, n + 1)) = done \cup {k}
    <2>1. SubSeq(s, n + 1, Len(s)) # <<>>
        BY <1>2
    <2> HIDE DEF s
    <2>2. /\ n + 1 \in 1..Len(s) /\ s[n + 1] \in Key
          /\ Head(SubSeq(s, n + 1, Len(s))) = s[n + 1]
          /\ Tail(SubSeq(s, n + 1, Len(s))) = SubSeq(s, (n + 1) + 1, Len(s))
          /\ Abstract!KeySet(SubSeq(s, 1, n + 1)) = Abstract!KeySet(SubSeq(s, 1, n)) \cup {s[n + 1]}
        BY <1>1, <2>1, OneMoreKey
    <2>3. n + 1 \in 0..Len(s)
        BY <1>1, <2>2
    <2> QED
        BY <1>2, <2>2, <2>3, Zenon
<1>4. /\ args' = args /\ seen' = seen /\ left'[c] = Tail(left[c])
      /\ store[k] = None => store' = store /\ removed'[c] = removed[c]
      /\ store[k] # None => store' = [store EXCEPT ![k] = None] /\ removed'[c] = removed[c] + 1
    BY <1>3 DEF DelKey, TypeOK, CallsTypeOK
<1>5. IsFiniteSet(Abstract!Present(done))
    BY <1>1, KeysFinite
<1> HIDE DEF s, done, k
<1>6. store[k] = IF k \in done THEN None ELSE seen[k]
    BY <1>2, <1>3 DEF Abstract!Without
<1>7. store' = Abstract!Without(done \cup {k})
    <2>1. CASE store[k] = None
        BY <1>2, <1>4, <1>6, <2>1 DEF Abstract!Without
    <2>2. CASE store[k] # None
        BY <1>2, <1>3, <1>4, <2>2 DEF Abstract!Without
    <2> QED
        BY <2>1, <2>2
<1>8. removed'[c] = Cardinality(Abstract!Present(done \cup {k}))
    <2>1. CASE store[k] = None
        <3>1. Abstract!Present(done \cup {k}) = Abstract!Present(done)
            BY <1>6, <2>1 DEF Abstract!Present
        <3> QED
            BY <1>2, <1>4, <2>1, <3>1
    <2>2. CASE store[k] # None
        <3>1. /\ Abstract!Present(done \cup {k}) = Abstract!Present(done) \cup {k}
              /\ k \notin Abstract!Present(done)
            BY <1>6, <2>2 DEF Abstract!Present
        <3>2. Cardinality(Abstract!Present(done) \cup {k}) = Cardinality(Abstract!Present(done)) + 1
            BY <1>5, <3>1, FS_AddElement
        <3> QED
            BY <1>2, <1>4, <2>2, <3>1, <3>2
    <2> QED
        BY <2>1, <2>2
<1>9. args'[c].keys = s /\ seen' = seen
    BY <1>4 DEF s
<1>10. Abstract!KeySet(SubSeq(args[c].keys, 1, n + 1))' = done \cup {k}
    <2>1. Abstract!KeySet(SubSeq(args[c].keys, 1, n + 1))' = Abstract!KeySet(SubSeq(s, 1, n + 1))
        BY <1>9 DEF Abstract!KeySet
    <2> QED
        BY <1>3, <2>1
<1>11. left'[c] = SubSeq(args'[c].keys, (n + 1) + 1, Len(args'[c].keys))
    BY <1>3, <1>4, <1>9
<1>12. \A D : /\ [j \in Key |-> IF j \in D THEN None ELSE seen'[j]] = Abstract!Without(D)
              /\ {j \in D : seen'[j] # None} = Abstract!Present(D)
    BY <1>9 DEF Abstract!Without, Abstract!Present
<1>13. /\ store' = Abstract!Without(Abstract!KeySet(SubSeq(args[c].keys, 1, n + 1)))'
       /\ removed'[c] =
            Cardinality(Abstract!Present(Abstract!KeySet(SubSeq(args[c].keys, 1, n + 1)))')
    BY <1>7, <1>8, <1>10, <1>12 DEF Abstract!Without, Abstract!Present
<1> QED
    BY <1>3, <1>11, <1>13 DEF Deleted, s

LEMMA NothingDeleted ==
    ASSUME NEW s \in Seq(Key), NEW m \in Store
    PROVE  /\ SubSeq(s, 0 + 1, Len(s)) = s /\ SubSeq(s, 1, Len(s)) = s
           /\ 0 \in 0..Len(s) /\ Abstract!KeySet(SubSeq(s, 1, 0)) = {}
           /\ [k \in Key |-> IF k \in {} THEN None ELSE m[k]] = m
           /\ \A D : {k \in {} : D[k] # None} = {} /\ Cardinality({}) = 0
<1>1. Len(s) \in Nat /\ SubSeq(s, 0 + 1, Len(s)) = s /\ SubSeq(s, 1, Len(s)) = s
    OBVIOUS
<1>2. DOMAIN SubSeq(s, 1, 0) = {}
    OBVIOUS
<1>3. [k \in Key |-> IF k \in {} THEN None ELSE m[k]] = m
    BY DEF Store
<1> QED
    BY <1>1, <1>2, <1>3, FS_EmptySet DEF Abstract!KeySet

LEMMA ProgressNext ==
    ASSUME TypeOK, Queued, Locking, WriterAlone, Progress, [Next]_vars
    PROVE  Progress'
<1> USE DEF acceptVars, callVars, dbVars, peerVars
<1>1. /\ pc \in [Client -> Labels] /\ args \in [Client -> Meant] /\ left \in [Client -> Seq(Key)]
      /\ removed \in [Client -> Nat] /\ store \in Store /\ seen \in Store
    BY DEF TypeOK, ThreadsTypeOK, CallsTypeOK, DbTypeOK
<1>2. CASE LockKept
    <2>1. ASSUME NEW d \in Client, NEW n, pc[d] = "writing", Deleted(d, n) PROVE Deleted(d, n)'
        <3>1. /\ args'[d] = args[d] /\ left'[d] = left[d] /\ removed'[d] = removed[d]
              /\ store' = store /\ seen' = seen
            BY <1>2, <2>1 DEF LockKept
        <3>2. Abstract!KeySet(SubSeq(args[d].keys, 1, n))'
                = Abstract!KeySet(SubSeq(args[d].keys, 1, n))
            BY <3>1 DEF Abstract!KeySet
        <3>3. Abstract!Without(Abstract!KeySet(SubSeq(args[d].keys, 1, n)))'
                = Abstract!Without(Abstract!KeySet(SubSeq(args[d].keys, 1, n)))
            BY <3>1, <3>2 DEF Abstract!Without
        <3>4. Abstract!Present(Abstract!KeySet(SubSeq(args[d].keys, 1, n)))'
                = Abstract!Present(Abstract!KeySet(SubSeq(args[d].keys, 1, n)))
            BY <3>1, <3>2 DEF Abstract!Present
        <3> QED
            BY <2>1, <3>1, <3>3, <3>4 DEF Deleted
    <2>2. \A d \in Client : pc'[d] = "writing" => pc[d] = "writing" /\ args'[d] = args[d]
        BY <1>2 DEF LockKept
    <2> QED
        BY <1>2, <2>1, <2>2 DEF LockKept, Progress
<1>3. ASSUME NEW c \in Client, LockWrite(c) PROVE Progress'
    <2> DEFINE s == args[c].keys
    <2>1. /\ args[c] \in Meant /\ s \in Seq(Key)
          /\ \A d \in Client : pc[d] # "writing"
        BY <1>1, <1>3, MeantType DEF LockWrite, LockWriters
    <2>2. /\ UNCHANGED <<args, store, seen>> /\ store = seen
          /\ left'[c] = s /\ removed'[c] = 0
          /\ \A d \in Client : pc'[d] = "writing" => d = c
        BY <1>1, <1>3, <2>1 DEF LockWrite, Goto, Locking, Progress
    <2>3. args'[c].keys = s
        BY <2>2
    <2> HIDE DEF s
    <2>4. Deleted(c, 0)' /\ 0 \in 0..Len(args'[c].keys)
        <3>1. Abstract!KeySet(SubSeq(args[c].keys, 1, 0))' = {}
            BY <2>1, <2>3, NothingDeleted, <1>1 DEF Abstract!KeySet
        <3>2. store' = Abstract!Without(Abstract!KeySet(SubSeq(args[c].keys, 1, 0)))'
            BY <1>1, <2>1, <2>2, <3>1, NothingDeleted DEF Abstract!Without
        <3>3. Abstract!Present(Abstract!KeySet(SubSeq(args[c].keys, 1, 0)))' = {}
            BY <3>1 DEF Abstract!Present
        <3>4. /\ left'[c] = SubSeq(args'[c].keys, 0 + 1, Len(args'[c].keys))
              /\ 0 \in 0..Len(args'[c].keys)
            BY <1>1, <2>1, <2>2, <2>3, NothingDeleted
        <3>5. removed'[c] = Cardinality({})
            BY <2>2, FS_EmptySet
        <3> QED
            BY <3>2, <3>3, <3>4, <3>5 DEF Deleted
    <2> QED
        BY <1>1, <1>3, <2>2, <2>4 DEF LockWrite, Goto, Progress
<1>4. ASSUME NEW c \in Client, Set(c) \/ DelFails(c) \/ DelDone(c) PROVE Progress'
    <2>1. /\ pc[c] = "writing" /\ pc' = [pc EXCEPT ![c] = "replying"] /\ seen' = store'
        BY <1>4 DEF Set, DelFails, DelDone, Answer, Goto
    <2>2. \A d \in Client : pc'[d] # "writing"
        BY <1>1, <2>1 DEF WriterAlone
    <2> QED
        BY <2>1, <2>2 DEF Progress
<1>5. ASSUME NEW c \in Client, DelKey(c) PROVE Progress'
    <2>1. /\ pc[c] = "writing" /\ args[c].op = "DEL" /\ pc' = pc /\ args' = args
          /\ \A d \in Client : pc[d] = "writing" => d = c
        BY <1>5 DEF DelKey, WriterAlone
    <2>2. PICK n \in 0..Len(args[c].keys) : Deleted(c, n)
        BY <2>1 DEF Progress
    <2>3. n + 1 \in 0..Len(args'[c].keys) /\ Deleted(c, n + 1)'
        BY <1>5, <2>1, <2>2, OneMoreDeleted
    <2> QED
        BY <2>1, <2>3 DEF Progress
<1> QED
    BY <1>2, <1>3, <1>4, <1>5, LockSteps

LEMMA ServerInvInit == Init => ServerInv
<1> SUFFICES ASSUME Init PROVE ServerInv
    OBVIOUS
<1>1. ThreadsTypeOK
    <2>1. backlog \in Seq(Client \cup {Waker})
        BY DEF Init
    <2>2. shutdown \in BOOLEAN
        BY Zenon DEF Init
    <2>3. pc \in [Client -> Labels] /\ peer \in [Client -> {"away", "open", "half", "gone"}]
        BY DEF Init, Labels
    <2> QED
        BY <2>1, <2>2, <2>3 DEF Init, ThreadsTypeOK
<1>2. CallsTypeOK
    BY NoCommandMeant, RepliesType DEF Init, CallsTypeOK
<1>3. DbTypeOK
    BY DEF Init, DbTypeOK, Store
<1>4. Queued /\ Locking /\ WriterAlone /\ Progress
    BY DEF Init, Queued, Locking, WriterAlone, Progress
<1> QED
    BY <1>1, <1>2, <1>3, <1>4 DEF ServerInv, TypeOK

LEMMA ServerInvNext == ServerInv /\ [Next]_vars => ServerInv'
<1> SUFFICES ASSUME ServerInv, [Next]_vars PROVE ServerInv'
    OBVIOUS
<1>1. TypeOK /\ Queued /\ Locking /\ WriterAlone /\ Progress
    BY DEF ServerInv
<1>2. TypeOK'
    BY <1>1, ThreadsTyped, CallsTyped, DbTyped DEF TypeOK
<1> QED
    BY <1>1, <1>2, QueuedNext, LockingNext, WriterAloneNext, ProgressNext DEF ServerInv

\* Connections, threads, the lock and the map stay well typed: a connection has
\* one thread, a thread waits for the lock or holds it in the mode its command
\* needs, the lock excludes whom it should, and what a DEL has left, deleted and
\* counted so far belong together.
THEOREM ServerCorrect == Spec => []ServerInv
BY ServerInvInit, ServerInvNext, PTL DEF Spec

-----------------------------------------------------------------------------
(* The server implements KvService.                                        *)

Ended == {c \in Client : pc[c] \in {"closing", "over"}}
Gone  == {c \in Client : peer[c] = "gone"}

\* What clients can tell of connection c stays as it is.
Same(c) ==
    /\ UNCHANGED <<Outstanding(c), Answered(c)>>
    /\ c \in Ended' <=> c \in Ended
    /\ c \in Gone' <=> c \in Gone

LEMMA OthersSame ==
    ASSUME NEW d \in Client, peer'[d] = peer[d], inbox'[d] = inbox[d], outbox'[d] = outbox[d],
           pc'[d] = pc[d], args'[d] = args[d], reply'[d] = reply[d]
    PROVE  Same(d)
BY DEF Same, Outstanding, Executing, Answered, Ended, Gone

LEMMA Stutters ==
    ASSUME seen' = seen, \A d \in Client : Same(d)
    PROVE  UNCHANGED Abstract!vars
<1>1. /\ [d \in Client |-> Outstanding(d)]' = [d \in Client |-> Outstanding(d)]
      /\ [d \in Client |-> Answered(d)]' = [d \in Client |-> Answered(d)]
    BY DEF Same
<1>2. Ended' = Ended /\ Gone' = Gone
    BY DEF Same, Ended, Gone
<1> QED
    BY <1>1, <1>2 DEF Abstract!vars, Ended, Gone

\* The step of a thread at which its command takes effect.
LEMMA Executes ==
    ASSUME NEW c \in Client, NEW e \in Abstract!Effects(Head(Outstanding(c))),
           \A d \in Client \ {c} : Same(d),
           c \notin Ended, Outstanding(c) # <<>>, e.store = seen',
           Outstanding(c)' = Tail(Outstanding(c)),
           c \in Gone' <=> c \in Gone,
           c \in Gone => Answered(c)' = Answered(c),
           c \notin Gone => Answered(c)' = Answered(c) \o e.answer,
           c \in Ended' <=> Abstract!Ends(Head(Outstanding(c)))
    PROVE  Abstract!Execute(c)
<1> DEFINE queue == [d \in Client |-> Outstanding(d)]
           answers == [d \in Client |-> Answered(d)]
<1>1. queue' = [queue EXCEPT ![c] = Tail(@)] /\ queue[c] = Outstanding(c)
    BY DEF Same
<1>2. answers' = IF c \in Gone THEN answers ELSE [answers EXCEPT ![c] = @ \o e.answer]
    BY DEF Same
<1>3. Ended' = IF Abstract!Ends(Head(queue[c])) THEN Ended \cup {c} ELSE Ended
    BY <1>1 DEF Same, Ended
<1>4. Gone' = Gone
    BY DEF Same, Gone
<1> QED
    BY <1>1, <1>2, <1>3, <1>4 DEF Abstract!Execute, Ended, Gone

LEMMA FrontAndBack ==
    ASSUME NEW S, NEW s \in Seq(S), NEW x \in S, NEW y \in S
    PROVE  /\ <<x>> \o Append(s, y) = Append(<<x>> \o s, y)
           /\ Head(<<x>> \o s) = x /\ Tail(<<x>> \o s) = s /\ <<x>> \o s # <<>>
           /\ s # <<>> => Tail(Append(s, x)) = Append(Tail(s), x)
           /\ Append(s, x) = s \o <<x>> /\ Append(s, x) # <<>>
           /\ s \o <<>> = s
           /\ s # <<>> => <<Head(s)>> \o Tail(s) = s
<1>1. <<x>> \o Append(s, y) = Append(<<x>> \o s, y)
    OBVIOUS
<1>2. Head(<<x>> \o s) = x /\ Tail(<<x>> \o s) = s /\ <<x>> \o s # <<>>
    OBVIOUS
<1>3. s # <<>> => Tail(Append(s, x)) = Append(Tail(s), x)
    OBVIOUS
<1>4. Append(s, x) = s \o <<x>> /\ Append(s, x) # <<>> /\ s \o <<>> = s
    OBVIOUS
<1>5. s # <<>> => <<Head(s)>> \o Tail(s) = s
    OBVIOUS
<1> QED
    BY <1>1, <1>2, <1>3, <1>4, <1>5

LEMMA RefinesClient ==
    ASSUME TypeOK, Queued, NEW c \in Client, ClientStep(c)
    PROVE  [Abstract!Next]_(Abstract!vars)
<1> USE DEF acceptVars, callVars, dbVars, peerVars
<1>1. /\ peer \in [Client -> {"away", "open", "half", "gone"}]
      /\ inbox \in [Client -> Seq(Meant)] /\ args \in [Client -> Meant]
      /\ outbox \in [Client -> Seq(Service!Replies)] /\ reply \in [Client -> Service!Replies]
    BY DEF TypeOK, ThreadsTypeOK, CallsTypeOK
<1>2. /\ UNCHANGED <<pc, args, reply, seen>> /\ Ended' = Ended
      /\ \A d \in Client \ {c} :
            peer'[d] = peer[d] /\ inbox'[d] = inbox[d] /\ outbox'[d] = outbox[d]
    BY <1>1 DEF ClientStep, Connect, Send, FinishSending, Receive, HangUp, Ended
<1>3. \A d \in Client \ {c} : Same(d)
    BY <1>2, OthersSame
<1>4. CASE Connect(c) \/ FinishSending(c)
    <2>1. /\ peer[c] # "gone" /\ peer'[c] # "gone" /\ UNCHANGED <<inbox, outbox>>
        BY <1>1, <1>4 DEF Connect, FinishSending
    <2>2. Same(c)
        BY <1>2, <2>1 DEF Same, Outstanding, Executing, Answered, Ended, Gone
    <2> QED
        BY <1>2, <1>3, <2>2, Stutters
<1>5. ASSUME NEW m \in Command[c], Send(c, m)
      PROVE  Abstract!Submit(c)
    <2>1. /\ inbox[c] \in Seq(Meant) /\ m \in Meant /\ args[c] \in Meant
          /\ inbox'[c] = Append(inbox[c], m) /\ UNCHANGED <<peer, outbox>>
        BY <1>1, <1>5, SentMeant DEF Send
    <2>2. <<args[c]>> \o Append(inbox[c], m) = Append(<<args[c]>> \o inbox[c], m)
        BY <2>1, FrontAndBack
    <2>3. Outstanding(c)' = Append(Outstanding(c), m)
        BY <1>2, <2>1, <2>2 DEF Outstanding, Executing
    <2>4. [d \in Client |-> Outstanding(d)]' =
              [[d \in Client |-> Outstanding(d)] EXCEPT ![c] = Append(@, m)]
        BY <1>3, <2>3 DEF Same
    <2>5. \A d \in Client : Answered(d)' = Answered(d)
        BY <1>2, <2>1 DEF Answered
    <2>6. [d \in Client |-> Answered(d)]' = [d \in Client |-> Answered(d)] /\ Gone' = Gone
        BY <2>1, <2>5 DEF Gone
    <2> QED
        BY <1>2, <2>4, <2>6 DEF Abstract!Submit, Ended, Gone
<1>6. CASE Receive(c)
    <2>1. /\ outbox[c] \in Seq(Service!Replies) /\ outbox[c] # <<>> /\ reply[c] \in Service!Replies
          /\ outbox'[c] = Tail(outbox[c]) /\ UNCHANGED <<peer, inbox>> /\ peer[c] # "gone"
        BY <1>1, <1>6 DEF Receive
    <2>2. /\ Tail(Append(outbox[c], reply[c])) = Append(Tail(outbox[c]), reply[c])
          /\ Append(outbox[c], reply[c]) # <<>>
        BY <2>1
    <2>3. Answered(c) # <<>> /\ Answered(c)' = Tail(Answered(c))
        BY <1>2, <2>1, <2>2 DEF Answered
    <2>4. [d \in Client |-> Answered(d)]' = [[d \in Client |-> Answered(d)] EXCEPT ![c] = Tail(@)]
        BY <1>3, <2>3 DEF Same
    <2>5. \A d \in Client : Outstanding(d)' = Outstanding(d)
        BY <1>2, <2>1 DEF Outstanding, Executing
    <2>6. [d \in Client |-> Outstanding(d)]' = [d \in Client |-> Outstanding(d)] /\ Gone' = Gone
        BY <2>1, <2>5 DEF Gone
    <2>7. Abstract!ReadAnswer(c)
        BY <1>2, <2>3, <2>4, <2>6 DEF Abstract!ReadAnswer, Ended, Gone
    <2> QED
        BY <2>7 DEF Abstract!Next
<1>7. CASE HangUp(c)
    <2>1. peer'[c] = "gone" /\ UNCHANGED inbox
        BY <1>1, <1>7 DEF HangUp
    <2>2. Answered(c)' = <<>> /\ Gone' = Gone \cup {c}
        BY <1>2, <2>1 DEF Answered, Gone
    <2>3. [d \in Client |-> Answered(d)]' = [[d \in Client |-> Answered(d)] EXCEPT ![c] = <<>>]
        BY <1>3, <2>2 DEF Same
    <2>4. \A d \in Client : Outstanding(d)' = Outstanding(d)
        BY <1>2, <2>1 DEF Outstanding, Executing
    <2>5. Abstract!Leave(c)
        BY <1>2, <2>2, <2>3, <2>4 DEF Abstract!Leave, Ended, Gone
    <2> QED
        BY <2>5 DEF Abstract!Next
<1> QED
    BY <1>4, <1>5, <1>6, <1>7 DEF ClientStep, Abstract!Next

LEMMA RefinesEnd ==
    ASSUME NEW c \in Client, \A d \in Client \ {c} : Same(d),
           UNCHANGED <<seen, Outstanding(c), Answered(c)>>,
           c \in Ended', c \in Gone' <=> c \in Gone
    PROVE  Abstract!End(c)
<1>1. /\ [d \in Client |-> Outstanding(d)]' = [d \in Client |-> Outstanding(d)]
      /\ [d \in Client |-> Answered(d)]' = [d \in Client |-> Answered(d)]
    BY DEF Same
<1>2. Ended' = Ended \cup {c} /\ Gone' = Gone
    BY DEF Same, Ended, Gone
<1> QED
    BY <1>1, <1>2 DEF Abstract!End, Ended, Gone

LEMMA RefinesAccept ==
    ASSUME TypeOK, Queued, Accept
    PROVE  [Abstract!Next]_(Abstract!vars)
<1> USE DEF acceptVars, callVars, dbVars, peerVars
<1> DEFINE h == Head(backlog)
<1>1. pc \in [Client -> Labels] /\ backlog \in Seq(Client \cup {Waker})
    BY DEF TypeOK, ThreadsTypeOK
<1>2. /\ backlog # <<>> /\ UNCHANGED <<peerVars, callVars, dbVars>>
      /\ \/ h = Waker /\ pc' = pc
         \/ h # Waker /\ \E label \in {"reading", "over"} : pc' = [pc EXCEPT ![h] = label]
    BY DEF Accept, Stop, Spawn, AcceptFails, AcceptReturns
<1>3. h \in Client \cup {Waker} /\ (h \in Client => pc[h] = "none")
    BY <1>1, <1>2 DEF Queued
<1> HIDE DEF h
<1>4. \A d \in Client \ {h} : Same(d)
    BY <1>1, <1>2, OthersSame
<1>5. CASE h \notin Client
    BY <1>2, <1>4, <1>5, Stutters
<1>6. ASSUME NEW c \in Client, c = h, h # Waker
      PROVE  [Abstract!Next]_(Abstract!vars)
    <2>1. /\ pc[c] = "none" /\ pc'[c] \in {"reading", "over"}
          /\ UNCHANGED <<peer, inbox, outbox, args, reply, seen>>
        BY <1>1, <1>2, <1>3, <1>6
    <2>2. /\ UNCHANGED <<seen, Outstanding(c), Answered(c)>> /\ (c \in Gone' <=> c \in Gone)
          /\ c \notin Ended
        BY <2>1 DEF Outstanding, Executing, Answered, Gone, Ended
    <2>3. \A d \in Client \ {c} : Same(d)
        BY <1>4, <1>6
    <2>4. CASE pc'[c] = "over"
        <3>1. c \in Ended'
            BY <2>4 DEF Ended
        <3>2. Abstract!End(c)
            BY <2>2, <2>3, <3>1, RefinesEnd
        <3> QED
            BY <3>2 DEF Abstract!Next
    <2>5. CASE pc'[c] = "reading"
        <3>1. Same(c)
            BY <2>2, <2>5 DEF Same, Ended
        <3> QED
            BY <2>2, <2>3, <3>1, Stutters
    <2> QED
        BY <2>1, <2>4, <2>5
<1> QED
    BY <1>3, <1>5, <1>6, ServerAssumption

LEMMA ServeOthers ==
    ASSUME TypeOK, NEW c \in Client, Serve(c)
    PROVE  \A d \in Client \ {c} : Same(d)
<1> USE DEF acceptVars, callVars, dbVars, peerVars
<1>1. /\ pc \in [Client -> Labels] /\ inbox \in [Client -> Seq(Meant)]
      /\ args \in [Client -> Meant] /\ outbox \in [Client -> Seq(Service!Replies)]
      /\ reply \in [Client -> Service!Replies]
    BY DEF TypeOK, ThreadsTypeOK, CallsTypeOK
<1>2. ASSUME NEW d \in Client \ {c}
      PROVE  /\ peer'[d] = peer[d] /\ inbox'[d] = inbox[d] /\ outbox'[d] = outbox[d]
             /\ pc'[d] = pc[d] /\ args'[d] = args[d] /\ reply'[d] = reply[d]
    <2>1. CASE ReadCommand(c)
        BY <1>1, <2>1 DEF ReadCommand, Goto, Answer
    <2>2. CASE ReadEnds(c) \/ LockRead(c) \/ LockWrite(c)
        BY <1>1, <2>2 DEF ReadEnds, LockRead, LockWrite, Goto
    <2>3. CASE Get(c) \/ Set(c) \/ DelKey(c) \/ DelFails(c) \/ DelDone(c)
        BY <1>1, <2>3 DEF Get, Set, DelKey, DelFails, DelDone, Goto, Answer
    <2>4. CASE WriteReply(c) \/ WriteToGone(c)
        BY <1>1, <2>4 DEF WriteReply, WriteToGone, EndTurn, Goto
    <2> QED
        BY <2>1, <2>2, <2>3, <2>4 DEF Serve
<1> QED
    BY <1>2, OthersSame

\* Reading a command is the moment it takes effect, if it needs no database.
LEMMA RefinesReading ==
    ASSUME TypeOK, NEW c \in Client, ReadCommand(c)
    PROVE  [Abstract!Next]_(Abstract!vars)
<1> USE DEF acceptVars, callVars, dbVars, peerVars
<1> DEFINE m == Head(inbox[c])
<1>1. /\ pc \in [Client -> Labels] /\ inbox \in [Client -> Seq(Meant)]
      /\ args \in [Client -> Meant] /\ outbox[c] \in Seq(Service!Replies)
      /\ reply \in [Client -> Service!Replies]
    BY DEF TypeOK, ThreadsTypeOK, CallsTypeOK
<1>2. /\ pc[c] = "reading" /\ inbox[c] \in Seq(Meant) /\ inbox[c] # <<>>
      /\ inbox'[c] = Tail(inbox[c]) /\ UNCHANGED <<peer, outbox, seen>>
    BY <1>1 DEF ReadCommand
<1>3. /\ Outstanding(c) = inbox[c] /\ c \notin Ended /\ (c \in Gone' <=> c \in Gone)
      /\ Answered(c) = IF c \in Gone THEN <<>> ELSE outbox[c]
    BY <1>2 DEF Outstanding, Executing, Answered, Ended, Gone
<1>4. \A d \in Client \ {c} : Same(d)
    BY ServeOthers DEF Serve
<1> HIDE DEF m
<1>5. ASSUME NEW r \in Service!Replies, pc'[c] \in {"replying", "closing"}, reply'[c] = r,
             [store |-> seen, answer |-> <<r>>] \in Abstract!Effects(m),
             pc'[c] = "closing" <=> Abstract!Ends(m)
      PROVE  Abstract!Execute(c)
    <2> DEFINE e == [store |-> seen, answer |-> <<r>>]
    <2>1. Outstanding(c)' = Tail(Outstanding(c)) /\ Outstanding(c) # <<>>
        BY <1>2, <1>3, <1>5 DEF Outstanding, Executing
    <2>2. /\ c \in Gone => Answered(c)' = Answered(c)
          /\ c \notin Gone => Answered(c)' = Answered(c) \o e.answer
        BY <1>1, <1>2, <1>3, <1>5 DEF Answered, Gone
    <2>3. c \in Ended' <=> Abstract!Ends(Head(Outstanding(c)))
        BY <1>3, <1>5 DEF Ended, m
    <2>4. e \in Abstract!Effects(Head(Outstanding(c))) /\ e.store = seen'
        BY <1>2, <1>3, <1>5 DEF m
    <2> HIDE DEF e
    <2> QED
        BY <1>3, <1>4, <2>1, <2>2, <2>3, <2>4, Executes
<1>6. CASE m.op \in {"GET", "SET", "DEL"}
    <2>1. args'[c] = m /\ pc'[c] = "waiting"
        BY <1>1, <1>6 DEF ReadCommand, Goto, Answer, Service!Immediate, m
    <2>2. Outstanding(c)' = Outstanding(c)
        BY <1>2, <1>3, <2>1 DEF Outstanding, Executing, m
    <2>3. Answered(c)' = Answered(c) /\ c \notin Ended'
        BY <1>2, <1>3, <2>1 DEF Answered, Gone, Ended
    <2> QED
        BY <1>2, <1>3, <1>4, <2>2, <2>3, Stutters DEF Same
<1>7. CASE m.op \in Service!Immediate
    <2> DEFINE r == Service!ImmediateReply(m)
    <2>1. m.op \in {"PING", "ECHO", "COMMAND", "REJECTED"} /\ m \in Meant
        BY <1>2, <1>7 DEF Service!Immediate, m
    <2>2. r \in Service!Replies /\ r = Abstract!ImmediateReply(m)
        BY <1>7, <2>1, ImmediateReplyType
    <2>3. reply'[c] = r /\ pc'[c] = "replying"
        BY <1>1, <2>1 DEF ReadCommand, Goto, Answer, m
    <2>4. [store |-> seen, answer |-> <<r>>] \in Abstract!Effects(m)
        BY <2>1, <2>2 DEF Abstract!Effects, Abstract!Immediate
    <2>5. ~Abstract!Ends(m)
        BY <2>1 DEF Abstract!Ends
    <2> HIDE DEF r
    <2>6. Abstract!Execute(c)
        BY <1>5, <2>2, <2>3, <2>4, <2>5
    <2> QED
        BY <2>6 DEF Abstract!Next
<1>8. CASE m.op = "QUIT"
    <2>1. reply'[c] = Service!Ok /\ pc'[c] = "closing"
        BY <1>1, <1>8 DEF ReadCommand, Goto, Answer, Service!Immediate, m
    <2>2. [store |-> seen, answer |-> <<Service!Ok>>] \in Abstract!Effects(m)
        BY <1>8, SameService DEF Abstract!Effects, Abstract!Immediate
    <2>3. Abstract!Execute(c)
        BY <1>5, <1>8, <2>1, <2>2, RepliesType DEF Abstract!Ends
    <2> QED
        BY <2>3 DEF Abstract!Next
<1>9. CASE m.op = "MALFORMED"
    <2>1. reply'[c] = Service!Failure /\ pc'[c] = "closing"
        BY <1>1, <1>9 DEF ReadCommand, Goto, Answer, Service!Immediate, m
    <2>2. [store |-> seen, answer |-> <<Service!Failure>>] \in Abstract!Effects(m)
        BY <1>9, SameService DEF Abstract!Effects, Abstract!Immediate
    <2>3. Abstract!Execute(c)
        BY <1>5, <1>9, <2>1, <2>2, RepliesType DEF Abstract!Ends
    <2> QED
        BY <2>3 DEF Abstract!Next
<1>10. CASE m.op = "BLANK"
    <2> DEFINE e == [store |-> seen, answer |-> <<>>]
    <2>1. pc' = pc /\ reply' = reply
        BY <1>10 DEF ReadCommand, Service!Immediate, callVars, m
    <2>2. Outstanding(c)' = Tail(Outstanding(c)) /\ Outstanding(c) # <<>>
        BY <1>2, <1>3, <2>1 DEF Outstanding, Executing
    <2>3. Answered(c)' = Answered(c) /\ Answered(c) \o e.answer = Answered(c)
        BY <1>1, <1>2, <1>3, <2>1 DEF Answered, Gone
    <2>4. c \notin Ended' /\ ~Abstract!Ends(Head(Outstanding(c)))
        BY <1>2, <1>3, <1>10, <2>1 DEF Ended, Abstract!Ends, m
    <2>5. e \in Abstract!Effects(Head(Outstanding(c))) /\ e.store = seen'
        BY <1>2, <1>3, <1>10 DEF Abstract!Effects, Abstract!Immediate, m
    <2> HIDE DEF e
    <2>6. Abstract!Execute(c)
        BY <1>3, <1>4, <2>2, <2>3, <2>4, <2>5, Executes
    <2> QED
        BY <2>6 DEF Abstract!Next
<1> QED
    BY <1>6, <1>7, <1>9, <1>10, <1>8 DEF ReadCommand, m

\* A command that needs the database takes effect when its thread lets the lock go.
LEMMA Dispatched ==
    ASSUME TypeOK, NEW c \in Client, Serve(c), NEW r \in Service!Replies,
           pc[c] \in {"getting", "writing"}, pc'[c] = "replying", reply'[c] = r,
           UNCHANGED <<peer, inbox, outbox, args>>,
           args[c].op \in {"GET", "SET", "DEL"},
           [store |-> seen', answer |-> <<r>>] \in Abstract!Effects(args[c])
    PROVE  [Abstract!Next]_(Abstract!vars)
<1> DEFINE e == [store |-> seen', answer |-> <<r>>]
<1>1. /\ args[c] \in Meant /\ inbox[c] \in Seq(Meant) /\ outbox[c] \in Seq(Service!Replies)
    BY DEF TypeOK, CallsTypeOK
<1>2. Outstanding(c) = <<args[c]>> \o inbox[c] /\ Outstanding(c)' = inbox[c]
    BY DEF Outstanding, Executing
<1>3. /\ Head(Outstanding(c)) = args[c] /\ Outstanding(c)' = Tail(Outstanding(c))
      /\ Outstanding(c) # <<>>
    BY <1>1, <1>2, FrontAndBack
<1>4. /\ c \in Gone' <=> c \in Gone
      /\ c \in Gone => Answered(c)' = Answered(c)
      /\ c \notin Gone => Answered(c)' = Answered(c) \o <<r>>
    BY <1>1 DEF Answered, Gone
<1>5. c \notin Ended /\ c \notin Ended' /\ ~Abstract!Ends(args[c])
    BY DEF Ended, Abstract!Ends
<1>6. e.store = seen' /\ e.answer = <<r>> /\ e \in Abstract!Effects(Head(Outstanding(c)))
    BY <1>3
<1>7. \A d \in Client \ {c} : Same(d)
    BY ServeOthers
<1> HIDE DEF e
<1>8. Abstract!Execute(c)
    BY <1>3, <1>4, <1>5, <1>6, <1>7, Executes
<1> QED
    BY <1>8 DEF Abstract!Next

LEMMA RefinesGet ==
    ASSUME ServerInv, NEW c \in Client, Get(c)
    PROVE  [Abstract!Next]_(Abstract!vars)
<1> USE DEF acceptVars, callVars, dbVars, peerVars
<1> DEFINE m == args[c]
<1>1. /\ TypeOK /\ pc \in [Client -> Labels] /\ reply \in [Client -> Service!Replies]
      /\ store \in Store /\ m \in Meant
    BY DEF ServerInv, TypeOK, ThreadsTypeOK, CallsTypeOK, DbTypeOK
<1>2. pc[c] = "getting" /\ m.op = "GET"
    BY DEF Get, ServerInv, Locking
<1>3. \A d \in Client : pc[d] # "writing"
    BY <1>2 DEF ServerInv, WriterAlone
<1>4. store = seen
    BY <1>3 DEF ServerInv, Progress
<1>5. m.keys \in Seq(Key) /\ Len(m.keys) = 1 /\ Head(m.keys) = m.keys[1] /\ m.keys[1] \in Key
    BY <1>1, <1>2, MeantType
<1>6. PICK r \in {Service!Bulk(store[Head(m.keys)]), Service!Failure} :
          reply' = [reply EXCEPT ![c] = r] /\ pc' = [pc EXCEPT ![c] = "replying"]
    BY DEF Get, Answer, Goto
<1>7. r \in Service!Replies
    BY <1>1, <1>5, <1>6, RepliesType DEF Store
<1>8. [store |-> seen, answer |-> <<r>>] \in Abstract!Effects(m)
    BY <1>2, <1>4, <1>5, <1>6, SameService DEF Abstract!Effects, Abstract!Immediate
<1>9. UNCHANGED <<peer, inbox, outbox, args, seen>>
    BY DEF Get
<1>10. pc'[c] = "replying" /\ reply'[c] = r
    BY <1>1, <1>6
<1> QED
    BY <1>1, <1>2, <1>7, <1>8, <1>9, <1>10, Dispatched DEF Serve

LEMMA RefinesSet ==
    ASSUME ServerInv, NEW c \in Client, Set(c)
    PROVE  [Abstract!Next]_(Abstract!vars)
<1> USE DEF acceptVars, callVars, dbVars, peerVars
<1> DEFINE m == args[c]
           changed == [store EXCEPT ![Head(m.keys)] = m.value]
<1>1. /\ TypeOK /\ pc \in [Client -> Labels] /\ reply \in [Client -> Service!Replies]
      /\ store \in Store /\ seen \in Store /\ m \in Meant
    BY DEF ServerInv, TypeOK, ThreadsTypeOK, CallsTypeOK, DbTypeOK
<1>2. pc[c] = "writing" /\ m.op = "SET"
    BY DEF Set
<1>3. m.keys \in Seq(Key) /\ Len(m.keys) = 1 /\ Head(m.keys) = m.keys[1] /\ m.keys[1] \in Key
    BY <1>1, <1>2, MeantType
<1>4. store = seen
    BY <1>2 DEF ServerInv, Progress
<1>5. PICK r \in {Service!Ok, Service!Failure} :
          /\ reply' = [reply EXCEPT ![c] = r] /\ pc' = [pc EXCEPT ![c] = "replying"]
          /\ seen' = changed \/ (seen' = store /\ r = Service!Failure)
    BY DEF Set, Answer, Goto
<1>6. changed = Abstract!With(m.keys[1], m.value)
    BY <1>3, <1>4 DEF Abstract!With
<1>7. [store |-> seen', answer |-> <<r>>] \in Abstract!Effects(m)
    BY <1>2, <1>4, <1>5, <1>6, SameService DEF Abstract!Effects, Abstract!Immediate
<1>8. UNCHANGED <<peer, inbox, outbox, args>>
    BY DEF Set
<1>9. pc'[c] = "replying" /\ reply'[c] = r
    BY <1>1, <1>5
<1> QED
    BY <1>1, <1>2, <1>5, <1>7, <1>8, <1>9, RepliesType, Dispatched DEF Serve

LEMMA RefinesDel ==
    ASSUME ServerInv, NEW c \in Client, DelFails(c) \/ DelDone(c)
    PROVE  [Abstract!Next]_(Abstract!vars)
<1> USE DEF acceptVars, callVars, dbVars, peerVars
<1> DEFINE m == args[c]
           s == m.keys
           WithoutFirst(n) == Abstract!Without(Abstract!KeySet(SubSeq(s, 1, n)))
<1>1. /\ TypeOK /\ pc \in [Client -> Labels] /\ reply \in [Client -> Service!Replies]
      /\ store \in Store /\ seen \in Store /\ m \in Meant /\ s \in Seq(Key) /\ removed[c] \in Nat
    BY MeantType DEF ServerInv, TypeOK, ThreadsTypeOK, CallsTypeOK, DbTypeOK
<1>2. pc[c] = "writing" /\ m.op = "DEL" /\ UNCHANGED <<peer, inbox, outbox, args>>
    BY DEF DelFails, DelDone
<1>3. PICK n \in 0..Len(s) : Deleted(c, n)
    BY <1>2 DEF ServerInv, Progress
<1>4. /\ left[c] = SubSeq(s, n + 1, Len(s)) /\ store = WithoutFirst(n)
      /\ removed[c] = Cardinality(Abstract!Present(Abstract!KeySet(SubSeq(s, 1, n))))
    BY <1>3 DEF Deleted
<1>5. CASE DelDone(c)
    <2> DEFINE r == Service!Count(removed[c])
    <2>1. /\ seen' = store /\ left[c] = <<>>
          /\ reply' = [reply EXCEPT ![c] = r] /\ pc' = [pc EXCEPT ![c] = "replying"]
        BY <1>5 DEF DelDone, Answer, Goto
    <2>2. n = Len(s) /\ SubSeq(s, 1, n) = s
        BY <1>1, <1>3, <1>4, <2>1
    <2>3. /\ seen' = Abstract!Without(Abstract!KeySet(s))
          /\ r = Abstract!Count(Cardinality(Abstract!Present(Abstract!KeySet(s))))
        BY <1>4, <2>1, <2>2, SameService
    <2>4. \A S : Abstract!Cardinality(S) = Cardinality(S)
        BY Zenon DEF Abstract!Cardinality, Cardinality
    <2>5. [store |-> seen', answer |-> <<r>>] \in Abstract!Effects(m)
        BY <1>2, <2>3, <2>4 DEF Abstract!Effects, Abstract!Immediate
    <2>6. r \in Service!Replies /\ pc'[c] = "replying" /\ reply'[c] = r
        BY <1>1, <2>1, RepliesType
    <2> QED
        BY <1>1, <1>2, <2>5, <2>6, Dispatched DEF Serve
<1>6. CASE DelFails(c)
    <2> DEFINE r == Service!Failure
    <2>1. /\ seen' = store' /\ left[c] # <<>>
          /\ store' \in {store, [store EXCEPT ![Head(left[c])] = None]}
          /\ reply' = [reply EXCEPT ![c] = r] /\ pc' = [pc EXCEPT ![c] = "replying"]
        BY <1>6 DEF DelFails, Answer, Goto
    <2>2. /\ n + 1 \in 0..Len(s) /\ Head(left[c]) = s[n + 1] /\ s[n + 1] \in Key
          /\ Abstract!KeySet(SubSeq(s, 1, n + 1)) = Abstract!KeySet(SubSeq(s, 1, n)) \cup {s[n + 1]}
        <3>1. SubSeq(s, n + 1, Len(s)) # <<>>
            BY <1>4, <2>1
        <3> HIDE DEF s
        <3>2. /\ n + 1 \in 1..Len(s) /\ s[n + 1] \in Key
              /\ Head(SubSeq(s, n + 1, Len(s))) = s[n + 1]
              /\ Abstract!KeySet(SubSeq(s, 1, n + 1))
                    = Abstract!KeySet(SubSeq(s, 1, n)) \cup {s[n + 1]}
            BY <1>1, <1>3, <3>1, OneMoreKey
        <3>3. n + 1 \in 0..Len(s)
            BY <1>1, <3>2
        <3> QED
            BY <1>4, <3>2, <3>3, Zenon
    <2>3. [store EXCEPT ![Head(left[c])] = None] = WithoutFirst(n + 1)
        BY <1>4, <2>2 DEF Abstract!Without
    <2>4. \E i \in 0..Len(s) : seen' = WithoutFirst(i)
        BY <1>4, <2>1, <2>2, <2>3
    <2>5. [store |-> seen', answer |-> <<r>>] \in Abstract!Effects(m)
        BY <1>2, <2>4, SameService DEF Abstract!Effects, Abstract!Immediate
    <2>6. r \in Service!Replies /\ pc'[c] = "replying" /\ reply'[c] = r
        BY <1>1, <2>1, RepliesType
    <2> QED
        BY <1>1, <1>2, <2>5, <2>6, Dispatched DEF Serve
<1> QED
    BY <1>5, <1>6

\* Steps of a thread that no client can tell, or that end its connection.
LEMMA RefinesOtherSteps ==
    ASSUME TypeOK, NEW c \in Client, Serve(c),
           \/ ReadEnds(c) \/ LockRead(c) \/ LockWrite(c) \/ DelKey(c)
           \/ WriteReply(c) \/ WriteToGone(c)
    PROVE  [Abstract!Next]_(Abstract!vars)
<1> USE DEF acceptVars, callVars, dbVars, peerVars
<1>1. /\ pc \in [Client -> Labels] /\ args \in [Client -> Meant]
      /\ outbox \in [Client -> Seq(Service!Replies)]
    BY DEF TypeOK, ThreadsTypeOK, CallsTypeOK
<1>2. \A d \in Client \ {c} : Same(d)
    BY ServeOthers
<1>3. UNCHANGED <<peer, inbox, seen>> /\ (c \in Gone' <=> c \in Gone)
    BY DEF ReadEnds, LockRead, LockWrite, DelKey, WriteReply, WriteToGone, Gone
<1>4. CASE LockRead(c) \/ LockWrite(c) \/ DelKey(c)
    <2>1. /\ UNCHANGED <<outbox, args, reply>>
          /\ pc[c] \in {"waiting", "writing"} /\ pc'[c] \in {"getting", "writing"}
        BY <1>1, <1>4 DEF LockRead, LockWrite, DelKey, Goto
    <2>2. Same(c)
        BY <1>3, <2>1 DEF Same, Outstanding, Executing, Answered, Ended
    <2> QED
        BY <1>2, <1>3, <2>2, Stutters
<1>5. CASE ReadEnds(c) \/ WriteReply(c) \/ WriteToGone(c)
    <2>1. UNCHANGED <<Outstanding(c), Answered(c)>>
        <3>1. CASE ReadEnds(c)
            BY <1>1, <1>3, <3>1 DEF ReadEnds, Goto, Outstanding, Executing, Answered
        <3>2. CASE WriteReply(c)
            BY <1>1, <1>3, <3>2
            DEF WriteReply, Goto, AfterReply, Outstanding, Executing, Answered
        <3>3. CASE WriteToGone(c)
            BY <1>1, <1>3, <3>3
            DEF WriteToGone, Goto, AfterReply, Outstanding, Executing, Answered
        <3> QED
            BY <1>5, <3>1, <3>2, <3>3
    <2>2. pc'[c] \in {"over", "reading"} /\ (pc'[c] = "reading" => c \notin Ended)
        BY <1>1, <1>5 DEF ReadEnds, WriteReply, WriteToGone, Goto, AfterReply, Ended
    <2>3. CASE pc'[c] = "over"
        <3>1. c \in Ended'
            BY <2>3 DEF Ended
        <3>2. Abstract!End(c)
            BY <1>2, <1>3, <2>1, <3>1, RefinesEnd
        <3> QED
            BY <3>2 DEF Abstract!Next
    <2>4. CASE pc'[c] = "reading"
        <3>1. Same(c)
            BY <1>3, <2>1, <2>2, <2>4 DEF Same, Ended
        <3> QED
            BY <1>2, <1>3, <3>1, Stutters
    <2> QED
        BY <2>2, <2>3, <2>4
<1> QED
    BY <1>4, <1>5

LEMMA RefinesInit == Init => Abstract!Init
<1> SUFFICES ASSUME Init PROVE Abstract!Init
    OBVIOUS
<1>1. \A c \in Client : Outstanding(c) = <<>> /\ Answered(c) = <<>>
    BY DEF Init, Outstanding, Executing, Answered
<1>2. seen = [k \in Key |-> None]
    BY DEF Init
<1>3. {c \in Client : pc[c] \in {"closing", "over"}} = {} /\ {c \in Client : peer[c] = "gone"} = {}
    BY DEF Init
<1> QED
    BY <1>1, <1>2, <1>3 DEF Abstract!Init

LEMMA RefinesNext == ServerInv /\ [Next]_vars => [Abstract!Next]_(Abstract!vars)
<1> SUFFICES ASSUME ServerInv, [Next]_vars PROVE [Abstract!Next]_(Abstract!vars)
    OBVIOUS
<1>1. TypeOK /\ Queued
    BY DEF ServerInv
<1>2. CASE Accept
    BY <1>1, <1>2, RefinesAccept
<1>3. CASE ShutDown \/ UNCHANGED vars
    <2>1. UNCHANGED <<peer, inbox, outbox, pc, args, reply, seen>>
        BY <1>3 DEF ShutDown, SetFlag, Wake, vars, acceptVars, callVars, dbVars, peerVars
    <2> QED
        BY <2>1, OthersSame, Stutters
<1>4. ASSUME NEW c \in Client, ClientStep(c) PROVE [Abstract!Next]_(Abstract!vars)
    BY <1>1, <1>4, RefinesClient
<1>5. ASSUME NEW c \in Client, Serve(c) PROVE [Abstract!Next]_(Abstract!vars)
    <2>1. CASE ReadCommand(c)
        BY <1>1, <2>1, RefinesReading
    <2>2. CASE Get(c) \/ Set(c) \/ DelFails(c) \/ DelDone(c)
        BY <2>2, RefinesGet, RefinesSet, RefinesDel
    <2>3. CASE \/ ReadEnds(c) \/ LockRead(c) \/ LockWrite(c) \/ DelKey(c)
               \/ WriteReply(c) \/ WriteToGone(c)
        BY <1>1, <1>5, <2>3, RefinesOtherSteps
    <2> QED
        BY <1>5, <2>1, <2>2, <2>3 DEF Serve
<1> QED
    BY <1>2, <1>3, <1>4, <1>5 DEF Next

\* The server is linearizable and answers in order, for any number of clients,
\* whatever they send, fails or stops, and however slowly or not at all they
\* read: each step of its threads is one command executed whole, in its client's
\* order, one answer, a connection's end, or nothing clients can tell.
THEOREM Refinement == Spec => ImplementsKvService
BY RefinesInit, RefinesNext, ServerInvInit, ServerInvNext, PTL
DEF Spec, ImplementsKvService, Abstract!Spec
=============================================================================
