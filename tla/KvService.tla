----------------------------- MODULE KvService ------------------------------
(***************************************************************************)
(* What the server promises its clients, without threads, locks and        *)
(* sockets: each client has a queue of commands and a queue of answers;    *)
(* commands are executed one at a time, each at one moment, in the order   *)
(* of its client, against one map; an answer says what the command found   *)
(* or did at that moment.  An error answer to a write promises nothing     *)
(* about the write, and for a DEL of several keys nothing beyond a prefix  *)
(* of them being gone.                                                     *)
(***************************************************************************)
EXTENDS Layers

CONSTANTS
    Client,
    Command     \* per client, the commands it may send

\* What dispatch tells apart.  PING is without an argument; with one it is an
\* ECHO.  REJECTED: an unknown name or a wrong number of arguments.  BLANK: no
\* arguments at all.  MALFORMED: bytes that are no command.
Immediate  == {"PING", "ECHO", "COMMAND", "REJECTED"}
Operations == {"GET", "SET", "DEL", "BLANK", "QUIT", "MALFORMED"} \cup Immediate
Commands == [op : Operations, keys : Seq(Key), value : Value \cup {None}]

\* Replies, with what they carry.
Reply(kind, arg) == [kind |-> kind, arg |-> arg]
Ok        == Reply("Simple", None)
Failure   == Reply("Error", None)
Bulk(v)   == IF v = None THEN Reply("Nil", None) ELSE Reply("Bulk", v)
Count(n)  == Reply("Integer", n)

EmptyArray == Reply("Array", None)

Replies == [kind : {"Simple", "Error", "Nil", "Bulk", "Integer", "Array"},
            arg : Value \cup {None} \cup Nat]

\* The answer to a command that needs no database.
ImmediateReply(m) ==
    CASE m.op = "PING"     -> Ok
      [] m.op = "ECHO"     -> Bulk(m.value)
      [] m.op = "COMMAND"  -> EmptyArray
      [] m.op = "REJECTED" -> Failure

VARIABLES
    store,
    queue,      \* per client, the commands not executed yet
    answers,    \* per client, the answers it has not read
    ended,      \* clients no command of which will be executed any more
    gone        \* clients that read no answers any more

vars == <<store, queue, answers, ended, gone>>

Without(keys) == [k \in Key |-> IF k \in keys THEN None ELSE store[k]]
With(k, v)    == [store EXCEPT ![k] = v]
Present(keys) == {k \in keys : store[k] # None}

KeySet(keys)  == {keys[i] : i \in DOMAIN keys}

\* What executing a command may do, and what it then answers.
Effects(m) ==
    CASE m.op = "GET" ->
            {[store |-> store, answer |-> <<Bulk(store[m.keys[1]])>>],
             [store |-> store, answer |-> <<Failure>>]}
      [] m.op = "SET" ->
            {[store |-> With(m.keys[1], m.value), answer |-> <<Ok>>],
             [store |-> With(m.keys[1], m.value), answer |-> <<Failure>>],
             [store |-> store, answer |-> <<Failure>>]}
      [] m.op = "DEL" ->
            {[store |-> Without(KeySet(m.keys)),
              answer |-> <<Count(Cardinality(Present(KeySet(m.keys))))>>]}
            \cup {[store |-> Without(KeySet(SubSeq(m.keys, 1, n))), answer |-> <<Failure>>] :
                    n \in 0..Len(m.keys)}
      [] m.op \in Immediate -> {[store |-> store, answer |-> <<ImmediateReply(m)>>]}
      [] m.op = "QUIT" -> {[store |-> store, answer |-> <<Ok>>]}
      [] m.op = "MALFORMED" -> {[store |-> store, answer |-> <<Failure>>]}
      [] m.op = "BLANK" -> {[store |-> store, answer |-> <<>>]}

\* After these the connection is closed.
Ends(m) == m.op \in {"QUIT", "MALFORMED"}

Submit(c) ==
    /\ \E m \in Command[c] : queue' = [queue EXCEPT ![c] = Append(@, m)]
    /\ UNCHANGED <<store, answers, ended, gone>>

Execute(c) ==
    /\ c \notin ended
    /\ queue[c] # <<>>
    /\ \E e \in Effects(Head(queue[c])) :
        /\ store' = e.store
        /\ answers' = IF c \in gone THEN answers ELSE [answers EXCEPT ![c] = @ \o e.answer]
    /\ queue' = [queue EXCEPT ![c] = Tail(@)]
    /\ ended' = IF Ends(Head(queue[c])) THEN ended \cup {c} ELSE ended
    /\ UNCHANGED gone

ReadAnswer(c) ==
    /\ answers[c] # <<>>
    /\ answers' = [answers EXCEPT ![c] = Tail(@)]
    /\ UNCHANGED <<store, queue, ended, gone>>

\* The client hangs up.  What it sent may still be executed.
Leave(c) ==
    /\ gone' = gone \cup {c}
    /\ answers' = [answers EXCEPT ![c] = <<>>]
    /\ UNCHANGED <<store, queue, ended>>

\* The server gives the connection up, and what was not executed with it.
End(c) ==
    /\ ended' = ended \cup {c}
    /\ UNCHANGED <<store, queue, answers, gone>>

Init ==
    /\ store = [k \in Key |-> None]
    /\ queue = [c \in Client |-> <<>>]
    /\ answers = [c \in Client |-> <<>>]
    /\ ended = {}
    /\ gone = {}

Next ==
    \E c \in Client : Submit(c) \/ Execute(c) \/ ReadAnswer(c) \/ Leave(c) \/ End(c)

Spec == Init /\ [][Next]_vars
=============================================================================
