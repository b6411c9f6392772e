------------------------------- MODULE Proxy -------------------------------
(***************************************************************************)
(* The hot-reload stdio proxy (HotReloadProxy): three asyncio tasks on one *)
(* event loop between an MCP client and the inner server it restarts when  *)
(* a source file changes.                                                  *)
(*   _stdin_to_inner   reads the client, forwards or buffers;              *)
(*   _inner_to_stdout  reads the inner server, forwards;                   *)
(*   _watch, _restart  kills, spawns, replays initialize, flushes.         *)
(*                                                                         *)
(* Grain of atomicity.  A task runs alone from one suspension to the next, *)
(* so every action is the code between two awaits that really suspend: a   *)
(* drain() below the high-water mark and a readline() at end of file do    *)
(* not.  The loop is lost to all tasks when one of them never suspends.    *)
(*                                                                         *)
(* Abstractions.  A message is its position in the client's stream:        *)
(* InitReq is the initialize request, and Initialized the notification the *)
(* proxy adds on its own.  Every client message is a request.  asyncio's   *)
(* Process.wait() returns after both pipes are closed, so whoever was      *)
(* suspended on them has run by then (Python 3.12).                        *)
(***************************************************************************)
EXTENDS Naturals, Sequences

CONSTANTS
    MaxMsgs,   \* bound: messages from the client
    MaxEdits,  \* bound: source changes
    Events     \* faults in play: see FaultKinds

FaultKinds ==
    { "broken"     \* an edit that makes the server exit at start
    , "crash"      \* a running server exits
    , "slow"       \* initialize unanswered for INIT_REPLAY_TIMEOUT
    , "nospawn" }  \* the process cannot be created

ASSUME ProxyAssumption ==
    /\ MaxMsgs \in Nat \ {0}
    /\ MaxEdits \in Nat
    /\ Events \subseteq FaultKinds

Initialized == 0
InitReq == 1
Msgs == InitReq .. MaxMsgs

VARIABLES
    sent,        \* client: messages written to the proxy's stdin
    answers,     \* client: answers received to each message
    edits,       \* source changes so far
    bad,         \* the edits that do not start
    dirty,       \* a change the watcher has not yielded yet
    inner,       \* the process behind self.proc
    read,        \* messages the proxy has read from the client
    pending,     \* self.pending
    restarting,  \* self._restarting
    reader,      \* _stdin_to_inner: at "read" or suspended in "drain"
    writer,      \* _inner_to_stdout: suspended in "readline" or in "sleep"
    watcher,     \* _watch: "watch", "wait", "spawn", "replay", "drain"
    loop,        \* the event loop: "runs", "spins" or "exited"
    faulted      \* auxiliary: a process exited, failed to start or was late

client  == <<sent, answers>>
source  == <<edits, bad, dirty>>
forward == <<read, pending, reader>>
vars    == <<client, source, inner, forward, restarting, writer, watcher, loop, faulted>>

\* A new inner server: what it has read, what waits in its pipes.
Spawned(input, replayed) ==
    [alive |-> TRUE, code |-> edits, stdin |-> input, got |-> <<>>,
     stdout |-> <<>>, replayed |-> replayed]

Init ==
    /\ sent = 0
    /\ answers = [m \in Msgs |-> 0]
    /\ edits = 0
    /\ bad = {}
    /\ dirty = FALSE
    /\ inner = Spawned(<<>>, FALSE)
    /\ read = 0
    /\ pending = <<>>
    /\ restarting = FALSE
    /\ reader = "read"
    /\ writer = "sleep"
    /\ watcher = "watch"
    /\ loop = "runs"
    /\ faulted = FALSE

(***************************************************************************)
(* The client, the developer and the inner server                          *)
(***************************************************************************)

\* An MCP client sends nothing more before initialize is answered.
ClientSend ==
    /\ sent < MaxMsgs
    /\ sent = 0 \/ answers[InitReq] > 0
    /\ sent' = sent + 1
    /\ UNCHANGED <<answers, source, inner, forward, restarting, writer, watcher, loop, faulted>>

FileChange ==
    /\ edits < MaxEdits
    /\ edits' = edits + 1
    /\ bad' \in {bad} \cup (IF "broken" \in Events THEN {bad \cup {edits + 1}} ELSE {})
    /\ dirty' = TRUE
    /\ UNCHANGED <<client, inner, forward, restarting, writer, watcher, loop, faulted>>

\* Requests are answered in the order they were read.
InnerServe ==
    /\ inner.alive
    /\ inner.code \notin bad
    /\ inner.stdin # <<>>
    /\ LET m == Head(inner.stdin)
       IN  inner' = [inner EXCEPT
              !.stdin = Tail(@),
              !.got = Append(@, m),
              !.stdout = IF m = Initialized THEN @ ELSE Append(@, m)]
    /\ UNCHANGED <<client, source, forward, restarting, writer, watcher, loop, faulted>>

InnerExit ==
    /\ inner.alive
    /\ inner.code \in bad \/ "crash" \in Events
    /\ inner' = [inner EXCEPT !.alive = FALSE]
    /\ faulted' = TRUE
    /\ UNCHANGED <<client, source, forward, restarting, writer, watcher, loop>>

\* What a write to its stdin leaves there: nothing once it is dead.
Written(ms) == [inner EXCEPT !.stdin = IF inner.alive THEN @ \o ms ELSE @]

(***************************************************************************)
(* _stdin_to_inner                                                         *)
(***************************************************************************)

\* Mutated form: the line read last is the first to be written.
BufferedFirst(m) == <<m>> \o pending

Buffered(m) == Append(pending, m)

\* One line: buffered while restarting, else written.  The drain after the
\* write returns, suspends on a full pipe, or raises ConnectionResetError,
\* which nothing catches, once the loop knows that the process is gone.
StdinRead ==
    /\ loop = "runs"
    /\ reader = "read"
    /\ read < sent
    /\ read' = read + 1
    /\ \/ /\ restarting
          /\ pending' = Buffered(read + 1)
          /\ UNCHANGED <<inner, reader, loop>>
       \/ /\ ~restarting
          /\ \/ inner' = Written(<<read + 1>>) /\ UNCHANGED <<reader, loop>>
             \/ inner.alive /\ reader' = "drain" /\ UNCHANGED <<inner, loop>>
             \/ ~inner.alive /\ loop' = "exited" /\ UNCHANGED <<inner, reader>>
          /\ UNCHANGED pending
    /\ UNCHANGED <<client, source, restarting, writer, watcher, faulted>>

\* The suspended drain ends: the pipe took the line, or it broke under it
\* (BrokenPipeError) and the line is kept for the next restart.
StdinDrained ==
    /\ loop = "runs"
    /\ reader = "drain"
    /\ reader' = "read"
    /\ \/ inner.alive /\ inner' = Written(<<read>>) /\ UNCHANGED pending
       \/ ~inner.alive /\ pending' = Buffered(read) /\ UNCHANGED inner
    /\ UNCHANGED <<client, source, read, restarting, writer, watcher, loop, faulted>>

(***************************************************************************)
(* _inner_to_stdout                                                        *)
(***************************************************************************)
WriterWakes ==
    /\ loop = "runs"
    /\ writer = "sleep"
    /\ ~restarting
    /\ writer' = "readline"
    /\ UNCHANGED <<client, source, inner, forward, restarting, watcher, loop, faulted>>

\* A line goes to the client, also one the killed process had left.
ForwardLine ==
    /\ loop = "runs"
    /\ writer = "readline"
    /\ inner.stdout # <<>>
    /\ answers' = [answers EXCEPT ![Head(inner.stdout)] = @ + 1]
    /\ inner' = [inner EXCEPT !.stdout = Tail(@)]
    /\ writer' = IF restarting THEN "sleep" ELSE "readline"
    /\ UNCHANGED <<sent, source, forward, restarting, watcher, loop, faulted>>

\* Mutated form: the flag is not looked at after the end of file.
EofSpins ==
    /\ loop = "runs"
    /\ writer = "readline"
    /\ inner.stdout = <<>>
    /\ ~inner.alive
    /\ loop' = "spins"
    /\ UNCHANGED <<client, source, inner, forward, restarting, writer, watcher, faulted>>

\* At end of file readline() returns b"" without suspending: while no
\* restart is under way the task spins and no other task runs again.
ForwardEof ==
    /\ loop = "runs"
    /\ writer = "readline"
    /\ inner.stdout = <<>>
    /\ ~inner.alive
    /\ IF restarting
       THEN writer' = "sleep" /\ UNCHANGED loop
       ELSE loop' = "spins" /\ UNCHANGED writer
    /\ UNCHANGED <<client, source, inner, forward, restarting, watcher, faulted>>

(***************************************************************************)
(* _watch and _restart                                                     *)
(***************************************************************************)
RestartBegins ==
    /\ loop = "runs"
    /\ watcher = "watch"
    /\ dirty
    /\ dirty' = FALSE
    /\ restarting' = TRUE
    /\ inner' = [inner EXCEPT !.alive = FALSE]
    /\ watcher' = "wait"
    /\ UNCHANGED <<client, edits, bad, forward, writer, loop, faulted>>

\* Process.wait(): at once for a process that had exited before.
Waited ==
    /\ loop = "runs"
    /\ watcher = "wait"
    /\ writer = "sleep" /\ reader = "read"
    /\ watcher' = "spawn"
    /\ UNCHANGED <<client, source, inner, forward, restarting, writer, loop, faulted>>

\* The end of _restart: the buffered lines are written; drain() returns and
\* they are cleared, or suspends, or raises and they are kept.
Flush(proc) ==
    \/ /\ inner' = [proc EXCEPT !.stdin = IF proc.alive THEN @ \o pending ELSE @]
       /\ pending' = <<>>
       /\ restarting' = FALSE
       /\ watcher' = "watch"
    \/ /\ pending # <<>>
       /\ proc.alive
       /\ inner' = [proc EXCEPT !.stdin = @ \o pending]
       /\ watcher' = "drain"
       /\ UNCHANGED <<pending, restarting>>
    \/ /\ pending # <<>>
       /\ ~proc.alive
       /\ inner' = proc
       /\ restarting' = FALSE
       /\ watcher' = "watch"
       /\ UNCHANGED pending

\* Mutated form: the handshake is not replayed.
SpawnNoReplay ==
    /\ loop = "runs"
    /\ watcher = "spawn"
    /\ Flush(Spawned(<<>>, FALSE))
    /\ UNCHANGED <<client, source, read, reader, writer, loop, faulted>>

\* init_line is set from the moment initialize was read.
Spawn ==
    /\ loop = "runs"
    /\ watcher = "spawn"
    /\ \/ /\ read = 0
          /\ Flush(Spawned(<<>>, FALSE))
       \/ /\ read > 0
          /\ inner' = Spawned(<<InitReq>>, TRUE)
          /\ watcher' = "replay"
          /\ UNCHANGED <<pending, restarting>>
    /\ UNCHANGED <<client, source, read, reader, writer, loop, faulted>>

\* Mutated form: no finally clause.
FlagStuck ==
    /\ "nospawn" \in Events
    /\ loop = "runs"
    /\ watcher = "spawn"
    /\ watcher' = "watch"
    /\ faulted' = TRUE
    /\ UNCHANGED <<client, source, inner, forward, restarting, writer, loop>>

\* _restart raises; the finally clause clears the flag over a dead process.
SpawnFails ==
    /\ "nospawn" \in Events
    /\ loop = "runs"
    /\ watcher = "spawn"
    /\ restarting' = FALSE
    /\ watcher' = "watch"
    /\ faulted' = TRUE
    /\ UNCHANGED <<client, source, inner, forward, writer, loop>>

\* Mutated form: the answer to the replayed initialize is left in the pipe.
ReplayKept ==
    /\ loop = "runs"
    /\ watcher = "replay"
    /\ inner.stdout # <<>>
    /\ Flush([inner EXCEPT !.stdin = Append(@, Initialized)])
    /\ UNCHANGED <<client, source, read, reader, writer, loop, faulted>>

\* The answer is discarded and the handshake completed.
ReplayAnswered ==
    /\ loop = "runs"
    /\ watcher = "replay"
    /\ inner.stdout # <<>>
    /\ Flush([inner EXCEPT !.stdout = Tail(@),
                           !.stdin = IF inner.alive THEN Append(@, Initialized) ELSE @])
    /\ UNCHANGED <<client, source, read, reader, writer, loop, faulted>>

\* End of file, or no answer in time: logged, and forwarding resumes.
ReplayFails ==
    /\ loop = "runs"
    /\ watcher = "replay"
    /\ inner.stdout = <<>>
    /\ ~inner.alive \/ "slow" \in Events
    /\ Flush(inner)
    /\ faulted' = TRUE
    /\ UNCHANGED <<client, source, read, reader, writer, loop>>

\* The suspended drain ends, and pending is cleared with whatever was
\* appended to it meanwhile; or it raises and pending is kept.
FlushDrained ==
    /\ loop = "runs"
    /\ watcher = "drain"
    /\ IF inner.alive THEN pending' = <<>> ELSE UNCHANGED pending
    /\ restarting' = FALSE
    /\ watcher' = "watch"
    /\ UNCHANGED <<client, source, inner, read, reader, writer, loop, faulted>>

(***************************************************************************)
(* The specification                                                       *)
(***************************************************************************)
Reading == StdinRead \/ StdinDrained
Writing == WriterWakes \/ ForwardLine \/ ForwardEof
Watching ==
    \/ RestartBegins \/ Waited \/ Spawn \/ SpawnFails
    \/ ReplayAnswered \/ ReplayFails \/ FlushDrained
Serving == InnerServe \/ InnerExit

Next == ClientSend \/ FileChange \/ Serving \/ Reading \/ Writing \/ Watching

Spec == Init /\ [][Next]_vars

\* asyncio runs every task that is ready, and a server that was started
\* serves; neither the client nor the developer has to do anything.
FairSpec ==
    /\ Spec
    /\ WF_vars(Reading) /\ WF_vars(Writing) /\ WF_vars(Watching) /\ WF_vars(Serving)

(***************************************************************************)
(* Properties                                                              *)
(***************************************************************************)
Traffic == Initialized .. MaxMsgs

\* The shape of every variable; lines are kept only while there is a use
\* for them, and a task is suspended only where its code suspends.
TypeOK ==
    /\ sent \in 0 .. MaxMsgs
    /\ read \in 0 .. sent
    /\ answers \in [Msgs -> Nat]
    /\ edits \in 0 .. MaxEdits
    /\ bad \subseteq 1 .. edits
    /\ dirty \in BOOLEAN
    /\ inner \in [alive : BOOLEAN, code : 0 .. edits, stdin : Seq(Traffic),
                  got : Seq(Traffic), stdout : Seq(Msgs), replayed : BOOLEAN]
    /\ pending \in Seq(Msgs)
    /\ restarting \in BOOLEAN
    /\ reader \in {"read", "drain"}
    /\ writer \in {"readline", "sleep"}
    /\ watcher \in {"watch", "wait", "spawn", "replay", "drain"}
    /\ restarting <=> watcher # "watch"
    /\ reader = "drain" => read > 0
    /\ watcher \in {"spawn", "replay", "drain"} => writer = "sleep" /\ reader = "read"
    /\ loop \in {"runs", "spins", "exited"}
    /\ faulted \in BOOLEAN

\* Every inner server has seen initialize before any other request, and the
\* initialized notification too when the proxy made the handshake for it and
\* was answered in time.
HandshakeFirst ==
    \A i \in DOMAIN inner.got : inner.got[i] > InitReq =>
        /\ \E j \in 1 .. i - 1 : inner.got[j] = InitReq
        /\ inner.replayed /\ ~faulted => \E j \in 1 .. i - 1 : inner.got[j] = Initialized

\* An inner server gets the client's requests in the order they were sent,
\* buffered, re-sent or direct.
OrderKept ==
    \A i, j \in DOMAIN inner.got :
        i < j /\ inner.got[i] > InitReq /\ inner.got[j] > InitReq => inner.got[i] < inner.got[j]

\* proxy.py:108-109: the client gets no second answer to initialize, nor to
\* anything else, from any number of restarts that find a server in order.
AtMostOneAnswer == faulted \/ \A m \in Msgs : answers[m] <= 1

\* The server that runs in the end is the last version of the source, when
\* that version starts at all.
ChangesPickedUp ==
    <>[](inner.code = edits /\ (inner.alive \/ edits \in bad))

\* The same, for behaviours in which every version starts and no server
\* exits by itself.
GoodChangesPickedUp == []~faulted => ChangesPickedUp

(***************************************************************************)
(* What the header claims and the code does not do                         *)
(***************************************************************************)
Range(s) == {s[i] : i \in DOMAIN s}

\* proxy.py:12,17: lines that arrive during a restart are buffered, and the
\* buffered lines are drained into the new server.
BufferedLinesReachInner ==
    [][inner'.alive => \A m \in Range(pending) \ Range(pending') :
          m \in Range(inner'.stdin) \cup Range(inner'.got)]_pending

=============================================================================
