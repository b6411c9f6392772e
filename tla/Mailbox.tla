------------------------------ MODULE Mailbox ------------------------------
(***************************************************************************)
(* The file mailboxes of the bus, and what wakes an agent to read them:    *)
(*   - message.send: resolve, then per recipient deliver, decide whether   *)
(*     to nudge, type into the pane, record the nudge,                     *)
(*   - message.nudge_direct: type without a mailbox file,                  *)
(*   - get_messages = message.read + prune_archived_messages,              *)
(*   - the Stop hook (stop-check-mail.sh) that keeps an agent with unread  *)
(*     mail from going idle.                                               *)
(*                                                                         *)
(* A server is the MCP server process of one runtime: it executes one tool *)
(* call at a time, and any number of servers run at once over one          *)
(* filesystem.  Each directory listing, file operation, SELECT, tmux call  *)
(* and commit is one step.                                                 *)
(*                                                                         *)
(* Abstractions.  A message stands for its file; its name sorts by `at`,   *)
(* the time the sender read before the first delivery.  Content, reply_to  *)
(* and the runtime suffix are left out.  The addresses of a call ("*",     *)
(* "role:", ";" lists) are the set of ids they resolve to; a call that     *)
(* resolves to none changes nothing.  Typing into a pane is the liveness   *)
(* probe, the copy-mode check and the three send-keys calls together: it   *)
(* reaches the runtime or it does not.                                     *)
(***************************************************************************)
EXTENDS Naturals

CONSTANTS
    Agents,     \* ids with a row in the agents table
    Nudgeable,  \* those with a pane and a runtime in _NUDGEABLE_RUNTIMES
    Servers,    \* MCP server processes
    Topics,     \* thread identifiers
    AnyTopic,   \* the empty topic filter of get_messages
    NoAgent,
    NoMsg,
    MaxMsgs,    \* bound: messages sent
    Events      \* faults in play: see FaultKinds

FaultKinds ==
    { "crash"        \* a server dies in the middle of a call
    , "disk"         \* a mailbox file cannot be written
    , "unreachable" }  \* tmux fails, or the pane is gone

Messages == [from : Servers, at : 1 .. MaxMsgs, topic : Topics, nudge : BOOLEAN]

ASSUME MailboxAssumption ==
    /\ Nudgeable \subseteq Agents
    /\ NoAgent \notin Agents
    /\ NoMsg \notin Messages
    /\ AnyTopic \notin Topics
    /\ MaxMsgs \in Nat
    /\ Events \subseteq FaultKinds

VARIABLES
    clock,      \* timestamps given out so far
    inbox,      \* inbox/<agent>/*.json
    archive,    \* inbox/<agent>/archive/*.json
    recent,     \* agents with a nudge_log row inside the throttle window
    typed,      \* agents with keystrokes their runtime has not taken yet
    mode,       \* runtime: busy, stopping (Stop hook passed) or idle
    call,       \* the tool call in progress in each server
    delivered,  \* history: messages ever written to each inbox
    handed,     \* history: messages get_messages returned from each inbox
    lost        \* history: messages a crashed get_messages had archived

files   == <<inbox, archive>>
wake    == <<recent, typed, mode>>
history == <<delivered, handed, lost>>
vars    == <<clock, files, wake, call, history>>

Idle == [pc |-> "idle", msg |-> NoMsg, todo |-> {}, box |-> NoAgent,
         topic |-> AnyTopic, list |-> {}, got |-> {}]

Init ==
    /\ clock = 0
    /\ inbox = [a \in Agents |-> {}]
    /\ archive = [a \in Agents |-> {}]
    /\ recent = {}
    /\ typed = {}
    /\ mode = [a \in Agents |-> "idle"]
    /\ call = [s \in Servers |-> Idle]
    /\ delivered = [a \in Agents |-> {}]
    /\ handed = [a \in Agents |-> {}]
    /\ lost = [a \in Agents |-> {}]

(***************************************************************************)
(* send_message                                                            *)
(***************************************************************************)

\* Recipients are resolved once; the timestamp that names every file of the
\* call is read before the first of them is written.
SendStart(s) ==
    /\ call[s].pc = "idle"
    /\ clock < MaxMsgs
    /\ clock' = clock + 1
    /\ \E to \in SUBSET Agents \ {{}}, topic \in Topics, nudge \in BOOLEAN :
          call' = [call EXCEPT ![s] =
             [Idle EXCEPT !.pc = "deliver",
                          !.msg = [from |-> s, at |-> clock + 1,
                                   topic |-> topic, nudge |-> nudge],
                          !.todo = to]]
    /\ UNCHANGED <<files, wake, history>>

\* Write to a temporary file, rename into the inbox; go on to the nudge when
\* it is asked for and the recipient's runtime takes one.
Deliver(s) ==
    /\ call[s].pc = "deliver"
    /\ \E a \in call[s].todo :
          /\ inbox' = [inbox EXCEPT ![a] = @ \cup {call[s].msg}]
          /\ delivered' = [delivered EXCEPT ![a] = @ \cup {call[s].msg}]
          /\ call' = [call EXCEPT
                ![s].todo = @ \ {a},
                ![s].box = a,
                ![s].pc = IF call[s].msg.nudge /\ a \in Nudgeable THEN "window" ELSE "deliver"]
    /\ UNCHANGED <<clock, archive, wake, handed, lost>>

\* The exception leaves the loop: earlier recipients keep their file, later
\* ones get none, and the caller is not told which.
DeliverFails(s) ==
    /\ "disk" \in Events
    /\ call[s].pc = "deliver"
    /\ call[s].todo # {}
    /\ call' = [call EXCEPT ![s] = Idle]
    /\ UNCHANGED <<clock, files, wake, history>>

\* _nudge_allowed: outside the window at once, inside it by what is unread.
NudgeWindow(s) ==
    /\ call[s].pc = "window"
    /\ call' = [call EXCEPT ![s].pc = IF call[s].box \in recent THEN "unread" ELSE "type"]
    /\ UNCHANGED <<clock, files, wake, history>>

\* Mutated form: no nudge inside the window.
NeverRenudge(s) ==
    /\ call[s].pc = "unread"
    /\ call' = [call EXCEPT ![s].pc = "deliver"]
    /\ UNCHANGED <<clock, files, wake, history>>

\* _inbox_has_unread is asked after the delivery it is asked for.
NudgeUnread(s) ==
    /\ call[s].pc = "unread"
    /\ call' = [call EXCEPT ![s].pc = IF inbox[call[s].box] # {} THEN "type" ELSE "deliver"]
    /\ UNCHANGED <<clock, files, wake, history>>

NudgeType(s) ==
    /\ call[s].pc = "type"
    /\ \/ /\ typed' = typed \cup {call[s].box}
          /\ call' = [call EXCEPT ![s].pc = "record"]
       \/ /\ "unreachable" \in Events
          /\ call' = [call EXCEPT ![s].pc = "deliver"]
          /\ typed' = typed
    /\ UNCHANGED <<clock, files, recent, mode, history>>

NudgeRecord(s) ==
    /\ call[s].pc = "record"
    /\ recent' = recent \cup {call[s].box}
    /\ call' = [call EXCEPT ![s].pc = "deliver"]
    /\ UNCHANGED <<clock, files, typed, mode, history>>

SendReturn(s) ==
    /\ call[s].pc = "deliver"
    /\ call[s].todo = {}
    /\ call' = [call EXCEPT ![s] = Idle]
    /\ UNCHANGED <<clock, files, wake, history>>

\* nudge_message: no file, no throttle and no nudge_log row; its recipients
\* are independent of one another.
NudgeDirect(s) ==
    /\ call[s].pc = "idle"
    /\ \E a \in Nudgeable : typed' = typed \cup {a}
    /\ UNCHANGED <<clock, files, recent, mode, call, history>>

(***************************************************************************)
(* get_messages                                                            *)
(***************************************************************************)

\* The listing is taken once; any server may read any inbox.
ReadStart(s) ==
    /\ call[s].pc = "idle"
    /\ \E a \in Agents, topic \in Topics \cup {AnyTopic} :
          /\ inbox[a] \cup archive[a] # {}   \* nothing to do otherwise
          /\ call' = [call EXCEPT ![s] =
                [Idle EXCEPT !.pc = "read", !.box = a, !.topic = topic, !.list = inbox[a]]]
    /\ UNCHANGED <<clock, files, wake, history>>

\* Mutated form: files are taken in directory order.
Unsorted(list) == list

\* sorted(): file names begin with the timestamp.
Oldest(list) == {m \in list : \A n \in list : m.at <= n.at}

Matches(c, m) == c.topic \in {AnyTopic, m.topic}

\* Mutated form: what the filter leaves out is archived with the rest.
ArchiveThenFilter(s) ==
    /\ call[s].pc = "read"
    /\ \E m \in Oldest(call[s].list) :
          call' = [call EXCEPT ![s].pc = "archive", ![s].msg = m,
                               ![s].got = IF Matches(call[s], m) THEN @ \cup {m} ELSE @]
    /\ UNCHANGED <<clock, files, wake, history>>

\* A file another reader has moved raises and is skipped, a file of another
\* topic stays; a file that was read is in the answer whatever happens next.
ReadFile(s) ==
    /\ call[s].pc = "read"
    /\ \E m \in Oldest(call[s].list) :
          \/ /\ m \in inbox[call[s].box] /\ Matches(call[s], m)
             /\ call' = [call EXCEPT ![s].pc = "archive", ![s].msg = m, ![s].got = @ \cup {m}]
          \/ /\ ~(m \in inbox[call[s].box] /\ Matches(call[s], m))
             /\ call' = [call EXCEPT ![s].list = @ \ {m}]
    /\ UNCHANGED <<clock, files, wake, history>>

\* Mutated form: the file is copied to the archive and stays unread.
CopyToArchive(s) ==
    /\ call[s].pc = "archive"
    /\ LET m == call[s].msg
           a == call[s].box
       IN  /\ archive' = [archive EXCEPT ![a] = @ \cup {m}]
           /\ call' = [call EXCEPT ![s].pc = "read", ![s].list = @ \ {m}]
    /\ UNCHANGED <<clock, inbox, wake, history>>

\* rename() into archive/; it raises when another reader was faster.
ArchiveFile(s) ==
    /\ call[s].pc = "archive"
    /\ LET m == call[s].msg
           a == call[s].box
       IN  /\ IF m \in inbox[a]
              THEN /\ inbox' = [inbox EXCEPT ![a] = @ \ {m}]
                   /\ archive' = [archive EXCEPT ![a] = @ \cup {m}]
              ELSE UNCHANGED files
           /\ call' = [call EXCEPT ![s].pc = "read", ![s].list = @ \ {m}]
    /\ UNCHANGED <<clock, wake, history>>

\* The answer goes out after prune_archived_messages has dropped what is
\* too old, or what it could of it; the age is that of the file, which its
\* name does not tell.
ReadReturn(s) ==
    /\ call[s].pc = "read"
    /\ call[s].list = {}
    /\ \E kept \in SUBSET archive[call[s].box] :
          archive' = [archive EXCEPT ![call[s].box] = kept]
    /\ handed' = [handed EXCEPT ![call[s].box] = @ \cup call[s].got]
    /\ call' = [call EXCEPT ![s] = Idle]
    /\ UNCHANGED <<clock, inbox, wake, delivered, lost>>

\* The server dies; the next one on the same stdio starts idle.
CrashServer(s) ==
    /\ "crash" \in Events
    /\ call[s].pc # "idle"
    /\ lost' = [a \in Agents |->
                   IF a = call[s].box THEN lost[a] \cup (call[s].got \ inbox[a]) ELSE lost[a]]
    /\ call' = [call EXCEPT ![s] = Idle]
    /\ UNCHANGED <<clock, files, wake, delivered, handed>>

(***************************************************************************)
(* The runtimes: turns, keystrokes and the Stop hook                       *)
(***************************************************************************)
WindowExpires ==
    /\ \E a \in recent : recent' = recent \ {a}
    /\ UNCHANGED <<clock, files, typed, mode, call, history>>

UserPrompt(a) ==
    /\ mode[a] = "idle"
    /\ mode' = [mode EXCEPT ![a] = "busy"]
    /\ UNCHANGED <<clock, files, recent, typed, call, history>>

\* Mutated form: the hook lets every stop through.
StopUnchecked(a) ==
    /\ mode[a] = "busy"
    /\ mode' = [mode EXCEPT ![a] = "stopping"]
    /\ UNCHANGED <<clock, files, recent, typed, call, history>>

\* stop-check-mail.sh lets the turn end when it finds no file; otherwise it
\* blocks the stop and the agent stays busy.
StopHook(a) ==
    /\ mode[a] = "busy"
    /\ inbox[a] = {}
    /\ mode' = [mode EXCEPT ![a] = "stopping"]
    /\ UNCHANGED <<clock, files, recent, typed, call, history>>

GoIdle(a) ==
    /\ mode[a] = "stopping"
    /\ mode' = [mode EXCEPT ![a] = "idle"]
    /\ UNCHANGED <<clock, files, recent, typed, call, history>>

\* Typed text starts a turn, or joins the one in progress.
TakeKeys(a) ==
    /\ mode[a] \in {"idle", "busy"}
    /\ a \in typed
    /\ mode' = [mode EXCEPT ![a] = "busy"]
    /\ typed' = typed \ {a}
    /\ UNCHANGED <<clock, files, recent, call, history>>

(***************************************************************************)
(* The specification                                                       *)
(***************************************************************************)
SendStep(s) ==
    \/ Deliver(s) \/ NudgeWindow(s) \/ NudgeUnread(s) \/ NudgeType(s)
    \/ NudgeRecord(s) \/ SendReturn(s)

ReadStep(s) == ReadFile(s) \/ ArchiveFile(s) \/ ReadReturn(s)

Server(s) ==
    \/ SendStart(s) \/ SendStep(s) \/ DeliverFails(s) \/ NudgeDirect(s)
    \/ ReadStart(s) \/ ReadStep(s) \/ CrashServer(s)

Runtime(a) == UserPrompt(a) \/ StopHook(a) \/ GoIdle(a) \/ TakeKeys(a)

Next ==
    \/ \E s \in Servers : Server(s)
    \/ \E a \in Nudgeable : Runtime(a)
    \/ WindowExpires

Spec == Init /\ [][Next]_vars

\* A call that started goes on, a stopped turn ends and a runtime reads its
\* terminal.  No agent is assumed to call get_messages.
Fairness ==
    /\ \A s \in Servers : WF_vars(SendStep(s)) /\ WF_vars(ReadStep(s))
    /\ \A a \in Nudgeable : WF_vars(GoIdle(a)) /\ WF_vars(TakeKeys(a))

FairSpec == Spec /\ Fairness

(***************************************************************************)
(* Properties                                                              *)
(***************************************************************************)
SendPcs == {"deliver", "window", "unread", "type", "record"}
NudgePcs == {"window", "unread", "type", "record"}

Calls ==
    {c \in [pc : {"idle", "read", "archive"} \cup SendPcs, msg : Messages \cup {NoMsg},
            todo : SUBSET Agents, box : Agents \cup {NoAgent},
            topic : Topics \cup {AnyTopic}, list : SUBSET Messages, got : SUBSET Messages] :
        /\ c.pc \in SendPcs => c.msg \in Messages
        /\ c.pc \in {"idle"} \cup SendPcs => c.got = {}
        /\ c.pc \in {"read", "archive"} => c.box \in Agents
        /\ c.pc \in NudgePcs => c.box \in Nudgeable
        /\ c.pc = "archive" => c.msg \in c.list \cap c.got}

\* The shape of every variable; a send never carries an answer, only agents
\* that take one are nudged, and a file about to be archived is in the answer.
TypeOK ==
    /\ clock \in 0 .. MaxMsgs
    /\ inbox \in [Agents -> SUBSET Messages]
    /\ archive \in [Agents -> SUBSET Messages]
    /\ recent \subseteq Nudgeable
    /\ typed \subseteq Nudgeable
    /\ mode \in [Agents -> {"idle", "busy", "stopping"}]
    /\ call \in [Servers -> Calls]
    /\ delivered \in [Agents -> SUBSET Messages]
    /\ handed \in [Agents -> SUBSET Messages]
    /\ lost \in [Agents -> SUBSET Messages]

\* What readers have taken from inbox a and not returned yet.
Held(a) == UNION {IF call[s].box = a THEN call[s].got ELSE {} : s \in Servers}

\* A delivered message is unread, on its way to a reader or was returned to
\* one, whatever readers and filters interleave; only a get_messages that
\* dies can lose one, and only one it had already archived.
NothingLost ==
    \A a \in Agents : delivered[a] \subseteq inbox[a] \cup Held(a) \cup handed[a] \cup lost[a]

\* Of the mail one server sent on one topic, none is left unread once a
\* later one has been archived, however many readers there are.
FifoPerSender ==
    \A a \in Agents : \A old \in inbox[a], new \in archive[a] :
        old.from = new.from /\ old.topic = new.topic => old.at > new.at

\* Server s still has to decide or make the nudge for m.
Nudging(s, a, m) ==
    call[s].pc \in NudgePcs \ {"record"} /\ call[s].box = a /\ call[s].msg = m

\* An agent about to be or already idle over unread mail that asked for a
\* nudge has keystrokes waiting or a sender still at work on the nudge: the
\* throttle, the unread exception to it and the Stop hook leave no gap.
NoLostWakeup ==
    \A a \in Nudgeable : mode[a] # "busy" /\ a \notin typed =>
        \A m \in inbox[a] : m.nudge => \E s \in Servers : Nudging(s, a, m)

\* Mail that asked for a nudge does not sit before an idle agent for ever.
UnreadWakes ==
    \A a \in Nudgeable :
        (\E m \in inbox[a] : m.nudge) ~> (mode[a] = "busy" \/ \A m \in inbox[a] : ~m.nudge)

(***************************************************************************)
(* What docs claim and the code does not do                                *)
(***************************************************************************)

\* message.py:48-49: inside the window a nudge is repeated only when the
\* inbox still has messages from before, that the last nudge did not wake
\* the agent for.
NudgesThrottled ==
    [][\A s \in Servers :
          call[s].pc = "type" /\ call'[s].pc = "record" /\ call[s].box \in recent =>
              \E m \in inbox[call[s].box] : m # call[s].msg]_vars

\* bus_server.py:244, check-mail.sh:41: sorted file names are arrival order.
NamesSortByArrival ==
    [][\A s \in Servers, a \in Agents :
          inbox'[a] \ inbox[a] = {call[s].msg} =>
              \A m \in inbox[a] : m.at < call[s].msg.at]_vars

=============================================================================
