--------------------------- MODULE Mailbox_proofs ---------------------------
(***************************************************************************)
(* Theorems about Mailbox, for any number of agents, servers, topics and   *)
(* messages.                                                               *)
(***************************************************************************)
EXTENDS Mailbox, TLAPS

-----------------------------------------------------------------------------
(***************************************************************************)
(* Type correctness                                                        *)
(***************************************************************************)

\* A server between two tool calls is in the set of call records.
LEMMA IdleType == Idle \in Calls
BY DEF Idle, Calls, SendPcs, NudgePcs

\* A step that replaces one server's call by a call keeps `call` typed.
LEMMA CallUpdate ==
    ASSUME call \in [Servers -> Calls], NEW s \in Servers, NEW c \in Calls,
           call' = [call EXCEPT ![s] = c]
    PROVE  call' \in [Servers -> Calls]
OBVIOUS

\* A step that writes one agent's mail keeps a file table typed.
LEMMA BoxUpdate ==
    ASSUME NEW f \in [Agents -> SUBSET Messages], NEW a, NEW ms \in SUBSET Messages
    PROVE  [f EXCEPT ![a] = ms] \in [Agents -> SUBSET Messages]
OBVIOUS

\* Mailbox.tla's TypeOK: no step of a call, of a runtime or of a fault leaves
\* the shapes; in particular what a reader archives is in its answer.
THEOREM MailboxTypeCorrect == Spec => []TypeOK
<1>1. Init => TypeOK
  BY MailboxAssumption, IdleType DEF Init, TypeOK
<1>2. TypeOK /\ [Next]_vars => TypeOK'
  <2> SUFFICES ASSUME TypeOK, [Next]_vars PROVE TypeOK'
    OBVIOUS
  <2>1. ASSUME NEW s \in Servers, SendStart(s) PROVE TypeOK'
    <3>1. PICK to \in SUBSET Agents \ {{}}, topic \in Topics, nudge \in BOOLEAN :
             call' = [call EXCEPT ![s] =
                [Idle EXCEPT !.pc = "deliver",
                             !.msg = [from |-> s, at |-> clock + 1,
                                      topic |-> topic, nudge |-> nudge],
                             !.todo = to]]
      BY <2>1 DEF SendStart
    <3>2. clock + 1 \in 1 .. MaxMsgs
      BY <2>1, MailboxAssumption DEF SendStart, TypeOK
    <3>3. [from |-> s, at |-> clock + 1, topic |-> topic, nudge |-> nudge] \in Messages
      BY <3>2 DEF Messages
    <3>4. [Idle EXCEPT !.pc = "deliver",
                       !.msg = [from |-> s, at |-> clock + 1,
                                topic |-> topic, nudge |-> nudge],
                       !.todo = to] \in Calls
      BY <3>3 DEF Idle, Calls, SendPcs, NudgePcs
    <3>5. call' \in [Servers -> Calls]
      BY <3>1, <3>4, CallUpdate DEF TypeOK
    <3> QED BY <2>1, <3>2, <3>5 DEF SendStart, TypeOK, files, wake, history
  <2>2. ASSUME NEW s \in Servers, Deliver(s) PROVE TypeOK'
    <3>1. PICK a \in call[s].todo :
             /\ inbox' = [inbox EXCEPT ![a] = @ \cup {call[s].msg}]
             /\ delivered' = [delivered EXCEPT ![a] = @ \cup {call[s].msg}]
             /\ call' = [call EXCEPT
                   ![s].todo = @ \ {a},
                   ![s].box = a,
                   ![s].pc = IF call[s].msg.nudge /\ a \in Nudgeable THEN "window" ELSE "deliver"]
      BY <2>2 DEF Deliver
    <3>2. call[s].msg \in Messages /\ a \in Agents
      BY <2>2 DEF Deliver, TypeOK, Calls, SendPcs
    <3>3. call' \in [Servers -> Calls]
      <4> DEFINE pc == IF call[s].msg.nudge /\ a \in Nudgeable THEN "window" ELSE "deliver"
                 c == [call[s] EXCEPT !.todo = @ \ {a}, !.box = a, !.pc = pc]
      <4>1. call[s] \in Calls /\ call[s].pc = "deliver"
        BY <2>2 DEF Deliver, TypeOK
      <4>2. pc = "deliver" \/ (pc = "window" /\ a \in Nudgeable)
        OBVIOUS
      <4> HIDE DEF pc
      <4>3. c \in Calls
        BY <3>2, <4>1, <4>2 DEF Calls, SendPcs, NudgePcs
      <4>4. call' = [call EXCEPT ![s] = c]
        BY <3>1 DEF TypeOK, pc
      <4> QED BY <4>3, <4>4, CallUpdate DEF TypeOK
    <3>4. inbox' \in [Agents -> SUBSET Messages] /\ delivered' \in [Agents -> SUBSET Messages]
      BY <3>1, <3>2, BoxUpdate DEF TypeOK
    <3> QED BY <2>2, <3>3, <3>4 DEF Deliver, TypeOK, wake
  <2>3. ASSUME NEW s \in Servers, DeliverFails(s) PROVE TypeOK'
    BY <2>3, IdleType, CallUpdate DEF DeliverFails, TypeOK, files, wake, history
  <2>4. ASSUME NEW s \in Servers, NudgeWindow(s) \/ NudgeUnread(s) PROVE TypeOK'
    <3>1. call' \in [Servers -> Calls]
      <4>1. PICK pc \in {"unread", "type", "deliver"} : call' = [call EXCEPT ![s].pc = pc]
        BY <2>4 DEF NudgeWindow, NudgeUnread
      <4>2. call[s] \in Calls /\ call[s].pc \in NudgePcs
        BY <2>4 DEF NudgeWindow, NudgeUnread, TypeOK, NudgePcs
      <4>3. [call[s] EXCEPT !.pc = pc] \in Calls
        BY <4>2 DEF Calls, SendPcs, NudgePcs
      <4> QED BY <4>1, <4>3, CallUpdate DEF TypeOK
    <3> QED BY <2>4, <3>1 DEF NudgeWindow, NudgeUnread, TypeOK, files, wake, history
  <2>5. ASSUME NEW s \in Servers, NudgeType(s) PROVE TypeOK'
    <3>1. call' \in [Servers -> Calls]
      <4>1. PICK pc \in {"record", "deliver"} : call' = [call EXCEPT ![s].pc = pc]
        BY <2>5 DEF NudgeType
      <4>2. call[s] \in Calls /\ call[s].pc \in NudgePcs
        BY <2>5 DEF NudgeType, TypeOK, NudgePcs
      <4>3. [call[s] EXCEPT !.pc = pc] \in Calls
        BY <4>2 DEF Calls, SendPcs, NudgePcs
      <4> QED BY <4>1, <4>3, CallUpdate DEF TypeOK
    <3>2. call[s].box \in Nudgeable
      BY <2>5 DEF NudgeType, TypeOK, Calls, NudgePcs
    <3> QED BY <2>5, <3>1, <3>2 DEF NudgeType, TypeOK, files, history
  <2>6. ASSUME NEW s \in Servers, NudgeRecord(s) PROVE TypeOK'
    <3>1. call' \in [Servers -> Calls]
      BY <2>6 DEF NudgeRecord, TypeOK, Calls, SendPcs, NudgePcs
    <3>2. call[s].box \in Nudgeable
      BY <2>6 DEF NudgeRecord, TypeOK, Calls, NudgePcs
    <3> QED BY <2>6, <3>1, <3>2 DEF NudgeRecord, TypeOK, files, history
  <2>7. ASSUME NEW s \in Servers, SendReturn(s) PROVE TypeOK'
    BY <2>7, IdleType, CallUpdate DEF SendReturn, TypeOK, files, wake, history
  <2>8. ASSUME NEW s \in Servers, NudgeDirect(s) PROVE TypeOK'
    BY <2>8 DEF NudgeDirect, TypeOK, files, history
  <2>9. ASSUME NEW s \in Servers, ReadStart(s) PROVE TypeOK'
    <3>1. PICK a \in Agents, topic \in Topics \cup {AnyTopic} :
             call' = [call EXCEPT ![s] =
                [Idle EXCEPT !.pc = "read", !.box = a, !.topic = topic, !.list = inbox[a]]]
      BY <2>9 DEF ReadStart
    <3>2. [Idle EXCEPT !.pc = "read", !.box = a, !.topic = topic, !.list = inbox[a]] \in Calls
      BY DEF Idle, Calls, SendPcs, NudgePcs, TypeOK
    <3>3. call' \in [Servers -> Calls]
      BY <3>1, <3>2, CallUpdate DEF TypeOK
    <3> QED BY <2>9, <3>3 DEF ReadStart, TypeOK, files, wake, history
  <2>10. ASSUME NEW s \in Servers, ReadFile(s) PROVE TypeOK'
    <3>0. PICK m \in call[s].list :
             \/ call' = [call EXCEPT ![s].pc = "archive", ![s].msg = m, ![s].got = @ \cup {m}]
             \/ call' = [call EXCEPT ![s].list = @ \ {m}]
      BY <2>10 DEF ReadFile, Oldest
    <3>1. call' \in [Servers -> Calls]
      <4>1. call[s].pc = "read" /\ call[s] \in Calls
        BY <2>10 DEF ReadFile, TypeOK
      <4>2. [call[s] EXCEPT !.pc = "archive", !.msg = m, !.got = @ \cup {m}] \in Calls
        BY <3>0, <4>1 DEF Calls, SendPcs, NudgePcs
      <4>3. [call[s] EXCEPT !.list = @ \ {m}] \in Calls
        BY <3>0, <4>1 DEF Calls, SendPcs, NudgePcs
      <4> QED BY <3>0, <4>2, <4>3 DEF TypeOK
    <3> QED BY <2>10, <3>1 DEF ReadFile, TypeOK, files, wake, history
  <2>11. ASSUME NEW s \in Servers, ArchiveFile(s) PROVE TypeOK'
    <3>1. call' \in [Servers -> Calls]
      BY <2>11 DEF ArchiveFile, TypeOK, Calls, SendPcs, NudgePcs
    <3>2. inbox' \in [Agents -> SUBSET Messages] /\ archive' \in [Agents -> SUBSET Messages]
      BY <2>11 DEF ArchiveFile, TypeOK, Calls, files
    <3> QED BY <2>11, <3>1, <3>2 DEF ArchiveFile, TypeOK, wake, history
  <2>12. ASSUME NEW s \in Servers, ReadReturn(s) PROVE TypeOK'
    <3>1. call[s].box \in Agents /\ call[s].got \in SUBSET Messages
      BY <2>12 DEF ReadReturn, TypeOK, Calls
    <3>2. archive' \in [Agents -> SUBSET Messages] /\ handed' \in [Agents -> SUBSET Messages]
      BY <2>12, <3>1 DEF ReadReturn, TypeOK
    <3> QED BY <2>12, <3>2, IdleType, CallUpdate DEF ReadReturn, TypeOK, wake
  <2>13. ASSUME NEW s \in Servers, CrashServer(s) PROVE TypeOK'
    <3>1. lost' \in [Agents -> SUBSET Messages]
      BY <2>13 DEF CrashServer, TypeOK, Calls
    <3> QED BY <2>13, <3>1, IdleType, CallUpdate DEF CrashServer, TypeOK, files, wake
  <2>14. ASSUME NEW a \in Nudgeable, Runtime(a) PROVE TypeOK'
    BY <2>14, MailboxAssumption
    DEF Runtime, UserPrompt, StopHook, GoIdle, TakeKeys, TypeOK, files, history
  <2>15. CASE WindowExpires
    BY <2>15 DEF WindowExpires, TypeOK, files, history
  <2>16. CASE UNCHANGED vars
    BY <2>16 DEF vars, files, wake, history, TypeOK
  <2> QED
    BY <2>1, <2>2, <2>3, <2>4, <2>5, <2>6, <2>7, <2>8, <2>9, <2>10, <2>11, <2>12, <2>13,
       <2>14, <2>15, <2>16
    DEF Next, Server, SendStep, ReadStep
<1> QED BY <1>1, <1>2, PTL DEF Spec

-----------------------------------------------------------------------------
(***************************************************************************)
(* No message is lost                                                      *)
(***************************************************************************)

\* Message m of agent a can still reach a reader, did, or a crash took it.
Safe(a, m) ==
    \/ m \in inbox[a]
    \/ m \in handed[a]
    \/ m \in lost[a]
    \/ \E s \in Servers : call[s].box = a /\ m \in call[s].got

\* NothingLost says that every delivered message is safe.
LEMMA NothingLostIs ==
    NothingLost <=> \A a \in Agents : \A m \in delivered[a] : Safe(a, m)
BY DEF NothingLost, Held, Safe

\* A message stays safe while every server keeps its inbox and its answer.
LEMMA SafeKept ==
    ASSUME NEW a \in Agents, NEW m, Safe(a, m),
           m \in inbox[a] => m \in inbox'[a],
           handed' = handed, lost' = lost,
           \A s \in Servers : call[s].got # {} =>
               call'[s].box = call[s].box /\ call[s].got \subseteq call'[s].got
    PROVE  Safe(a, m)'
BY DEF Safe

\* Every step keeps a safe message safe: in particular a reader's rename
\* moves a message that is in its answer, and a crash accounts for the rest.
LEMMA SafeStays ==
    ASSUME TypeOK, TypeOK', [Next]_vars, NEW a \in Agents, NEW m, Safe(a, m)
    PROVE  Safe(a, m)'
<1>1. ASSUME NEW s \in Servers,
             SendStart(s) \/ SendStep(s) \/ DeliverFails(s) \/ NudgeDirect(s) \/ ReadStart(s)
      PROVE  Safe(a, m)'
  <2>1. call[s].pc \in {"idle"} \cup SendPcs
    BY <1>1 DEF SendStart, SendStep, Deliver, NudgeWindow, NudgeUnread, NudgeType,
                NudgeRecord, SendReturn, DeliverFails, NudgeDirect, ReadStart, SendPcs
  <2>2. call[s].got = {}
    BY <2>1 DEF TypeOK, Calls
  <2>3. \A o \in Servers \ {s} : call'[o] = call[o]
    BY <1>1 DEF SendStart, SendStep, Deliver, NudgeWindow, NudgeUnread, NudgeType,
                NudgeRecord, SendReturn, DeliverFails, NudgeDirect, ReadStart, TypeOK
  <2>4. handed' = handed /\ lost' = lost
    BY <1>1 DEF SendStart, SendStep, Deliver, NudgeWindow, NudgeUnread, NudgeType,
                NudgeRecord, SendReturn, DeliverFails, NudgeDirect, ReadStart, history
  <2>5. m \in inbox[a] => m \in inbox'[a]
    <3>1. CASE Deliver(s)
      BY <3>1 DEF Deliver, TypeOK
    <3>2. CASE ~Deliver(s)
      BY <1>1, <3>2 DEF SendStart, SendStep, NudgeWindow, NudgeUnread, NudgeType,
                NudgeRecord, SendReturn, DeliverFails, NudgeDirect, ReadStart, files
    <3> QED BY <3>1, <3>2
  <2> QED BY <2>2, <2>3, <2>4, <2>5, SafeKept
<1>2. ASSUME NEW s \in Servers, ReadFile(s) PROVE Safe(a, m)'
  <2>1. call'[s].box = call[s].box /\ call[s].got \subseteq call'[s].got
    BY <1>2 DEF ReadFile, TypeOK, Calls
  <2>2. \A o \in Servers \ {s} : call'[o] = call[o]
    BY <1>2 DEF ReadFile, TypeOK
  <2> QED BY <1>2, <2>1, <2>2, SafeKept DEF ReadFile, files, history
<1>3. ASSUME NEW s \in Servers, ArchiveFile(s) PROVE Safe(a, m)'
  <2>1. call[s].msg \in call[s].got
    BY <1>3 DEF ArchiveFile, TypeOK, Calls
  <2>2. \A o \in Servers : call'[o].box = call[o].box /\ call'[o].got = call[o].got
    BY <1>3 DEF ArchiveFile, TypeOK, Calls
  <2>3. handed' = handed /\ lost' = lost
    BY <1>3 DEF ArchiveFile, history
  <2>4. CASE call[s].box = a /\ m = call[s].msg
    BY <2>1, <2>2, <2>4 DEF Safe
  <2>5. CASE ~(call[s].box = a /\ m = call[s].msg)
    <3>1. m \in inbox[a] => m \in inbox'[a]
      BY <1>3, <2>5 DEF ArchiveFile, TypeOK, files
    <3> QED BY <2>2, <2>3, <3>1 DEF Safe
  <2> QED BY <2>4, <2>5
<1>4. ASSUME NEW s \in Servers, ReadReturn(s) PROVE Safe(a, m)'
  <2>1. \A o \in Servers \ {s} : call'[o] = call[o]
    BY <1>4 DEF ReadReturn, TypeOK
  <2>2. call[s].box = a => call[s].got \subseteq handed'[a]
    BY <1>4 DEF ReadReturn, TypeOK
  <2>3. handed[a] \subseteq handed'[a]
    BY <1>4 DEF ReadReturn, TypeOK
  <2>4. inbox' = inbox /\ lost' = lost
    BY <1>4 DEF ReadReturn
  <2> QED BY <2>1, <2>2, <2>3, <2>4 DEF Safe
<1>5. ASSUME NEW s \in Servers, CrashServer(s) PROVE Safe(a, m)'
  <2>1. \A o \in Servers \ {s} : call'[o] = call[o]
    BY <1>5 DEF CrashServer, TypeOK
  <2>2. call[s].box = a => call[s].got \subseteq inbox[a] \cup lost'[a]
    BY <1>5 DEF CrashServer, TypeOK
  <2>3. lost[a] \subseteq lost'[a]
    BY <1>5 DEF CrashServer, TypeOK
  <2>4. inbox' = inbox /\ handed' = handed
    BY <1>5 DEF CrashServer, files
  <2> QED BY <2>1, <2>2, <2>3, <2>4 DEF Safe
<1>6. CASE \E b \in Nudgeable : Runtime(b)
  BY <1>6 DEF Runtime, UserPrompt, StopHook, GoIdle, TakeKeys, files, history, Safe
<1>7. CASE WindowExpires \/ UNCHANGED vars
  BY <1>7 DEF WindowExpires, vars, files, history, Safe
<1> QED BY <1>1, <1>2, <1>3, <1>4, <1>5, <1>6, <1>7 DEF Next, Server, ReadStep

\* A file enters the history of deliveries in the step that renames it into
\* the inbox.
LEMMA DeliveredIsInbox ==
    ASSUME TypeOK, [Next]_vars, NEW a \in Agents, NEW m \in delivered'[a], m \notin delivered[a]
    PROVE  m \in inbox'[a]
<1>1. CASE \E s \in Servers : Deliver(s)
  BY <1>1 DEF Deliver, TypeOK
<1>2. CASE ~\E s \in Servers : Deliver(s)
  <2>1. delivered' = delivered
    BY <1>2
    DEF Next, Server, SendStep, ReadStep, Runtime, SendStart, DeliverFails, NudgeWindow,
        NudgeUnread, NudgeType, NudgeRecord, SendReturn, NudgeDirect, ReadStart, ReadFile,
        ArchiveFile, ReadReturn, CrashServer, UserPrompt, StopHook, GoIdle, TakeKeys,
        WindowExpires, vars, history
  <2> QED BY <2>1
<1> QED BY <1>1, <1>2

\* NothingLost: whatever readers, filters, pruning and crashes interleave, a
\* delivered message is unread, in an answer, returned, or was archived by a
\* get_messages that died.
THEOREM NothingLostAlways == Spec => []NothingLost
<1>1. Init => NothingLost
  BY DEF Init, NothingLost
<1>2. TypeOK /\ TypeOK' /\ NothingLost /\ [Next]_vars => NothingLost'
  <2> SUFFICES ASSUME TypeOK, TypeOK', NothingLost, [Next]_vars PROVE NothingLost'
    OBVIOUS
  <2>1. ASSUME NEW a \in Agents, NEW m \in delivered'[a] PROVE Safe(a, m)'
    <3>1. CASE m \in delivered[a]
      BY <3>1, NothingLostIs, SafeStays
    <3>2. CASE m \notin delivered[a]
      BY <3>2, DeliveredIsInbox DEF Safe
    <3> QED BY <3>1, <3>2
  <2> QED BY <2>1 DEF NothingLost, Held, Safe
<1> QED BY <1>1, <1>2, MailboxTypeCorrect, PTL DEF Spec

-----------------------------------------------------------------------------
(***************************************************************************)
(* No lost wake-up                                                         *)
(***************************************************************************)

\* Server s stays at work on the nudge for m, unless it types.
LEMMA NudgingStays ==
    ASSUME TypeOK, NEW s \in Servers, Server(s), ~CrashServer(s), "unreachable" \notin Events,
           NEW o \in Servers, NEW a \in Nudgeable, NEW m \in inbox[a], Nudging(o, a, m)
    PROVE  Nudging(o, a, m)' \/ a \in typed'
<1>1. CASE o # s
  <2>1. call'[o] = call[o]
    BY <1>1
    DEF Server, SendStep, ReadStep, SendStart, Deliver, DeliverFails, NudgeWindow, NudgeUnread,
        NudgeType, NudgeRecord, SendReturn, NudgeDirect, ReadStart, ReadFile, ArchiveFile,
        ReadReturn, TypeOK
  <2> QED BY <2>1 DEF Nudging
<1>2. CASE o = s
  <2>1. call[s].pc \in {"window", "unread", "type"} /\ call[s].box = a /\ call[s].msg = m
    BY <1>2 DEF Nudging, NudgePcs
  <2>2. NudgeWindow(s) \/ NudgeUnread(s) \/ NudgeType(s)
    BY <2>1
    DEF Server, SendStep, ReadStep, SendStart, Deliver, DeliverFails, NudgeRecord, SendReturn,
        NudgeDirect, ReadStart, ReadFile, ArchiveFile, ReadReturn
  <2>3. CASE NudgeWindow(s) \/ NudgeUnread(s)
    BY <1>2, <2>1, <2>3 DEF NudgeWindow, NudgeUnread, Nudging, NudgePcs, TypeOK, Calls
  <2>4. CASE NudgeType(s)
    BY <2>1, <2>4 DEF NudgeType
  <2> QED BY <2>2, <2>3, <2>4
<1> QED BY <1>1, <1>2

\* Only a delivery adds a file to an inbox.
LEMMA InboxGrows ==
    ASSUME TypeOK, [Next]_vars, NEW a \in Agents, NEW m \in inbox'[a], m \notin inbox[a]
    PROVE  \E s \in Servers : Deliver(s)
<1> SUFFICES ASSUME ~\E s \in Servers : Deliver(s) PROVE FALSE
  OBVIOUS
<1>1. CASE \E s \in Servers : ArchiveFile(s)
  BY <1>1 DEF ArchiveFile, files, TypeOK
<1>2. CASE ~\E s \in Servers : ArchiveFile(s)
  <2>1. inbox' = inbox
    BY <1>2
    DEF Next, Server, SendStep, ReadStep, Runtime, SendStart, DeliverFails, NudgeWindow,
        NudgeUnread, NudgeType, NudgeRecord, SendReturn, NudgeDirect, ReadStart, ReadFile,
        ReadReturn, CrashServer, UserPrompt, StopHook, GoIdle, TakeKeys, WindowExpires,
        vars, files
  <2> QED BY <2>1
<1> QED BY <1>1, <1>2

\* A busy agent stops being busy only through its Stop hook.
LEMMA ModeStep ==
    ASSUME TypeOK, [Next]_vars, NEW a \in Nudgeable, mode[a] = "busy", mode'[a] # "busy"
    PROVE  StopHook(a)
<1>0. a \in Agents
  BY MailboxAssumption
<1>1. ASSUME NEW b \in Nudgeable, Runtime(b) PROVE StopHook(a)
  BY <1>0, <1>1 DEF Runtime, UserPrompt, StopHook, GoIdle, TakeKeys, TypeOK
<1>2. CASE ~\E b \in Nudgeable : Runtime(b)
  BY <1>2
  DEF Next, Server, SendStep, ReadStep, SendStart, Deliver, DeliverFails, NudgeWindow,
      NudgeUnread, NudgeType, NudgeRecord, SendReturn, NudgeDirect, ReadStart, ReadFile,
      ArchiveFile, ReadReturn, CrashServer, WindowExpires, vars, wake
<1> QED BY <1>1, <1>2

\* Keystrokes stay until the agent's runtime takes them.
LEMMA TypedStep ==
    ASSUME TypeOK, [Next]_vars, NEW a \in typed, a \notin typed'
    PROVE  TakeKeys(a)
<1>1. ASSUME NEW b \in Nudgeable, Runtime(b) PROVE TakeKeys(a)
  BY <1>1 DEF Runtime, UserPrompt, StopHook, GoIdle, TakeKeys
<1>2. CASE ~\E b \in Nudgeable : Runtime(b)
  BY <1>2
  DEF Next, Server, SendStep, ReadStep, SendStart, Deliver, DeliverFails, NudgeWindow,
      NudgeUnread, NudgeType, NudgeRecord, SendReturn, NudgeDirect, ReadStart, ReadFile,
      ArchiveFile, ReadReturn, CrashServer, WindowExpires, vars, wake
<1> QED BY <1>1, <1>2

\* NoLostWakeup, when tmux can be reached and no server dies between the
\* delivery and the nudge: an agent that is idle over unread mail that asked
\* for a nudge has keystrokes waiting or a sender about to type them.
THEOREM NoLostWakeupAlways ==
    ASSUME "crash" \notin Events, "unreachable" \notin Events
    PROVE  Spec => []NoLostWakeup
<1>1. Init => NoLostWakeup
  BY MailboxAssumption DEF Init, NoLostWakeup
<1>2. TypeOK /\ NoLostWakeup /\ [Next]_vars => NoLostWakeup'
  <2> SUFFICES ASSUME TypeOK, NoLostWakeup, [Next]_vars,
                      NEW a \in Nudgeable, mode'[a] # "busy", a \notin typed',
                      NEW m \in inbox'[a], m.nudge
               PROVE  \E s \in Servers : Nudging(s, a, m)'
    BY DEF NoLostWakeup
  <2>1. a \in Agents
    BY MailboxAssumption
  <2>2. CASE m \in inbox[a] /\ mode[a] # "busy" /\ a \notin typed
    <3>1. PICK o \in Servers : Nudging(o, a, m)
      BY <2>2 DEF NoLostWakeup
    <3>2. CASE \E s \in Servers : Server(s)
      <4>1. PICK s \in Servers : Server(s)
        BY <3>2
      <4>2. ~CrashServer(s)
        BY DEF CrashServer
      <4> QED BY <2>2, <3>1, <4>1, <4>2, NudgingStays
    <3>3. CASE ~\E s \in Servers : Server(s)
      <4>1. call' = call
        BY <3>3 DEF Next, Runtime, UserPrompt, StopHook, GoIdle, TakeKeys, WindowExpires, vars
      <4> QED BY <3>1, <4>1 DEF Nudging
    <3> QED BY <3>2, <3>3
  <2>3. CASE m \notin inbox[a]
    <3>1. PICK s \in Servers : Deliver(s)
      BY <2>1, <2>3, InboxGrows
    <3>2. m = call[s].msg /\ call'[s].msg = m /\ call'[s].box = a /\ call'[s].pc = "window"
      BY <2>1, <2>3, <3>1 DEF Deliver, TypeOK, Calls
    <3> QED BY <3>2 DEF Nudging, NudgePcs
  <2>4. CASE m \in inbox[a] /\ (mode[a] = "busy" \/ a \in typed)
    <3>1. CASE mode[a] = "busy"
      BY <2>1, <2>4, <3>1, ModeStep DEF StopHook, TypeOK
    <3>2. CASE a \in typed
      BY <2>1, <3>2, TypedStep DEF TakeKeys, TypeOK
    <3> QED BY <2>4, <3>1, <3>2
  <2> QED BY <2>2, <2>3, <2>4
<1> QED BY <1>1, <1>2, MailboxTypeCorrect, PTL DEF Spec

=============================================================================
