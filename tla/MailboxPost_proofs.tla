------------------------- MODULE MailboxPost_proofs -------------------------
(***************************************************************************)
(* The mailboxes implement Post, for any number of agents, servers, topics *)
(* and messages and under every fault; the mail of one sender on one topic *)
(* is archived in the order it was sent.                                   *)
(***************************************************************************)
EXTENDS MailboxPost, Mailbox_proofs

-----------------------------------------------------------------------------
(***************************************************************************)
(* The inductive invariant                                                 *)
(***************************************************************************)

\* A recipient still to come has not had the message, which is this server's.
Unsent ==
    \A s \in Servers : \A a \in call[s].todo :
        /\ call[s].pc \in SendPcs
        /\ call[s].msg.from = s
        /\ call[s].msg.at <= clock
        /\ call[s].msg \notin delivered[a]

\* Nothing carries a timestamp that has not been given out.
Stamped == \A a \in Agents : \A m \in delivered[a] : m.at <= clock

Filed == \A a \in Agents : inbox[a] \subseteq delivered[a]

\* What a reader has taken and not archived is the file it is archiving.
Consumed ==
    \A s \in Servers : Reading(call[s]) =>
        \A m \in call[s].got :
            /\ m \in delivered[call[s].box]
            /\ m \in inbox[call[s].box] => call[s].pc = "archive" /\ m = call[s].msg

PostInv == Unsent /\ Stamped /\ Filed /\ Consumed

\* The steps of a call other than the ones that give out a timestamp, write
\* or move a file, or read one.
QuietStep(s) ==
    \/ DeliverFails(s) \/ NudgeWindow(s) \/ NudgeUnread(s) \/ NudgeType(s)
    \/ NudgeRecord(s) \/ SendReturn(s) \/ NudgeDirect(s)

\* A step that leaves mail and clock alone and moves one call between states
\* that do not read, its message kept and its recipients at most dropped,
\* keeps the invariant.
LEMMA QuietKeeps ==
    ASSUME TypeOK, PostInv, NEW s \in Servers, QuietStep(s)
    PROVE  /\ PostInv'
           /\ UNCHANGED <<clock, inbox, delivered, handed, lost>>
           /\ readers' = readers
<1>1. UNCHANGED <<clock, inbox, delivered, handed, lost>>
  BY DEF QuietStep, DeliverFails, NudgeWindow, NudgeUnread, NudgeType, NudgeRecord,
         SendReturn, NudgeDirect, files, history
<1>2. \A o \in Servers \ {s} : call'[o] = call[o]
  BY DEF QuietStep, DeliverFails, NudgeWindow, NudgeUnread, NudgeType, NudgeRecord,
         SendReturn, NudgeDirect, TypeOK
<1>3. \/ call'[s] = Idle
      \/ call'[s] = call[s]
      \/ \E pc \in SendPcs : call'[s] = [call[s] EXCEPT !.pc = pc]
  BY DEF QuietStep, DeliverFails, NudgeWindow, NudgeUnread, NudgeType, NudgeRecord,
         SendReturn, NudgeDirect, TypeOK, SendPcs
<1>4. ~Reading(call[s])
  BY DEF QuietStep, DeliverFails, NudgeWindow, NudgeUnread, NudgeType, NudgeRecord,
         SendReturn, NudgeDirect, Reading
<1>5. ~Reading(call'[s])
  BY <1>3, <1>4 DEF Reading, Idle, SendPcs, TypeOK, Calls
<1>6. /\ call'[s].todo = {} \/ call'[s].todo = call[s].todo
      /\ call'[s].todo # {} => call'[s].msg = call[s].msg /\ (call[s].pc \in SendPcs => call'[s].pc \in SendPcs)
  <2>1. call[s] \in Calls
    BY DEF TypeOK
  <2>2. ASSUME NEW pc \in SendPcs, call'[s] = [call[s] EXCEPT !.pc = pc]
        PROVE  call'[s].todo = call[s].todo /\ call'[s].msg = call[s].msg /\ call'[s].pc = pc
    BY <2>1, <2>2 DEF Calls
  <2>3. CASE call'[s] = Idle
    BY <2>3 DEF Idle
  <2>4. CASE call'[s] = call[s]
    BY <2>4
  <2>5. CASE \E pc \in SendPcs : call'[s] = [call[s] EXCEPT !.pc = pc]
    BY <2>2, <2>5
  <2> QED BY <1>3, <2>3, <2>4, <2>5
<1>7. Unsent'
  BY <1>1, <1>2, <1>6 DEF PostInv, Unsent
<1>8. Stamped' /\ Filed'
  BY <1>1 DEF PostInv, Stamped, Filed
<1>9. Consumed'
  BY <1>1, <1>2, <1>5 DEF PostInv, Consumed
<1>10. readers' = readers
  BY <1>2, <1>4, <1>5 DEF readers, ReaderOf
<1> QED BY <1>1, <1>7, <1>8, <1>9, <1>10 DEF PostInv

\* The steps outside the servers.
LEMMA OthersKeep ==
    ASSUME PostInv, (\E a \in Nudgeable : Runtime(a)) \/ WindowExpires \/ UNCHANGED vars
    PROVE  PostInv' /\ UNCHANGED <<inbox, readers, delivered, handed, lost>>
<1>1. UNCHANGED <<clock, inbox, call, delivered, handed, lost>>
  BY DEF Runtime, UserPrompt, StopHook, GoIdle, TakeKeys, WindowExpires, vars, files, history
<1> QED BY <1>1 DEF PostInv, Unsent, Stamped, Filed, Consumed, readers

\* The beginning of a send: the new message bears a timestamp that nothing
\* delivered has.
LEMMA SendStartKeeps ==
    ASSUME TypeOK, PostInv, NEW s \in Servers, SendStart(s)
    PROVE  PostInv' /\ UNCHANGED <<inbox, readers, delivered, handed, lost>>
<1>1. PICK to \in SUBSET Agents \ {{}}, topic \in Topics, nudge \in BOOLEAN :
         call' = [call EXCEPT ![s] =
            [Idle EXCEPT !.pc = "deliver",
                         !.msg = [from |-> s, at |-> clock + 1,
                                  topic |-> topic, nudge |-> nudge],
                         !.todo = to]]
  BY DEF SendStart
<1>2. /\ call'[s].pc = "deliver" /\ call'[s].todo = to
      /\ call'[s].msg.from = s /\ call'[s].msg.at = clock + 1
  BY <1>1 DEF TypeOK, Idle
<1>3. \A o \in Servers \ {s} : call'[o] = call[o]
  BY <1>1 DEF TypeOK
<1>4. clock \in Nat /\ clock' = clock + 1 /\ UNCHANGED <<inbox, delivered, handed, lost>>
  BY MailboxAssumption DEF SendStart, TypeOK, files, history
<1>5. ASSUME NEW a \in Agents, NEW m \in delivered[a]
      PROVE  m.at \in Nat /\ m.at <= clock
  BY <1>5, MailboxAssumption DEF TypeOK, Messages, PostInv, Stamped
<1>6. Unsent'
  <2> SUFFICES ASSUME NEW o \in Servers, NEW a \in call'[o].todo
               PROVE  /\ call'[o].pc \in SendPcs
                      /\ call'[o].msg.from = o
                      /\ call'[o].msg.at <= clock'
                      /\ call'[o].msg \notin delivered'[a]
    BY DEF Unsent
  <2>1. CASE o = s
    <3>1. a \in Agents
      BY <1>2, <2>1
    <3>2. clock + 1 <= clock' /\ ~(clock + 1 <= clock)
      BY <1>4
    <3>3. call'[s].msg \notin delivered[a]
      BY <1>2, <1>5, <3>1, <3>2
    <3> QED BY <1>2, <1>4, <2>1, <3>2, <3>3 DEF SendPcs
  <2>2. CASE o # s
    <3>1. /\ call[o].pc \in SendPcs /\ call[o].msg.from = o /\ call[o].msg.at <= clock
          /\ call[o].msg \notin delivered[a] /\ call[o].msg \in Messages
      BY <1>3, <2>2 DEF PostInv, Unsent, TypeOK, Calls
    <3>2. call[o].msg.at <= clock + 1
      BY <1>4, <3>1, MailboxAssumption DEF Messages
    <3> QED BY <1>3, <1>4, <2>2, <3>1, <3>2
  <2> QED BY <2>1, <2>2
<1>7. Stamped'
  BY <1>4, <1>5 DEF Stamped
<1>8. Filed'
  BY <1>4 DEF PostInv, Filed
<1>9. ~Reading(call[s]) /\ ~Reading(call'[s])
  BY <1>2 DEF SendStart, Reading
<1>10. Consumed'
  BY <1>3, <1>4, <1>9 DEF PostInv, Consumed
<1>11. readers' = readers
  BY <1>3, <1>9 DEF readers, ReaderOf
<1> QED BY <1>4, <1>6, <1>7, <1>8, <1>10, <1>11 DEF PostInv

\* A delivery is a Put of Post.
LEMMA DeliverPuts ==
    ASSUME TypeOK, PostInv, NEW s \in Servers, Deliver(s)
    PROVE  PostInv' /\ P!Next
<1>1. PICK a \in call[s].todo :
         /\ inbox' = [inbox EXCEPT ![a] = @ \cup {call[s].msg}]
         /\ delivered' = [delivered EXCEPT ![a] = @ \cup {call[s].msg}]
         /\ call' = [call EXCEPT
               ![s].todo = @ \ {a},
               ![s].box = a,
               ![s].pc = IF call[s].msg.nudge /\ a \in Nudgeable THEN "window" ELSE "deliver"]
  BY DEF Deliver
<1> DEFINE m == call[s].msg
<1>2. call[s] \in Calls /\ call[s].pc = "deliver" /\ a \in Agents /\ m \in Messages
  BY DEF Deliver, TypeOK, Calls, SendPcs
<1>3. m \notin delivered[a] /\ m.from = s /\ m.at <= clock
  BY DEF PostInv, Unsent
<1>4. /\ call'[s].todo = call[s].todo \ {a} /\ call'[s].msg = m
      /\ call'[s].pc \in {"window", "deliver"}
  BY <1>1, <1>2 DEF TypeOK, Calls
<1>5. \A o \in Servers \ {s} : call'[o] = call[o]
  BY <1>1 DEF TypeOK
<1>6. clock' = clock /\ UNCHANGED <<handed, lost>>
  BY DEF Deliver
<1>7. /\ \A b \in Agents : b # a => inbox'[b] = inbox[b] /\ delivered'[b] = delivered[b]
      /\ inbox'[a] = inbox[a] \cup {m} /\ delivered'[a] = delivered[a] \cup {m}
  BY <1>1, <1>2 DEF TypeOK
<1>8. ~Reading(call[s]) /\ ~Reading(call'[s])
  BY <1>2, <1>4 DEF Reading
<1>9. Unsent'
  <2> SUFFICES ASSUME NEW o \in Servers, NEW b \in call'[o].todo
               PROVE  /\ call'[o].pc \in SendPcs
                      /\ call'[o].msg.from = o
                      /\ call'[o].msg.at <= clock'
                      /\ call'[o].msg \notin delivered'[b]
    BY DEF Unsent
  <2>1. b \in Agents /\ b \in call[o].todo /\ call'[o].msg = call[o].msg
    BY <1>2, <1>4, <1>5 DEF TypeOK, Calls
  <2>2. /\ call[o].msg.from = o /\ call[o].msg.at <= clock /\ call[o].msg \notin delivered[b]
        /\ call[o].pc \in SendPcs
    BY <2>1 DEF PostInv, Unsent
  <2>3. call'[o].pc \in SendPcs
    BY <1>4, <1>5, <2>2 DEF SendPcs
  <2>4. call[o].msg \notin delivered'[b]
    BY <1>3, <1>4, <1>7, <2>1, <2>2
  <2> QED BY <1>6, <2>1, <2>2, <2>3, <2>4
<1>10. Stamped'
  BY <1>3, <1>6, <1>7 DEF PostInv, Stamped
<1>11. Filed'
  BY <1>7, <1>2 DEF PostInv, Filed
<1>12. Consumed'
  <2> SUFFICES ASSUME NEW o \in Servers, Reading(call'[o]), NEW n \in call'[o].got
               PROVE  /\ n \in delivered'[call'[o].box]
                      /\ n \in inbox'[call'[o].box] => call'[o].pc = "archive" /\ n = call'[o].msg
    BY DEF Consumed
  <2>1. o # s /\ call'[o] = call[o] /\ call[o].box \in Agents
    BY <1>5, <1>8 DEF TypeOK, Calls, Reading
  <2>2. /\ n \in delivered[call[o].box]
        /\ n \in inbox[call[o].box] => call[o].pc = "archive" /\ n = call[o].msg
    BY <2>1 DEF PostInv, Consumed
  <2> QED BY <1>2, <1>3, <1>7, <2>1, <2>2
<1>13. readers' = readers
  BY <1>5, <1>8 DEF readers, ReaderOf
<1>14. P!Put(a)
  BY <1>1, <1>2, <1>3, <1>6, <1>13 DEF P!Put
<1> QED BY <1>2, <1>9, <1>10, <1>11, <1>12, <1>14 DEF PostInv, P!Next

\* The beginning of a read is a Begin of Post.
LEMMA ReadStartBegins ==
    ASSUME TypeOK, PostInv, NEW s \in Servers, ReadStart(s)
    PROVE  PostInv' /\ P!Next
<1>1. PICK a \in Agents, topic \in Topics \cup {AnyTopic} :
         call' = [call EXCEPT ![s] =
            [Idle EXCEPT !.pc = "read", !.box = a, !.topic = topic, !.list = inbox[a]]]
  BY DEF ReadStart
<1>2. /\ call[s].pc = "idle" /\ call'[s].pc = "read" /\ call'[s].box = a
      /\ call'[s].got = {} /\ call'[s].todo = {}
  BY <1>1 DEF ReadStart, TypeOK, Idle
<1>3. \A o \in Servers \ {s} : call'[o] = call[o]
  BY <1>1 DEF TypeOK
<1>4. UNCHANGED <<clock, inbox, delivered, handed, lost>>
  BY DEF ReadStart, files, history
<1>5. Unsent' /\ Consumed'
  BY <1>2, <1>3, <1>4 DEF PostInv, Unsent, Consumed
<1>6. Stamped' /\ Filed'
  BY <1>4 DEF PostInv, Stamped, Filed
<1>7. readers[s] = P!NoReader /\ readers' = [readers EXCEPT ![s] = [box |-> a, got |-> {}]]
  BY <1>2, <1>3 DEF readers, ReaderOf, Reading, Nobody, P!NoReader
<1>8. P!Begin(s, a)
  BY <1>4, <1>7 DEF P!Begin
<1> QED BY <1>5, <1>6, <1>8 DEF PostInv, P!Next

\* A file that is read and kept is a Take of Post, one that is skipped a
\* stutter.
LEMMA ReadFileTakes ==
    ASSUME TypeOK, PostInv, NEW s \in Servers, ReadFile(s)
    PROVE  PostInv' /\ (P!Next \/ UNCHANGED <<inbox, readers, delivered, handed, lost>>)
<1>1. call[s] \in Calls /\ call[s].pc = "read" /\ call[s].box \in Agents
  BY DEF ReadFile, TypeOK, Calls
<1>2. UNCHANGED <<clock, inbox, delivered, handed, lost>>
  BY DEF ReadFile, files, history
<1>3. \A o \in Servers \ {s} : call'[o] = call[o]
  BY DEF ReadFile, TypeOK
<1>4. PICK m \in Oldest(call[s].list) :
         \/ /\ m \in inbox[call[s].box] /\ Matches(call[s], m)
            /\ call' = [call EXCEPT ![s].pc = "archive", ![s].msg = m, ![s].got = @ \cup {m}]
         \/ /\ ~(m \in inbox[call[s].box] /\ Matches(call[s], m))
            /\ call' = [call EXCEPT ![s].list = @ \ {m}]
  BY DEF ReadFile
<1>5. Stamped' /\ Filed'
  BY <1>2 DEF PostInv, Stamped, Filed
<1>6. CASE /\ m \in inbox[call[s].box]
           /\ call' = [call EXCEPT ![s].pc = "archive", ![s].msg = m, ![s].got = @ \cup {m}]
  <2>1. /\ call'[s].pc = "archive" /\ call'[s].msg = m /\ call'[s].got = call[s].got \cup {m}
        /\ call'[s].box = call[s].box /\ call'[s].todo = call[s].todo
    BY <1>1, <1>6 DEF TypeOK, Calls
  <2>2. call[s].todo = {}
    BY <1>1 DEF PostInv, Unsent, SendPcs
  <2>3. Unsent'
    BY <1>2, <1>3, <2>1, <2>2 DEF PostInv, Unsent
  <2>4. m \in delivered[call[s].box]
    BY <1>1, <1>6 DEF PostInv, Filed
  <2>5. Consumed'
    BY <1>1, <1>2, <1>3, <2>1, <2>4 DEF PostInv, Consumed, Reading
  <2>6. /\ readers[s].box = call[s].box /\ readers[s].got = call[s].got
        /\ readers' = [readers EXCEPT ![s] = [box |-> call[s].box, got |-> call[s].got \cup {m}]]
    BY <1>1, <1>3, <2>1 DEF readers, ReaderOf, Reading
  <2>7. P!Take(s)
    BY <1>1, <1>2, <1>6, <2>6 DEF P!Take
  <2> QED BY <1>5, <2>3, <2>5, <2>7 DEF PostInv, P!Next
<1>7. CASE call' = [call EXCEPT ![s].list = @ \ {m}]
  <2>1. \A o \in Servers : /\ call'[o].pc = call[o].pc /\ call'[o].msg = call[o].msg
                           /\ call'[o].got = call[o].got /\ call'[o].box = call[o].box
                           /\ call'[o].todo = call[o].todo
    BY <1>3, <1>7 DEF TypeOK, Calls
  <2>2. Unsent' /\ Consumed'
    BY <1>2, <2>1 DEF PostInv, Unsent, Consumed, Reading
  <2>3. readers' = readers
    BY <2>1 DEF readers, ReaderOf, Reading
  <2> QED BY <1>2, <1>5, <2>2, <2>3 DEF PostInv
<1> QED BY <1>4, <1>6, <1>7

\* The rename into archive/ is a Remove of Post, or a stutter when another
\* reader was faster; either way the file is gone from the inbox.
LEMMA ArchiveFileRemoves ==
    ASSUME TypeOK, PostInv, NEW s \in Servers, ArchiveFile(s)
    PROVE  PostInv' /\ (P!Next \/ UNCHANGED <<inbox, readers, delivered, handed, lost>>)
<1> DEFINE m == call[s].msg
           a == call[s].box
<1>1. call[s] \in Calls /\ call[s].pc = "archive" /\ a \in Agents /\ m \in call[s].got
  BY DEF ArchiveFile, TypeOK, Calls
<1>2. /\ call' = [call EXCEPT ![s].pc = "read", ![s].list = @ \ {m}]
      /\ UNCHANGED <<clock, delivered, handed, lost>>
  BY DEF ArchiveFile, history
<1>3. \A o \in Servers : /\ call'[o].msg = call[o].msg /\ call'[o].got = call[o].got
                         /\ call'[o].box = call[o].box /\ call'[o].todo = call[o].todo
  BY <1>1, <1>2 DEF TypeOK, Calls
<1>4. call'[s].pc = "read" /\ \A o \in Servers \ {s} : call'[o] = call[o]
  BY <1>1, <1>2 DEF TypeOK, Calls
<1>5. /\ \A b \in Agents : inbox'[b] \subseteq inbox[b]
      /\ m \notin inbox'[a]
      /\ inbox' = [inbox EXCEPT ![a] = @ \ {m}] \/ inbox' = inbox
  BY <1>1 DEF ArchiveFile, files, TypeOK
<1>6. call[s].todo = {}
  BY <1>1 DEF PostInv, Unsent, SendPcs
<1>7. Unsent'
  <2> SUFFICES ASSUME NEW o \in Servers, NEW b \in call'[o].todo
               PROVE  /\ call'[o].pc \in SendPcs /\ call'[o].msg.from = o
                      /\ call'[o].msg.at <= clock' /\ call'[o].msg \notin delivered'[b]
    BY DEF Unsent
  <2>1. o # s /\ call'[o] = call[o]
    BY <1>3, <1>4, <1>6
  <2> QED BY <1>2, <2>1 DEF PostInv, Unsent
<1>8. Stamped' /\ Filed'
  BY <1>2, <1>5 DEF PostInv, Stamped, Filed
<1>9. Consumed'
  <2> SUFFICES ASSUME NEW o \in Servers, Reading(call'[o]), NEW n \in call'[o].got
               PROVE  /\ n \in delivered'[call'[o].box]
                      /\ n \in inbox'[call'[o].box] => call'[o].pc = "archive" /\ n = call'[o].msg
    BY DEF Consumed
  <2>1. Reading(call[o]) /\ call[o].box \in Agents
    BY <1>1, <1>4 DEF Reading, TypeOK, Calls
  <2>2. /\ n \in delivered[call[o].box]
        /\ n \in inbox[call[o].box] => call[o].pc = "archive" /\ n = call[o].msg
    BY <1>3, <2>1 DEF PostInv, Consumed
  <2>3. n \in delivered'[call'[o].box]
    BY <1>2, <1>3, <2>2
  <2>4. CASE o = s
    BY <1>1, <1>3, <1>5, <2>1, <2>2, <2>3, <2>4
  <2>5. CASE o # s
    BY <1>4, <1>5, <2>1, <2>2, <2>3, <2>5
  <2> QED BY <2>4, <2>5
<1>10. readers' = readers /\ readers[s] = [box |-> a, got |-> call[s].got]
  BY <1>1, <1>3, <1>4 DEF readers, ReaderOf, Reading
<1>11. CASE inbox' = [inbox EXCEPT ![a] = @ \ {m}]
  <2>1. m \in readers[s].got /\ readers[s].box = a
    BY <1>1, <1>10
  <2>2. P!Remove(s)
    BY <1>1, <1>2, <1>10, <1>11, <2>1 DEF P!Remove
  <2> QED BY <1>7, <1>8, <1>9, <2>2 DEF PostInv, P!Next
<1>12. CASE inbox' = inbox
  BY <1>2, <1>7, <1>8, <1>9, <1>10, <1>12 DEF PostInv
<1> QED BY <1>5, <1>11, <1>12

\* The return of get_messages is an Answer of Post: with no file left on its
\* list a reader has archived all it took.  Its death is a Die; that of a
\* sender a stutter.
LEMMA ReadEnds ==
    ASSUME TypeOK, PostInv, NEW s \in Servers, ReadReturn(s) \/ CrashServer(s)
    PROVE  PostInv' /\ (P!Next \/ UNCHANGED <<inbox, readers, delivered, handed, lost>>)
<1>1. call' = [call EXCEPT ![s] = Idle] /\ UNCHANGED <<clock, inbox, delivered>>
  BY DEF ReadReturn, CrashServer, files
<1>2. call'[s] = Idle /\ \A o \in Servers \ {s} : call'[o] = call[o]
  BY <1>1 DEF TypeOK
<1>3. Unsent' /\ Stamped' /\ Filed'
  BY <1>1, <1>2 DEF PostInv, Unsent, Stamped, Filed, Idle
<1>4. ~Reading(call'[s])
  BY <1>2 DEF Reading, Idle
<1>5. Consumed'
  BY <1>1, <1>2, <1>4 DEF PostInv, Consumed
<1>6. CASE Reading(call[s])
  <2>1. /\ call[s].box \in Agents
        /\ readers[s].box = call[s].box /\ readers[s].got = call[s].got
    BY <1>6 DEF TypeOK, Calls, Reading, readers, ReaderOf
  <2>2. readers' = [readers EXCEPT ![s] = P!NoReader]
    BY <1>2, <1>4 DEF readers, ReaderOf, Nobody, P!NoReader
  <2>3. CASE ReadReturn(s)
    <3>1. call[s].got \cap inbox[call[s].box] = {}
      BY <1>6, <2>3 DEF ReadReturn, PostInv, Consumed
    <3>2. P!Answer(s)
      BY <1>1, <2>1, <2>2, <2>3, <3>1 DEF ReadReturn, P!Answer
    <3> QED BY <1>3, <1>5, <3>2 DEF PostInv, P!Next
  <2>4. CASE CrashServer(s)
    <3>1. lost' = [lost EXCEPT ![call[s].box] = @ \cup (call[s].got \ inbox[call[s].box])]
      BY <2>1, <2>4 DEF CrashServer, TypeOK
    <3>2. P!Die(s)
      BY <1>1, <2>1, <2>2, <2>4, <3>1 DEF CrashServer, P!Die
    <3> QED BY <1>3, <1>5, <3>2 DEF PostInv, P!Next
  <2> QED BY <2>3, <2>4
<1>7. CASE ~Reading(call[s])
  <2>1. CrashServer(s) /\ call[s].got = {}
    BY <1>7 DEF ReadReturn, Reading, TypeOK, Calls, SendPcs
  <2>2. lost' = lost /\ handed' = handed
    BY <2>1 DEF CrashServer, TypeOK
  <2>3. readers' = readers
    BY <1>2, <1>4, <1>7 DEF readers, ReaderOf
  <2> QED BY <1>1, <1>3, <1>5, <2>2, <2>3 DEF PostInv
<1> QED BY <1>6, <1>7

-----------------------------------------------------------------------------
(***************************************************************************)
(* The refinement                                                          *)
(***************************************************************************)

\* Nothing is delivered, read or being sent at the start.
LEMMA PostInit == Init => PostInv /\ P!Init
<1> SUFFICES ASSUME Init PROVE PostInv /\ P!Init
  OBVIOUS
<1>1. \A s \in Servers : call[s] = Idle
  BY DEF Init
<1>2. PostInv
  BY <1>1 DEF Init, PostInv, Unsent, Stamped, Filed, Consumed, Idle, Reading
<1>3. readers = [s \in Servers |-> P!NoReader]
  BY <1>1 DEF readers, ReaderOf, Reading, Nobody, Idle, P!NoReader
<1> QED BY <1>2, <1>3 DEF Init, P!Init

\* Every step of the mailboxes is a step of Post or leaves Post as it is.
LEMMA PostStep ==
    ASSUME TypeOK, PostInv, [Next]_vars
    PROVE  PostInv' /\ (P!Next \/ UNCHANGED <<inbox, readers, delivered, handed, lost>>)
<1>1. ASSUME NEW s \in Servers, Server(s)
      PROVE  PostInv' /\ (P!Next \/ UNCHANGED <<inbox, readers, delivered, handed, lost>>)
  <2>1. CASE SendStart(s)
    BY <2>1, SendStartKeeps
  <2>2. CASE Deliver(s)
    BY <2>2, DeliverPuts
  <2>3. CASE QuietStep(s)
    BY <2>3, QuietKeeps
  <2>4. CASE ReadStart(s)
    BY <2>4, ReadStartBegins
  <2>5. CASE ReadFile(s)
    BY <2>5, ReadFileTakes
  <2>6. CASE ArchiveFile(s)
    BY <2>6, ArchiveFileRemoves
  <2>7. CASE ReadReturn(s) \/ CrashServer(s)
    BY <2>7, ReadEnds
  <2> QED
    BY <1>1, <2>1, <2>2, <2>3, <2>4, <2>5, <2>6, <2>7
    DEF Server, SendStep, ReadStep, QuietStep
<1>2. CASE (\E a \in Nudgeable : Runtime(a)) \/ WindowExpires \/ UNCHANGED vars
  BY <1>2, OthersKeep
<1> QED BY <1>1, <1>2 DEF Next

\* The inductive invariant holds of every behaviour of the mailboxes.
LEMMA PostInvAlways == Spec => []PostInv
<1>1. Init => PostInv
  BY PostInit
<1>2. TypeOK /\ PostInv /\ [Next]_vars => PostInv'
  BY PostStep
<1> QED BY <1>1, <1>2, MailboxTypeCorrect, PTL DEF Spec

\* ImplementsPost: whatever senders, readers, filters, crashes and failed
\* deliveries interleave, the mailboxes behave as Post allows.
THEOREM MailboxImplementsPost == Spec => ImplementsPost
<1>1. Init => P!Init
  BY PostInit
<1>2. TypeOK /\ PostInv /\ [Next]_vars => [P!Next]_(P!vars)
  BY PostStep DEF P!vars
<1> QED BY <1>1, <1>2, MailboxTypeCorrect, PostInvAlways, PTL DEF Spec, ImplementsPost, P!Spec

\* A returned message was delivered and has left the inbox.
Gone == \A a \in Agents : handed[a] \subseteq delivered[a] \ inbox[a]

\* It stays gone: a Put brings only what was never delivered, an Answer
\* returns only what was delivered and is no longer unread.
LEMMA GoneStays ==
    ASSUME TypeOK, PostInv, Gone,
           P!Next \/ UNCHANGED <<inbox, readers, delivered, handed, lost>>
    PROVE  Gone'
<1>1. ASSUME NEW a \in Agents, P!Put(a) PROVE Gone'
  BY <1>1 DEF P!Put, Gone, TypeOK
<1>2. ASSUME NEW s \in Servers, NEW a \in Agents, P!Begin(s, a) PROVE Gone'
  BY <1>2 DEF P!Begin, Gone
<1>3. ASSUME NEW s \in Servers, P!Take(s) \/ P!Die(s) PROVE Gone'
  BY <1>3 DEF P!Take, P!Die, Gone
<1>4. ASSUME NEW s \in Servers, P!Remove(s) PROVE Gone'
  BY <1>4 DEF P!Remove, Gone, TypeOK
<1>5. ASSUME NEW s \in Servers, P!Answer(s) PROVE Gone'
  <2> DEFINE b == readers[s].box
             got == readers[s].got
  <2>1. /\ b \in Agents /\ got \cap inbox[b] = {} /\ UNCHANGED <<inbox, delivered>>
        /\ handed' = [handed EXCEPT ![b] = @ \cup got]
    BY <1>5 DEF P!Answer
  <2>2. Reading(call[s]) /\ b = call[s].box /\ got = call[s].got
    BY <2>1, MailboxAssumption DEF readers, ReaderOf, Nobody
  <2>3. got \subseteq delivered[b]
    BY <2>2 DEF PostInv, Consumed
  <2> HIDE DEF b, got
  <2> QED BY <2>1, <2>3 DEF Gone, TypeOK
<1>6. CASE UNCHANGED <<inbox, readers, delivered, handed, lost>>
  BY <1>6 DEF Gone
<1> QED BY <1>1, <1>2, <1>3, <1>4, <1>5, <1>6 DEF P!Next

\* ReturnedIsGone: a message get_messages returned from an inbox is not in
\* that inbox again, so only calls that overlap return it twice.
THEOREM ReturnedStaysGone == Spec => []ReturnedIsGone
<1>1. Init => Gone
  BY DEF Init, Gone
<1>2. TypeOK /\ PostInv /\ Gone /\ [Next]_vars => Gone'
  BY PostStep, GoneStays
<1>3. Gone => ReturnedIsGone
  BY DEF Gone, ReturnedIsGone, P!ReturnedIsGone
<1> QED BY <1>1, <1>2, <1>3, MailboxTypeCorrect, PostInvAlways, PTL DEF Spec

-----------------------------------------------------------------------------
(***************************************************************************)
(* The inductive invariant                                                 *)
(***************************************************************************)

\* The archive holds what was delivered and is no longer unread, and a
\* server's messages differ in their timestamps.
Dated ==
    \A a \in Agents :
        /\ archive[a] \subseteq delivered[a] \ inbox[a]
        /\ \A m, n \in delivered[a] : m.from = n.from /\ m.at = n.at => m = n

\* A recipient still to come has had only older mail of this server.
Newest ==
    \A s \in Servers : \A a \in call[s].todo : \A m \in delivered[a] :
        m.from = s => m.at < call[s].msg.at

\* What a reader has listed and will return comes with every unread message
\* of the same sender that is older and passes the filter.
ListedInOrder(c) ==
    /\ c.list \subseteq delivered[c.box]
    /\ \A m \in c.list : \A n \in inbox[c.box] :
          n.from = m.from /\ n.at < m.at /\ Matches(c, n) => n \in c.list
    /\ c.pc = "archive" => Matches(c, c.msg) /\ c.msg \in Oldest(c.list)

Listing == \A s \in Servers : Reading(call[s]) => ListedInOrder(call[s])

OrderInv == Dated /\ Newest /\ Listing /\ FifoPerSender

\* Timestamps are numbers.
LEMMA AtIsNat == ASSUME NEW m \in Messages PROVE m.at \in Nat
BY MailboxAssumption DEF Messages

-----------------------------------------------------------------------------
(***************************************************************************)
(* One lemma per kind of step                                              *)
(***************************************************************************)

\* Steps that leave all mail alone and move one call between states that do
\* not read, its recipients kept with their message or dropped.
LEMMA OrderQuiet ==
    ASSUME TypeOK, OrderInv, NEW s \in Servers, QuietStep(s) \/ CrashServer(s)
    PROVE  OrderInv'
<1>1. UNCHANGED <<inbox, archive, delivered>>
  BY DEF QuietStep, DeliverFails, NudgeWindow, NudgeUnread, NudgeType, NudgeRecord,
         SendReturn, NudgeDirect, CrashServer, files, history
<1>2. \A o \in Servers \ {s} : call'[o] = call[o]
  BY DEF QuietStep, DeliverFails, NudgeWindow, NudgeUnread, NudgeType, NudgeRecord,
         SendReturn, NudgeDirect, CrashServer, TypeOK
<1>3. \/ call'[s] = Idle
      \/ call'[s] = call[s] /\ ~Reading(call[s])
      \/ \E pc \in SendPcs : call'[s] = [call[s] EXCEPT !.pc = pc]
  BY DEF QuietStep, DeliverFails, NudgeWindow, NudgeUnread, NudgeType, NudgeRecord,
         SendReturn, NudgeDirect, CrashServer, TypeOK, SendPcs, Reading
<1>4. /\ ~Reading(call'[s])
      /\ call'[s].todo = {} \/ (call'[s].todo = call[s].todo /\ call'[s].msg = call[s].msg)
  <2>1. call[s] \in Calls
    BY DEF TypeOK
  <2>2. ASSUME NEW pc \in SendPcs, call'[s] = [call[s] EXCEPT !.pc = pc]
        PROVE  call'[s].todo = call[s].todo /\ call'[s].msg = call[s].msg /\ call'[s].pc = pc
    BY <2>1, <2>2 DEF Calls
  <2>3. CASE call'[s] = Idle
    BY <2>3 DEF Idle, Reading
  <2>4. CASE call'[s] = call[s] /\ ~Reading(call[s])
    BY <2>4
  <2>5. CASE \E pc \in SendPcs : call'[s] = [call[s] EXCEPT !.pc = pc]
    BY <2>2, <2>5 DEF Reading, SendPcs
  <2> QED BY <1>3, <2>3, <2>4, <2>5
<1>5. Dated' /\ FifoPerSender'
  BY <1>1 DEF OrderInv, Dated, FifoPerSender
<1>6. Newest'
  BY <1>1, <1>2, <1>4 DEF OrderInv, Newest
<1>7. Listing'
  BY <1>1, <1>2, <1>4 DEF OrderInv, Listing, ListedInOrder, Matches, Oldest
<1> QED BY <1>5, <1>6, <1>7 DEF OrderInv

\* The steps outside the servers.
LEMMA OrderOthers ==
    ASSUME OrderInv, (\E a \in Nudgeable : Runtime(a)) \/ WindowExpires \/ UNCHANGED vars
    PROVE  OrderInv'
<1>1. UNCHANGED <<inbox, archive, call, delivered>>
  BY DEF Runtime, UserPrompt, StopHook, GoIdle, TakeKeys, WindowExpires, vars, files, history
<1> QED BY <1>1 DEF OrderInv, Dated, Newest, Listing, ListedInOrder, Matches, Oldest, FifoPerSender

\* A send starts with a timestamp later than all that was delivered.
LEMMA OrderSendStart ==
    ASSUME TypeOK, PostInv, OrderInv, NEW s \in Servers, SendStart(s)
    PROVE  OrderInv'
<1>1. PICK to \in SUBSET Agents \ {{}}, topic \in Topics, nudge \in BOOLEAN :
         call' = [call EXCEPT ![s] =
            [Idle EXCEPT !.pc = "deliver",
                         !.msg = [from |-> s, at |-> clock + 1,
                                  topic |-> topic, nudge |-> nudge],
                         !.todo = to]]
  BY DEF SendStart
<1>2. /\ ~Reading(call'[s])
      /\ call'[s].todo \subseteq Agents
      /\ call'[s].msg.at = clock + 1
  BY <1>1 DEF TypeOK, Idle, Reading
<1>3. \A o \in Servers \ {s} : call'[o] = call[o]
  BY <1>1 DEF TypeOK
<1>4. UNCHANGED <<inbox, archive, delivered>>
  BY DEF SendStart, files, history
<1>5. ASSUME NEW a \in Agents, NEW m \in delivered[a] PROVE m.at < clock + 1
  <2>1. m.at \in Nat /\ m.at <= clock
    BY AtIsNat DEF TypeOK, PostInv, Stamped
  <2> QED BY <2>1, MailboxAssumption DEF TypeOK
<1>6. Dated' /\ FifoPerSender'
  BY <1>4 DEF OrderInv, Dated, FifoPerSender
<1>7. Newest'
  BY <1>2, <1>3, <1>4, <1>5 DEF OrderInv, Newest
<1>8. Listing'
  BY <1>2, <1>3, <1>4 DEF OrderInv, Listing, ListedInOrder, Matches, Oldest
<1> QED BY <1>6, <1>7, <1>8 DEF OrderInv

\* A delivery brings the newest message of its sender, so it comes after all
\* that sender's mail in the archive and in every listing.
LEMMA OrderDeliver ==
    ASSUME TypeOK, PostInv, OrderInv, NEW s \in Servers, Deliver(s)
    PROVE  OrderInv'
<1>1. PICK a \in call[s].todo :
         /\ inbox' = [inbox EXCEPT ![a] = @ \cup {call[s].msg}]
         /\ delivered' = [delivered EXCEPT ![a] = @ \cup {call[s].msg}]
         /\ call' = [call EXCEPT
               ![s].todo = @ \ {a},
               ![s].box = a,
               ![s].pc = IF call[s].msg.nudge /\ a \in Nudgeable THEN "window" ELSE "deliver"]
  BY DEF Deliver
<1> DEFINE k == call[s].msg
<1>2. call[s] \in Calls /\ call[s].pc = "deliver" /\ a \in Agents /\ k \in Messages
  BY DEF Deliver, TypeOK, Calls, SendPcs
<1>3. k \notin delivered[a] /\ k.from = s
  BY DEF PostInv, Unsent
<1>4. \A m \in delivered[a] : m.from = s => m.at < k.at
  BY DEF OrderInv, Newest
<1>5. \A m \in delivered[a] : m.at \in Nat /\ k.at \in Nat
  BY <1>2, AtIsNat DEF TypeOK
<1>6. call'[s].todo = call[s].todo \ {a} /\ call'[s].msg = k /\ ~Reading(call'[s])
  BY <1>1, <1>2 DEF TypeOK, Calls, Reading
<1>7. \A o \in Servers \ {s} : call'[o] = call[o]
  BY <1>1 DEF TypeOK
<1>8. archive' = archive
  BY DEF Deliver
<1>9. /\ \A b \in Agents : b # a => inbox'[b] = inbox[b] /\ delivered'[b] = delivered[b]
      /\ inbox'[a] = inbox[a] \cup {k} /\ delivered'[a] = delivered[a] \cup {k}
  BY <1>1, <1>2 DEF TypeOK
<1> HIDE DEF k
<1>10. Dated'
  <2>1. \A b \in Agents : archive'[b] \subseteq delivered'[b] \ inbox'[b]
    BY <1>3, <1>8, <1>9 DEF OrderInv, Dated
  <2>2. \A m \in delivered[a] : m.from = k.from => m.at # k.at
    BY <1>3, <1>4, <1>5
  <2>3. \A m, n \in delivered'[a] : m.from = n.from /\ m.at = n.at => m = n
    BY <1>2, <1>9, <2>2 DEF OrderInv, Dated
  <2>4. \A b \in Agents \ {a} : \A m, n \in delivered'[b] :
           m.from = n.from /\ m.at = n.at => m = n
    BY <1>9 DEF OrderInv, Dated
  <2> QED BY <2>1, <2>3, <2>4 DEF Dated
<1>11. Newest'
  <2> SUFFICES ASSUME NEW o \in Servers, NEW b \in call'[o].todo,
                      NEW m \in delivered'[b], m.from = o
               PROVE  m.at < call'[o].msg.at
    BY DEF Newest
  <2>1. b \in Agents /\ b \in call[o].todo /\ call'[o].msg = call[o].msg
    BY <1>6, <1>7 DEF TypeOK, Calls, k
  <2>2. m \in delivered[b]
    BY <1>3, <1>6, <1>9, <2>1
  <2> QED BY <2>1, <2>2 DEF OrderInv, Newest
<1>12. Listing'
  <2> SUFFICES ASSUME NEW o \in Servers, Reading(call'[o]) PROVE ListedInOrder(call[o])'
    BY DEF Listing
  <2>1. call'[o] = call[o] /\ Reading(call[o]) /\ call[o].box \in Agents /\ call[o].list \subseteq Messages
    BY <1>6, <1>7 DEF TypeOK, Calls, Reading
  <2>2. ListedInOrder(call[o])
    BY <2>1 DEF OrderInv, Listing
  <2>3. ASSUME NEW m \in call[o].list, NEW n \in inbox'[call[o].box],
               n.from = m.from, n.at < m.at, Matches(call[o], n)
        PROVE  n \in call[o].list
    <3>1. CASE n \in inbox[call[o].box]
      BY <2>2, <2>3, <3>1 DEF ListedInOrder
    <3>2. CASE call[o].box = a /\ n = k
      <4>1. m \in delivered[a] /\ m.from = s
        BY <1>3, <2>2, <2>3, <3>2 DEF ListedInOrder
      <4>2. m.at < k.at /\ k.at < m.at
        BY <1>4, <2>3, <3>2, <4>1
      <4> QED BY <1>5, <4>1, <4>2
    <3> QED BY <1>2, <1>9, <2>1, <3>1, <3>2
  <2>4. call[o].list \subseteq delivered'[call[o].box]
    BY <1>9, <2>1, <2>2 DEF ListedInOrder
  <2> QED BY <2>1, <2>2, <2>3, <2>4 DEF ListedInOrder, Matches, Oldest
<1>13. FifoPerSender'
  <2> SUFFICES ASSUME NEW b \in Agents, NEW old \in inbox'[b], NEW new \in archive'[b],
                      old.from = new.from, old.topic = new.topic
               PROVE  old.at > new.at
    BY DEF FifoPerSender
  <2>1. CASE old \in inbox[b]
    BY <1>8, <2>1 DEF OrderInv, FifoPerSender
  <2>2. CASE b = a /\ old = k
    <3>1. new \in delivered[a]
      BY <1>8, <2>2 DEF OrderInv, Dated
    <3> QED BY <1>3, <1>4, <1>5, <2>2, <3>1
  <2> QED BY <1>9, <1>2, <2>1, <2>2
<1> QED BY <1>10, <1>11, <1>12, <1>13 DEF OrderInv

\* A reader lists all that is unread.
LEMMA OrderReadStart ==
    ASSUME TypeOK, PostInv, OrderInv, NEW s \in Servers, ReadStart(s)
    PROVE  OrderInv'
<1>1. PICK a \in Agents, topic \in Topics \cup {AnyTopic} :
         call' = [call EXCEPT ![s] =
            [Idle EXCEPT !.pc = "read", !.box = a, !.topic = topic, !.list = inbox[a]]]
  BY DEF ReadStart
<1>2. /\ call'[s].pc = "read" /\ call'[s].box = a /\ call'[s].list = inbox[a]
      /\ call'[s].todo = {}
  BY <1>1 DEF TypeOK, Idle
<1>3. \A o \in Servers \ {s} : call'[o] = call[o]
  BY <1>1 DEF TypeOK
<1>4. UNCHANGED <<inbox, archive, delivered>>
  BY DEF ReadStart, files, history
<1>5. Dated' /\ FifoPerSender'
  BY <1>4 DEF OrderInv, Dated, FifoPerSender
<1>6. Newest'
  BY <1>2, <1>3, <1>4 DEF OrderInv, Newest
<1>7. ListedInOrder(call[s])'
  BY <1>2, <1>4 DEF PostInv, Filed, ListedInOrder
<1>8. Listing'
  BY <1>3, <1>4, <1>7 DEF OrderInv, Listing, ListedInOrder, Matches, Oldest
<1> QED BY <1>5, <1>6, <1>8 DEF OrderInv

\* The oldest file of the listing is read and will be archived, or skipped
\* because it is gone or of another topic.
LEMMA OrderReadFile ==
    ASSUME TypeOK, PostInv, OrderInv, NEW s \in Servers, ReadFile(s)
    PROVE  OrderInv'
<1>1. call[s] \in Calls /\ call[s].pc = "read" /\ Reading(call[s])
  BY DEF ReadFile, TypeOK, Reading
<1>2. UNCHANGED <<inbox, archive, delivered>>
  BY DEF ReadFile, files, history
<1>3. \A o \in Servers \ {s} : call'[o] = call[o]
  BY DEF ReadFile, TypeOK
<1>4. PICK m \in Oldest(call[s].list) :
         \/ /\ m \in inbox[call[s].box] /\ Matches(call[s], m)
            /\ call' = [call EXCEPT ![s].pc = "archive", ![s].msg = m, ![s].got = @ \cup {m}]
         \/ /\ ~(m \in inbox[call[s].box] /\ Matches(call[s], m))
            /\ call' = [call EXCEPT ![s].list = @ \ {m}]
  BY DEF ReadFile
<1>5. call'[s].todo = {}
  <2>1. call[s].todo = {}
    BY <1>1 DEF PostInv, Unsent, SendPcs
  <2> QED BY <1>1, <1>4, <2>1 DEF TypeOK, Calls
<1>6. Dated' /\ FifoPerSender'
  BY <1>2 DEF OrderInv, Dated, FifoPerSender
<1>7. Newest'
  BY <1>2, <1>3, <1>5 DEF OrderInv, Newest
<1>8. ListedInOrder(call[s])
  BY <1>1 DEF OrderInv, Listing
<1>9. ListedInOrder(call[s])'
  <2>1. CASE /\ Matches(call[s], m)
             /\ call' = [call EXCEPT ![s].pc = "archive", ![s].msg = m, ![s].got = @ \cup {m}]
    <3>1. /\ call'[s].pc = "archive" /\ call'[s].msg = m /\ call'[s].list = call[s].list
          /\ call'[s].box = call[s].box /\ call'[s].topic = call[s].topic
      BY <1>1, <2>1 DEF TypeOK, Calls
    <3> QED BY <1>2, <1>4, <1>8, <2>1, <3>1 DEF ListedInOrder, Matches
  <2>2. CASE /\ ~(m \in inbox[call[s].box] /\ Matches(call[s], m))
             /\ call' = [call EXCEPT ![s].list = @ \ {m}]
    <3>1. /\ call'[s].pc = "read" /\ call'[s].list = call[s].list \ {m}
          /\ call'[s].box = call[s].box /\ call'[s].topic = call[s].topic
      BY <1>1, <2>2 DEF TypeOK, Calls
    <3> QED BY <1>2, <1>8, <2>2, <3>1 DEF ListedInOrder, Matches
  <2> QED BY <1>4, <2>1, <2>2
<1>10. Listing'
  BY <1>2, <1>3, <1>9 DEF OrderInv, Listing, ListedInOrder, Matches, Oldest
<1> QED BY <1>6, <1>7, <1>10 DEF OrderInv

\* What goes to the archive is older than all unread mail of its sender and
\* topic: such mail passes the same filter, so it is listed, and the file is
\* the oldest of the list.
LEMMA OrderArchiveFile ==
    ASSUME TypeOK, PostInv, OrderInv, NEW s \in Servers, ArchiveFile(s)
    PROVE  OrderInv'
<1>0. PICK k \in Messages, a \in Agents : k = call[s].msg /\ a = call[s].box
  BY DEF ArchiveFile, TypeOK, Calls
<1>1. call[s] \in Calls /\ call[s].pc = "archive" /\ Reading(call[s])
  BY DEF ArchiveFile, TypeOK, Reading
<1>2. call' = [call EXCEPT ![s].pc = "read", ![s].list = @ \ {k}] /\ delivered' = delivered
  BY <1>0 DEF ArchiveFile, history
<1>3. /\ call'[s].pc = "read" /\ call'[s].list = call[s].list \ {k} /\ call'[s].box = a
      /\ call'[s].topic = call[s].topic /\ call'[s].todo = call[s].todo
  BY <1>0, <1>1, <1>2 DEF TypeOK, Calls
<1>4. \A o \in Servers \ {s} : call'[o] = call[o]
  BY <1>2 DEF TypeOK
<1>5. ListedInOrder(call[s])
  BY <1>1 DEF OrderInv, Listing
<1>6. \/ /\ k \in inbox[a]
         /\ inbox' = [inbox EXCEPT ![a] = @ \ {k}]
         /\ archive' = [archive EXCEPT ![a] = @ \cup {k}]
      \/ k \notin inbox[a] /\ inbox' = inbox /\ archive' = archive
  BY <1>0 DEF ArchiveFile, files
<1>7. /\ \A b \in Agents : inbox'[b] \subseteq inbox[b]
      /\ \A b \in Agents \ {a} : archive'[b] = archive[b]
      /\ k \notin inbox'[a]
      /\ archive'[a] = archive[a] \/ (archive'[a] = archive[a] \cup {k} /\ k \in inbox[a])
  BY <1>1, <1>6 DEF TypeOK
<1>8. k \in delivered[a] /\ Matches(call[s], k) /\ k \in Oldest(call[s].list)
  BY <1>0, <1>1, <1>5 DEF ListedInOrder, Oldest
<1>9. Dated'
  BY <1>1, <1>2, <1>7, <1>8 DEF OrderInv, Dated
<1>10. Newest'
  <2>1. call'[s].todo = {}
    BY <1>1, <1>3 DEF PostInv, Unsent, SendPcs
  <2> QED BY <1>2, <1>4, <2>1 DEF OrderInv, Newest
<1>11. Listing'
  <2>1. ListedInOrder(call[s])'
    BY <1>0, <1>1, <1>2, <1>3, <1>5, <1>7 DEF ListedInOrder, Matches
  <2>2. ASSUME NEW o \in Servers \ {s}, Reading(call'[o]) PROVE ListedInOrder(call[o])'
    <3>1. call'[o] = call[o] /\ call[o].box \in Agents /\ ListedInOrder(call[o])
      BY <1>4, <2>2 DEF OrderInv, Listing, TypeOK, Calls, Reading
    <3> QED BY <1>2, <1>7, <3>1 DEF ListedInOrder, Matches, Oldest
  <2> QED BY <2>1, <2>2 DEF Listing
<1>12. FifoPerSender'
  <2> SUFFICES ASSUME NEW b \in Agents, NEW old \in inbox'[b], NEW new \in archive'[b],
                      old.from = new.from, old.topic = new.topic
               PROVE  old.at > new.at
    BY DEF FifoPerSender
  <2>1. CASE new \in archive[b]
    BY <1>7, <2>1 DEF OrderInv, FifoPerSender
  <2>2. CASE b = a /\ new = k
    <3>1. old \in inbox[a] /\ old # k /\ old \in delivered[a]
      BY <1>1, <1>7, <2>2 DEF PostInv, Filed
    <3>2. old.at \in Nat /\ k.at \in Nat
      BY <1>1, <1>8, <3>1, AtIsNat DEF TypeOK
    <3>3. old.at # k.at
      BY <1>1, <1>8, <2>2, <3>1 DEF OrderInv, Dated
    <3>4. ~(old.at < k.at)
      <4> SUFFICES ASSUME old.at < k.at PROVE FALSE
        OBVIOUS
      <4>1. Matches(call[s], old)
        BY <1>0, <1>8, <2>2 DEF Matches
      <4>2. k \in call[s].list
        BY <1>8 DEF Oldest
      <4>3. old \in call[s].list
        BY <1>0, <1>5, <2>2, <3>1, <4>1, <4>2 DEF ListedInOrder
      <4> QED BY <1>8, <3>2, <4>3 DEF Oldest
    <3> QED BY <2>2, <3>2, <3>3, <3>4
  <2> QED BY <1>7, <2>1, <2>2
<1> QED BY <1>9, <1>10, <1>11, <1>12 DEF OrderInv

\* The return drops archived mail only.
LEMMA OrderReadReturn ==
    ASSUME TypeOK, PostInv, OrderInv, NEW s \in Servers, ReadReturn(s)
    PROVE  OrderInv'
<1>1. /\ UNCHANGED <<inbox, delivered>>
      /\ \A b \in Agents : archive'[b] \subseteq archive[b]
      /\ call'[s] = Idle /\ \A o \in Servers \ {s} : call'[o] = call[o]
  BY DEF ReadReturn, TypeOK
<1>2. Dated' /\ FifoPerSender'
  BY <1>1 DEF OrderInv, Dated, FifoPerSender
<1>3. Newest'
  BY <1>1 DEF OrderInv, Newest, Idle
<1>4. ~Reading(call'[s])
  BY <1>1 DEF Reading, Idle
<1>5. Listing'
  BY <1>1, <1>4 DEF OrderInv, Listing, ListedInOrder, Matches, Oldest
<1> QED BY <1>2, <1>3, <1>5 DEF OrderInv

-----------------------------------------------------------------------------
(***************************************************************************)
(* The theorem                                                             *)
(***************************************************************************)

\* FifoPerSender: once a message has been archived none that the same server
\* sent earlier on the same topic is still unread, however many readers with
\* whatever filters interleave, crash or find files gone.
THEOREM FifoPerSenderAlways == Spec => []FifoPerSender
<1>1. Init => OrderInv
  BY DEF Init, OrderInv, Dated, Newest, Listing, Reading, FifoPerSender, Idle
<1>2. TypeOK /\ PostInv /\ OrderInv /\ [Next]_vars => OrderInv'
  <2> SUFFICES ASSUME TypeOK, PostInv, OrderInv, [Next]_vars PROVE OrderInv'
    OBVIOUS
  <2>1. ASSUME NEW s \in Servers, Server(s) PROVE OrderInv'
    BY <2>1, OrderQuiet, OrderSendStart, OrderDeliver, OrderReadStart, OrderReadFile,
       OrderArchiveFile, OrderReadReturn
    DEF Server, SendStep, ReadStep, QuietStep
  <2>2. CASE (\E a \in Nudgeable : Runtime(a)) \/ WindowExpires \/ UNCHANGED vars
    BY <2>2, OrderOthers
  <2> QED BY <2>1, <2>2 DEF Next
<1>3. OrderInv => FifoPerSender
  BY DEF OrderInv
<1> QED BY <1>1, <1>2, <1>3, MailboxTypeCorrect, PostInvAlways, PTL DEF Spec

=============================================================================
