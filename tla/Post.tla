-------------------------------- MODULE Post --------------------------------
(***************************************************************************)
(* What the mailboxes promise, without files, listings, filters or order:  *)
(* a message is put in an inbox once, any number of readers may take it    *)
(* while it is there, and an answer is given only for messages that have   *)
(* left the inbox.  So two calls can both return a message only when they  *)
(* overlap, and only the death of a reader can lose one.                   *)
(***************************************************************************)

CONSTANTS
    Agents,    \* owners of an inbox
    Servers,   \* readers
    Messages,
    NoAgent

VARIABLES
    unread,    \* what each inbox holds
    reader,    \* the inbox each server reads, and what it has taken
    delivered, \* messages ever put in each inbox
    returned,  \* messages in an answer for each inbox
    lost       \* messages that left each inbox with a reader that died

vars == <<unread, reader, delivered, returned, lost>>

NoReader == [box |-> NoAgent, got |-> {}]

Init ==
    /\ unread = [a \in Agents |-> {}]
    /\ reader = [s \in Servers |-> NoReader]
    /\ delivered = [a \in Agents |-> {}]
    /\ returned = [a \in Agents |-> {}]
    /\ lost = [a \in Agents |-> {}]

\* No message comes to one inbox twice.
Put(a) ==
    /\ \E m \in Messages \ delivered[a] :
          /\ unread' = [unread EXCEPT ![a] = @ \cup {m}]
          /\ delivered' = [delivered EXCEPT ![a] = @ \cup {m}]
    /\ UNCHANGED <<reader, returned, lost>>

Begin(s, a) ==
    /\ reader[s] = NoReader
    /\ reader' = [reader EXCEPT ![s] = [box |-> a, got |-> {}]]
    /\ UNCHANGED <<unread, delivered, returned, lost>>

\* Only what is unread at that moment can be taken.
Take(s) ==
    /\ reader[s].box \in Agents
    /\ \E m \in unread[reader[s].box] :
          reader' = [reader EXCEPT ![s] = [box |-> @.box, got |-> @.got \cup {m}]]
    /\ UNCHANGED <<unread, delivered, returned, lost>>

\* A reader removes nothing but what its answer will hold.
Remove(s) ==
    /\ reader[s].box \in Agents
    /\ \E m \in reader[s].got : unread' = [unread EXCEPT ![reader[s].box] = @ \ {m}]
    /\ UNCHANGED <<reader, delivered, returned, lost>>

\* The answer waits until all it holds is gone from the inbox.
Answer(s) ==
    LET a == reader[s].box
        got == reader[s].got
    IN  /\ a \in Agents
        /\ got \cap unread[a] = {}
        /\ returned' = [returned EXCEPT ![a] = @ \cup got]
        /\ reader' = [reader EXCEPT ![s] = NoReader]
        /\ UNCHANGED <<unread, delivered, lost>>

Die(s) ==
    LET a == reader[s].box
        got == reader[s].got
    IN  /\ a \in Agents
        /\ lost' = [lost EXCEPT ![a] = @ \cup (got \ unread[a])]
        /\ reader' = [reader EXCEPT ![s] = NoReader]
        /\ UNCHANGED <<unread, delivered, returned>>

Next ==
    \/ \E a \in Agents : Put(a)
    \/ \E s \in Servers :
          (\E a \in Agents : Begin(s, a)) \/ Take(s) \/ Remove(s) \/ Answer(s) \/ Die(s)

Spec == Init /\ [][Next]_vars

\* What get_messages has returned no later call can return: it is in no
\* inbox any more, and nothing puts it back.
ReturnedIsGone == \A a \in Agents : returned[a] \cap unread[a] = {}

=============================================================================
