---------------------------- MODULE MailboxPost ----------------------------
(***************************************************************************)
(* The file mailboxes keep the promise of Post.  A server is a reader of   *)
(* Post while it is in message.read; sending, filtering, the order of the  *)
(* names, the archive and its pruning, nudges and runtimes are stutters.   *)
(***************************************************************************)
EXTENDS Mailbox

Nobody == [box |-> NoAgent, got |-> {}]

Reading(c) == c.pc \in {"read", "archive"}

ReaderOf(c) == IF Reading(c) THEN [box |-> c.box, got |-> c.got] ELSE Nobody

readers == [s \in Servers |-> ReaderOf(call[s])]

P == INSTANCE Post WITH unread <- inbox, reader <- readers, returned <- handed

\* send and get_messages together implement Post: no file is delivered twice,
\* none is taken that is not there, and an answer holds only what has left
\* the inbox, so a message is returned twice only by calls that overlap.
ImplementsPost == P!Spec

\* The same, said of the mailboxes themselves: what was returned is not
\* unread again.
ReturnedIsGone == P!ReturnedIsGone

=============================================================================
