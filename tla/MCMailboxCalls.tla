--------------------------- MODULE MCMailboxCalls ---------------------------
(* A small instance of MailboxCalls. *)
EXTENDS MailboxCalls

\* The longest way to an object there is: the message inside an attachment.
Embedded == <<"message", "attachment", "embedded">>

\* An attachment of one chunk, which may be empty, and longer ones.
ThreeAttachments == <<1, 3, 2>>

TwoMessages == {"m1", "m2"}
ThreeFolders == <<"calendar", "contacts", "drafts">>
TwoNames == {"flag", "start"}

\* One name, and one more with a repeat.
TwoLists == {<<"flag">>, <<"start", "flag", "start">>}
=============================================================================
