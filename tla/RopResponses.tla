---------------------------- MODULE RopResponses ----------------------------
(***************************************************************************)
(* What the client makes of a reply: the payload and body of the HTTP      *)
(* response (crates/mapi-proto/src/http/response.rs and body.rs), the ROP  *)
(* buffer in it (rop/buffer.rs) and the responses in the buffer, which     *)
(* rop/response/decode.rs walks one after the other.                       *)
(*                                                                         *)
(* No response says how long it is, nor which request it answers: a body   *)
(* read as another length, or with another request's columns or tags,      *)
(* leaves the reader in the middle of a field.                             *)
(***************************************************************************)
EXTENDS RopRequests
LOCAL INSTANCE SequencesExt

\* The codes of error/code.rs that a reply is read by.
Success         == U32(0)
WrongServer     == U32(1144)
NullDestination == U32(1283)

-----------------------------------------------------------------------------
(* The body of each response *)

TypedString ==
    Switch(0 :> << >> @@ 1 :> << >> @@ 2 :> <<AsciiText>> @@ 3 :> <<AsciiText>> @@ 4 :> <<Utf16Text>>)

\* LogonTime is eight bytes.
LogonBody ==
    <<Keep(1), Repeat(13, <<Keep(8)>>), Skip(1), Keep(16), Keep(2), Keep(16), Skip(8), Skip(8), Skip(4)>>

\* A ghosted folder lists the servers that have it, after two counts.
OpenFolderBody == <<Keep(1), Flag(<<EachAfter(2, 2, <<AsciiText>>)>>)>>

OpenRecipientLayout == <<Keep(1), Keep(2), Skip(2), Bytes(2)>>
OpenMessageBody ==
    <<Keep(1), TypedString, TypedString, Keep(2), Each(2, <<Skip(4)>>), Each(1, OpenRecipientLayout)>>
EmbeddedMessageBody == <<Skip(1), Keep(8)>> \o OpenMessageBody

GetTableBody      == <<Keep(4)>>
TableStatusBody   == <<Keep(1)>>
QueryRowsBody(columns)    == <<Keep(1), Each(2, RowLayout(columns, TRUE))>>
PropertiesBody(tags)      == RowLayout(tags, FALSE)
AllPropertiesBody == <<Each(2, <<TaggedValue>>)>>
ProblemsBody      == <<Each(2, Problem)>>
PropertyIdsBody   == <<Each(2, <<Keep(2)>>)>>
PropertyNamesBody == <<Each(2, <<NameLayout>>)>>
CreateMessageBody == <<Flag(<<Keep(8)>>)>>
SaveChangesBody   == <<Skip(1), Keep(8)>>
CreateAttachmentBody == <<Keep(4)>>
PartialBody       == <<Keep(1)>>
ProgressBody      == <<Skip(1), Keep(4), Keep(4)>>
StreamSizeBody    == <<Keep(4)>>
ReadStreamBody    == <<Bytes(2)>>
WriteStreamBody   == <<Keep(2)>>
ShortTermIdBody   == <<Keep(8)>>

Unreadable == <<Switch(<< >>)>>

\* decode_success: what follows the ReturnValue of a ROP that succeeded.  Columns and tags are empty,
\* or hold the one list there is.
SuccessBody(rop, columns, tags) ==
    CASE rop = RopId.Logon                                  -> LogonBody
      [] rop = RopId.OpenFolder                             -> OpenFolderBody
      [] rop \in {RopId.GetHierarchyTable, RopId.GetContentsTable} -> GetTableBody
      [] rop \in {RopId.SetColumns, RopId.SortTable, RopId.Restrict} -> TableStatusBody
      [] rop \in {RopId.OpenAttachment, RopId.GetAttachmentTable, RopId.ModifyRecipients,
                  RopId.RemoveAllRecipients, RopId.SaveChangesAttachment, RopId.SubmitMessage,
                  RopId.CommitStream}                       -> << >>
      [] rop \in {RopId.MoveCopyMessages, RopId.SetReadFlags, RopId.DeleteMessages} -> PartialBody
      [] rop = RopId.Progress                               -> ProgressBody
      [] rop = RopId.CreateMessage                          -> CreateMessageBody
      [] rop = RopId.SaveChangesMessage                     -> SaveChangesBody
      [] rop = RopId.CreateAttachment                       -> CreateAttachmentBody
      [] rop = RopId.WriteStream                            -> WriteStreamBody
      [] rop = RopId.OpenMessage                            -> OpenMessageBody
      [] rop = RopId.OpenEmbeddedMessage                    -> EmbeddedMessageBody
      [] rop \in {RopId.OpenStream, RopId.GetStreamSize}    -> StreamSizeBody
      [] rop = RopId.ReadStream                             -> ReadStreamBody
      [] rop = RopId.QueryRows /\ columns # << >>           -> QueryRowsBody(columns[1])
      [] rop = RopId.GetPropertiesSpecific /\ tags # << >>  -> PropertiesBody(tags[1])
      [] rop = RopId.GetPropertiesAll                       -> AllPropertiesBody
      [] rop \in {RopId.SetProperties, RopId.DeleteProperties} -> ProblemsBody
      [] rop = RopId.GetPropertyIdsFromNames                -> PropertyIdsBody
      [] rop = RopId.GetNamesFromPropertyIds                -> PropertyNamesBody
      [] rop = RopId.IdFromLongTermId                       -> ShortTermIdBody
      [] rop = RopId.LongTermIdFromId                       -> LongTermIdLayout
      [] OTHER                                              -> Unreadable

-----------------------------------------------------------------------------
(* decode_all *)

Response(kind, rop, fields) == [kind |-> kind, rop |-> rop, fields |-> fields]

Decoded(out) == [ok |-> TRUE, out |-> out]
Undecoded    == [ok |-> FALSE, out |-> << >>]

\* What follows the ReturnValue of a ROP that failed: nothing but for the two that add fields.
FailureKind(rop, code) ==
    CASE rop = RopId.Logon /\ code = WrongServer                -> "redirect"
      [] rop = RopId.MoveCopyMessages /\ code = NullDestination -> "answer"
      [] OTHER                                                  -> "failed"

FailureBody(rop, code) ==
    CASE FailureKind(rop, code) = "redirect" -> <<Skip(1), Within(1, 1)>>
      [] FailureKind(rop, code) = "answer"   -> <<Skip(4), Keep(1)>>
      [] OTHER                               -> << >>

BackoffBody == <<Skip(1), Keep(4), Each(1, <<Skip(5)>>), Each(2, <<Skip(1)>>)>>

\* A response from its handle index and ReturnValue on: what it is, and where it ends.
ReadRest(buf, head, slot, code, rop, columns, tags) ==
    LET known == IF slot + 1 \in DOMAIN columns THEN columns[slot + 1] ELSE << >>
    IN  ReadFrom(buf, Reading(head.at, << >>),
                 IF code = Success THEN SuccessBody(rop, known, SubSeq(tags, 1, 1)) ELSE FailureBody(rop, code))

Understood(rop, code, body) ==
    LET kind == IF code = Success THEN "answer" ELSE FailureKind(rop, code)
    IN  IF ~body.ok THEN Refused
        ELSE [ok |-> TRUE, at |-> body.at,
              is |-> Response(kind, rop, IF kind = "failed" THEN <<code>> ELSE body.kept)]

AfterHead(buf, head, rop, columns, tags) ==
    IF ~head.ok THEN Refused
    ELSE Understood(rop, head.kept[2],
                    ReadRest(buf, head, head.kept[1][1], head.kept[2], rop, columns, tags))

ReadResponse(buf, at, rop, columns, tags) ==
    AfterHead(buf, ReadFrom(buf, Reading(at, << >>), <<Keep(1), Keep(4)>>), rop, columns, tags)

\* The two that have no handle index to read first; of each one number is kept.
ReadAlone(kind, rop, body) ==
    IF ~body.ok THEN Refused
    ELSE [ok |-> TRUE, at |-> body.at, is |-> Response(kind, rop, <<body.kept[1]>>)]

TakenBySuccess(rop, taken, tags) ==     \* mutant: a refused fetch leaves its tags for the next one
    IF rop = RopId.GetPropertiesSpecific /\ taken.is.kind = "answer" /\ tags # << >>
    THEN Tail(tags) ELSE tags

\* The lists of tags still asked for, once a response to a fetch has taken its own.
StillAsked(rop, taken, tags) ==
    IF rop = RopId.GetPropertiesSpecific /\ tags # << >> THEN Tail(tags) ELSE tags

RECURSIVE DecodeFrom(_, _, _, _, _)

\* The response is kept and the rest is read, unless the server ran out of room for it.
Onward(buf, r, rop, columns, tags, out) ==
    IF ~r.ok THEN Undecoded
    ELSE IF rop = RopId.BufferTooSmall THEN Decoded(Append(out, r.is))
    ELSE DecodeFrom(buf, r.at, columns, StillAsked(rop, r, tags), Append(out, r.is))

DecodeFrom(buf, at, columns, tags, out) ==
    IF at = Len(buf) THEN Decoded(out)
    ELSE LET rop == buf[at + 1]
             from == Reading(at + 1, << >>)
         IN  Onward(buf,
                    CASE rop = RopId.BufferTooSmall -> ReadAlone("too small", rop, ReadFrom(buf, from, <<Keep(2)>>))
                      [] rop = RopId.Backoff        -> ReadAlone("backoff", rop, ReadFrom(buf, from, BackoffBody))
                      [] OTHER                      -> ReadResponse(buf, at + 1, rop, columns, tags),
                    rop, columns, tags, out)

-----------------------------------------------------------------------------
(* The buffer, the body and the payload *)

ByFours(bytes) == [i \in 1..(Len(bytes) \div 4) |-> Part(bytes, 4 * (i - 1), 4)]

NoBuffer == [ok |-> FALSE, rops |-> << >>, handles |-> << >>]

\* RopSize counts itself; handles fill what the ROPs leave.
SplitPayload(payload, ropSize) ==
    LET listed == IF ropSize < 2 THEN 0 ELSE ropSize - 2
    IN  IF Len(payload) < 2 + listed THEN NoBuffer
        ELSE [ok |-> TRUE, rops |-> Part(payload, 2, listed), handles |-> ByFours(Rest(payload, 2 + listed))]

ParsePayload(payload) ==
    IF Len(payload) < 2 THEN NoBuffer ELSE SplitPayload(payload, Number(SubSeq(payload, 1, 2)))

\* RopBuffer::parse: one block, neither compressed nor obfuscated.
ParseBlock(buf, head) ==
    IF ~head.ok \/ head.kept[1][1] % 4 # 0 \/ head.at + Number(head.kept[2]) > Len(buf) THEN NoBuffer
    ELSE ParsePayload(Part(buf, head.at, Number(head.kept[2])))

ParseBuffer(buf) == ParseBlock(buf, Read(buf, <<Skip(2), Keep(2), Keep(2), Skip(2)>>))

\* ExecuteResponse::parse and ConnectResponse::parse: a StatusCode that is not zero stands alone.
ExecuteLayout == <<Keep(4), Skip(4), Bytes(4)>>
ConnectLayout == <<Keep(4), Keep(4), Keep(4), Keep(4), AsciiText, Utf16Text>>

ParseBody(body, layout) ==
    IF Len(body) < 4 \/ SubSeq(body, 1, 4) # Success THEN Refused ELSE ReadFrom(body, Reading(4, << >>), layout)

Crlf == <<13, 10>>
MetaTag == [Processing |-> 80, Pending |-> 78, Done |-> 68]     \* each by one letter

LineEnd(raw, at) ==
    LET ends == {n \in at..(Len(raw) - 2) : Part(raw, n, 2) = Crlf}
    IN  IF ends = {} THEN -1 ELSE CHOOSE n \in ends : \A m \in ends : n <= m

\* Payload::parse: the meta-tags up to DONE, the headers after it up to an empty line, the body.  A
\* response without them is all body.
RECURSIVE PayloadBody(_, _, _)

AfterLine(raw, end, line, done) ==
    IF done THEN (IF line = << >> THEN Rest(raw, end + 2) ELSE PayloadBody(raw, end + 2, TRUE))
    ELSE IF \A tag \in DOMAIN MetaTag : line # <<MetaTag[tag]>> THEN raw
    ELSE PayloadBody(raw, end + 2, line = <<MetaTag.Done>>)

UpToLine(raw, at, end, done) ==
    IF end < 0 THEN (IF done THEN << >> ELSE raw) ELSE AfterLine(raw, end, Part(raw, at, end - at), done)

PayloadBody(raw, at, done) == UpToLine(raw, at, LineEnd(raw, at), done)

\* Session::on_execute: the responses and the handle table, or an error.
NoExecution == [ok |-> FALSE, out |-> << >>, handles |-> << >>]

Executed(decoded, handles) ==
    IF decoded.ok THEN [ok |-> TRUE, out |-> decoded.out, handles |-> handles] ELSE NoExecution

DecodeBuffer(buffer, columns, tags) ==
    IF ~buffer.ok THEN NoExecution
    ELSE Executed(DecodeFrom(buffer.rops, 0, columns, tags, << >>), buffer.handles)

DecodeBody(body, columns, tags) ==
    IF ~body.ok \/ body.kept[1] # Success THEN NoExecution
    ELSE DecodeBuffer(ParseBuffer(body.kept[2]), columns, tags)

ReadExecution(raw, columns, tags) ==
    DecodeBody(ParseBody(PayloadBody(raw, 0, FALSE), ExecuteLayout), columns, tags)

\* Session::on_connect.
Connected(body) ==
    IF ~body.ok \/ body.kept[1] # Success THEN NoExecution
    ELSE [ok |-> TRUE, out |-> <<Response("connected", 0, Tail(body.kept))>>, handles |-> << >>]

ReadConnected(raw) == Connected(ParseBody(PayloadBody(raw, 0, FALSE), ConnectLayout))
=============================================================================
