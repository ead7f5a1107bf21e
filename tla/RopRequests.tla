----------------------------- MODULE RopRequests ----------------------------
(***************************************************************************)
(* The ROPs of a request, one operator for each the client sends: the      *)
(* encode_ functions of crates/mapi-proto/src/rop, and the buffer, body    *)
(* and handle table they travel in.                                        *)
(*                                                                         *)
(* An operator takes the slots of the handle table the ROP reads its       *)
(* object from and puts a new one in, and what the caller passed.  A count *)
(* or a size the field cannot hold makes the ROP unencodable.              *)
(***************************************************************************)
EXTENDS PropertyCodec
LOCAL INSTANCE SequencesExt

RopId ==
    [Release |-> 1, OpenFolder |-> 2, OpenMessage |-> 3, GetHierarchyTable |-> 4,
     GetContentsTable |-> 5, CreateMessage |-> 6, GetPropertiesSpecific |-> 7,
     GetPropertiesAll |-> 8, SetProperties |-> 10, DeleteProperties |-> 11,
     SaveChangesMessage |-> 12, RemoveAllRecipients |-> 13, ModifyRecipients |-> 14,
     SetColumns |-> 18, SortTable |-> 19, Restrict |-> 20, QueryRows |-> 21,
     DeleteMessages |-> 30, GetAttachmentTable |-> 33, OpenAttachment |-> 34,
     CreateAttachment |-> 35, SaveChangesAttachment |-> 37, OpenStream |-> 43, ReadStream |-> 44,
     WriteStream |-> 45, SubmitMessage |-> 50, MoveCopyMessages |-> 51, LongTermIdFromId |-> 67,
     IdFromLongTermId |-> 68, OpenEmbeddedMessage |-> 70, Progress |-> 80,
     GetNamesFromPropertyIds |-> 85, GetPropertyIdsFromNames |-> 86, CommitStream |-> 93,
     GetStreamSize |-> 94, SetReadFlags |-> 102, Backoff |-> 249, Logon |-> 254,
     BufferTooSmall |-> 255]

LogonId == 0

Head3(rop, in)      == <<rop, LogonId, in>>
Head4(rop, in, out) == <<rop, LogonId, in, out>>

Flat(parts) == FlattenSeq(parts)

-----------------------------------------------------------------------------
(* rop/logon.rs, rop/folder.rs, rop/longterm.rs *)

EncodeRelease(in) == Head3(RopId.Release, in)

\* EssdnSize counts the terminating NUL.
EncodeLogon(out, essdn) ==
    Head3(RopId.Logon, out) \o U8(1) \o U32(16777216) \o U32(0) \o Saturated(Len(essdn) + 1)
    \o AsciiZ(essdn)

EncodeOpenFolder(in, out, folder) == Head4(RopId.OpenFolder, in, out) \o folder \o U8(0)

EncodeIdFromLongTermId(in, id) == Head3(RopId.IdFromLongTermId, in) \o WriteLongTermId(id)
EncodeLongTermIdFromId(in, id) == Head3(RopId.LongTermIdFromId, in) \o id

-----------------------------------------------------------------------------
(* rop/message.rs *)

CodePageFromLogon == U16(4095)

MessageMode == [ReadOnly |-> 0, ReadWrite |-> 1, BestAccess |-> 3]

EncodeOpenMessage(in, out, folder, mode, message) ==
    Head4(RopId.OpenMessage, in, out) \o CodePageFromLogon \o folder \o mode \o message

EncodeGetAttachmentTable(in, out) == Head4(RopId.GetAttachmentTable, in, out) \o U8(64)
EncodeOpenAttachment(in, out, number) ==
    Head4(RopId.OpenAttachment, in, out) \o U8(MessageMode.ReadOnly) \o number
EncodeOpenEmbeddedMessage(in, out) ==
    Head4(RopId.OpenEmbeddedMessage, in, out) \o CodePageFromLogon \o U8(MessageMode.ReadOnly)

-----------------------------------------------------------------------------
(* rop/property.rs, rop/named.rs *)

EncodeGetPropertiesSpecific(in, tags) ==
    Head3(RopId.GetPropertiesSpecific, in) \o U16(0) \o U16(1) \o Saturated(Len(tags)) \o WriteTags(tags)

EncodeGetPropertiesAll(in) == Head3(RopId.GetPropertiesAll, in) \o U16(0) \o U16(1)

EncodeValuesAlone(in, properties) ==        \* mutant: PropertyValueSize leaves the count out
    LET encoded == WriteAll(properties)
    IN  Head3(RopId.SetProperties, in) \o Counted(Len(encoded)) \o Saturated(Len(properties)) \o encoded

\* PropertyValueSize is that of the values and of their two-byte count.
EncodeSetProperties(in, properties) ==
    LET encoded == WriteAll(properties)
    IN  Head3(RopId.SetProperties, in) \o Counted(Len(encoded) + 2) \o Saturated(Len(properties))
        \o encoded

EncodeDeleteProperties(in, tags) ==
    Head3(RopId.DeleteProperties, in) \o Saturated(Len(tags)) \o WriteTags(tags)

\* Names that have no id are given one, or are not.
NameRegistration == [Existing |-> 0, CreateIfMissing |-> 2]

EncodePropertyIdsFromNames(in, registration, names) ==
    Head3(RopId.GetPropertyIdsFromNames, in) \o registration \o Saturated(Len(names))
    \o Flat([i \in DOMAIN names |-> WriteName(names[i])])

EncodeNamesFromPropertyIds(in, ids) ==
    Head3(RopId.GetNamesFromPropertyIds, in) \o Saturated(Len(ids)) \o Flat(ids)

-----------------------------------------------------------------------------
(* rop/table.rs *)

FolderDepth == [Immediate |-> 0, Recursive |-> 4]

EncodeGetTable(rop, in, out, flags) == Head4(rop, in, out) \o flags

EncodeSetColumns(in, columns) ==
    Head3(RopId.SetColumns, in) \o U8(0) \o Saturated(Len(columns)) \o WriteTags(columns)

\* A sort by a column the batch has not set is refused; columns set by an earlier batch are not known.
EncodeSortTable(in, orders, columns) ==
    IF columns # << >> /\ ~Covered(orders, columns[1]) THEN Unencodable
    ELSE Head3(RopId.SortTable, in) \o U8(0) \o WriteSortOrders(orders)

EncodeRestrict(in, restriction) ==
    LET packet == WriteRestriction(restriction)
    IN  Head3(RopId.Restrict, in) \o U8(0) \o Counted(Len(packet)) \o packet

EncodeQueryRows(in, count) == Head3(RopId.QueryRows, in) \o U8(0) \o U8(1) \o count

-----------------------------------------------------------------------------
(* rop/stream.rs *)

StreamMode == [ReadOnly |-> 0, ReadWrite |-> 1, Create |-> 2]

EncodeOpenStream(in, out, mode, tag) == Head4(RopId.OpenStream, in, out) \o WriteTag(tag) \o mode
EncodeReadStream(in, bytes)  == Head3(RopId.ReadStream, in) \o Counted(bytes)
EncodeWriteStream(in, data)  == Head3(RopId.WriteStream, in) \o Counted(Len(data)) \o data
EncodeCommitStream(in)       == Head3(RopId.CommitStream, in)
EncodeGetStreamSize(in)      == Head3(RopId.GetStreamSize, in)

-----------------------------------------------------------------------------
(* rop/create.rs *)

KeepOpenReadWrite == U8(2)

EncodeCreateMessage(in, out, folder) ==
    Head4(RopId.CreateMessage, in, out) \o CodePageFromLogon \o folder \o U8(0)

\* The slot the reply names and the slot the message is in are the same.
EncodeSaveChangesMessage(in) == Head4(RopId.SaveChangesMessage, in, in) \o KeepOpenReadWrite

EncodeModifyRecipients(in, recipients) ==
    LET row(i) == WriteRecipientRow(recipients[i])
    IN  Head3(RopId.ModifyRecipients, in) \o U16(0) \o Counted(Len(recipients))
        \o Flat([i \in DOMAIN recipients |->
                   U32(i - 1) \o recipients[i].kind \o Counted(Len(row(i))) \o row(i)])

EncodeCreateAttachment(in, out)     == Head4(RopId.CreateAttachment, in, out)
EncodeSaveChangesAttachment(in)     == Head4(RopId.SaveChangesAttachment, in, in) \o KeepOpenReadWrite
EncodeDeleteMessages(in, messages)  ==
    Head3(RopId.DeleteMessages, in) \o U8(0) \o U8(0) \o Counted(Len(messages)) \o Flat(messages)

-----------------------------------------------------------------------------
(* rop/send.rs *)

SubmitFlags == [None |-> 0, PreProcess |-> 1, NeedsSpooler |-> 2]
ReadFlags   == [Read |-> 0, ReadQuietly |-> 1, Unread |-> 5, ReceiptOnly |-> 16]

WriteIds(messages) == Counted(Len(messages)) \o Flat(messages)

EncodeSubmitMessage(in, flags)   == Head3(RopId.SubmitMessage, in) \o flags
EncodeRemoveAllRecipients(in)    == Head3(RopId.RemoveAllRecipients, in) \o U32(0)
EncodeMoveCopyMessages(in, destination, copy, messages) ==
    Head4(RopId.MoveCopyMessages, in, destination) \o WriteIds(messages) \o U8(0) \o copy
EncodeSetReadFlags(in, flags, messages) ==
    Head3(RopId.SetReadFlags, in) \o U8(0) \o flags \o WriteIds(messages)

-----------------------------------------------------------------------------
(* rop/buffer.rs, http/request.rs *)

\* RopSize counts itself and the ROPs, and not the handle table.
Serialize(rops, handles) ==
    LET payload == Counted(Len(rops) + 2) \o rops \o Flat(handles)
    IN  U16(0) \o U16(4) \o Counted(Len(payload)) \o Counted(Len(payload)) \o payload

ExecuteBody(buffer) == U32(3) \o U32(Len(buffer)) \o buffer \o U32(65536) \o U32(0)

ConnectBody(userDn, sort, string) ==
    AsciiZ(userDn) \o U32(0) \o U32(1252) \o sort \o string \o U32(0)

DisconnectBody == U32(0)
=============================================================================
