------------------------------ MODULE RopBatch ------------------------------
(***************************************************************************)
(* Building a request: RopBatch of crates/mapi-proto/src/rop/batch.rs and  *)
(* the calls of rop/batch/*.rs that add to it.                             *)
(*                                                                         *)
(* A call is the ROP it adds, what is passed to it and, for MoveCopy, two  *)
(* slots.  No call fails: the first thing that goes wrong is kept, nothing *)
(* is written after it, and only building the batch reports it.            *)
(***************************************************************************)
EXTENDS RopServer
LOCAL INSTANCE SequencesExt

CONSTANT MaxSlots       \* MAX_SLOTS: 256, all that one byte can name

ASSUME SlotsAssumption == MaxSlots \in 2..256

Call(rop, with) == [rop |-> rop, with |-> with]

NoHandle == <<255, 255, 255, 255>>      \* ObjectHandle::NONE

New == [rops |-> << >>, handles |-> << >>, columns |-> << >>, tags |-> << >>, released |-> << >>,
        error |-> FALSE, count |-> 0]

-----------------------------------------------------------------------------
(* What each call writes, and what it asks for *)

\* The bytes of a call: its object is in slot "in", what it opens goes to slot "out".
Encode(call, in, out, columns) ==
    LET arg(i) == call.with[i]
    IN  CASE call.rop = RopId.Release                -> EncodeRelease(in)
          [] call.rop = RopId.Logon                  -> EncodeLogon(out, arg(1))
          [] call.rop = RopId.OpenFolder             -> EncodeOpenFolder(in, out, arg(1))
          [] call.rop = RopId.OpenMessage            -> EncodeOpenMessage(in, out, arg(1), arg(2), arg(3))
          [] call.rop \in {RopId.GetHierarchyTable, RopId.GetContentsTable} ->
                 EncodeGetTable(call.rop, in, out, arg(1))
          [] call.rop = RopId.GetAttachmentTable     -> EncodeGetAttachmentTable(in, out)
          [] call.rop = RopId.OpenAttachment         -> EncodeOpenAttachment(in, out, arg(1))
          [] call.rop = RopId.OpenEmbeddedMessage    -> EncodeOpenEmbeddedMessage(in, out)
          [] call.rop = RopId.CreateMessage          -> EncodeCreateMessage(in, out, arg(1))
          [] call.rop = RopId.CreateAttachment       -> EncodeCreateAttachment(in, out)
          [] call.rop = RopId.OpenStream             -> EncodeOpenStream(in, out, arg(2), arg(1))
          [] call.rop = RopId.GetPropertiesSpecific  -> EncodeGetPropertiesSpecific(in, arg(1))
          [] call.rop = RopId.GetPropertiesAll       -> EncodeGetPropertiesAll(in)
          [] call.rop = RopId.SetProperties          -> EncodeSetProperties(in, arg(1))
          [] call.rop = RopId.DeleteProperties       -> EncodeDeleteProperties(in, arg(1))
          [] call.rop = RopId.GetPropertyIdsFromNames -> EncodePropertyIdsFromNames(in, arg(1), arg(2))
          [] call.rop = RopId.GetNamesFromPropertyIds -> EncodeNamesFromPropertyIds(in, arg(1))
          [] call.rop = RopId.SetColumns             -> EncodeSetColumns(in, arg(1))
          [] call.rop = RopId.SortTable              -> EncodeSortTable(in, arg(1), columns)
          [] call.rop = RopId.Restrict               -> EncodeRestrict(in, arg(1))
          [] call.rop = RopId.QueryRows              -> EncodeQueryRows(in, arg(1))
          [] call.rop = RopId.ReadStream             -> EncodeReadStream(in, arg(1))
          [] call.rop = RopId.WriteStream            -> EncodeWriteStream(in, arg(1))
          [] call.rop = RopId.CommitStream           -> EncodeCommitStream(in)
          [] call.rop = RopId.GetStreamSize          -> EncodeGetStreamSize(in)
          [] call.rop = RopId.SaveChangesMessage     -> EncodeSaveChangesMessage(in)
          [] call.rop = RopId.SaveChangesAttachment  -> EncodeSaveChangesAttachment(in)
          [] call.rop = RopId.ModifyRecipients       -> EncodeModifyRecipients(in, arg(1))
          [] call.rop = RopId.RemoveAllRecipients    -> EncodeRemoveAllRecipients(in)
          [] call.rop = RopId.SubmitMessage          -> EncodeSubmitMessage(in, arg(1))
          [] call.rop = RopId.MoveCopyMessages       -> EncodeMoveCopyMessages(in, out, arg(2), arg(1))
          [] call.rop = RopId.SetReadFlags           -> EncodeSetReadFlags(in, arg(1), arg(2))
          [] call.rop = RopId.DeleteMessages         -> EncodeDeleteMessages(in, arg(1))
          [] call.rop = RopId.IdFromLongTermId       -> EncodeIdFromLongTermId(in, arg(1))
          [] call.rop = RopId.LongTermIdFromId       -> EncodeLongTermIdFromId(in, arg(1))

-----------------------------------------------------------------------------
(* The builder *)

Known(batch, slot) == slot < Len(batch.handles)
Full(batch)        == Len(batch.handles) = MaxSlots
Fail(batch)        == [batch EXCEPT !.error = TRUE]

AllocateWrapped(batch, handle) ==       \* mutant: a full table gives its last slot again, and goes on
    IF Full(batch) THEN batch
    ELSE [batch EXCEPT !.handles = Append(@, handle), !.columns = Append(@, << >>)]

\* The slot a new object is given, and the batch with it; a full table gives the last and fails.
Token(batch) == IF Full(batch) THEN MaxSlots - 1 ELSE Len(batch.handles)
Allocate(batch, handle) ==
    IF Full(batch) THEN Fail(batch)
    ELSE [batch EXCEPT !.handles = Append(@, handle), !.columns = Append(@, << >>)]

\* push and try_push: an encoder that fails writes nothing.
Push(batch, bytes) ==
    IF batch.error THEN batch
    ELSE IF ~Encodable(bytes) THEN Fail(batch)
    ELSE [batch EXCEPT !.rops = @ \o bytes, !.count = @ + 1]

\* A call that opens an object: it has a slot whatever becomes of the call.
Opened(batch, call, in) ==
    LET allocated == Allocate(IF Known(batch, in) THEN batch ELSE Fail(batch), NoHandle)
    IN  IF Known(batch, in) THEN Push(allocated, Encode(call, in, Token(batch), << >>)) ELSE allocated

\* Any other call.  Some are remembered for the reply, or for a later call.
Added(batch, call, in, out) ==
    IF ~Known(batch, in) \/ ~Known(batch, out) THEN Fail(batch)
    ELSE LET pushed == Push(batch, Encode(call, in, out, batch.columns[in + 1]))
         IN  CASE call.rop = RopId.Release -> [pushed EXCEPT !.released = Append(@, in)]
               [] call.rop = RopId.GetPropertiesSpecific -> [pushed EXCEPT !.tags = Append(@, call.with[1])]
               [] call.rop = RopId.SetColumns -> [pushed EXCEPT !.columns[in + 1] = <<call.with[1]>>]
               [] OTHER -> pushed

LoggedOn(batch, call) == Push(Allocate(batch, NoHandle), Encode(call, 0, Token(batch), << >>))

\* RopBatch::build.
Built(batch) == IF batch.error THEN Unencodable ELSE Serialize(batch.rops, batch.handles)

-----------------------------------------------------------------------------
(* What a call asks for: every choice the caller made, and nothing of how it is written *)

MeantTag(tag) == WriteTag(tag)
MeantList(list) == <<U16(Len(list))>> \o list
MeantTags(tags) == MeantList([i \in DOMAIN tags |-> MeantTag(tags[i])])

MeantValue(value) ==
    IF value.type \in {Ptype.MultipleInteger32, Ptype.MultipleString, Ptype.MultipleBinary}
    THEN <<U32(Len(value.of))>> \o value.of
    ELSE <<value.of>>

MeantProperty(property) == <<MeantTag(property.tag)>> \o MeantValue(property.value)
MeantName(name) == <<U8(name.kind), name.set, name.of>>

RECURSIVE MeantRestriction(_)
MeantRestriction(r) ==
    <<U8(r.is)>>
    \o CASE r.is \in {0, 1} -> <<U16(Len(r.of))>> \o FlattenSeq([i \in DOMAIN r.of |-> MeantRestriction(r.of[i])])
         [] r.is = 2        -> MeantRestriction(r.of[1])
         [] r.is \in {3, 4} -> <<r.head, MeantTag(r.property.tag)>> \o MeantProperty(r.property)
         [] r.is = 8        -> <<MeantTag(r.tag)>>

\* With the property row of no columns it ends in.
MeantRecipient(recipient) == <<recipient.kind, Smtp, recipient.email, recipient.name, U8(0)>>

\* The fields a server that reads the call as it was meant comes to, after the slots.
Meant(call) ==
    LET arg(i) == call.with[i]
        every(list, Of(_)) == FlattenSeq([i \in DOMAIN list |-> Of(list[i])])
        counted(list, Of(_)) == <<U16(Len(list))>> \o every(list, Of)
    IN  CASE call.rop \in {RopId.Logon, RopId.OpenFolder, RopId.OpenAttachment, RopId.CreateMessage,
                           RopId.GetHierarchyTable, RopId.GetContentsTable, RopId.QueryRows,
                           RopId.WriteStream, RopId.SubmitMessage, RopId.LongTermIdFromId} -> <<arg(1)>>
          [] call.rop = RopId.OpenMessage       -> <<arg(1), arg(2), arg(3)>>
          [] call.rop = RopId.OpenStream        -> <<MeantTag(arg(1)), arg(2)>>
          [] call.rop \in {RopId.GetPropertiesSpecific, RopId.DeleteProperties, RopId.SetColumns} ->
                 MeantTags(arg(1))
          [] call.rop = RopId.SetProperties     -> counted(arg(1), MeantProperty)
          [] call.rop = RopId.GetPropertyIdsFromNames -> <<arg(1)>> \o counted(arg(2), MeantName)
          [] call.rop \in {RopId.GetNamesFromPropertyIds, RopId.DeleteMessages} -> MeantList(arg(1))
          [] call.rop = RopId.SortTable         ->
                 counted(arg(1), LAMBDA order : <<MeantTag(order.tag), U8(order.direction)>>)
          [] call.rop = RopId.Restrict          -> MeantRestriction(arg(1))
          [] call.rop = RopId.ReadStream        -> <<U16(arg(1))>>
          [] call.rop = RopId.ModifyRecipients  ->
                 <<U16(Len(arg(1)))>>
                 \o FlattenSeq([i \in DOMAIN arg(1) |-> <<U32(i - 1)>> \o MeantRecipient(arg(1)[i])])
          [] call.rop = RopId.MoveCopyMessages  -> MeantList(arg(1)) \o <<arg(2)>>
          [] call.rop = RopId.SetReadFlags      -> <<arg(1)>> \o MeantList(arg(2))
          [] call.rop = RopId.IdFromLongTermId  -> <<arg(1).guid, arg(1).counter>>
          [] OTHER                              -> << >>
=============================================================================
