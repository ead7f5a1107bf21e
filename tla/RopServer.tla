------------------------------ MODULE RopServer -----------------------------
(***************************************************************************)
(* The server at the other end, which is not in this repository: how it    *)
(* reads a request and what it may answer, by [MS-OXCROPS], [MS-OXCDATA]   *)
(* and [MS-OXCMAPIHTTP].                                                   *)
(*                                                                         *)
(* With the client's side it shares Wire, the numbers of ROPs, types and   *)
(* codes, and five shapes: a property's tag (WriteTag), a tag with its     *)
(* value (TaggedValue), a long term id (LongTermIdLayout), the block that  *)
(* a ROP buffer travels in (ParseBuffer) and the lines before a response   *)
(* (MetaTag).  A mistake in one of these is a mistake of both sides; what  *)
(* a ROP and its response consist of is each side's own.                   *)
(***************************************************************************)
EXTENDS RopResponses, FiniteSets
LOCAL INSTANCE SequencesExt

-----------------------------------------------------------------------------
(* Reading a request *)

Index == Keep(1)
Id    == Keep(8)
Tags  == Each(2, <<Keep(4)>>)
Ids   == Each(2, <<Id>>)

\* [MS-OXCDATA] 2.12, down to restrictions three deep.
RestrictionAsked[depth \in 0..3] ==
    IF depth = 0 THEN Unreadable
    ELSE <<Switch(0 :> <<Each(2, RestrictionAsked[depth - 1])>> @@ 1 :> <<Each(2, RestrictionAsked[depth - 1])>>
                  @@ 2 :> RestrictionAsked[depth - 1]
                  @@ 3 :> <<Keep(4), Keep(4), TaggedValue>> @@ 4 :> <<Keep(1), Keep(4), TaggedValue>>
                  @@ 8 :> <<Keep(4)>>)>>

\* A one-off recipient: its flags, address type, address and name, and a property row of no columns.
RecipientAsked ==
    <<Skip(2), AsciiText, Utf16Text, Utf16Text, Skip(2), Switch(0 :> << >>)>>

NameAsked == Switch(0 :> <<Keep(16), Keep(4)>> @@ 1 :> <<Keep(16), Within(1, 2)>>)

\* What follows a ROP's id and LogonId: the slots it names and the fields the caller chose.
Asked(rop) ==
    CASE rop = RopId.Release -> <<Index>>
      [] rop = RopId.Logon -> <<Index, Skip(9), Sized(<<AsciiText>>)>>
      [] rop = RopId.OpenFolder -> <<Index, Index, Id, Skip(1)>>
      [] rop = RopId.OpenMessage -> <<Index, Index, Skip(2), Id, Keep(1), Id>>
      [] rop \in {RopId.GetHierarchyTable, RopId.GetContentsTable} -> <<Index, Index, Keep(1)>>
      [] rop = RopId.GetAttachmentTable -> <<Index, Index, Skip(1)>>
      [] rop = RopId.OpenAttachment -> <<Index, Index, Skip(1), Keep(4)>>
      [] rop = RopId.OpenEmbeddedMessage -> <<Index, Index, Skip(2), Skip(1)>>
      [] rop = RopId.CreateMessage -> <<Index, Index, Skip(2), Id, Skip(1)>>
      [] rop = RopId.CreateAttachment -> <<Index, Index>>
      [] rop = RopId.OpenStream -> <<Index, Index, Keep(4), Keep(1)>>
      [] rop = RopId.GetPropertiesSpecific -> <<Index, Skip(2), Skip(2), Tags>>
      [] rop = RopId.GetPropertiesAll -> <<Index, Skip(2), Skip(2)>>
      [] rop = RopId.SetProperties -> <<Index, Sized(<<Each(2, <<TaggedValue>>)>>)>>
      [] rop = RopId.DeleteProperties -> <<Index, Tags>>
      [] rop = RopId.GetPropertyIdsFromNames -> <<Index, Keep(1), Each(2, <<NameAsked>>)>>
      [] rop = RopId.GetNamesFromPropertyIds -> <<Index, Each(2, <<Keep(2)>>)>>
      [] rop = RopId.SetColumns -> <<Index, Skip(1), Tags>>
      [] rop = RopId.SortTable -> <<Index, Skip(1), EachAfter(2, 4, <<Keep(4), Keep(1)>>)>>
      [] rop = RopId.Restrict -> <<Index, Skip(1), Sized(RestrictionAsked[3])>>
      [] rop = RopId.QueryRows -> <<Index, Skip(1), Skip(1), Keep(2)>>
      [] rop = RopId.ModifyRecipients ->
             <<Index, Skip(2), Each(2, <<Keep(4), Keep(1), Sized(RecipientAsked)>>)>>
      [] rop = RopId.RemoveAllRecipients -> <<Index, Skip(4)>>
      [] rop = RopId.SubmitMessage -> <<Index, Keep(1)>>
      [] rop = RopId.SaveChangesMessage -> <<Index, Index, Skip(1)>>
      [] rop = RopId.SaveChangesAttachment -> <<Index, Index, Skip(1)>>
      [] rop = RopId.DeleteMessages -> <<Index, Skip(2), Ids>>
      [] rop = RopId.MoveCopyMessages -> <<Index, Index, Ids, Skip(1), Keep(1)>>
      [] rop = RopId.SetReadFlags -> <<Index, Skip(1), Keep(1), Ids>>
      [] rop = RopId.ReadStream -> <<Index, Keep(2)>>
      [] rop = RopId.WriteStream -> <<Index, Bytes(2)>>
      [] rop \in {RopId.CommitStream, RopId.GetStreamSize} -> <<Index>>
      [] rop = RopId.IdFromLongTermId -> <<Index>> \o LongTermIdLayout
      [] rop = RopId.LongTermIdFromId -> <<Index, Id>>
      [] OTHER -> Unreadable

\* The ROPs that answer with a new object in the second slot they name (the first, for a logon).
Opening ==
    {RopId.OpenFolder, RopId.OpenMessage, RopId.GetHierarchyTable, RopId.GetContentsTable,
     RopId.GetAttachmentTable, RopId.OpenAttachment, RopId.OpenEmbeddedMessage, RopId.CreateMessage,
     RopId.CreateAttachment, RopId.OpenStream}

Inside(body, outer) ==
    IF ~outer.ok \/ outer.at # Len(body) THEN NoBuffer ELSE ParseBuffer(outer.kept[1])

\* A request's buffer, and a ROP of it: the id, then the fields after LogonId.
ReadBuffer(body) ==
    Inside(body, Read(body, <<Skip(4), Bytes(4), Skip(4), Skip(4)>>))

ReadAsked(rops, at) == ReadFrom(rops, Reading(at, << >>), <<Keep(1), Skip(1)>> \o Asked(rops[at + 1]))

ConnectAsked == <<AsciiText, Skip(4), Skip(4), Keep(4), Keep(4), Skip(4)>>

-----------------------------------------------------------------------------
(* Writing a reply *)

\* A part of an answer: what the client is to make of it, and its bytes.
Said(bytes)    == [says |-> <<bytes>>, wire |-> bytes]
Unsaid(bytes)  == [says |-> << >>, wire |-> bytes]
AsciiSaid(chars) == [says |-> <<chars>>, wire |-> chars \o <<0>>]
Utf16Said(chars) == [says |-> <<chars>>, wire |-> Utf16Z(chars)]
BytesSaid(bytes) == [says |-> <<bytes>>, wire |-> U16(Len(bytes)) \o bytes]

Together(parts) ==
    [says |-> FlattenSeq([i \in DOMAIN parts |-> parts[i].says]),
     wire |-> FlattenSeq([i \in DOMAIN parts |-> parts[i].wire])]

Counting(n, parts) == Together(<<Said(U16(n))>> \o parts)

\* A table row carries so many characters of a string; the client cannot tell one cut there from one
\* that long.
TextSaid(chars, width, inRow) ==
    LET sent == IF inRow /\ Len(chars) > TableStringLimit THEN SubSeq(chars, 1, TableStringLimit) ELSE chars
        mark == IF ~inRow THEN << >> ELSE <<IF Len(chars) >= TableStringLimit THEN <<1>> ELSE <<0>> >>
    IN  [says |-> <<sent>> \o mark, wire |-> IF width = 1 THEN sent \o <<0>> ELSE Utf16Z(sent)]

\* A value of a type.
Sample(type, inRow) ==
    CASE type \in DOMAIN Widths -> Said([i \in 1..Widths[type] |-> i])
      [] type = Ptype.String -> TextSaid(<<7, 8, 9, 10>>, 2, inRow)
      [] type = Ptype.String8 -> TextSaid(<<7>>, 1, inRow)
      [] type \in {Ptype.Binary, Ptype.ServerId} -> BytesSaid(<<0, 4>>)
      [] type = Ptype.MultipleInteger32 -> Together(<<Said(U32(2)), Said(U32(3)), Said(U32(0))>>)
      [] type = Ptype.MultipleString ->
             Together(<<Said(U32(2)), TextSaid(<<5>>, 2, inRow), TextSaid(<< >>, 2, inRow)>>)
      [] type = Ptype.MultipleBinary -> Together(<<Said(U32(2)), BytesSaid(<< >>), BytesSaid(<<6>>)>>)

\* A row with every value, and one whose first value is an error and whose last is missing.
StandardRow(tags, inRow) ==
    Together(<<Said(U8(0))>> \o [i \in DOMAIN tags |-> Sample(tags[i].type, inRow)])
FlaggedRow(tags, inRow) ==
    Together(<<Said(U8(1))>>
             \o [i \in DOMAIN tags |->
                   IF i = 1 THEN Together(<<Said(U8(10)), Said(U32(3))>>)
                   ELSE IF i = Len(tags) THEN Said(U8(1))
                   ELSE Together(<<Said(U8(0)), Sample(tags[i].type, inRow)>>)])

OpenMessageSaid ==
    Together(<<Said(U8(1)), Said(U8(3)), AsciiSaid(<<5>>), Said(U8(4)), Utf16Said(<<6, 7>>), Said(U16(2)),
               Said(U16(1)), Unsaid(U32(9)), Said(U8(1)), Said(U8(1)), Said(U16(4)), Unsaid(U16(0)),
               BytesSaid(<<8>>)>>)

\* What the server may say of a ROP that succeeded; tags are those the ROP asked for.
Answers(rop, tags) ==
    CASE rop = RopId.Logon ->
             {Together(<<Said(U8(1))>> \o [i \in 1..13 |-> Said(U64(i))]
                       \o <<Unsaid(U8(7)), Said(Guid(1)), Said(U16(2)), Said(Guid(3)), Unsaid(U64(4)),
                            Unsaid(U64(5)), Unsaid(U32(0))>>)}
      [] rop = RopId.OpenFolder ->
             {Together(<<Said(U8(1)), Said(U8(0))>>),
              Together(<<Said(U8(0)), Said(U8(1)), Said(U16(2)), Unsaid(U16(1)),
                         AsciiSaid(<<3>>), AsciiSaid(<<4, 5>>)>>)}
      [] rop = RopId.OpenMessage -> {OpenMessageSaid}
      [] rop = RopId.OpenEmbeddedMessage ->
             {Together(<<Unsaid(U8(0)), Said(U64(6)), OpenMessageSaid>>),
              Together(<<Unsaid(U8(0)), Said(U64(6)), Said(U8(0)), Said(U8(0)), Said(U8(1)), Said(U16(0)),
                         Said(U16(0)), Said(U8(0))>>)}
      [] rop \in {RopId.GetHierarchyTable, RopId.GetContentsTable, RopId.OpenStream, RopId.GetStreamSize,
                  RopId.CreateAttachment} -> {Said(U32(3))}
      [] rop \in {RopId.SetColumns, RopId.SortTable, RopId.Restrict} -> {Said(U8(0)), Said(U8(11))}
      [] rop \in {RopId.MoveCopyMessages, RopId.SetReadFlags, RopId.DeleteMessages} -> {Said(U8(1))}
      [] rop = RopId.CreateMessage -> {Said(U8(0)), Together(<<Said(U8(1)), Said(U64(7))>>)}
      [] rop = RopId.SaveChangesMessage -> {Together(<<Unsaid(U8(0)), Said(U64(8))>>)}
      [] rop = RopId.WriteStream -> {Said(U16(2))}
      [] rop = RopId.ReadStream -> {BytesSaid(<<1, 2>>), BytesSaid(<< >>)}
      [] rop = RopId.QueryRows ->
             {Together(<<Said(U8(1)),
                         Counting(2, <<StandardRow(tags, TRUE), FlaggedRow(tags, TRUE)>>)>>),
              Together(<<Said(U8(2)), Said(U16(0))>>)}
      [] rop = RopId.GetPropertiesSpecific -> {StandardRow(tags, FALSE), FlaggedRow(tags, FALSE)}
      [] rop = RopId.GetPropertiesAll ->
             {Counting(3, <<Said(WriteTag(Tag(1, Ptype.Binary))), Sample(Ptype.Binary, FALSE),
                            Said(WriteTag(Tag(2, Ptype.ErrorCode))), Said(U32(5)),
                            Said(WriteTag(Tag(3, Ptype.MultipleString))), Sample(Ptype.MultipleString, FALSE)>>)}
      [] rop \in {RopId.SetProperties, RopId.DeleteProperties} ->
             {Counting(1, <<Said(U16(0)), Said(WriteTag(Tag(1, Ptype.String))), Said(U32(5))>>),
              Counting(0, << >>)}
      [] rop = RopId.GetPropertyIdsFromNames -> {Counting(2, <<Said(U16(0)), Said(<<1, 128>>)>>)}
      [] rop = RopId.GetNamesFromPropertyIds ->
             {Counting(3, <<Said(U8(NoName)), Said(U8(0)), Said(Guid(4)), Said(U32(5)), Said(U8(1)),
                            Said(Guid(6)),
                            [says |-> <<<<7, 8>>>>, wire |-> U8(6) \o Utf16Z(<<7, 8>>)]>>)}
      [] rop = RopId.IdFromLongTermId -> {Said(U64(9))}
      [] rop = RopId.LongTermIdFromId -> {Together(<<Said(Guid(8)), Said(<<1, 2, 3, 4, 5, 6>>), Unsaid(U16(0))>>)}
      [] OTHER -> {Together(<< >>)}

NotFound == <<15, 1, 4, 128>>       \* 0x8004010F

\* The response to a ROP, as it stands in the buffer and as the client is to read it.
Reply(rop, slot, code, kind, said) ==
    [is |-> Response(kind, rop, IF kind = "failed" THEN <<code>> ELSE said.says),
     wire |-> U8(rop) \o U8(slot) \o code \o said.wire]

Succeeds(rop, slot, tags) == {Reply(rop, slot, Success, "answer", said) : said \in Answers(rop, tags)}

\* A failure, the two that add fields, a ROP the server is still at or will not do yet.
Fails(rop, slot) ==
    {Reply(rop, slot, NotFound, "failed", Together(<< >>))}
    \cup (IF rop # RopId.Logon THEN {}
          ELSE {Reply(rop, slot, WrongServer, "redirect",
                      Together(<<Unsaid(U8(1)), [says |-> <<<<65, 66>>>>, wire |-> <<3, 65, 66, 0>>]>>))})
    \cup (IF rop # RopId.MoveCopyMessages THEN {}
          ELSE {Reply(rop, slot, NullDestination, "answer", Together(<<Unsaid(U32(1)), Said(U8(0))>>)),
                Reply(RopId.Progress, slot, Success, "answer",
                      Together(<<Unsaid(U8(0)), Said(U32(1)), Said(U32(2))>>))})
    \cup {[is |-> Response("backoff", RopId.Backoff, <<U32(500)>>),
           wire |-> <<RopId.Backoff, 0>> \o U32(500) \o U8(1) \o <<rop, 1, 0, 0, 0>> \o U16(2) \o <<3, 4>>]}

TooSmall(rest) ==
    [is |-> Response("too small", RopId.BufferTooSmall, <<U16(300)>>),
     wire |-> <<RopId.BufferTooSmall>> \o U16(300) \o rest]

\* The body of a reply to an Execute, whose buffer's block has such flags, and of one to a Connect.
ExecuteSaid(rops, handles, flags) ==
    LET payload == U16(Len(rops) + 2) \o rops \o handles
        buffer == U16(0) \o U16(flags) \o U16(Len(payload)) \o U16(Len(payload)) \o payload
    IN  U32(0) \o U32(0) \o U32(0) \o U32(Len(buffer)) \o buffer \o U32(0)

FailureSaid == U32(10) \o U32(0)            \* a StatusCode, and an auxiliary buffer of nothing
ConnectSaid ==
    Together(<<Said(U32(3)), Said(U32(2)), Said(U32(10)), AsciiSaid(<<47>>), Utf16Said(<<65>>)>>)

\* The payload: with meta-tags and additional headers, or without.
PayloadSaid(tagged, body) ==
    IF ~tagged THEN body
    ELSE <<MetaTag.Processing>> \o Crlf \o <<MetaTag.Pending>> \o Crlf \o <<MetaTag.Done>> \o Crlf
         \o <<72, 58, 49>> \o Crlf \o Crlf \o body
=============================================================================
