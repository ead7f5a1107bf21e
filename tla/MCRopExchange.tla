---------------------------- MODULE MCRopExchange ---------------------------
(* A small instance of RopExchange: every call the batch has, on objects opened before it. *)
EXTENDS RopExchange

Folder == U64(5)
Message == U64(6)
Text == Tag(1, Ptype.String)
Digits == Tag(2, Ptype.Integer32)
Blob == Tag(3, Ptype.Binary)
Texts == Tag(4, Ptype.MultipleString)
Name == Guid(9)

\* One property of every type that can be written.
Everything ==
    <<Property(1, Value(Ptype.String, <<65, 66>>)), Property(2, Value(Ptype.Integer32, U32(70000))),
      Property(3, Value(Ptype.Binary, <<1, 0, 2>>)), Property(4, Value(Ptype.MultipleString, <<<<65>>, << >>>>)),
      Property(5, Value(Ptype.Boolean, U8(1))), Property(6, Value(Ptype.Time, U64(7)))>>
OtherTypes ==
    <<Property(1, Value(Ptype.MultipleInteger32, <<U32(1), U32(2)>>)),
      Property(2, Value(Ptype.MultipleBinary, <<<<1>>, << >>>>)), Property(3, Value(Ptype.Guid, Guid(3))),
      Property(4, Value(Ptype.ServerId, OurServerId(Folder, Message))), Property(5, Value(Ptype.Integer16, U16(4)))>>

Bindings == <<Call(Bind, << >>), Call(RopId.Logon, <<<<47, 111>>>>)>>

Openings ==
    <<Call(RopId.OpenFolder, <<Folder>>), Call(RopId.OpenMessage, <<Folder, U8(MessageMode.BestAccess), Message>>),
      Call(RopId.GetContentsTable, <<U8(0)>>), Call(RopId.GetHierarchyTable, <<U8(FolderDepth.Recursive)>>),
      Call(RopId.GetAttachmentTable, << >>), Call(RopId.OpenAttachment, <<U32(1)>>),
      Call(RopId.OpenEmbeddedMessage, << >>), Call(RopId.CreateMessage, <<Folder>>),
      Call(RopId.CreateAttachment, << >>), Call(RopId.OpenStream, <<Blob, U8(StreamMode.ReadWrite)>>)>>

Properties ==
    <<Call(RopId.GetPropertiesSpecific, <<<<Text, Digits, Blob>>>>), Call(RopId.GetPropertiesSpecific, <<<<Texts>>>>),
      Call(RopId.GetPropertiesAll, << >>), Call(RopId.SetProperties, <<Everything>>),
      Call(RopId.SetProperties, <<OtherTypes>>),
      Call(RopId.SetProperties, <<<<Property(1, Value(Ptype.String8, <<65>>))>>>>),
      Call(RopId.SetProperties, <<<<Property(1, Value(Ptype.String, <<65, 0>>))>>>>),
      Call(RopId.SetProperties, <<<<Property(1, Value(Ptype.Binary, Zeros(MaxWord - 8)))>>>>),
      Call(RopId.DeleteProperties, <<<<Text, Blob>>>>),
      Call(RopId.DeleteProperties, <<[i \in 1..(MaxWord + 1) |-> Text]>>),
      Call(RopId.GetPropertyIdsFromNames,
           <<U8(NameRegistration.CreateIfMissing), <<ByLid(Name, U32(3)), ByName(Name, <<65, 66, 67>>)>>>>),
      Call(RopId.GetPropertyIdsFromNames,
           <<U8(NameRegistration.Existing), <<ByName(Name, [i \in 1..(MaxByte \div 2) |-> 65])>>>>),
      Call(RopId.GetNamesFromPropertyIds, <<<<U16(32768), U16(32769)>>>>)>>

Tables ==
    <<Call(RopId.SetColumns, <<<<Text, Digits, Blob>>>>), Call(RopId.SetColumns, <<<<Texts>>>>),
      Call(RopId.SortTable, <<<<[tag |-> Digits, direction |-> 1], [tag |-> Text, direction |-> 0]>>>>),
      Call(RopId.Restrict,
           <<And(<<Not(Exist(Blob)), Content(U32(1), Property(1, Value(Ptype.String, <<65>>))),
                   Or(<<Compare(U8(4), Property(2, Value(Ptype.Integer32, U32(9)))), Exist(Text)>>)>>)>>),
      Call(RopId.QueryRows, <<U16(300)>>)>>

Writes ==
    <<Call(RopId.ReadStream, <<100>>), Call(RopId.ReadStream, <<MaxWord + 1>>), Call(RopId.WriteStream, <<<<1, 2, 0>>>>),
      Call(RopId.CommitStream, << >>), Call(RopId.GetStreamSize, << >>), Call(RopId.SaveChangesMessage, << >>),
      Call(RopId.SaveChangesAttachment, << >>),
      Call(RopId.ModifyRecipients, <<<<Recipient(U8(1), <<65>>, <<66, 67>>), Recipient(U8(3), << >>, <<68>>)>>>>),
      Call(RopId.RemoveAllRecipients, << >>), Call(RopId.SubmitMessage, <<U8(SubmitFlags.None)>>),
      Call(RopId.SetReadFlags, <<U8(ReadFlags.Unread), <<Message>>>>),
      Call(RopId.DeleteMessages, <<<<Message, Folder>>>>), Call(RopId.IdFromLongTermId, <<LongTermId(Name, <<1, 2, 3, 4, 5, 6>>)>>),
      Call(RopId.LongTermIdFromId, <<Message>>), Call(RopId.Release, << >>)>>

Moves == <<Call(RopId.MoveCopyMessages, <<<<Message>>, U8(1)>>)>>

\* What a reply is most easily misread with: another open, a move, a fetch, rows.
Telling == SubSeq(Openings, 1, 1) \o SubSeq(Properties, 1, 1) \o SubSeq(Tables, 5, 5) \o Moves

InTurn == <<Bindings, Openings \o Properties \o Tables \o Writes \o Moves, Telling>>
=============================================================================
