---------------------------- MODULE PropertyCodec ---------------------------
(***************************************************************************)
(* Property values and the structures made of them, as they are written    *)
(* into a request and read out of a reply: crates/mapi-proto/src/oxcdata.  *)
(*                                                                         *)
(* A tag is an id and a type.  A value is a type and what it holds: the    *)
(* bytes of a number, a GUID or a binary value, the characters of a        *)
(* string, or a sequence of them.                                          *)
(***************************************************************************)
EXTENDS Wire, TLC
LOCAL INSTANCE SequencesExt

CONSTANT TableStringLimit       \* how many characters of a string a table row carries

ASSUME LimitAssumption == TableStringLimit \in Nat \ {0}

-----------------------------------------------------------------------------
(* Types, tags and values *)

Ptype ==
    [Integer16 |-> 2, Integer32 |-> 3, Floating64 |-> 5, ErrorCode |-> 10, Boolean |-> 11,
     Object |-> 13, Integer64 |-> 20, String8 |-> 30, String |-> 31, Time |-> 64, Guid |-> 72,
     ServerId |-> 251, Binary |-> 258, MultipleInteger32 |-> 4099, MultipleString |-> 4127,
     MultipleBinary |-> 4354]

\* The types whose values have one size.
Widths ==
    Ptype.Integer16 :> 2 @@ Ptype.Integer32 :> 4 @@ Ptype.Floating64 :> 8
    @@ Ptype.ErrorCode :> 4 @@ Ptype.Boolean :> 1 @@ Ptype.Integer64 :> 8
    @@ Ptype.Time :> 8 @@ Ptype.Guid :> 16

Tag(id, type)    == [id |-> id, type |-> type]
Value(type, of)  == [type |-> type, of |-> of]
Property(id, value) == [tag |-> Tag(id, value.type), value |-> value]

WriteTag(tag) == U16(tag.type) \o U16(tag.id)

\* How the bytes after a property's tag, or in a row, are read: an object's value or one of a type
\* nobody modelled has no length that is known.
ValueLayout(type, inRow) ==
    LET text(width) == IF inRow THEN TableText(width, TableStringLimit)
                       ELSE IF width = 1 THEN AsciiText ELSE Utf16Text
    IN  CASE type \in DOMAIN Widths                  -> <<Keep(Widths[type])>>
          [] type = Ptype.String                     -> <<text(2)>>
          [] type = Ptype.String8                    -> <<text(1)>>
          [] type \in {Ptype.Binary, Ptype.ServerId} -> <<Bytes(2)>>
          [] type = Ptype.MultipleInteger32          -> <<Each(4, <<Keep(4)>>)>>
          [] type = Ptype.MultipleString             -> <<Each(4, <<text(2)>>)>>
          [] type = Ptype.MultipleBinary             -> <<Each(4, <<Bytes(2)>>)>>
          [] OTHER                                   -> <<Switch(<< >>)>>

TaggedValue == Tagged([type \in 0..65535 |-> ValueLayout(type, FALSE)])

\* A value of a row whose values may be missing: there, absent, or an error in its place.
FlaggedValue(type, inRow) ==
    Switch(0 :> ValueLayout(type, inRow) @@ 1 :> << >> @@ 10 :> <<Keep(4)>>)

\* A row: every value in turn, or every value behind a flag.
RowLayout(columns, inRow) ==
    LET each(Of(_, _)) == [i \in DOMAIN columns |-> Of(columns[i].type, inRow)]
    IN  <<Switch([form \in 0..255 |-> IF form = 0 THEN FlattenSeq(each(ValueLayout))
                                      ELSE each(FlaggedValue)])>>

Problem == <<Keep(2), Keep(4), Keep(4)>>

-----------------------------------------------------------------------------
(* Writing values *)

WriteText(chars)  == IF 0 \in {chars[i] : i \in DOMAIN chars} THEN Unencodable ELSE Utf16Z(chars)
WriteBinary(bytes) == Counted(Len(bytes)) \o bytes

WriteEach(values, Write(_)) == U32(Len(values)) \o FlattenSeq([i \in DOMAIN values |-> Write(values[i])])

\* ServerEntryId::to_bytes: a folder, or a message of one; or whatever another client put there.
OurServerId(folder, message) == U8(1) \o folder \o message \o U32(0)

\* An 8-bit string, an error and an absent value are read and never written.
WriteValue(value) ==
    CASE value.type \in DOMAIN Widths \ {Ptype.ErrorCode} -> value.of
      [] value.type = Ptype.String                        -> WriteText(value.of)
      [] value.type \in {Ptype.Binary, Ptype.ServerId}    -> WriteBinary(value.of)
      [] value.type = Ptype.MultipleInteger32             -> WriteEach(value.of, LAMBDA v : v)
      [] value.type = Ptype.MultipleString                -> WriteEach(value.of, WriteText)
      [] value.type = Ptype.MultipleBinary                -> WriteEach(value.of, WriteBinary)
      [] OTHER                                            -> Unencodable

\* TaggedValue::new refuses a value of another type than its tag's.
WriteTagged(property) ==
    IF property.value.type # property.tag.type THEN Unencodable
    ELSE WriteTag(property.tag) \o WriteValue(property.value)

WriteAll(properties) == FlattenSeq([i \in DOMAIN properties |-> WriteTagged(properties[i])])
WriteTags(tags)      == FlattenSeq([i \in DOMAIN tags |-> WriteTag(tags[i])])

-----------------------------------------------------------------------------
(* Names of properties *)

ByLid(set, lid)      == [kind |-> 0, set |-> set, of |-> lid]
ByName(set, chars)   == [kind |-> 1, set |-> set, of |-> chars]
NoName               == 255

NameSize(chars) == 2 * Len(chars) + 2

\* PropertyName::named refuses what its one-byte size could not hold.
WriteName(name) ==
    U8(name.kind) \o name.set
    \o (IF name.kind = 0 THEN name.of
        ELSE IF NameSize(name.of) > MaxByte THEN Unencodable
        ELSE U8(NameSize(name.of)) \o WriteText(name.of))

NameLayout == Switch(NoName :> << >> @@ 0 :> <<Keep(16), Keep(4)>> @@ 1 :> <<Keep(16), Within(1, 2)>>)

-----------------------------------------------------------------------------
(* Sort orders and restrictions *)

WriteSortOrders(orders) ==
    Saturated(Len(orders)) \o U16(0) \o U16(0)
    \o FlattenSeq([i \in DOMAIN orders |-> WriteTag(orders[i].tag) \o U8(orders[i].direction)])

Covered(orders, columns) ==
    \A i \in DOMAIN orders : \E j \in DOMAIN columns : columns[j] = orders[i].tag

And(of)              == [is |-> 0, of |-> of]
Or(of)               == [is |-> 1, of |-> of]
Not(of)              == [is |-> 2, of |-> <<of>>]
Content(level, property) == [is |-> 3, head |-> level, property |-> property]
Compare(operator, property) == [is |-> 4, head |-> operator, property |-> property]
Exist(tag)           == [is |-> 8, tag |-> tag]

\* The property compared is named twice: in the restriction and in its tagged value.
RECURSIVE WriteRestriction(_)
WriteRestriction(restriction) ==
    U8(restriction.is)
    \o CASE restriction.is \in {0, 1, 2} ->
              (IF restriction.is = 2 THEN << >> ELSE Saturated(Len(restriction.of)))
              \o FlattenSeq([i \in DOMAIN restriction.of |-> WriteRestriction(restriction.of[i])])
         [] restriction.is \in {3, 4} ->
              restriction.head \o WriteTag(restriction.property.tag) \o WriteTagged(restriction.property)
         [] restriction.is = 8 -> WriteTag(restriction.tag)

-----------------------------------------------------------------------------
(* Recipients and identifiers *)

Recipient(kind, name, email) == [kind |-> kind, name |-> name, email |-> email]

Smtp == <<83, 77, 84, 80>>      \* "SMTP"

\* A recipient the directory has never heard of, and the empty property row it ends in.
OneOffFlags == U16(32768 + 512 + 64 + 16 + 8)
WriteRecipientRow(recipient) ==
    OneOffFlags \o AsciiZ(Smtp) \o WriteText(recipient.email) \o WriteText(recipient.name)
    \o U16(0) \o U8(0)

LongTermId(guid, counter) == [guid |-> guid, counter |-> counter]
WriteLongTermId(id) == id.guid \o id.counter \o U16(0)
LongTermIdLayout == <<Keep(16), Keep(6), Skip(2)>>
=============================================================================
