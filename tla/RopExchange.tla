----------------------------- MODULE RopExchange ----------------------------
(***************************************************************************)
(* One request and its reply, byte for byte: a batch the caller builds     *)
(* call by call (RopBatch), the request it becomes (RopRequests), a server *)
(* that reads and runs it one ROP at a time (RopServer), and what the      *)
(* client makes of the reply, whole or cut short (RopResponses).           *)
(*                                                                         *)
(* Nothing in either direction can be told from its neighbour by looking   *)
(* at it: the server counts its way through the request and the client     *)
(* through the reply, each by what it believes stands there.               *)
(*                                                                         *)
(* Abstractions.  The caller follows what its callers in this repository   *)
(* do: it sets the columns of a slot once.  The server's own rules for     *)
(* which ROP an object takes are left out: it may do or refuse anything    *)
(* but for an object it never opened or rows without columns, which it     *)
(* refuses.                                                                *)
(***************************************************************************)
EXTENDS RopBatch
LOCAL INSTANCE SequencesExt

CONSTANT Menus      \* the calls the first, the second, ... call of a batch may be

VARIABLES
    phase,
    batch,      \* the RopBatch
    asked,      \* what each of its calls asks for
    tokens,     \* which call was given which slot for the object it opens
    request,    \* the request's body
    server,     \* how far the server has come with it
    reply,      \* the payload of the response, what it says, and how the server meant it
    outcome     \* what Session::on_response returns

vars == <<phase, batch, asked, tokens, request, server, reply, outcome>>

\* A handle that is bound to a batch: a call that writes no ROP.
Bind == 0
Bound == <<1, 0, 0, 0>>

\* What the server knows: what is left to do, the handle table, the columns each slot's table has,
\* what it understood of each ROP, the handle each came to, and what it answered.
Unserved ==
    [ok |-> TRUE, rops |-> << >>, at |-> 0, table |-> << >>, columns |-> << >>, understood |-> << >>,
     made |-> << >>, wire |-> << >>, is |-> << >>]

NoReply == [raw |-> << >>, whole |-> FALSE, clear |-> FALSE]

Init ==
    /\ phase = "building"
    /\ batch = New /\ asked = << >> /\ tokens = << >> /\ request = << >>
    /\ server = Unserved /\ reply = NoReply /\ outcome = NoExecution

-----------------------------------------------------------------------------
(* The caller *)

SlotTokens == 0..(MaxSlots - 1)
Menu == Menus[Len(asked) + 1]

\* A call is made with the slots it names; what it asks for is kept to compare.
Make(call, slots, after) ==
    /\ batch' = after
    /\ asked' = Append(asked, <<call.rop, slots, IF call.rop = Bind THEN << >> ELSE Meant(call)>>)
    /\ UNCHANGED <<phase, request, server, reply, outcome>>

Given(token) == tokens' = Append(tokens, [call |-> Len(asked) + 1, slot |-> token])

CallBind(call) ==
    /\ call.rop = Bind
    /\ Given(Token(batch)) /\ Make(call, << >>, Allocate(batch, Bound))

CallLogon(call) ==
    /\ call.rop = RopId.Logon
    /\ Given(Token(batch)) /\ Make(call, <<U8(Token(batch))>>, LoggedOn(batch, call))

CallOpen(call) ==
    /\ call.rop \in Opening
    /\ \E in \in SlotTokens :
          /\ Given(Token(batch))
          /\ Make(call, <<U8(in), U8(Token(batch))>>, Opened(batch, call, in))

CallOn(call) ==
    /\ call.rop \notin {Bind, RopId.Logon, RopId.MoveCopyMessages} \cup Opening
    /\ \E in \in SlotTokens :
          /\ call.rop = RopId.SetColumns /\ Known(batch, in) => batch.columns[in + 1] = << >>
          /\ LET twice == call.rop \in {RopId.SaveChangesMessage, RopId.SaveChangesAttachment}
             IN  Make(call, IF twice THEN <<U8(in), U8(in)>> ELSE <<U8(in)>>, Added(batch, call, in, in))
    /\ UNCHANGED tokens

CallMove(call) ==
    /\ call.rop = RopId.MoveCopyMessages
    /\ \E in, out \in SlotTokens : Make(call, <<U8(in), U8(out)>>, Added(batch, call, in, out))
    /\ UNCHANGED tokens

Ask ==
    /\ phase = "building" /\ Len(asked) < Len(Menus) /\ ~batch.error
    /\ \E i \in DOMAIN Menu :
          CallBind(Menu[i]) \/ CallLogon(Menu[i]) \/ CallOpen(Menu[i]) \/ CallOn(Menu[i]) \/ CallMove(Menu[i])

Arrived(read) ==
    [Unserved EXCEPT !.ok = read.ok, !.rops = read.rops, !.table = read.handles,
                     !.columns = [i \in DOMAIN read.handles |-> << >>]]

\* Session::execute, of a batch that can be built.
Execute ==
    /\ phase = "building" /\ Encodable(Built(batch)) /\ asked # << >>
    /\ request' = ExecuteBody(Built(batch))
    /\ server' = Arrived(ReadBuffer(request'))
    /\ phase' = "serving"
    /\ UNCHANGED <<batch, asked, tokens, reply, outcome>>

Refuse ==
    /\ phase = "building" /\ ~Encodable(Built(batch))
    /\ phase' = "refused"
    /\ UNCHANGED <<batch, asked, tokens, request, server, reply, outcome>>

\* Session::begin_connect, with a user's name and two locales.
Connect ==
    /\ phase = "building" /\ asked = << >>
    /\ request' = ConnectBody(<<3, 4>>, U32(1033), U32(1031))
    /\ asked' = <<<<Bind, << >>, <<<<3, 4>>, U32(1033), U32(1031)>>>>>>
    /\ LET read == Read(request', ConnectAsked)
       IN  server' = [Unserved EXCEPT !.ok = read.ok /\ read.at = Len(request'),
                                     !.understood = <<<<Bind, << >>, read.kept>>>>]
    /\ phase' = "connecting"
    /\ UNCHANGED <<batch, tokens, reply, outcome>>

-----------------------------------------------------------------------------
(* The server *)

\* How many slots a ROP names.
SlotsNamed(rop) ==
    IF rop \in Opening \cup {RopId.MoveCopyMessages, RopId.SaveChangesMessage, RopId.SaveChangesAttachment}
    THEN 2 ELSE 1

TagOf(bytes) == Tag(Number(SubSeq(bytes, 3, 4)), Number(SubSeq(bytes, 1, 2)))
TagsOf(listed) == [i \in 1..(Len(listed) - 1) |-> TagOf(listed[i + 1])]

\* What was read of a ROP: its id, the slots and the fields.
Split(kept, n) == <<kept[1][1], SubSeq(kept, 2, n + 1), SubSeq(kept, n + 2, Len(kept))>>
Asking(kept) == Split(kept, SlotsNamed(kept[1][1]))

InTable(slot) == slot + 1 \in DOMAIN server.table
Holds(slot) == InTable(slot) /\ server.table[slot + 1] # NoHandle

\* A new object's handle: no two are the same.
Fresh == <<10 + Len(server.made), 0, 0, 0>>

\* The server is through with a ROP: it answered or had nothing to say, and opened an object or none.
Served(ask, end, replies, slot, handle) ==
    server' = [server EXCEPT
        !.at = end, !.understood = Append(@, ask), !.made = Append(@, handle),
        !.table = IF handle = NoHandle THEN @ ELSE [@ EXCEPT ![slot + 1] = handle],
        !.columns = IF ask[1] = RopId.SetColumns /\ replies # << >> /\ replies[1].is.kind = "answer"
                    THEN [@ EXCEPT ![slot + 1] = <<TagsOf(ask[3])>>] ELSE @,
        !.wire = @ \o FlattenSeq([i \in DOMAIN replies |-> replies[i].wire]),
        !.is = @ \o [i \in DOMAIN replies |-> replies[i].is]]

\* The tags a ROP's answer is made of, and whether the server can do what it asks.
TagsFor(ask, in) ==
    CASE ask[1] = RopId.GetPropertiesSpecific -> TagsOf(ask[3])
      [] ask[1] = RopId.QueryRows /\ InTable(in) /\ server.columns[in + 1] # << >> -> server.columns[in + 1][1]
      [] OTHER -> << >>

Can(rop, in, out) ==
    /\ InTable(out)
    /\ rop = RopId.Logon \/ Holds(in)
    /\ rop = RopId.MoveCopyMessages => Holds(out)
    /\ rop = RopId.QueryRows => server.columns[in + 1] # << >>

\* A logon names only the slot it fills; a response says which it is about, by the last that is named.
ServeRop(ask, end, rop, in, out) ==
    LET answered(r) == Served(ask, end, <<r>>, out,
                              IF rop \in Opening \cup {RopId.Logon} /\ r.is.kind = "answer" THEN Fresh ELSE NoHandle)
    IN  \/ /\ rop = RopId.Release
           /\ Served(ask, end, << >>, in, NoHandle)
           /\ phase' = phase
        \/ /\ rop # RopId.Release /\ Can(rop, in, out)
           /\ \E r \in Succeeds(rop, out, TagsFor(ask, in)) : answered(r)
           /\ phase' = phase
        \/ /\ rop # RopId.Release
           /\ \E r \in Fails(rop, out) :
                 /\ answered(r)
                 /\ phase' = IF r.is.kind = "backoff" THEN "served" ELSE phase

ServeRead(read) ==
    IF ~read.ok THEN server' = [server EXCEPT !.ok = FALSE] /\ phase' = phase
    ELSE LET ask == Asking(read.kept)
         IN  ServeRop(ask, read.at, ask[1], ask[2][1][1], ask[2][Len(ask[2])][1])

Serve ==
    /\ phase = "serving" /\ server.ok /\ server.at < Len(server.rops)
    /\ ServeRead(ReadAsked(server.rops, server.at))
    /\ UNCHANGED <<batch, asked, tokens, request, reply, outcome>>

\* There is no room for what the next ROP would answer.
RunOut ==
    /\ phase = "serving" /\ server.ok /\ server.at < Len(server.rops)
    /\ server.rops[server.at + 1] # RopId.Release
    /\ LET r == TooSmall(Rest(server.rops, server.at))
       IN  server' = [server EXCEPT !.wire = @ \o r.wire, !.is = Append(@, r.is)]
    /\ phase' = "served"
    /\ UNCHANGED <<batch, asked, tokens, request, reply, outcome>>

\* Three payloads: one with meta-tags, one without, one scrambled as it was asked not to be; or the
\* whole request fails.
Answer ==
    /\ \/ /\ phase = "served" \/ (phase = "serving" /\ server.ok /\ server.at = Len(server.rops))
          /\ LET said(flags) == ExecuteSaid(server.wire, FlattenSeq(server.table), flags)
             IN  \/ \E tagged \in BOOLEAN :
                       reply' = [raw |-> PayloadSaid(tagged, said(4)), whole |-> TRUE, clear |-> TRUE]
                 \/ \E raw \in {said(5), said(6), FailureSaid} :
                       reply' = [raw |-> raw, whole |-> TRUE, clear |-> FALSE]
          /\ UNCHANGED server
       \/ /\ phase = "connecting" /\ server.ok
          /\ \/ LET body == U32(0) \o U32(0) \o ConnectSaid.wire \o U32(0)
                IN  \E tagged \in BOOLEAN :
                       reply' = [raw |-> PayloadSaid(tagged, body), whole |-> TRUE, clear |-> TRUE]
             \/ reply' = [raw |-> FailureSaid, whole |-> TRUE, clear |-> FALSE]
          /\ server' = [server EXCEPT !.is = <<Response("connected", 0, ConnectSaid.says)>>]
    /\ phase' = "answered"
    /\ UNCHANGED <<batch, asked, tokens, request, outcome>>

-----------------------------------------------------------------------------
(* The reply on its way, and in the session *)

\* A response can end anywhere.  (Only those to a single ROP are cut.)
CutShort ==
    /\ phase = "answered" /\ reply.whole /\ reply.clear /\ Len(server.understood) <= 1
    /\ \E n \in 0..(Len(reply.raw) - 1) : reply' = [reply EXCEPT !.raw = SubSeq(@, 1, n), !.whole = FALSE]
    /\ UNCHANGED <<phase, batch, asked, tokens, request, server, outcome>>

\* Session::on_response, of what it does with the body.  The check of X-ResponseCode before it and the
\* columns that are remembered from one request to the next are SessionContext's (Undecodable, Receive,
\* OnExecute): the columns here are those the batch itself set.
OnResponse ==
    /\ phase = "answered"
    /\ outcome' = IF batch = New THEN ReadConnected(reply.raw)
                  ELSE ReadExecution(reply.raw, batch.columns, batch.tags)
    /\ phase' = "read"
    /\ UNCHANGED <<batch, asked, tokens, request, server, reply>>

Next == Ask \/ Execute \/ Refuse \/ Connect \/ Serve \/ RunOut \/ Answer \/ CutShort \/ OnResponse

Spec == Init /\ [][Next]_vars

-----------------------------------------------------------------------------
(* Properties *)

\* The calls a server is to see: all but the ones that write no ROP.
Expected == SelectSeq(asked, LAMBDA a : a[1] # Bind \/ batch = New)

\* Every ROP the server reads is the call the caller made, with the slots and values it gave and in
\* its place: the server is never left in the middle of a field by a count or a size.  (rop/*.rs
\* encode_, rop/buffer.rs serialize)
ServerDoesWhatWasAsked ==
    phase \notin {"building", "refused"} =>
        server.ok /\ server.understood = SubSeq(Expected, 1, Len(server.understood))

\* A reply that arrives whole is read as what the server answered, response by response, though some
\* of its ROPs failed, were put off or did not fit; it is refused only when the server scrambled it or
\* refused the request.  Of a reply that ends too soon the session takes nothing, unless all of the
\* answer had arrived.  (rop/response/decode.rs, rop/buffer.rs parse, wire/reader.rs take)
AnswersAreTheServers ==
    phase = "read" =>
        /\ reply.whole => outcome.ok = reply.clear
        /\ outcome.ok => /\ outcome.out = server.is
                         /\ reply.whole \/ batch # New => outcome.handles = server.table

\* A slot's token names, in the handles of the reply, the object that was opened for it, though every
\* slot of the table may have been given away.  (rop/batch.rs allocate)
SlotsNameTheirObjects ==
    phase = "read" /\ outcome.ok /\ batch # New =>
        LET written(n) == Cardinality({i \in 1..n : asked[i][1] # Bind})
        IN  \A i \in DOMAIN tokens :
               LET t == tokens[i]
                   made == IF asked[t.call][1] = Bind THEN Bound
                           ELSE IF written(t.call) \in DOMAIN server.made THEN server.made[written(t.call)]
                           ELSE NoHandle
               IN  outcome.handles[t.slot + 1] = made

=============================================================================
