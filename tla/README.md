# A TLA+ model of mapi-client-rs

`mapi-client-rs` is a Rust client for MAPI over HTTP, the protocol Outlook speaks to Exchange. This
directory holds TLA+ modules translated from its source, the TLC configurations that check them on
small instances, and TLAPS proofs of what matters most for every instance. Paths below are under
`src/crates/` unless they say otherwise.

Read in this order: *the system*, then the section of the component that interests you with its
module open beside the code. `PROJECT.json` maps every definition to the lines it stands for.

## The system

| Part | Code | State it keeps | Modules |
| --- | --- | --- | --- |
| Authenticated connection pool | `mapi-client/src/transport/pool.rs`, `transport/negotiated.rs` | idle lanes, permits, a belief per lane and origin, a gate per origin (`proven`, the turn, the refusal count) | `LanePool`, `LogonGate`, `LanePoolProofs` |
| Handshake driver | `mapi-client/src/handshake.rs`, `transport/negotiated.rs`, `discovery/negotiated.rs` | the attempt, the legs of it, the mechanism chosen | `NegotiateHandshake`, `NegotiateHandshakeProofs`; as one exchange in `LanePool`; the choice and the forgetting in `KerberosTickets` |
| Negotiation mechanisms | `negotiate-auth/src/handshake.rs`, `handshake/`, `kerberos/gss.rs` (SPNEGO, NTLM, Kerberos) | the state of one handshake | `Negotiate`, driven by `NegotiateHandshake` |
| Kerberos client | `negotiate-auth/src/kerberos/client.rs`, `exchange.rs`, `exchange/` | the exchange under way, the clock's offset, the referrals so far | `KerberosClient`, `KerberosClientProofs` |
| Kerberos tickets and KDCs | `mapi-client/src/kerberos.rs`, `kerberos/kdc.rs` | per account the TGT, service tickets, what was unavailable until when, and a lock; per realm the KDCs in order | `KerberosTickets`, `KerberosTicketsProofs` |
| Session state machine | `mapi-proto/src/session.rs` | the pending request, the cookie jar, the columns of each table handle | `SessionContext`, `SessionContextProofs`; its bodies in `RopExchange` |
| ROP batches and responses, codecs | `mapi-proto/src/rop/`, `http/`, `oxcdata/`, `wire/` | the bytes so far, the slots, the columns and tags a slot is decoded with, the first error | `Wire`, `PropertyCodec`, `RopRequests`, `RopResponses`, `RopBatch`, `RopExchange`; the server's side `RopServer` |
| Connection | `mapi-client/src/connection.rs`, `client.rs` | whether it is poisoned | `SessionContext`, `MailboxCalls` |
| Table reads | `mapi-client/src/table.rs` | the unopened table, the open one, the current page | `TableRows` |
| Stream reads | `mapi-client/src/stream.rs`, `target.rs` | the handles to give back, the bytes so far | `StreamRead` |
| Drafts | `mapi-client/src/draft.rs`, `draft/attachment.rs` | the item being filled and its handles | `DraftWrite` |
| Mailbox objects | `mapi-client/src/logon.rs`, `folder.rs`, `message.rs`, `properties.rs`, `named.rs`, ... | the cache of named properties | `ObjectCalls`; proofs in `MailboxCallsProofs` |
| All calls on one connection | the four above over `connection.rs` | whether the connection still takes a request | `MailboxCalls`, `MailboxConstants`, `MailboxCallsProofs` |
| Autodiscover search, mailbox listing, clients | `mapi-client/src/discovery.rs`, `mailbox.rs`, `builder.rs`, `client.rs`, `mapi-autodiscover/src/discovery.rs` | the candidate queue, the address in force, the redirect count; the clients built, and the identity they share | `AutodiscoverSearch`, `AutodiscoverSearchProofs` |
| Transport | `mapi-client/src/transport.rs` | none of its own | the exchanges of `LanePool` and `NegotiateHandshake` |
| Fixture capture | `mapi-cli/src/capture.rs`, `scenario.rs`, `scenario/`, `scrub.rs`, `normalise.rs`, `meta.rs` | the conversation's place, the tally of the rules, the files written, the mailbox | `FixtureCapture`, `Scenario`, `Scrub`, `Normalise`, `FixtureCaptureProofs` |
| Cryptography and DER, Autodiscover XML, the rest of the command line, scripts | the rest | none that outlives a call | not modelled |

**How they interact.** A `MapiClient` is cloned freely; clones share one `Pool`, one set of Kerberos
tickets and one table of KDCs. A call on a mailbox object builds a batch, hands it to its
`Connection` by `&mut` reference (so one call at a time per connection), which asks the `Session`
for a request, posts it through `Transport::send`, and feeds the reply back. Under `Negotiate` or
NTLM the post first borrows a lane from the `Pool`; many connections do so at once. A handshake on a
lane may ask the `Kerberos` of its account for a ticket, many at once. Everything between two
awaits is atomic only as far as a mutex or an atomic is held. The command line's `capture` is a
program over all of this: it holds a conversation and makes test fixtures of it.

**What is hard.** Requests, handshakes and KDC questions interleave on a multi-threaded runtime.
Any future may be dropped at any await: a lane, a permit, a turn, a lock, a half-opened table all
have to survive that. A reply may be lost after the server has acted. A batch is run ROP by ROP and
goes on after a refusal. Rows come without tags or types, so they are decoded with columns set round
trips ago, on handle values the server hands out again. Wrong passwords lock accounts, so they must
not be tried by everyone at once. No ROP and no response says how long it is or whom it answers.
A pool may move a handshake to another connection between two of its legs. A network between client
and KDC may answer anything. A fixture is published, so nothing private may be in it, and two
captures must agree. The hazards, each at its line, are in `PROJECT.json`; the
properties are aimed at them.

## The modules, and how they correspond to the code

### LanePool: the authenticated connection pool

One process per `Requests`, each a call of `Transport::send`. `pc` follows `send_negotiated`: a
permit (`Acquire`), a lane (`TakeLane`, `BuildFails`), the optimistic `Reuse`, the gate (`LoadProven`,
`ReadCount`, `LockTurn`, `CheckRefusals`, `ConfirmTurn`), `TradeForWarm`, `Reuse` again, the
handshake (`Open` ... `HandshakeFails`), and the way out in the order the destructors run
(`ReturnLane`, `ReleasePermit`, `Settle`, `RecordRefusal`, `GiveUpTurn`). Every atomic load, lock,
and message is one action. `Abandon` is a future dropped at an await, or the `?` that leaves
`reuse`. The environment may change its verdict on the password (`ChangePassword`) and give up
connections (`Lapse`). `conn` is what the server makes of a lane's connection, which the client does
not see: `fresh`, `served`, or `lapsed`; `belief` is what the client thinks.

`LogonGate` is the promise: until a server has accepted a handshake, one request at a time runs
one, a request runs at most one, and a request that was refused with another's handshake runs none.
`LanePool` maps to it (`Gate`) and implements it when every server challenges.

`Unchallenged` says whether a server may answer a request without credentials by something other
than 401. The code counts such an answer, whatever its status, as a success
(`transport/negotiated.rs:174-178`), so it opens the gate for everybody before any password was
accepted: `TurnsUntilAccepted` and the refinement are claimed for `Unchallenged = FALSE`. Likewise a
reuse on a connection that is still good marks the gate proven again after a refusal
(`negotiated.rs:66`), so the claim is about *before the first acceptance*, not about *since the last
refusal* (compare `pool.rs:108-109`).

### SessionContext: Session, Connection and a server

The client half is `Session` (`pending`, `connected`, `known`, `cookie`) and `Connection` (`phase`,
`poison`); the other half is a server that runs a batch one ROP at a time, refuses any of them,
stops for lack of room, hands out handles and hands them out again, expires contexts, and whose
replies are lost, turned into errors by a proxy, or unreadable. `OnExecute` is `on_execute` as a
whole: decode, remember, forget. `rows` records with which columns the last reply's rows were
decoded, and with which they were encoded. What a ROP is does not matter here beyond opening,
configuring, querying and releasing; its bytes are `RopExchange`'s.

### KerberosTickets: caches, turns and KDCs

One process per handshake: `Begin` (is Kerberos worth offering at all), `Choose` (a ticket already
held), `LockAsking` (the account's `asking` mutex), `CheckAgain`, `Acquire`, then messages to the
realm's KDCs (`Lookup`, `Resolve`, `Answers`, `Silent`), and what comes of them (`NextMessage`,
`GetsTicket`, `StaleTgt`, `CredentialRefused`, `KdcError`). The clock runs in minutes, and
`RetryAfter`, `KeepFor` and `Margin` are the code's constants in that unit, scaled down. The messages
of a request are those of one realm whose clock is the client's: with or without preauthentication,
then the service's ticket; the retry after a skew and the referrals are `KerberosClient`'s. A refusal
of the credential may answer any of them (`kerberos.rs:360`). `forget` is
by the service's name, so a late refusal of an old ticket drops the one fetched since
(`kerberos.rs:322`, against `handshake.rs:290`): the model's `Forget` does so too.

### Negotiate and NegotiateHandshake: one handshake, leg by leg

`Negotiate` is `Handshake` as a data type: the tokens it sends and what each answer makes of it
(`Initial`, `Advance`, `Finish`; `Select` for a mechanism the server prefers, `NtlmAnswer` and
`KerberosAnswer` for the legs, with the MIC over the list and the skew a server reports). A token is
a record, and a key opens only what was sealed under it.

`NegotiateHandshake` drives it as `handshake.rs` does: `Choose` between Kerberos and NTLM by the
ticket there is, one leg after another with the request on each of them, `Moved` where the answer
shows that the pool put a leg on another connection, `StartAgain` within `MaxAttempts`,
`FinishLeg` with what is reported, and the ticket forgotten after a refusal. A search for a mailbox
runs the same handshake with its own rule of what counts as an answer. Legs travel on any of
`Connections`; a server keeps the handshake per connection. `Setups` are the honest servers and
accounts that differ, with no ticket, a good one, or one issued before the service's key changed;
and servers that are not honest, which answer anything they can make without the service's key.

### KerberosClient: one ticket, a KDC message at a time

The AS exchange with its preauthentication and the retry after a clock skew, the TGS exchange with
its referrals from realm to realm, and what is kept (`Referred`, `TgsSkew`, ...). The forest is
honest, with any clocks and referrals, loops included; or the network answers what it likes: errors,
which nothing authenticates, replies that no key opens, and sealed replies with other names around
them. Its composition with `KerberosTickets` is by what `Acquire` there may come to.

### Wire, PropertyCodec, RopRequests, RopResponses, RopServer, RopBatch and RopExchange

Here the bytes are modelled, because the property is about them: no ROP and no response says how
long it is. `Wire` has the writer, and the reader as a layout that is interpreted. `PropertyCodec`
has values, rows, restrictions, names and recipients on top of it; `RopRequests` one operator per
`encode_` function; `RopResponses` one layout per `decode_` function. `RopBatch` is the builder:
`Allocate`, `Bind`, one call for each method that adds a ROP, and the first error that sticks.
`RopServer` is external: it reads requests and composes answers by the protocol's documents. What it
shares with the client's modules is `Wire`, the numbers, and five shapes: a tag (`WriteTag`), a tag
with its value (`TaggedValue`), a long term id (`LongTermIdLayout`), the block a ROP buffer travels in
(`ParseBuffer`) and the lines before a response (`MetaTag`). A mistake in one of those would be on both
sides and not show; the fields of a ROP and of its answer are each side's own. `RopExchange` composes
them, but for `X-ResponseCode` and the columns remembered between requests, which are
`SessionContext`'s: a batch is built
call by call from a menu, encoded, read and run by the server ROP by ROP (done, refused, put off, or
out of room), and its answer is read whole or cut at any byte. The widths are scaled (`MaxByte` for
255, `MaxWord` for 65535, `TableStringLimit` for 510) so that counts and sizes overflow.

### TableRows, StreamRead, DraftWrite, ObjectCalls and MailboxCalls

Each of the first four is one kind of call with its own server-side state; `MailboxCalls` instantiates
all over one `usable` flag and lets a program make them one after another, in any order, dropping
any at an await. `Renew` is the next call of that kind. `TableRows` pages a table whose last page
may be full, short or empty, with or without the flag that says it is the last, and closes it
(`Close`, `CloseAtOnce`); `lent` is what is open at the server. Its server answers a query with rows or
a refusal: an answer without either, which `absorb` takes for the end of the table
(`table.rs:455-458`), breaks the protocol and is not modelled. `StreamRead` opens a
chain of objects and a stream, reads chunks, and gives the chain back; another client may extend the
property (`Extend`). `DraftWrite` creates a message and its attachments, whose writes may be short,
then saves and perhaps submits in one buffer. `ObjectCalls` has the calls of one round trip or two:
a batch opens what it needs, does one thing and releases what it opened, and each answer is matched
to its question by place. Lists of messages may be done in part; an update may be refused at any of
its ROPs; each special folder is found by its own entry id and its own conversion; names are
resolved once and cached, until the program ends its calls about names. What a batch did to the
store before it was lost is not kept: nothing a caller is told depends on it.

### AutodiscoverSearch

`Pop`, `Exhausted`, `Probe` are the loop of `search_with`; `Moved`, `NoAnswer`, `Stopped`,
`Described` what asking a candidate comes to; `RedirectUrl`, `RedirectAddress`, `TooMany` the
redirects; `ListOwn`, `ListAlternative`, `NextAlternative` the listing of an account's mailboxes,
which runs one search per mailbox. `given` is the URL a caller named, if it did, and `allowed`
whether it allowed plain HTTP; URLs in `Plain` are over it, and a URL that is none is treated as one
of them that is not allowed. Servers answer anything, and differently each time. When the listing is
over, `Build` makes a client for the mailbox that was looked up, `ForMailbox` one for any that was
listed, from the builder or from a client there is, and `BeginSession` starts sessions on them. After
the last alternative nothing of any search is kept.

### Scenario, Scrub, Normalise and FixtureCapture

`Scenario` has the six conversations as scripts of calls, each call one exchange with its label and
its fate, and the cleanup they end with (`Sweep` over Drafts and Deleted Items). `Scrub` has the
rules file: which lines are rules, what a rule looks for in three casings and two encodings, and the
replacement of equal length. `Normalise` has the fields that differ on every capture. `FixtureCapture` runs a
conversation, turns its exchanges into files (`Gather`, then `FixtureOf`: the normalising, the zeroing
of what the server minted, the scrub), checks each and writes it (`WriteExchange`) to a disk that may
fail, `Rounds` times into one directory.

A call that is served may still be refused in part (`PartRefused`). The steps about one special folder
send a conversion for each (`execute_allowing_refusals`, `logon.rs:307-331`): one that is refused fails
the step only if it is that folder's. A property is refused on purpose in `properties-refused`, and may
be when a draft is created, where it is printed at most. A `Moment` is what the server's clocks and
counters read while a conversation is captured; any of the five readings the code compares with 0 may
be 0 in any exchange (`StillAt`). It is drawn when the files are made, as nothing looks at it before.

What is assumed: cookies hold no needle; every answer has a preamble;
a submit that is accepted takes the message out of Drafts; the message the refused submit is about is
outside the mailbox that is followed, which keeps only the conversations' own messages. The raw
copies and the wording of a meta file are left out.

## What is checked

Every run below passes unless it is marked *violated*. Every property has a mutant: a definition of
the module (`... \* mutant`) that changes one action the way a plausible bug would, and with which
TLC finds the property violated.

| Run | Question | Instance |
| --- | --- | --- |
| `LanePool_one` | Are lanes exclusive and bounded, beliefs grounded, turns taken, refusals shared and earned; is `LogonGate` implemented? | 3 requests, 2 connections, 1 origin, 2 attempts, 1 password change, every server challenges; symmetry in the requests |
| `LanePool_live` | Does every request end? | 3 requests, 2 connections, 1 attempt, a server that need not challenge, no symmetry |
| `SessionContext_reads` | One request at a time, cookies in step, rows decoded with the right columns? | 3 handles, 2 column sets, 2 slots, 3 calls of the batches this repository's callers build |
| `KerberosTickets_shared` | Are KDCs asked once, one at a time, in the right order, never with a refused TGT; does every handshake end? | 3 handshakes of one account, 2 services, 2 KDCs, 1 tick |
| `NegotiateHandshake_http` | Is a success what it is reported to be, does a good account get in, does the request run once, does every handshake end? | 2 connections, 3 attempts of 4 legs, 2 requests, every mechanism; honest servers, and ones that answer anything |
| `KerberosClient_tickets` | Is the ticket the right one, does a good account get it, are the messages bounded? | 3 realms, 2 referrals; honest forests with clocks apart, and a network that answers anything |
| `RopExchange_buffers` | Does the server do what was asked, do slots name their objects, is what is read what was answered? | every call of the builder from three menus, up to 2 slots; `MaxByte` 12, `MaxWord` 160, `TableStringLimit` 3 |
| `MailboxCalls_calls` | Is what each call reports true, are handles given back, are cached names the store's, does a lost connection stay silent, does every call return? | 5 rows in pages of 2, a stream of up to 14 bytes in chunks of 3 read at most 3 times after the first, 3 attachments of 1, 3 and 2 chunks, 2 messages, 3 special folders, 2 names, 2 errors, 2 cancellations |
| `MailboxCalls_dropped` *violated* | Is the end of a table reported only at its end, though first calls are dropped? | the same |
| `MailboxCalls_sent` *violated* | Does a refused save leave everything unchanged? | the same |
| `AutodiscoverSearch_list` | Is everything tried, nothing asked about the wrong address, the listing whole, each client its mailbox's, and does it end? | 2 addresses, 1 outside service, 1 URL over plain HTTP, 3 redirects, 2 attempts, up to 2 alternatives, 2 clients, 3 sessions |
| `FixtureCapture_twice` | Do two captures agree, is nothing private in them, is the mailbox left as it was, is a success earned? | six conversations, 2 rounds, 12 rules files, 3 names, 2 moments |

**Why these bounds are enough.** *Pool*: two connections and three requests are the least for a
request to wait for a permit while two others race for the turn, for a trade between two lanes, and
for a third to be spared by the refusal of one while another waits; one password change lets a
refusal follow an acceptance. *Session*: three handles let a released value be reused while a second
table stays open, two column sets tell right from wrong, and three calls are open, close, open
again, or open, open, page. *Kerberos*: three handshakes let one ask, one wait for the same service and one for the other;
a third is also what a second wait on the lock needs. One tick with `RetryAfter = 1` is enough for a
window to run out. *Handshakes*: two connections let a leg go astray and come back, three attempts
let it do so twice, and the second request meets the ticket the first left behind. *KDC messages*: three realms
make a chain of two referrals, the limit, a loop, and a way that is longer than the limit. *Buffers*:
two slots let one be taken for the other; with `MaxByte` at 12 the slots, counts and
one-byte lengths run over within a few calls, with `MaxWord` at 160 a batch or a property list does.
*Calls*: five rows make two full pages and a short one; chunks of 3 over lengths
0 to 14 include empty values, exact multiples and values past the limit of reads (12);
attachments of one, two and three chunks meet every branch of filling; two messages are done in
part, and three folders let a refused one precede and follow an answered one. *Search*: one redirect limit
of 3 admits a redirect to the other address, back, and to a URL; `MAX_REDIRECTS` itself only scales
the number; a client and one made from it are the least to share an identity. *Captures*: the second
round finds what the first left behind, in the mailbox and in the directory; of the two moments one
has every reading other than 0 and the other has each of the five at 0 in some exchange that carries
it and not in others, so that two captures differ in a clock, in whether it is 0, or in neither.

**Deadlock** is checked in every run but two: a finished system steps by `Finished` or `Gone`, and
`MailboxCalls` can always begin another call. `RopExchange_buffers` ends with its exchange and
`FixtureCapture_twice` when the tool exits after its last round, so they say `CHECK_DEADLOCK FALSE`.

**Fairness** is weak fairness of what a component does of itself, per request, per handshake, or of
the one call there is. The code justifies it: the runtime polls a woken task; every post and every
KDC exchange ends at its timeout if not before, and a timeout is one of the failures modelled; the
semaphore, the turn and the `asking` lock are tokio's, which hand over in order of arrival. No
fairness is assumed of servers' choices, of password changes, of time, or of callers: nobody has to
make, drop or repeat a call.

## What the violated runs show

1. `MailboxCalls_dropped`: a first `try_next` dropped at its await leaves neither a table nor one
   to open, and the next call reports the end (`table.rs:377`), which the documentation of `fetch`
   calls the worst kind of wrong answer.
2. `MailboxCalls_sent`: save and submit go in one buffer, which the server works through past a
   refusal, so a refused save is followed by a submit of an empty item (`draft.rs:351`), though a
   refusal of the final save is documented to leave things unchanged (`draft.rs:234-235`).

## Smaller differences between the code and what it says

No run is spent on these. The first four, and the first of `mapi-cli`'s, put an exemption into a
property.

- A short answer is taken for a stream's end (`stream.rs:219`), hence `~short` in `CompleteIsWhole`.
- Handles of an opening batch that was refused part way are never known and stay open
  (`stream.rs:134`, `draft/attachment.rs:131`), hence the exemptions of `GivesBack`.
- A reuse on a connection that is still good marks the gate proven again after a refusal
  (`transport/negotiated.rs:66`), hence "before the first acceptance" in `TurnsUntilAccepted`.
- Columns are looked up and remembered whether or not the server accepted `RopSetColumns`
  (`session.rs:373-386`). A batch that changes a table's columns and queries it would be decoded with
  the refused ones. No caller here builds one; `RowsDecode` is about the batches they build.
- A KDC's refusal of the password is not cached (`kerberos.rs:245`), so each handshake that waited
  asks again, though the `asking` lock is documented to spare them that (`kerberos.rs:140-142`).
- A late refusal of an old ticket drops the one fetched since (`kerberos.rs:322`); it costs a request.
- An account's failed exchange writes off the realm for every account that shares it (`kdc.rs:60`).
- The clock of the last realm asked is the one a ticket's end is read by (`kerberos/client.rs:240,
  274`), and an offset documented for one retry (`fresh.rs:66-68`) is kept.
- At the read limit of a stream a prefix is returned rather than an error (`stream.rs:224`).
- `MessageUpdate::save` that sets and deletes returns only the first problems report
  (`message.rs:374-382`, against `message.rs:335-337`).

And in `mapi-cli`:

- `[normalised]` lists a value only when it was not 0 already (`normalise.rs:159` for `X-ElapsedTime`,
  and the same of `RetryDelay`, the logon's times and the auxiliary buffer). So a capture with a clock
  that reads 0 differs in its `.meta.txt` from one whose clock does not, against `normalise.rs:6-8`,
  and `Verify-Fixtures.ps1` treats any difference as a finding. `CapturesAgree` therefore promises
  the same files but for that list, and the list too where the same readings were 0.
- "Nothing was written" (`capture.rs:349`) is said after the directory was emptied and earlier
  exchanges written; files of a capture that fails because a rule matched nothing stay.
- An error in Deleted Items skips Drafts, though both are said to be tried (`acts.rs:97-99`); an error
  in `disconnect` hides the outcome; and a leftover with the same subject in Deleted Items is taken
  for the conversation's own message (`acts.rs:5`). Hence "if neither found what an earlier one had
  left behind" in `CapturesAgree`.
- `writes.rs:122` returns before the cleanup and leaves the draft, as `LeftAsFound` spells out.
- `scenario.rs:252` and `294` take any error for the refusal they are about.
- `meta.rs:59` scrubs and tallies values before replacing them, so `[redacted]` may count hits a
  reader cannot see (against `capture.rs:293-298`).
- A rule whose placeholder another rule looks for fails on the meta file's own `[redacted]` section.

## What is proved

TLAPS checks these for every value of the constants that satisfies the modules' assumptions.

| Theorem | Says |
| --- | --- |
| `LanePoolProofs!TypeCorrect` | `TypeOK`, and a request has a lane exactly where the code has a `Lease` in scope |
| `LanePoolProofs!LanesExclusive` | `OneRequestPerLane` |
| `LanePoolProofs!PoolBounded` | `PoolBound` |
| `LanePoolProofs!BeliefsGrounded` | `BeliefGrounded` |
| `LanePoolProofs!TakeTurns` | `TurnsUntilAccepted`, if every server challenges |
| `LanePoolProofs!RefusalsShared` | `SharedRefusal` |
| `LanePoolProofs!RefusalsEarned` | `RefusalsAreEarned`, for any number of servers; the run has one |
| `LanePoolProofs!RefinesGate` | `LanePool` implements `LogonGate`, if every server challenges |
| `SessionContextProofs!RequestsAlone` | `OneAtATime` |
| `SessionContextProofs!CookieInStep` | `InStep` |
| `SessionContextProofs!RowsDecoded` | `RowsDecode`, if the batches are `WellBuilt` |
| `KerberosTicketsProofs!OneAsksAtATime` | `OneAsks` |
| `KerberosTicketsProofs!RefusedStaysRefused` | `DeadStaysDead`, for any number of accounts |
| `KerberosTicketsProofs!WaitersAreSpared` | `AskOnce`, if `Life > Margin`: a ticket just issued is not at its end already |
| `KerberosTicketsProofs!AnsweredFirst` | `LastAnsweredFirst`, with one account |
| `KerberosClientProofs!BoundedMessages` | `FewMessages` |
| `KerberosClientProofs!RightTickets` | `TicketsAreRight` |
| `KerberosClientProofs!GoodGetsTicket` | `GoodAccountGetsTicket`, for finitely many realms |
| `NegotiateHandshakeProofs!RequestRunsOnce` | `RunsOnce` |
| `NegotiateHandshakeProofs!TrueReport` | `ReportIsTrue` |
| `NegotiateHandshakeProofs!GoodGetsIn` | `GoodCredentialGetsIn`, if `MaxLegs > 1`: it is 4 (`handshake.rs:56`), and NTLM chosen over a ticket takes 2 |
| `AutodiscoverSearchProofs!AskedEverywhere` | `EveryPlaceAndNoOther` |
| `AutodiscoverSearchProofs!MailboxesKeptApart` | `MailboxesAreTheirOwn` |
| `MailboxCallsProofs!AsksNoMore` | `LostIsLost` |
| `MailboxCallsProofs!WholeReads` | `ReadsAreWhole`, for any tables, values, pages and chunks |
| `MailboxCallsProofs!SavesAreTold` | `SavedAsTold`, for any attachments |
| `MailboxCallsProofs!HandlesGivenBack` | `HandlesComeBackOnce`, for any batch of any call |
| `MailboxCallsProofs!NamesCached` | `NamesAreTheStores`, for any names and lists of them |
| `MailboxCallsProofs!ObjectsTold` | `ObjectsAreAsTold`, for any messages, special folders and changes |
| `FixtureCaptureProofs!NothingPrivate` | `NothingPrivateIsWritten`, for any rules, in any order |
| `FixtureCaptureProofs!LeavesAsFound` | `LeftAsFound`, in every conversation |
| `FixtureCaptureProofs!FixturesEarned` | `FixturesAreEarned`, whatever a server answers, in whole or in part, and whatever the rules |
| `FixtureCaptureProofs!CapturesAgreed` | `CapturesAgree`, for any number of captures, any rules and any moments |

**The arguments.** None of the properties is inductive by itself.

*Pool.* `HoldsLane` ties `lane` to `pc`, and with it `TypeOK` is inductive. `LanesInv` adds that a
lane that is not idle is lent, and that a request that has not built a lane yet owns none. `BoundInv` bounds permits by
connections, and lanes by permits and idle lanes: a lane is built only with the idle list empty, and
then every lane is held by somebody else with a permit. `BeliefInv` says more than
`BeliefGrounded`: while a request of its own is in flight on a lane, its origin is not believed, so
losing the connection disproves nothing. For the gate, `AcceptedInv` traces every free pass
(`proven`, a served connection, a warm lane) to an accepted handshake, and `TurnsInv` says whoever is
past the gate holds the turn or has such a pass. `SpareInv` follows a request from waiting to
refused by comparing the count it read with the count now. `EarnedInv` traces each counted refusal to
a request that was refused by that origin in a handshake of its own (`Witnessed`), and `AttemptInv`
says that whoever is in a handshake has begun one. The refinement then maps steps inside a
handshake to `Begin` and `End`, a recorded refusal to `Spare`, and everything else to stuttering.

*Session.* `FlightInv`: what the server works on or has answered is what the session awaits, whether
or not anybody waits for it still; so a request goes out only when nothing is in flight. `CookieInv`
places the current cookie: in the jar until the server answers, in the answer until it is taken.
`RowsInv` follows the handles of a batch from the caller through the server and back: a bound slot
names what the caller held, a slot the batch opened names a handle nobody remembers columns for, and
what the server has for either is what the reply will be decoded with, as far as the batch has run.
It needs a batch to be `WellBuilt`: nothing is opened or configured in a bound slot, a table is
configured at most once and never opened anew, and releases come last. The batches of this repository's
callers are; that the code decodes others with refused columns is among the differences above.

*Kerberos.* `TurnInv`: whoever is between check and reply holds its account's lock. `TgtInv`: a
request under way started from the password or from its account's cached TGT, which no other
handshake can change meanwhile; tickets are numbered, so a TGT refused is in no cache again.
`SparedInv`: whoever waited while the same ticket was got is before its second look at the cache, and
finds it fresh or blocked until it looks. `KdcInv`: while one account tries a KDC, the list known is the list
it tries from, so moving the KDC that answers to the front puts it first; two accounts that share a
realm may overwrite each other's list, and the theorem is not about them.

*KDC messages.* `MessagesInv` counts what may still be sent in the realm being asked, three messages
to a realm and two more in all. `ClientsOwn`: along the referrals the ticket presented changes its
realm, and the client it names stays the client of the TGT that is kept. For the good account, `OnTheWay`
says that the realms visited refer one to the next, without the service's among them, and that the referrals
from the account's realm are those taken and those still to take (`Hops`); so a refusal for the
limit, or in a realm that refers nowhere, is earned, and realms that refer to each other only lead
nowhere at any limit (`NoWay`). What the recursive function `Hops` computes is proved by a set's induction,
as for *Calls*.

*Handshakes.* `RunsInv`: the request has not been run while a leg is still to be sent. For the
reports, `Sound` says a handshake under way has either offered a ticket, and sent an AP-REQ, or is
NTLM's from its start, and `Grows` that an answer adds the server's proof only when the token it carried
is one; `ReportInv` carries both to the place where the mechanism is reported. For the good credential,
`GetsInv` names the five places a leg can be in (`Offering`, `Retrying`, `Chosen`, `Authenticating`,
`Completing`): in each, what the client says next is what the server expects on the connection of the last
reply. One lemma per place says what an honest server can answer (`ToTicket`, `ToRetry`, `ToNegotiate`,
`ToAuthenticate`, `ToComplete`), and one what the client makes of it; so a server starts over only on
another connection, which the client sees (`Moved`), or for a stale ticket. `Forgetting` adds that the
ticket of a handshake that was refused is not there for the next.

*Search.* `PlaceInv`: the queue and what has been asked are together the places the search began with
and those it was sent to. `ListInv`: what is listed, what is being looked up and what is still to do
are all mailboxes there are, in their order. `ClientInv`: a session's number is below the counter of
the identity it was drawn from.

*Calls.* `RestInv`: a call that is not under way is where its kind of call begins, and whatever waits
for an answer waits on a connection that can be used; so nothing is asked of one that was lost. `TableInv`
accounts for the rows: those the server has passed are given, on the page, or went with an error, in
their order. `StreamInv` and `DraftInv` say the same of a value's bytes and of an item's attachments,
`OpenInv` of the handles. For the calls of one round trip, `LeftInv` says that what is reached can be
reached, and the lemma that every batch is `Balanced` does the rest: whatever it opens it releases
further on, and the server runs releases past a refusal. `NamesInv`: a name that is asked for is not in
the cache, so that the answer's entry is the first of its name; it assumes that "zero" and "unasked", which
stand for no id and for a name not in the cache, are not themselves names. `ToldInv`: a call that waits
finds the mailbox it began with (`AtHand`). A batch that was not refused did each of its ROPs in their
order (`Traces`); an update's are each there once, the first to set and the last to save and send
(`InTurn`), so what it is told of is what the server reported (`Edited`, `Reported`); and the answers to
conversions, if there are enough, are one for each folder, in the folders' order (`Pairs`).

*Captures.* `PrivateInv`: while anything may be written, the rules are all those that were read, so that what is
on the disk has been put to each. That no name is left is then about the order of the rules alone: a rule
for a spelling leaves none of that spelling, and none after it brings one back, since what it puts in is never
one (`Untold`). `PlaceInv` keeps the conversation in its script, and says that one that is to succeed ends well
only at its end with nothing failed, its cleanup included. With it, `LeftInv` says for each step of the two
conversations that write what may be in the mailbox there, as long as the connection lives and the cleanup has not
failed: nothing before the save and after the sweep, its own message between, and after a move the
same message under its new name in the other folder (`WritesLeft`, `ActsLeft`). A message is known by its number, and
the count only grows, so what is found in a folder of one message is the message that was looked for. For
the fixtures, `ToldInv` and `HeardInv` say that as long as nothing has failed what was heard is one exchange for each
step so far that has a label, and that what was refused in it is what has to be or may be
(`Meant`); `EarnedInv` carries that to the disk exchange by exchange, since neither the rules nor the zeroing of
identifiers adds or takes away a refusal (`ApplyKeeps`, `RefusedShown`). That captures agree is in two halves. A fixture depends on its exchange's shape alone:
whatever the moment puts into headers, preamble, auxiliary buffer and times is gone once they are normalised,
but for which of it the list of changes names, and that is settled by which readings were 0 (`Stilled`);
no rule is about any of it (`NameRules`), and two exchanges that name the identifiers of their declarations in the same
places are zeroed alike, at the same counts, if no declaration has one value twice (`FixtureAgrees`). And an
exchange names nothing that is not declared (`SaidInv`): followed step by step, a conversation that began with an empty
mailbox is told of its own message only, under the identifier it was saved with and then the one it was moved
to, which differ. So every capture is made of such a conversation at some moment (`MadeInv`), and two
of one shape were given as much as each other (`GoodPairs`). The proofs assume of a file of rules that its lines come in an order and that only a
file that is given has any.

How a batch goes, how the rules are put to a text one after another, and what a filter keeps, are
recursive functions over a sequence. What they compute is proved by an induction that is a set's: the
places up to which the claim holds contain the first, and each that follows one of theirs
(`SetInduction`, `BoundedInduction`).

**Only model-checked.** Liveness (`EveryRequestEnds`, `EveryHandshakeEnds`, `EveryCallReturns`,
`EverySearchEnds`) is beyond the prover. `RopExchange` and what it uses read bytes recursively, with
operators of TLC's alone, so nothing is proved there: its three invariants are the only ones without a
theorem. The type invariants of the modules are proved as far as the arguments need them.

## What is not modelled, and why

- **Cryptography and DER** (`negotiate-auth/src/crypto.rs`, `der.rs`, `kerberos/crypto.rs`,
  `kerberos/asn1.rs`): functions from bytes to values, covered by published vectors. A key that opens
  what was sealed under it and nothing else is all the models need of them.
- **Autodiscover XML, HTTP headers, one-off entry ids**: pure data. The models let an answer
  be unreadable whenever it can be.
- **What a PING is answered**: nothing a later step depends on.
- **The authenticator's clock** (`kerberos.rs:425-446`): one loop that updates one counter with
  compare-and-swap, which nothing else reads.
- **SRV weighting and the system resolver**: an order of KDCs that `KerberosTickets` leaves open.
- **The command line beyond `capture`, and the scripts**: one library call after another and printing.
- **Two slots of one batch bound to one handle**, and batches no caller builds.
- **The lost answer to the buffer that submits** (`draft.rs:353`) is in the model, which lets the
  buffer have run or not, but no property is about it: nothing promises otherwise.

## The plan

Done, in this order: the pool and its gate with proofs; the session; Kerberos tickets; tables,
streams and drafts over one connection; the Autodiscover search; proofs about the session and the
tickets; the legs of a handshake; the Kerberos client; the buffers and the batch builder to the byte;
the mailbox objects; clients and their identity; the fixture capture; the proofs that refusals are
earned, that rows decode with their columns, and about the tickets, the KDC messages, the handshakes,
the search, every safety property of the calls on one connection, and every one of the captures. What is left:

1. **Two accounts** in `KerberosTickets`, sharing one realm's KDCs and its windows.
2. **The authenticator's clock** (`kerberos.rs:436`): strictly increasing stamps, and a proof of it.
3. **SRV order** (`kdc.rs`): a KDC of a higher priority is asked first, whatever the weights.
