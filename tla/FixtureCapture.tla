--------------------------- MODULE FixtureCapture ---------------------------
(***************************************************************************)
(* `mapi-cli capture`: a conversation held with the server, and the files  *)
(* made of it.  crates/mapi-cli/src/scenario.rs (capture, load_rules) and  *)
(* crates/mapi-cli/src/capture.rs, over Scenario for the conversation and  *)
(* Scrub and Normalise for the bytes.                                      *)
(*                                                                         *)
(* The same conversation is captured Rounds times, one after the other,    *)
(* with the same rules into the same directory, against one mailbox: as    *)
(* Verify-Fixtures.ps1 does to see whether the server has changed.         *)
(***************************************************************************)
EXTENDS Normalise, Scenario

CONSTANTS
    RuleFiles,  \* what --scrub may name: records of whether a file is given, --no-scrub, its lines
    NameOrder,  \* the names, in the order of their bytes
    Rounds,
    Moments     \* when a capture may be made: what the server's clocks and counters read

\* Lines come in an order, and only a file that is given has any.
ASSUME RuleFilesAssumption ==
    \A f \in RuleFiles : f.lines \in Seq(Range(f.lines)) /\ (~f.given => f.lines = <<>>)

\* A moment's readings are its `clock`, but for those in `still`, each the number of an exchange and
\* the name of a reading, which are 0.
ASSUME MomentsAssumption == \A m \in Moments : m.clock \in Nat \ {0}

VARIABLES
    round,      \* which capture this is
    moment,     \* when it was made, or None
    step,       \* "rules", "talk", "write" or "over"
    result,     \* how the last capture that is over ended
    file,       \* the rules file
    rules,      \* the rules that were read from it
    directory,  \* the fixtures on the disk, one to an exchange
    redacted,   \* how many redactions this capture has counted
    before,     \* the mailbox when the conversation began
    captures    \* history: each capture that succeeded

captureVars == <<round, moment, step, result, file, rules, directory, redacted, before, captures>>
vars == <<scenarioVars, captureVars>>

-----------------------------------------------------------------------------
(* What is on the wire at a moment `when`: the clocks, the cookies and the  *)
(* GUIDs are the moment's.  The code looks at whether five of them are 0:   *)
(* "elapsed" and "start" of the preamble, "delay" and "aux" of a Connect,   *)
(* "times" of a logon.                                                     *)

Readings == {"elapsed", "start", "delay", "aux", "times"}

Reading(when, i, what) == IF <<i, what>> \in when.still THEN 0 ELSE when.clock

\* The readings of exchange i that are 0.
StillAt(when, i) == {what \in Readings : Reading(when, i, what) = 0}

RequestType(exchange) ==
    CASE exchange.call = "ping" -> "PING"
      [] exchange.call = "connect" -> "Connect"
      [] exchange.call = "disconnect" -> "Disconnect"
      [] OTHER -> "Execute"

Identifier(n) == <<"id", n>>
Identifiers(ns) == [i \in DOMAIN ns |-> Identifier(ns[i])]
Refusal(what) == <<"refused", what>>

RequestBody(exchange) ==
    (IF exchange.call \in {"connect", "logon"} THEN <<Spelled("text", "written", "dn")>> ELSE <<>>)
    \o Identifiers(exchange.asks)

Endpoint == <<Spelled("text", "lower", "host"), Spelled("text", "written", "guid")>>

Cookie(when) == <<"MapiContext", when.clock>>

RequestHeaders(exchange, i, when) ==
    <<<<"X-RequestId", <<<<"guid", when.clock>>, <<"counter", i>>>>>>,
      <<"X-RequestType", <<<<"is", RequestType(exchange)>>>>>>>>
    \o IF exchange.call \in {"ping", "connect"} THEN <<>> ELSE <<<<"Cookie", <<Cookie(when)>>>>>>

ResponseHeaders(exchange, when) ==
    <<<<"X-FEServer", <<Spelled("text", "upper", "host")>>>>,
      <<"Date", <<<<"clock", when.clock>>>>>>>>
    \o IF exchange.call = "connect" THEN <<<<"Set-Cookie", <<Cookie(when), <<"path", "mapi">>>>>>>> ELSE <<>>

\* The names in an answer: a display name, the mailbox's GUID or its name in a redirect, an address.
Told(exchange) ==
    CASE exchange.call = "connect" -> <<Spelled("utf16", "written", "dn")>>
      [] exchange.call = "logon" ->
            IF exchange.refused = "call" THEN <<Spelled("text", "written", "guid")>>
                                         ELSE <<Spelled("bytes", "written", "guid")>>
      [] exchange.call = "read" -> <<Spelled("utf16", "upper", "dn")>>
      [] OTHER -> <<>>

\* A Connect's answer carries the server's own name in a buffer as long as the server likes.
ResponseBody(exchange, i, when) ==
    LET connecting == exchange.call = "connect"
        loggedOn == exchange.call = "logon" /\ exchange.refused = "nothing"
        size == IF connecting THEN Reading(when, i, "aux") ELSE 0
    IN  [preamble |-> <<<<"X-ElapsedTime", Reading(when, i, "elapsed")>>,
                        <<"X-StartTime", Reading(when, i, "start")>>>>,
         status |-> 0,
         error |-> IF connecting /\ exchange.refused = "call" THEN 1 ELSE 0,
         retryDelay |-> IF connecting THEN Reading(when, i, "delay") ELSE 0,
         logon |-> loggedOn,
         times |-> IF loggedOn THEN Reading(when, i, "times") ELSE 0,
         content |-> Told(exchange) \o Identifiers(exchange.tells)
                     \o (IF exchange.refused = "nothing" THEN <<>> ELSE <<Refusal(exchange.refused)>>),
         declared |-> size,
         aux |-> [k \in 1..size |-> Spelled("text", "upper", "host")]]

-----------------------------------------------------------------------------
(* write_scenario, of one exchange                                         *)

NarrowestAssigned == 8
AssignedWidth(what) == 8        \* a message's identifier, and a mailbox's size

WideEnough == \A i \in DOMAIN assigned : AssignedWidth(assigned[i].what) >= NarrowestAssigned

Zero == <<"zero">>

\* Every declared value zeroed wherever it is, and how often each was.
ZeroAssigned(content, declared) ==
    LET values == {Identifier(declared[i].value) : i \in DOMAIN declared}
        count(i) == Cardinality(Occurrences(content, Identifier(declared[i].value)))
    IN  [content |-> [i \in DOMAIN content |-> IF content[i] \in values THEN Zero ELSE content[i]],
         changes |-> SelectSeq([i \in DOMAIN declared |-> <<"assigned", declared[i].what, count(i)>>],
                               LAMBDA change : change[3] > 0)]

\* The report of a placeholder is text, whatever was replaced.
Label(spelling) ==
    Spelled("text", IF spelling[2] = "bytes" THEN "lower" ELSE spelling[3], spelling[4])

Stem(i, exchange) ==
    <<i, RequestType(exchange)>> \o IF exchange.label = "" THEN <<>> ELSE <<exchange.label>>

\* Normalised, the declared values zeroed, scrubbed: in that order.
FixtureOf(i, exchange, declared, scrubbers, when) ==
    LET plain == Response(RequestType(exchange), ResponseBody(exchange, i, when))
        asked == ZeroAssigned(RequestBody(exchange), declared)
        answered == ZeroAssigned(plain.payload.content, declared)
        request == Apply(scrubbers, asked.content)
        content == Apply(scrubbers, answered.content)
        aux == Apply(scrubbers, plain.payload.aux)
        url == ScrubText(Endpoint, scrubbers, Merge(request.hits, Merge(content.hits, aux.hits)))
        sent == NormaliseHeaders(RequestHeaders(exchange, i, when), scrubbers, url.tally)
        got == NormaliseHeaders(ResponseHeaders(exchange, when), scrubbers, sent.tally)
    IN  [stem |-> Stem(i, exchange),
         request |-> request.content,
         response |-> [plain.payload EXCEPT !.content = content.content, !.aux = aux.content],
         url |-> url.content,
         sent |-> sent.headers,
         got |-> got.headers,
         changes |-> plain.changes \o asked.changes \o answered.changes
                     \o sent.changes \o got.changes,
         redactions |-> got.tally]

Fixture(i) == FixtureOf(i, told[i], assigned, rules, moment)

Flat(headers) == FlattenSeq([i \in DOMAIN headers |-> headers[i][2]])

\* Everything of a fixture that is in its three files.
Text(fixture) ==
    fixture.request \o fixture.response.content \o fixture.response.aux \o fixture.url
    \o Flat(fixture.sent) \o Flat(fixture.got)
    \o [i \in DOMAIN fixture.redactions |-> Label(fixture.redactions[i][1])]

Survived(fixture) == Find(rules, Text(fixture))

Redactions(fixture) == FoldLeft(LAMBDA sum, hit : sum + hit[2], 0, fixture.redactions)

-----------------------------------------------------------------------------
Finish(ending) == step' = "over" /\ result' = ending

\* No file and no --no-scrub, or a file that is wrong, and nothing is sent at all.
LoadRules ==
    /\ step = "rules"
    /\ LET parsed == Parse(file.lines, NameOrder)
           refused == IF file.given THEN parsed.error # "none" ELSE ~file.noScrub
       IN  IF refused
             THEN Finish("failed") /\ UNCHANGED <<rules, redacted, before, scenarioVars>>
             ELSE /\ rules' = IF file.given THEN parsed.rules ELSE <<>>
                  /\ step' = "talk" /\ redacted' = 0 /\ before' = mailbox
                  /\ StartOver(doing) /\ UNCHANGED <<result, serverVars>>
    /\ UNCHANGED <<round, moment, file, directory, captures>>

Converse ==
    /\ step = "talk"
    /\ Talk
    /\ UNCHANGED captureVars

\* What the conversation came to: nothing is written of one that failed or was never heard.  The
\* moment was that of the conversation; nothing has looked at it before the files are made.
Gather ==
    /\ step = "talk" /\ ended # "no"
    /\ IF ended = "ok" /\ told # <<>> /\ WideEnough
         THEN step' = "write" /\ directory' = <<>> /\ moment' \in Moments /\ UNCHANGED result
         ELSE Finish("failed") /\ UNCHANGED <<directory, moment>>
    /\ UNCHANGED <<round, file, rules, redacted, before, captures, scenarioVars>>

WriteExchange ==
    /\ step = "write" /\ Len(directory) < Len(told)
    /\ LET fixture == Fixture(Len(directory) + 1)
       IN  IF Survived(fixture) # {}
             THEN Finish("failed") /\ UNCHANGED <<directory, redacted>>
             ELSE /\ directory' = Append(directory, fixture)
                  /\ redacted' = redacted + Redactions(fixture)
                  /\ UNCHANGED <<step, result>>
    /\ UNCHANGED <<round, moment, file, rules, before, captures, scenarioVars>>

\* A file cannot be written: what there is of the directory stays.
DiskFails ==
    /\ step = "write" /\ Len(directory) < Len(told)
    /\ Finish("failed")
    /\ UNCHANGED <<round, moment, file, rules, directory, redacted, before, captures, scenarioVars>>

Shape(exchange) == <<exchange.call, exchange.label, exchange.refused,
                     Len(exchange.asks), Len(exchange.tells)>>

\* Rules that matched nothing at all fail the capture, whose files stay.
Close ==
    /\ step = "write" /\ Len(directory) = Len(told)
    /\ IF rules # <<>> /\ redacted = 0
         THEN Finish("failed") /\ UNCHANGED captures
         ELSE /\ Finish("ok")
              /\ captures' = Append(captures,
                   [files |-> directory,
                    shape |-> [i \in DOMAIN told |-> Shape(told[i])],
                    still |-> [i \in DOMAIN told |-> StillAt(moment, i)],
                    clean |-> \A f \in Folders : before[f] = {}])
    /\ UNCHANGED <<round, moment, file, rules, directory, redacted, before, scenarioVars>>

Again ==
    /\ step = "over" /\ round < Rounds
    /\ round' = round + 1 /\ moment' = None /\ step' = "rules"
    /\ UNCHANGED <<result, file, rules, directory, redacted, before, captures, scenarioVars>>

Init ==
    /\ round = 1 /\ moment = None /\ step = "rules" /\ result = "none"
    /\ file \in RuleFiles
    /\ rules = <<>> /\ directory = <<>> /\ redacted = 0 /\ captures = <<>>
    /\ doing \in Conversations /\ place = 1 /\ own = None /\ found = None
    /\ outcome = "fine" /\ swept = "fine" /\ alive = TRUE /\ ended = "no"
    /\ told = <<>> /\ assigned = <<>>
    /\ mailbox = [f \in Folders |-> {}] /\ minted = 0
    /\ before = mailbox

Next == LoadRules \/ Converse \/ Gather \/ WriteExchange \/ DiskFails \/ Close \/ Again

Spec == Init /\ [][Next]_vars

-----------------------------------------------------------------------------
(* Properties *)

Began == \A f \in Folders : before[f] = {}
Mine(folder) == {m \in mailbox[folder] : m.by = doing}

Comparable(one, other) == one.clean /\ other.clean /\ one.shape = other.shape

\* All of a fixture but its list of what was normalised.
Unlisted(fixture) == [fixture EXCEPT !.changes = <<>>]

\* Two captures of a server that answers the same, neither of which found what an earlier one had
\* left behind, are the same files in all but the [normalised] list, whatever the clocks, cookies and
\* identifiers were.  The list too is the same of an exchange in which the same readings were 0: a
\* value that is 0 already is not listed (normalise.rs preamble), so a clock that reads 0 in one
\* capture alone is a difference to Verify-Fixtures.ps1, and one that no other clock can make
\* (normalise.rs, capture.rs zero_assigned).
CapturesAgree ==
    \A i, j \in DOMAIN captures :
        LET one == captures[i]
            other == captures[j]
        IN  Comparable(one, other) =>
                /\ DOMAIN one.files = DOMAIN other.files
                /\ \A k \in DOMAIN one.files :
                      /\ Unlisted(one.files[k]) = Unlisted(other.files[k])
                      /\ one.still[k] = other.still[k] => one.files[k] = other.files[k]

\* No name that a rule is about is in any fixture on the disk, of a capture that ended well or not,
\* in any of the three casings and either encoding, its [redacted] section included (scrub.rs
\* expand_text, find).  The raw copies of --raw, which are what was on the wire, are not looked at.
NothingPrivateIsWritten ==
    \A i \in DOMAIN directory :
        LET text == Range(Text(directory[i]))
        IN  \A l \in DOMAIN file.lines :
                LET needle == file.lines[l].needle
                IN  /\ file.lines[l].kind = "text" =>
                          text \cap {Spelled(e, c, needle) : e \in {"text", "utf16"}, c \in Casings} = {}
                    /\ file.lines[l].kind = "bytes" => Spelled("bytes", "written", needle) \notin text

\* A conversation that ends well has left the mailbox as it found it, and its message is left there
\* by one that fails only if the connection was lost, the cleanup failed or the answer to the save
\* was unfit: never because an earlier step failed (writes.rs, acts.rs sweep).
LeftAsFound ==
    (ended # "no" /\ Began) =>
        /\ ended = "ok" => mailbox = before
        /\ (\E f \in Folders : Mine(f) # {}) =>
              \/ ~alive
              \/ swept = "failed"
              \/ Script(doing)[place].call = "create"

Refusals == {"call", "property", "needed", "others"}
RefusedIn(fixture) == {what \in Refusals : Refusal(what) \in Range(fixture.response.content)}
LabelOf(fixture) == Last(fixture.stem)

\* What is refused in a fixture of this label when the conversation succeeds, and what may be.
MustRefuse(label) ==
    CASE label = "submit-refused" -> {"call"}
      [] label = "properties-refused" -> {"property"}
      [] OTHER -> {}

MayRefuse(label) ==
    MustRefuse(label)
    \cup (IF label \in CreateSteps THEN {"property"} ELSE {})
    \cup (IF label \in FolderSteps THEN {"others"} ELSE {})

\* What a conversation that is to succeed leaves on the disk is whole, and what the server refused in
\* it is what it was meant to or may: the one submit and no other call, the one property and
\* otherwise none but a draft's, and the conversions of special folders the step can do without. A
\* step that failed, however early, is not forgotten by the time the cleanup has gone well
\* (scenario.rs, session.rs, acts.rs, writes.rs, logon.rs convert).
FixturesAreEarned ==
    doing \in {"session", "items", "writes", "acts"} =>
        /\ \A i \in DOMAIN directory :
              LET label == LabelOf(directory[i])
                  refused == RefusedIn(directory[i])
              IN  MustRefuse(label) \subseteq refused /\ refused \subseteq MayRefuse(label)
        /\ \A i \in DOMAIN captures :
              {captures[i].files[k].stem[3] : k \in
                   {n \in DOMAIN captures[i].files : Len(captures[i].files[n].stem) = 3}}
                = {Script(doing)[k].label : k \in DOMAIN Script(doing)} \ {""}

=============================================================================
