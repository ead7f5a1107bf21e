------------------------------ MODULE Normalise ------------------------------
(***************************************************************************)
(* Taking out of an exchange what differs on every capture of a server     *)
(* that has not changed: crates/mapi-cli/src/normalise.rs for the response *)
(* and crates/mapi-cli/src/meta.rs for the headers.                        *)
(*                                                                         *)
(* A response is its preamble, a sequence of tags and values (empty where  *)
(* there is none, as before an HTML error page), and a body whose fields   *)
(* are the anchors the code checks and the values it clears:               *)
(*   status, error   the two codes that lead it                            *)
(*   retryDelay      Connect's                                             *)
(*   logon, times    whether the first ROP is a RopLogon that succeeded,   *)
(*                   and its clock readings                                *)
(*   content         everything else                                       *)
(*   declared, aux   AuxiliaryBufferSize and what follows it               *)
(* A change is the name of the field it is about.                          *)
(***************************************************************************)
EXTENDS Scrub

VolatileMetaTags == {"X-ElapsedTime", "X-StartTime"}
Canonical == 0      \* a volatile value's replacement, in the preamble and in the body

HasPreamble(payload) == payload.preamble # <<>>

\* preamble: every volatile tag's value is the canonical one; only those that were not are changes.
Preamble(payload) ==
    LET lines == payload.preamble
        moved(line) == line[1] \in VolatileMetaTags /\ line[2] # Canonical
    IN  [payload |-> [payload EXCEPT !.preamble =
             [i \in DOMAIN lines |-> IF lines[i][1] \in VolatileMetaTags
                                       THEN <<lines[i][1], Canonical>> ELSE lines[i]]],
         changes |-> FlattenSeq([i \in DOMAIN lines |->
             IF moved(lines[i]) THEN <<<<"preamble", lines[i][1]>>>> ELSE <<>>])]

\* One field set to the canonical value where the anchors hold, a change only if it was not.
Cleared(payload, field, anchored) ==
    IF anchored /\ payload[field] # Canonical
      THEN [payload |-> [payload EXCEPT ![field] = Canonical], changes |-> <<<<"body", field>>>>]
      ELSE [payload |-> payload, changes |-> <<>>]

Succeeded(payload) == payload.status = 0 /\ payload.error = 0

RetryDelay(payload) == Cleared(payload, "retryDelay", payload.status = 0)

LogonTimes(payload) == Cleared(payload, "times", Succeeded(payload) /\ payload.logon)

AuxiliaryInPlace(payload, anchored) ==      \* mutant: zeroed where it is, and as long as it was
    [payload |-> IF anchored THEN [payload EXCEPT !.aux = [i \in DOMAIN @ |-> <<"zeroed">>]]
                             ELSE payload, changes |-> <<>>]

\* Nothing is touched unless as much follows the declared size as it says.
Auxiliary(payload, anchored) ==
    IF anchored /\ payload.declared > 0 /\ Len(payload.aux) = payload.declared
      THEN [payload |-> [payload EXCEPT !.declared = 0, !.aux = <<>>],
            changes |-> <<<<"body", "auxiliary">>>>]
      ELSE [payload |-> payload, changes |-> <<>>]

\* Where the declared size can be found: past two names in a Connect, past the ROPs in an Execute.
ConnectAnchored(payload) == payload.status = 0
ExecuteAnchored(payload) == Succeeded(payload)

\* normalise::response: the preamble first, then the fields of the body that starts after it.
Response(requestType, payload) ==
    LET preamble == Preamble(payload)
        cleared == CASE requestType = "Connect" -> RetryDelay(preamble.payload)
                     [] requestType = "Execute" -> LogonTimes(preamble.payload)
                     [] OTHER -> [payload |-> preamble.payload, changes |-> <<>>]
        emptied == CASE requestType = "Connect" -> Auxiliary(cleared.payload, ConnectAnchored(payload))
                     [] requestType = "Execute" -> Auxiliary(cleared.payload, ExecuteAnchored(payload))
                     [] OTHER -> [payload |-> cleared.payload, changes |-> <<>>]
    IN  IF HasPreamble(payload)
          THEN [payload |-> emptied.payload,
                changes |-> preamble.changes \o cleared.changes \o emptied.changes]
          ELSE [payload |-> payload, changes |-> <<>>]

-----------------------------------------------------------------------------
(* meta.rs: headers.  A header is its name and a value, a sequence: a GUID  *)
(* and a counter, the name and value pairs of a cookie, or anything.       *)

VolatileHeaders ==
    {"X-RequestId", "X-ClientInfo", "Cookie", "Set-Cookie", "Date", "X-ElapsedTime", "request-id"}

ZeroGuid == <<"guid", 0>>
Normalised == <<"normalised">>

\* The GUID goes, the counter after it stays.
KeepCounter(value) == IF Len(value) > 1 THEN <<ZeroGuid, Last(value)>> ELSE <<ZeroGuid>>

\* The attributes of a cookie that a deployment fixes; every other pair is a clock or the session's.
FixedPairs == {"path", "domain", "samesite", "version", "secure", "httponly"}

RedactCookie(value) ==
    [i \in DOMAIN value |-> IF value[i][1] \in FixedPairs THEN value[i] ELSE <<value[i][1], Normalised>>]

Replacement(name, value) ==
    CASE name \in {"X-RequestId", "X-ClientInfo"} -> KeepCounter(value)
      [] name \in {"Cookie", "Set-Cookie"} -> RedactCookie(value)
      [] OTHER -> <<Normalised>>

\* Each value scrubbed and, where it is volatile, replaced.
NormaliseHeaders(headers, rules, tally) ==
    FoldLeft(LAMBDA done, header :
        LET scrubbed == ScrubText(header[2], rules, done.tally)
        IN  IF header[1] \in VolatileHeaders
              THEN [headers |-> Append(done.headers, <<header[1], Replacement(header[1], scrubbed.content)>>),
                    changes |-> Append(done.changes, <<"header", header[1]>>),
                    tally |-> scrubbed.tally]
              ELSE [headers |-> Append(done.headers, <<header[1], scrubbed.content>>),
                    changes |-> done.changes,
                    tally |-> scrubbed.tally],
        [headers |-> <<>>, changes |-> <<>>, tally |-> tally], headers)

=============================================================================
