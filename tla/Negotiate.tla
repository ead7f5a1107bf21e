------------------------------ MODULE Negotiate -----------------------------
(***************************************************************************)
(* One NTLM or SPNEGO handshake, as the client keeps it: Handshake of      *)
(* crates/negotiate-auth/src/handshake.rs, its Kerberos side of            *)
(* handshake/kerberos.rs and the security context of kerberos/gss.rs.      *)
(*                                                                         *)
(* Each operator takes a handshake and a server's WWW-Authenticate value   *)
(* and returns whether the value will do, the handshake after it and the   *)
(* message that answers it.                                                *)
(*                                                                         *)
(* Abstractions.  A token is the record of its fields.  A key opens what   *)
(* was sealed under it and nothing else does, so an AP-REP or a Kerberos   *)
(* MIC is known by the AP-REQ it answers: 1 for the first, 2 for the one   *)
(* after a skew error, 0 for any other handshake's, -1 for a forgery.      *)
(***************************************************************************)
EXTENDS Integers

Mechanisms == {"Kerberos", "Ntlm"}

\* What carries no mechanism token, or no mechListMIC.
Absent == [kind |-> "none", of |-> 0]

NegStates == {"reject", "request-mic", "other"}      \* negState, absent or present

Tokens ==
    {Absent} \cup [kind : {"challenge", "silent-challenge", "skew", "krb-error", "junk"}, of : {0}]
             \cup [kind : {"ap-rep"}, of : -1..2]

Mics == {Absent, [kind |-> "ntlm", of |-> 0]} \cup [kind : {"kerberos"}, of : -1..2]

\* A WWW-Authenticate value for the scheme: none, the bare name, one that does not parse, a token.
Value(form, state, mech, token, mic) ==
    [form |-> form, state |-> state, mech |-> mech, token |-> token, mic |-> mic]

NoValue == Value("absent", "other", "none", Absent, Absent)
Bare    == Value("bare", "other", "none", Absent, Absent)
Garbled == Value("garbled", "other", "none", Absent, Absent)

\* An Authorization value: the first token of a context, or a later one.
Message(kind, first, of, bound, mic) ==
    [kind |-> kind, first |-> first, of |-> of, bound |-> bound, mic |-> mic]

NoMessage == Message("none", TRUE, 0, FALSE, Absent)

-----------------------------------------------------------------------------
(* Handshake *)

\* Handshake::new, or Handshake::kerberos when there is a ticket to offer.
NewHandshake(scheme, offers) ==
    [scheme |-> scheme, state |-> "ready", mechanism |-> "none", bound |-> FALSE,
     negotiate |-> FALSE,       \* negotiate_message: NTLM's first message has been sent
     signs |-> FALSE,           \* negotiated: the session has a signature for a mechListMIC
     side |-> offers, sent |-> 0, proven |-> FALSE]

Handshakes ==
    [scheme : {"NTLM", "Negotiate"}, state : {"ready", "awaiting", "complete"},
     mechanism : Mechanisms \cup {"none"}, bound : BOOLEAN, negotiate : BOOLEAN, signs : BOOLEAN,
     side : BOOLEAN, sent : 0..2, proven : BOOLEAN]

Refuse(h) == [ok |-> FALSE, h |-> h, out |-> NoMessage]
Send(h, message) == [ok |-> TRUE, h |-> h, out |-> message]

\* Initiator::token: the next AP-REQ, with a time and a subkey of its own.
ApReq(h) == Message("ap-req", h.sent = 0, h.sent + 1, h.bound, Absent)

Initial(h) ==
    CASE h.state # "ready" -> Refuse(h)
      [] h.state = "ready" /\ h.side ->
           Send([h EXCEPT !.state = "awaiting", !.sent = 1], ApReq(h))
      [] OTHER ->
           Send([h EXCEPT !.state = "awaiting", !.mechanism = "Ntlm", !.negotiate = TRUE],
                Message("ntlm-negotiate", TRUE, 0, FALSE, Absent))

\* Handshake::select: named, chosen before, or else the one preferred; "none" is one not offered.
Select(h, v) ==
    CASE v.mech = "Kerberos" -> IF h.side THEN "Kerberos" ELSE "none"
      [] v.mech = "Ntlm" -> "Ntlm"
      [] v.mech = "other" -> "none"
      [] v.mech = "none" /\ h.mechanism # "none" -> h.mechanism
      [] OTHER -> IF h.side THEN "Kerberos" ELSE "Ntlm"

\* The third NTLM message.  The SPNEGO one signs the mechanism list when the session can.
Authenticate(h, token, required) ==
    LET signs == token.kind = "challenge"
        mic == IF h.scheme = "Negotiate" /\ signs THEN [kind |-> "ntlm", of |-> 0] ELSE Absent IN
    IF token.kind \notin {"challenge", "silent-challenge"} \/ (required /\ ~signs)
      THEN Refuse(h)
      ELSE Send([h EXCEPT !.state = "complete", !.signs = signs],
                Message("ntlm-authenticate", FALSE, 0, h.bound, mic))

\* The NTLM half of advance: a server that chose it over the ticket is sent its first message.
NtlmAnswer(h, v) ==
    CASE v.state = "reject" -> Refuse(h)
      [] v.state # "reject" /\ ~h.negotiate ->
           Send([h EXCEPT !.negotiate = TRUE],
                Message("ntlm-negotiate", FALSE, 0, FALSE, Absent))
      [] OTHER -> Authenticate(h, v.token, v.state = "request-mic" \/ h.side)

-----------------------------------------------------------------------------
(* The Kerberos side *)

\* Initiator::read of an AP-REP: it repeats the time of the last AP-REQ.
Proves(h, token) == token.kind = "ap-rep" /\ token.of = h.sent

\* Initiator::read of a KRB_AP_ERR_SKEW: retried once.
Retries(h, token) == token.kind = "skew" /\ h.sent = 1

\* Initiator::verify_mic, under the keys of the last AP-REQ.
Verifies(h, mic) == mic.kind = "kerberos" /\ mic.of = h.sent

\* A 401 to the AP-REQ: a skew error to retry, or an AP-REP and a signature to exchange.
KerberosAnswer(h, v) ==
    CASE Retries(h, v.token) -> Send([h EXCEPT !.sent = 2], ApReq(h))
      [] /\ Proves(h, v.token)
         /\ v.mic # Absent \/ v.state = "request-mic"
         /\ v.mic # Absent => Verifies(h, v.mic) ->
           Send([h EXCEPT !.proven = TRUE, !.state = "complete"],
                Message("complete", FALSE, h.sent, FALSE, [kind |-> "kerberos", of |-> h.sent]))
      [] OTHER -> Refuse(h)

KerberosFinishUnproven(h, v) == \* mutant: a success without an AP-REP will do
    IF h.state # "ready" /\ v.form # "garbled" /\ (v.form = "token" => v.state # "reject")
      THEN Send([h EXCEPT !.mechanism = "Kerberos", !.state = "complete"], NoMessage)
      ELSE Refuse(h)

\* The success that ended it: the AP-REP, unless a 401 carried it, and the signature if there is one.
KerberosFinish(h, v) ==
    IF /\ h.state # "ready" /\ v.form # "garbled"
       /\ v.form = "token" => v.state # "reject" /\ Select(h, v) = "Kerberos"
       /\ h.proven \/ Proves(h, v.token)
       /\ v.mic # Absent => Verifies(h, v.mic)
      THEN Send([h EXCEPT !.mechanism = "Kerberos", !.state = "complete", !.proven = TRUE],
                NoMessage)
      ELSE Refuse(h)

-----------------------------------------------------------------------------
(* What a 401 and the last response are answered with *)

Advance(h, v) ==
    CASE h.state # "awaiting" \/ v.form # "token" -> Refuse(h)
      [] h.state = "awaiting" /\ v.form = "token" /\ h.scheme = "NTLM" ->
           Authenticate(h, v.token, FALSE)
      [] OTHER ->
           LET mechanism == Select(h, v) IN
           CASE mechanism = "none" -> Refuse(h)
             [] mechanism = "Kerberos" -> KerberosAnswer([h EXCEPT !.mechanism = "Kerberos"], v)
             [] mechanism = "Ntlm" -> NtlmAnswer([h EXCEPT !.mechanism = "Ntlm"], v)

Finish(h, v) ==
    CASE h.side /\ h.mechanism # "Ntlm" -> KerberosFinish(h, v)
      [] (~h.side \/ h.mechanism = "Ntlm") /\ h.state # "complete" -> Refuse(h)
      [] OTHER ->
           IF \/ h.scheme = "NTLM" \/ v.form \in {"absent", "bare"}
              \/ /\ v.form = "token" /\ v.state # "reject"
                 /\ v.mic # Absent => v.mic.kind = "ntlm" /\ h.signs
             THEN Send(h, NoMessage)
             ELSE Refuse(h)

=============================================================================
