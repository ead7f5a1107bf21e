--------------------------- MODULE KerberosClient ---------------------------
(***************************************************************************)
(* Getting one service ticket, a KDC message at a time: Acquisition of     *)
(* crates/negotiate-auth/src/kerberos/exchange.rs, its AS exchange of      *)
(* exchange/authentication.rs and its TGS exchange of                      *)
(* exchange/ticket_granting.rs, as TicketRequest of client.rs runs them.   *)
(*                                                                         *)
(* The KDCs are either honest ones, which answer as the forest of          *)
(* exchange/double.rs does, or on a network that answers what it likes:    *)
(* any error, which nothing authenticates; a reply no key of the client    *)
(* opens, or one to an earlier message; or one a KDC has sealed for this   *)
(* message, whatever ticket it grants and whatever the network makes of    *)
(* the names outside the seal.                                             *)
(*                                                                         *)
(* Abstractions.  A name is a realm, for krbtgt/REALM, or a service.  A    *)
(* clock is how far it leads ours, in steps a KDC does not tolerate.  A    *)
(* message's nonce is its number.                                          *)
(***************************************************************************)
EXTENDS Naturals, FiniteSets

CONSTANTS
    Realms,
    Service,        \* the service asked for
    OtherService,
    MaxReferrals,   \* MAX_REFERRALS
    Setups,         \* what a request may meet: see SetupAssumption
    None

Clocks == {0, 1}

Forest == [honest : BOOLEAN,
           named : Realms,                          \* the realm the account's name gives
           home : Realms,                           \* the realm the account is in
           holder : Realms,                         \* the realm the service is in
           referral : [Realms -> Realms \cup {None}],
           clock : [Realms -> Clocks],
           preauth : BOOLEAN,                       \* the account must prove its password first
           password : BOOLEAN]                      \* the client's is right

ASSUME SetupAssumption ==
    /\ Setups \subseteq Forest
    /\ Service \notin Realms /\ OtherService \notin Realms /\ Service # OtherService
    /\ None \notin Realms /\ MaxReferrals \in Nat

VARIABLES
    forest,
    \* Acquisition
    state,          \* As, Tgs or Finished
    offset, referrals,
    realm, retried, \* of AsSent or TgsSent
    key,            \* AsSent::key: none, right or wrong
    tgt, presented, visited,
    outcome,
    granted,        \* the service ticket
    \* history
    sent,           \* messages so far
    refused         \* why it ended without a ticket

vars == <<forest, state, offset, referrals, realm, retried, key, tgt, presented, visited, outcome,
          granted, sent, refused>>

Names == Realms \cup {Service, OtherService}

\* Credential: whom the ticket is for, which realm issued it, to whom, and for which message.
Credential(sname, srealm, crealm, cname, for) ==
    [sname |-> sname, srealm |-> srealm, crealm |-> crealm, cname |-> cname, for |-> for]

NoCredential == Credential(None, None, None, "none", 0)

\* The account's own ticket-granting ticket.
Own(r) == Credential(r, r, r, "account", 0)

Init ==
    /\ forest \in Setups
    /\ \/ /\ state = "As" /\ offset = 0                     \* with_password
          /\ realm = forest.named /\ tgt = NoCredential
       \/ /\ state = "Tgs" /\ offset \in Clocks             \* with_tgt
          /\ realm = forest.home /\ tgt = Own(forest.home)
    /\ presented = tgt
    /\ key = "none" /\ retried = FALSE /\ visited = {} /\ referrals = 0
    /\ outcome = "none" /\ granted = NoCredential
    /\ sent = 1 /\ refused = "none"

-----------------------------------------------------------------------------
(* Replies *)

\* A KRB-ERROR: its code, the realm it names, the clock it was made by, and the pre-authentication
\* hints it carries.
Error(code, names, stime, hints) ==
    [kind |-> "error", code |-> code, names |-> names, stime |-> stime, hints |-> hints]

\* A reply: sealed under the key the client expects or not, for this message or an earlier one, the
\* realm and name sealed in it, whether the ticket outside has the same, the client it names, and
\* the checksum of the request.
Rep(opens, current, srealm, sname, same, crealm, cname, checksum) ==
    [kind |-> "rep", opens |-> opens, current |-> current, srealm |-> srealm, sname |-> sname,
     same |-> same, crealm |-> crealm, cname |-> cname, checksum |-> checksum]

Malformed == [kind |-> "malformed"]

\* The network's: whatever takes no key, and whatever a KDC may seal.
NetworkReplies ==
    {Malformed}
    \cup {Error("preauth required", None, 0, hints) : hints \in {"right", "wrong", "none"}}
    \cup {Error("wrong realm", r, 0, "none") : r \in Realms \cup {None}}
    \cup {Error("skew", None, c, "none") : c \in Clocks}
    \cup {Error("other", None, 0, "none")}
    \cup {Rep(opens, current, r, n, same, cr, cn, checksum) :
            opens \in BOOLEAN, current \in BOOLEAN, r \in Realms, n \in Names, same \in BOOLEAN,
            cr \in Realms, cn \in {"account", "another"}, checksum \in {"none", "right", "wrong"}}

\* An honest KDC of the realm asked, for an AS-REQ.
HonestAs ==
    CASE forest.home # realm -> Error("wrong realm", forest.home, 0, "none")
      [] forest.home = realm /\ forest.preauth /\ key = "none" ->
           Error("preauth required", None, 0, "right")
      [] forest.home = realm /\ forest.preauth /\ key = "wrong" -> Error("other", None, 0, "none")
      [] forest.home = realm /\ forest.preauth /\ key = "right" /\ offset # forest.clock[realm] ->
           Error("skew", None, forest.clock[realm], "none")
      [] OTHER -> Rep(TRUE, TRUE, realm, realm, TRUE, realm, "account", "right")

\* And for a TGS-REQ.
HonestTgs ==
    LET Granting(sname) ==
          Rep(TRUE, TRUE, realm, sname, TRUE, presented.crealm, presented.cname, "none") IN
    CASE offset # forest.clock[realm] -> Error("skew", None, forest.clock[realm], "none")
      [] offset = forest.clock[realm] /\ forest.holder = realm -> Granting(Service)
      [] offset = forest.clock[realm] /\ forest.holder # realm /\ forest.referral[realm] # None ->
           Granting(forest.referral[realm])
      [] OTHER -> Error("other", None, 0, "none")

Replies ==
    CASE ~forest.honest -> NetworkReplies
      [] forest.honest /\ state = "As" -> {HonestAs}
      [] OTHER -> {HonestTgs}

-----------------------------------------------------------------------------
(* What both exchanges check *)

\* decrypt: it opens, repeats the nonce, and names the ticket it came with.
Opens(r) == r.opens /\ r.current /\ r.same

\* credential
Issued(r) == Credential(r.sname, r.srealm, r.crealm, r.cname, IF r.current THEN sent ELSE 0)

\* The password's key, for the account it is right for.
PasswordKey(hints) == IF hints = "right" /\ forest.password THEN "right" ELSE "wrong"

End(how, why) ==
    /\ outcome' = how /\ refused' = why /\ state' = "Finished"
    /\ UNCHANGED <<offset, referrals, realm, retried, key, tgt, presented, visited, granted, sent>>

Refuse(why) == End("refused", why)

\* count_referral
Counts == referrals < MaxReferrals

-----------------------------------------------------------------------------
(* The AS exchange *)

\* send_as
SendAs(to, k, again) ==
    /\ state' = "As" /\ realm' = to /\ key' = k /\ retried' = again
    /\ sent' = sent + 1
    /\ UNCHANGED <<tgt, presented, visited, outcome, granted, refused>>

\* send_tgs
SendTgs(own, with, to, before, again) ==
    /\ state' = "Tgs" /\ tgt' = own /\ presented' = with /\ realm' = to /\ visited' = before
    /\ retried' = again
    /\ sent' = sent + 1
    /\ UNCHANGED <<key, outcome, granted, refused>>

\* as_rep: a ticket for this realm's krbtgt, and the request's checksum when it is there.
IsTgt(r) ==
    /\ IF key = "none" THEN forest.password ELSE key = "right"
    /\ Opens(r)
    /\ r.crealm = realm /\ r.srealm = realm /\ r.sname = realm
    /\ r.checksum # "wrong"

\* A KRB-ERROR to an AS-REQ.
AsError(r) ==
    CASE r.code = "preauth required" /\ key = "none" /\ r.hints # "none" ->
           SendAs(realm, PasswordKey(r.hints), retried) /\ UNCHANGED <<offset, referrals>>
      [] r.code = "wrong realm" /\ r.names \notin {None, realm} /\ Counts ->
           /\ SendAs(r.names, "none", FALSE)
           /\ referrals' = referrals + 1
           /\ UNCHANGED offset
      [] r.code = "wrong realm" /\ r.names \notin {None, realm} /\ ~Counts ->
           Refuse("too many referrals")
      [] r.code = "skew" /\ ~retried ->
           SendAs(realm, key, TRUE) /\ offset' = r.stime /\ UNCHANGED referrals
      [] OTHER -> Refuse("error")

\* receive_as
ReceiveAs(r) ==
    /\ state = "As"
    /\ CASE r.kind = "error" -> AsError(r)
         [] r.kind = "rep" /\ IsTgt(r) ->
              LET own == Issued(r) IN
              SendTgs(own, own, realm, {}, FALSE) /\ UNCHANGED <<offset, referrals>>
         [] OTHER -> Refuse("reply")

-----------------------------------------------------------------------------
(* The TGS exchange *)

\* tgs_rep: this realm's, and the client's name unchanged.
IsIssued(r) ==
    /\ Opens(r)
    /\ r.srealm = realm
    /\ r.crealm = presented.crealm /\ r.cname = presented.cname

TgsSkewAgain(r) ==              \* mutant: a skew error is retried however often it comes
    /\ SendTgs(tgt, presented, realm, visited, FALSE)
    /\ offset' = r.stime
    /\ UNCHANGED referrals

TgsSkew(r) ==
    /\ SendTgs(tgt, presented, realm, visited, TRUE)
    /\ offset' = r.stime
    /\ UNCHANGED referrals

ReferredKeeping(issued) ==      \* mutant: the referral is kept as the client's own
    /\ SendTgs(issued, issued, issued.sname, visited \cup {realm}, FALSE)
    /\ referrals' = referrals + 1
    /\ UNCHANGED offset

ReferredRetried(issued) ==      \* mutant: the one retry is not the new realm's own
    /\ SendTgs(tgt, issued, issued.sname, visited \cup {realm}, retried)
    /\ referrals' = referrals + 1
    /\ UNCHANGED offset

\* A referral to a realm not asked yet.
Referred(issued) ==
    /\ SendTgs(tgt, issued, issued.sname, visited \cup {realm}, FALSE)
    /\ referrals' = referrals + 1
    /\ UNCHANGED offset

\* The ticket asked for.
Done(issued) ==
    /\ outcome' = "done" /\ granted' = issued /\ state' = "Finished"
    /\ UNCHANGED <<offset, referrals, realm, retried, key, tgt, presented, visited, sent, refused>>

\* receive_tgs
ReceiveTgs(r) ==
    /\ state = "Tgs"
    /\ CASE r.kind = "error" /\ r.code = "skew" /\ ~retried -> TgsSkew(r)
         [] r.kind = "rep" /\ IsIssued(r) ->
              LET issued == Issued(r) IN
              CASE r.sname = Service -> Done(issued)
                [] r.sname \in (Realms \ visited) \ {realm} /\ Counts -> Referred(issued)
                [] r.sname \in (Realms \ visited) \ {realm} /\ ~Counts ->
                     Refuse("too many referrals")
                [] OTHER -> Refuse("a ticket for something else")
         [] OTHER -> Refuse(IF r.kind = "error" THEN "error" ELSE "reply")

-----------------------------------------------------------------------------
Receive == (\E r \in Replies : ReceiveAs(r) \/ ReceiveTgs(r)) /\ UNCHANGED forest
Over == state = "Finished" /\ UNCHANGED vars
Next == Receive \/ Over

Spec == Init /\ [][Next]_vars

-----------------------------------------------------------------------------
(* Properties *)

\* Whatever the network does, the tickets a request ends with are the right ones: the service's,
\* granted by the KDC that was asked last and for the message it was sent last, to the client the
\* ticket-granting ticket is for; and the ticket-granting ticket kept is the client's own, never a
\* referral along the way (exchange.rs:85-94, ticket_granting.rs:144-161).
TicketsAreRight ==
    outcome = "done" =>
        /\ granted.sname = Service /\ granted.srealm = realm /\ granted.for = sent
        /\ granted.crealm = tgt.crealm /\ granted.cname = tgt.cname
        /\ tgt.sname = tgt.srealm /\ tgt.srealm = tgt.crealm

\* How many referrals the service's ticket takes from each realm, within the limit: all of them, when
\* there is no way.
Hops[limit \in 0..Cardinality(Realms)] ==
    [r \in Realms |->
        CASE r = forest.holder -> 0
          [] r # forest.holder /\ (forest.referral[r] = None \/ limit = 0) -> MaxReferrals + 1
          [] OTHER -> 1 + Hops[limit - 1][forest.referral[r]]]

\* An honest forest gives an account its ticket whenever the way to it is within the limit of
\* referrals, whichever realm the account's name gave and however the realms' clocks differ, from
\* each other and from the client's; and the clock it ends with is the service's realm's, which is
\* what the handshake stamps with (exchange.rs:43-45, authentication.rs:77-116).
GoodAccountGetsTicket ==
    (forest.honest /\ forest.password /\ state = "Finished") =>
        IF outcome = "done"
          THEN offset = forest.clock[forest.holder]
          ELSE (IF tgt = Own(forest.home) \/ forest.named = forest.home THEN 0 ELSE 1)
                   + Hops[Cardinality(Realms)][forest.home] > MaxReferrals

\* No network keeps a client asking: the messages are bounded by the referrals, three to a realm
\* of the AS exchange and two to one of the TGS exchange.
FewMessages == sent <= 3 * (MaxReferrals + 1) + 2

=============================================================================
