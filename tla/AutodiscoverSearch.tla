------------------------- MODULE AutodiscoverSearch -------------------------
(***************************************************************************)
(* Finding mailboxes with Autodiscover: the search of                      *)
(* crates/mapi-client/src/discovery.rs over the candidates of              *)
(* crates/mapi-autodiscover/src/discovery.rs, and the listing of an        *)
(* account's mailboxes, one search each, of                                *)
(* crates/mapi-client/src/mailbox.rs; then the clients made for what was   *)
(* listed, which share one identity where one was made from another.       *)
(*                                                                         *)
(* Servers are not trusted to make sense: any of them may answer, refuse,  *)
(* describe the mailbox, or name another URL or another address, and       *)
(* differently each time it is asked.  A candidate's handshake is one      *)
(* exchange per attempt.  Looking up one mailbox is listing an account     *)
(* that has no other, and a URL that is none is one over plain HTTP that   *)
(* is not allowed.                                                         *)
(***************************************************************************)
EXTENDS Naturals, Sequences, Functions

CONSTANTS
    Addresses,      \* email addresses, each of a domain of its own
    Services,       \* URLs outside the candidate lists
    Plain,          \* those over plain HTTP, asked only if the caller allowed it
    MaxRedirects,   \* MAX_REDIRECTS of discovery.rs
    MaxAttempts,    \* MAX_ATTEMPTS of handshake.rs
    Alternatives,   \* the lists of alternative mailboxes a server may name, in its order
    Directory,      \* an alternative named by its distinguished name, without an address
    MaxBuilt,       \* bound: how many clients are built
    MaxSessions,    \* bound: how many sessions they begin
    None            \* no URL

ASSUME SearchAssumption ==
    /\ MaxRedirects \in Nat /\ MaxAttempts \in Nat \ {0}
    /\ Alternatives \subseteq Seq(Addresses \cup {Directory})
    /\ Directory \notin Addresses /\ None \notin Services \cup Plain
    /\ MaxBuilt \in Nat /\ MaxSessions \in Nat

VARIABLES
    pc,
    allowed,        \* MapiClientBuilder::allow_plaintext_http
    \* list_mailboxes
    given,          \* the URL the caller named, used for every lookup
    wanted,         \* the mailbox being looked up
    todo,           \* the alternatives still to resolve
    listed,         \* the mailboxes so far, and what endpoint each has
    outcome,
    \* search_with
    address, queue, probed, redirects,
    at,             \* the URL being asked
    attempt,        \* the handshake with it
    result,         \* what the search came to
    \* history
    begun,          \* what the queue began with for the address in force
    asked,          \* URLs taken from the queue since it did
    named,          \* URLs a server has named since then
    all,            \* the mailboxes the listing is to have
    \* MapiClient
    clients,        \* those there are
    sessions,       \* Identity::sessions of each client that was built
    infos           \* history: each session's X-ClientInfo value

listVars == <<given, wanted, todo, listed, outcome, all>>
searchVars == <<address, queue, probed, redirects, at, attempt, result, begun, asked, named>>
clientVars == <<clients, sessions, infos>>
vars == <<pc, allowed, listVars, searchVars, clientVars>>

\* candidate_urls: the domain, then its autodiscover host, over HTTPS.
Candidates(a) == << <<a, "domain">>, <<a, "autodiscover">> >>

Urls == {<<a, host>> : a \in Addresses, host \in {"domain", "autodiscover"}} \cup Services \cup Plain

\* What a search of a begins with: the URL the caller named, or the candidates.
QueueFor(a) == IF given = None THEN Candidates(a) ELSE <<given>>

Init ==
    /\ pc = "pop"
    /\ allowed \in BOOLEAN
    /\ given \in Services \cup Plain \cup {None}
    /\ wanted \in Addresses
    /\ todo = <<>> /\ listed = <<>> /\ outcome = "none" /\ all = <<wanted>>
    /\ address = wanted /\ queue = QueueFor(wanted) /\ probed = (given # None)
    /\ redirects = 0 /\ at = None /\ attempt = 0 /\ result = "none"
    /\ begun = Range(queue) /\ asked = {} /\ named = {}
    /\ clients = {} /\ sessions = <<>> /\ infos = <<>>

-----------------------------------------------------------------------------
(* search_with *)

\* The search is over, with this to show for it.
Conclude(what) == result' = what /\ pc' = "list"

Pop ==
    /\ pc = "pop" /\ queue # <<>>
    /\ at' = Head(queue)
    /\ queue' = Tail(queue)
    /\ asked' = asked \cup {Head(queue)}
    /\ attempt' = 1
    /\ pc' = IF Head(queue) \in Plain /\ ~allowed THEN "pop" ELSE "ask"
    /\ UNCHANGED <<listVars, address, probed, redirects, result, begun, named>>

\* Nothing left to ask: the plain-HTTP probe once, and then nothing was found.
Exhausted ==
    /\ pc = "pop" /\ queue = <<>>
    /\ IF probed
         THEN Conclude("nothing") /\ UNCHANGED probed
         ELSE probed' = TRUE /\ pc' = "probe" /\ UNCHANGED result
    /\ UNCHANGED <<listVars, address, queue, redirects, at, attempt, begun, asked, named>>

\* A GET whose Location, if it is redirected, is one candidate more.
Probe ==
    /\ pc = "probe"
    /\ pc' = "pop"
    /\ \/ UNCHANGED <<queue, named>>
       \/ \E target \in Urls : queue' = Append(queue, target) /\ named' = named \cup {target}
    /\ UNCHANGED <<listVars, address, probed, redirects, at, attempt, result, begun, asked>>

-----------------------------------------------------------------------------
(* Search::ask *)

\* A leg was refused on another connection than the one it answered.  The last attempt's is believed.
Moved ==
    /\ pc = "ask" /\ attempt < MaxAttempts
    /\ attempt' = attempt + 1
    /\ UNCHANGED <<pc, listVars, address, queue, probed, redirects, at, result, begun, asked, named>>

\* No answer, or none that means anything, or one that declines: the next candidate.
NoAnswer ==
    /\ pc = "ask"
    /\ pc' = "pop"
    /\ UNCHANGED <<listVars, searchVars>>

\* The credentials are refused, or no handshake can be started.
Stopped ==
    /\ pc = "ask"
    /\ \E what \in {"unauthorized", "setup"} : Conclude(what)
    /\ UNCHANGED <<listVars, address, queue, probed, redirects, at, attempt, begun, asked, named>>

\* The mailbox is described, with a mapiHttp block or without one.
Described ==
    /\ pc = "ask"
    /\ \E what \in {"endpoint", "settings"} : Conclude(what)
    /\ UNCHANGED <<listVars, address, queue, probed, redirects, at, attempt, begun, asked, named>>

-----------------------------------------------------------------------------
(* Redirects *)

\* bump: the redirect is counted, or the chain taken for a loop.
TooMany ==
    /\ pc = "ask" /\ redirects >= MaxRedirects
    /\ Conclude("loop")
    /\ UNCHANGED <<listVars, address, queue, probed, redirects, at, attempt, begun, asked, named>>

Bump ==
    /\ pc = "ask" /\ redirects < MaxRedirects
    /\ redirects' = redirects + 1
    /\ pc' = "pop"

RedirectUrlUncounted(target) == \* mutant: only addresses are counted
    /\ pc = "ask" /\ pc' = "pop"
    /\ queue' = <<target>> \o queue
    /\ named' = named \cup {target}
    /\ UNCHANGED <<listVars, address, probed, redirects, at, attempt, result, begun, asked>>

\* A URL is asked next, and the rest after it.
RedirectUrl(target) ==
    /\ Bump
    /\ queue' = <<target>> \o queue
    /\ named' = named \cup {target}
    /\ UNCHANGED <<listVars, address, probed, at, attempt, result, begun, asked>>

RedirectAddressAppending(next) ==   \* mutant: what was left of the old address is asked as well
    /\ Bump
    /\ address' = next
    /\ queue' = queue \o Candidates(next)
    /\ probed' = (given # None)
    /\ begun' = Range(Candidates(next)) /\ asked' = {} /\ named' = {}
    /\ UNCHANGED <<listVars, at, attempt, result>>

\* A new address means a new domain, so the candidate list starts over.
RedirectAddress(next) ==
    /\ Bump
    /\ address' = next
    /\ queue' = Candidates(next)
    /\ probed' = (given # None)
    /\ begun' = Range(Candidates(next)) /\ asked' = {} /\ named' = {}
    /\ UNCHANGED <<listVars, at, attempt, result>>

-----------------------------------------------------------------------------
(* list_mailboxes *)

\* A mailbox and its endpoint: over HTTPS, over plain HTTP, or none it could be opened with.
Entry(of, endpoint) == [of |-> of, endpoint |-> endpoint]

Endpoints == {"none", "secure", "plain"}

\* The first lookup is the account's own, and its failure the listing's.
ListOwn ==
    /\ pc = "list" /\ listed = <<>>
    /\ IF result = "endpoint"
         THEN /\ \E endpoint \in Endpoints : listed' = <<Entry(wanted, endpoint)>>
              /\ todo' \in Alternatives
              /\ all' = <<wanted>> \o todo'
              /\ pc' = "next"
              /\ UNCHANGED outcome
         ELSE outcome' = "error" /\ pc' = "done" /\ UNCHANGED <<listed, todo, all>>
    /\ UNCHANGED <<given, wanted, searchVars>>

\* An alternative is listed whatever its lookup came to.  Without an endpoint, or one that names a
\* mail store, it cannot be opened.
ListAlternative ==
    /\ pc = "list" /\ listed # <<>>
    /\ \E endpoint \in IF result = "endpoint" THEN Endpoints ELSE {"none"} :
         listed' = Append(listed, Entry(wanted, endpoint))
    /\ pc' = "next"
    /\ UNCHANGED <<given, wanted, todo, outcome, all, searchVars>>

\* A search of its own.
SearchFor(next) ==
    /\ wanted' = next /\ address' = next
    /\ queue' = QueueFor(next) /\ probed' = (given # None)
    /\ redirects' = 0 /\ at' = None /\ attempt' = 0 /\ result' = "none"
    /\ begun' = Range(queue') /\ asked' = {} /\ named' = {}

\* The next alternative is looked up as the account was, if it has an address to look up.  After the
\* last, nothing is kept of any search.
NextAlternative ==
    /\ pc = "next"
    /\ IF todo = <<>>
         THEN outcome' = "listed" /\ pc' = "done" /\ SearchFor(wanted) /\ UNCHANGED <<todo, listed>>
         ELSE /\ todo' = Tail(todo)
              /\ IF Head(todo) = Directory
                   THEN /\ listed' = Append(listed, Entry(Directory, "none"))
                        /\ UNCHANGED <<pc, wanted, searchVars>>
                   ELSE pc' = "pop" /\ SearchFor(Head(todo)) /\ UNCHANGED listed
              /\ UNCHANGED outcome
    /\ UNCHANGED <<given, all>>

-----------------------------------------------------------------------------
(* The clients, once the listing is there *)

\* parse_endpoint: plain HTTP is refused where it is not allowed.
Endpoint(entry, plaintext) == entry.endpoint = "secure" \/ (entry.endpoint = "plain" /\ plaintext)

\* A client posts to one mailbox's endpoint, logs on under one's name, and tells servers whose
\* identity it has: that of the client that was built.
MailboxClient(to, name, identity) == [to |-> to, name |-> name, identity |-> identity]

\* for_endpoint, or the caller's own endpoint and user_dn; then build.
Build(entry) ==
    /\ outcome = "listed" /\ Endpoint(entry, allowed) /\ Len(sessions) < MaxBuilt
    /\ clients' = clients \cup {MailboxClient(entry, entry.of, Len(sessions) + 1)}
    /\ sessions' = Append(sessions, 0)
    /\ UNCHANGED <<pc, allowed, listVars, searchVars, infos>>

ForMailboxNamed(c, entry) ==    \* mutant: the endpoint is kept, and only the name changed
    /\ entry.endpoint # "none"
    /\ clients' = clients \cup {[c EXCEPT !.name = entry.of]}
    /\ UNCHANGED <<pc, allowed, listVars, searchVars, sessions, infos>>

\* for_mailbox and at: whoever posts over plain HTTP already may be moved to plain HTTP.
ForMailbox(c, entry) ==
    /\ Endpoint(entry, c.to.endpoint = "plain")
    /\ clients' = clients \cup {MailboxClient(entry, entry.of, c.identity)}
    /\ UNCHANGED <<pc, allowed, listVars, searchVars, sessions, infos>>

\* MapiClient::session, for a connect or a ping: the counter is taken and moved in one step.
BeginSession(c) ==
    /\ Len(infos) < MaxSessions
    /\ infos' = Append(infos, <<c.identity, sessions[c.identity]>>)
    /\ sessions' = [sessions EXCEPT ![c.identity] = @ + 1]
    /\ UNCHANGED <<pc, allowed, listVars, searchVars, clients>>

Finished == pc = "done" /\ UNCHANGED vars

-----------------------------------------------------------------------------
Searching ==
    \/ Pop \/ Exhausted \/ Probe
    \/ Moved \/ NoAnswer \/ Stopped \/ Described \/ TooMany
    \/ \E target \in Urls : RedirectUrl(target)
    \/ \E next \in Addresses : RedirectAddress(next)
    \/ ListOwn \/ ListAlternative \/ NextAlternative

Progress == Searching /\ UNCHANGED <<allowed, clientVars>>

Next ==
    \/ Progress
    \/ \E entry \in Range(listed) : Build(entry)
    \/ \E c \in clients : BeginSession(c) \/ \E entry \in Range(listed) : ForMailbox(c, entry)
    \/ Finished

Spec == Init /\ [][Next]_vars

\* Every exchange ends, by its timeout if not before, and the search waits for nothing else.
FairSpec == Spec /\ WF_vars(Progress)

-----------------------------------------------------------------------------
(* Properties *)

\* "Nothing was found" is said only when every place there is to look has been asked about the
\* address in force: its candidates, whatever any server named, and the plain-HTTP probe unless the
\* caller had named the service (discovery.rs:10-12, 188-200).  And a URL is asked only about an
\* address it was found for: none is left over from the address before a redirect, nor named in its
\* search; the probe is the last resort, and a caller that named the service is never put through
\* it, for any address a redirect leads to (mailbox.rs:228-230, discovery.rs:193-195).
EveryPlaceAndNoOther ==
    /\ result = "nothing" => begun \cup named \subseteq asked /\ probed
    /\ Range(queue) \cup asked \subseteq begun \cup named
    /\ begun \in {Range(QueueFor(wanted)), Range(Candidates(address))}
    /\ pc = "probe" => given = None /\ Range(Candidates(address)) \subseteq asked

\* A listing has one entry per mailbox the account's settings name, in their order and the account's
\* own first, whatever became of the others' lookups (mailbox.rs:142-149).
ListingIsWhole ==
    /\ outcome = "listed" => [i \in DOMAIN listed |-> listed[i].of] = all
    /\ outcome = "error" => listed = <<>>

\* A client for a mailbox posts to that mailbox's endpoint under that mailbox's name, whichever client
\* it was made from, and over plain HTTP only if the caller who built the first of them allowed it;
\* and no two sessions of theirs carry the same X-ClientInfo (mailbox.rs:11-24, 349-352, client.rs:19-23).
ClientsAreTheMailboxes ==
    /\ \A c \in clients :
         /\ c.to \in Range(listed) /\ c.to.of = c.name
         /\ c.to.endpoint = "plain" => allowed
    /\ IsInjective(infos)

\* What is listed is all there is, and a client made for it opens it and no other.
MailboxesAreTheirOwn == ListingIsWhole /\ ClientsAreTheMailboxes

\* Every listing ends, whatever the servers name, and to whomever they redirect (discovery.rs:37-40).
EverySearchEnds == <>(pc = "done")

=============================================================================
