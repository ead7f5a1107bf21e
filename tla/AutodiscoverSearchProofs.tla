----------------------- MODULE AutodiscoverSearchProofs ---------------------
(***************************************************************************)
(* Proofs about AutodiscoverSearch, for any addresses, services, limits,   *)
(* lists of alternative mailboxes, clients and sessions.                   *)
(***************************************************************************)
EXTENDS AutodiscoverSearch, SequenceTheorems, TLAPS

USE DEF listVars, searchVars, clientVars

-----------------------------------------------------------------------------
(* What is in a sequence that is taken from, or added to, at either end. *)

LEMMA RangeNone == Range(<<>>) = {}
BY DEF Range

LEMMA RangeTaken ==
    ASSUME NEW S, NEW s \in Seq(S), s # <<>>
    PROVE  Head(s) \in S /\ Tail(s) \in Seq(S) /\ Range(s) = {Head(s)} \cup Range(Tail(s))
<1>1. /\ Head(s) \in S /\ Tail(s) \in Seq(S) /\ Len(Tail(s)) = Len(s) - 1
      /\ \A i \in 1..Len(Tail(s)) : Tail(s)[i] = s[i + 1]
  BY HeadTailProperties
<1>2. Range(s) = {s[i] : i \in 1..Len(s)} BY RangeEquality
<1>3. Range(Tail(s)) = {Tail(s)[i] : i \in 1..Len(Tail(s))} BY <1>1, RangeEquality
<1>4. Len(s) \in Nat \ {0} /\ Head(s) = s[1] OBVIOUS
<1>5. ASSUME NEW x \in Range(s) PROVE x \in {Head(s)} \cup Range(Tail(s))
  <2>1. PICK i \in 1..Len(s) : x = s[i] BY <1>2
  <2>2. CASE i = 1 BY <1>4, <2>1, <2>2
  <2>3. CASE i # 1
    <3>1. i - 1 \in 1..Len(Tail(s)) BY <1>1, <1>4, <2>3
    <3>2. Tail(s)[i - 1] = s[(i - 1) + 1] BY <1>1, <3>1
    <3>3. (i - 1) + 1 = i OBVIOUS
    <3> QED BY <1>3, <2>1, <3>1, <3>2, <3>3
  <2> QED BY <2>2, <2>3
<1>6. ASSUME NEW x \in {Head(s)} \cup Range(Tail(s)) PROVE x \in Range(s)
  <2>1. CASE x = Head(s) BY <1>2, <1>4, <2>1
  <2>2. CASE x \in Range(Tail(s))
    <3>1. PICK i \in 1..Len(Tail(s)) : x = Tail(s)[i] BY <1>3, <2>2
    <3>2. i + 1 \in 1..Len(s) BY <1>1, <1>4, <3>1
    <3> QED BY <1>1, <1>2, <3>1, <3>2
  <2> QED BY <2>1, <2>2
<1> QED BY <1>1, <1>5, <1>6

LEMMA RangeOne ==
    ASSUME NEW S, NEW x \in S PROVE <<x>> \in Seq(S) /\ Range(<<x>>) = {x}
<1>1. <<x>> \in Seq(S) OBVIOUS
<1>2. Range(<<x>>) = {<<x>>[i] : i \in 1..Len(<<x>>)} BY <1>1, RangeEquality
<1> QED BY <1>1, <1>2

LEMMA RangeFirst ==
    ASSUME NEW S, NEW s \in Seq(S), NEW x \in S
    PROVE  <<x>> \o s \in Seq(S) /\ Range(<<x>> \o s) = {x} \cup Range(s)
<1>1. PICK one \in Seq(S) : one = <<x>> BY RangeOne
<1>2. Range(one) = {x} BY <1>1, RangeOne
<1>3. Range(one \o s) = Range(one) \cup Range(s) BY RangeConcatenation
<1>4. one \o s \in Seq(S) BY ConcatProperties
<1> QED BY <1>1, <1>2, <1>3, <1>4

LEMMA RangeLast ==
    ASSUME NEW S, NEW s \in Seq(S), NEW x \in S
    PROVE  Append(s, x) \in Seq(S) /\ Range(Append(s, x)) = Range(s) \cup {x}
<1>1. PICK one \in Seq(S) : one = <<x>> BY RangeOne
<1>2. Range(one) = {x} BY <1>1, RangeOne
<1>3. Range(s \o one) = Range(s) \cup Range(one) BY RangeConcatenation
<1>4. Append(s, x) = s \o one BY <1>1, AppendIsConcat
<1>5. Append(s, x) \in Seq(S) BY AppendProperties
<1> QED BY <1>2, <1>3, <1>4, <1>5

-----------------------------------------------------------------------------
(* Where a mailbox is looked for. *)

Places == {"pop", "ask", "probe", "list", "next", "done"}

SearchTyped ==
    /\ pc \in Places
    /\ given \in Services \cup Plain \cup {None}
    /\ wanted \in Addresses /\ address \in Addresses
    /\ queue \in Seq(Urls)
    /\ todo \in Seq(Addresses \cup {Directory})
    /\ probed \in BOOLEAN

\* The places to look are those asked and those in the queue, no more and no fewer.
Accounted ==
    /\ Range(queue) \cup asked = begun \cup named
    /\ \/ begun = Range(Candidates(address))
       \/ begun = Range(QueueFor(wanted)) /\ address = wanted

\* Nothing is said to be found only at the end of the queue, after the probe, which a caller that
\* named the service is spared.
AtTheEnd ==
    /\ ~probed => given = None
    /\ pc \in {"pop", "ask", "probe"} => result = "none"
    /\ pc = "probe" => given = None /\ queue = <<>>
    /\ result = "nothing" => probed /\ queue = <<>>

PlaceInv == SearchTyped /\ Accounted /\ AtTheEnd

LEMMA CandidatesAreUrls ==
    ASSUME NEW a \in Addresses PROVE Candidates(a) \in Seq(Urls)
BY DEF Candidates, Urls

LEMMA QueueIsOfUrls ==
    ASSUME given \in Services \cup Plain \cup {None}, NEW a \in Addresses
    PROVE  QueueFor(a) \in Seq(Urls)
<1>1. given # None => given \in Urls BY DEF Urls
<1> QED BY <1>1, CandidatesAreUrls DEF QueueFor

\* The steps of a search.
LEMMA PlacePop == ASSUME PlaceInv, Pop PROVE PlaceInv'
<1>1. queue # <<>> /\ queue \in Seq(Urls) BY DEF PlaceInv, SearchTyped, Pop
<1>2. Tail(queue) \in Seq(Urls) /\ Range(queue) = {Head(queue)} \cup Range(Tail(queue))
  BY <1>1, RangeTaken
<1>3. SearchTyped' BY <1>2 DEF PlaceInv, SearchTyped, Pop, Places
<1>4. Accounted'
  <2>1. Range(queue)' \cup asked' = (begun \cup named)'
    BY <1>2 DEF PlaceInv, Accounted, Pop
  <2>2. UNCHANGED <<begun, address, wanted, given>> BY DEF Pop
  <2> QED BY <2>1, <2>2 DEF PlaceInv, Accounted, QueueFor
<1>5. AtTheEnd' BY DEF PlaceInv, AtTheEnd, Pop
<1> QED BY <1>3, <1>4, <1>5 DEF PlaceInv

\* Steps that leave the queue and what it is for alone.
LEMMA PlaceKept ==
    ASSUME PlaceInv, Exhausted \/ Moved \/ NoAnswer \/ Stopped \/ Described \/ TooMany
    PROVE  PlaceInv'
<1>1. UNCHANGED <<given, wanted, todo, address, queue, begun, asked, named>>
  BY DEF Exhausted, Moved, NoAnswer, Stopped, Described, TooMany
<1>2. Accounted' BY <1>1 DEF PlaceInv, Accounted, QueueFor
<1>3. SearchTyped'
  BY <1>1 DEF PlaceInv, SearchTyped, Places, Exhausted, Moved, NoAnswer, Stopped, Described, TooMany,
     Conclude
<1>4. AtTheEnd'
  BY <1>1 DEF PlaceInv, AtTheEnd, SearchTyped, Exhausted, Moved, NoAnswer, Stopped, Described,
     TooMany, Conclude
<1> QED BY <1>2, <1>3, <1>4 DEF PlaceInv

LEMMA PlaceProbe == ASSUME PlaceInv, Probe PROVE PlaceInv'
<1>1. queue \in Seq(Urls) BY DEF PlaceInv, SearchTyped
<1>2. UNCHANGED <<given, wanted, todo, address, probed, begun, asked, result>> /\ pc' = "pop"
  BY DEF Probe
<1>3. /\ queue' \in Seq(Urls)
      /\ Range(queue)' \cup asked = begun \cup named'
  <2>1. CASE UNCHANGED <<queue, named>> BY <1>1, <2>1 DEF PlaceInv, Accounted
  <2>2. CASE \E target \in Urls : queue' = Append(queue, target) /\ named' = named \cup {target}
    <3>1. PICK target \in Urls : queue' = Append(queue, target) /\ named' = named \cup {target}
      BY <2>2
    <3>2. queue' \in Seq(Urls) /\ Range(queue)' = Range(queue) \cup {target}
      BY <1>1, <3>1, RangeLast
    <3> QED BY <3>1, <3>2 DEF PlaceInv, Accounted
  <2> QED BY <2>1, <2>2 DEF Probe
<1>4. SearchTyped' /\ Accounted' BY <1>2, <1>3 DEF PlaceInv, SearchTyped, Accounted, QueueFor, Places
<1>5. AtTheEnd' BY <1>2 DEF PlaceInv, AtTheEnd, Probe
<1> QED BY <1>4, <1>5 DEF PlaceInv

LEMMA PlaceRedirectUrl ==
    ASSUME PlaceInv, NEW target \in Urls, RedirectUrl(target) PROVE PlaceInv'
<1>1. queue \in Seq(Urls) BY DEF PlaceInv, SearchTyped
<1>2. queue' \in Seq(Urls) /\ Range(queue)' = {target} \cup Range(queue)
  BY <1>1, RangeFirst DEF RedirectUrl
<1>3. /\ UNCHANGED <<given, wanted, todo, address, probed, begun, asked, result>>
      /\ pc = "ask" /\ pc' = "pop" /\ named' = named \cup {target}
  BY DEF RedirectUrl, Bump
<1>4. Range(queue)' \cup asked' = (begun \cup named)'
  BY <1>2, <1>3 DEF PlaceInv, Accounted
<1>5. SearchTyped' /\ Accounted'
  BY <1>2, <1>3, <1>4 DEF PlaceInv, SearchTyped, Accounted, QueueFor, Places
<1>6. AtTheEnd' BY <1>3 DEF PlaceInv, AtTheEnd
<1> QED BY <1>5, <1>6 DEF PlaceInv

LEMMA PlaceRedirectAddress ==
    ASSUME PlaceInv, NEW next \in Addresses, RedirectAddress(next) PROVE PlaceInv'
<1>1. Candidates(next) \in Seq(Urls) BY CandidatesAreUrls
<1>2. /\ UNCHANGED <<given, wanted, todo, result>> /\ pc = "ask" /\ pc' = "pop"
      /\ address' = next /\ queue' = Candidates(next) /\ probed' = (given # None)
      /\ begun' = Range(Candidates(next)) /\ asked' = {} /\ named' = {}
  BY DEF RedirectAddress, Bump
<1>3. SearchTyped' BY <1>1, <1>2 DEF PlaceInv, SearchTyped, Places
<1>4. Accounted' BY <1>2 DEF Accounted
<1>5. AtTheEnd' BY <1>2 DEF PlaceInv, AtTheEnd
<1> QED BY <1>3, <1>4, <1>5 DEF PlaceInv

\* A search for the next mailbox owes nothing to the last one.
LEMMA PlaceSearchFor ==
    ASSUME PlaceInv, NEW next \in Addresses, SearchFor(next), UNCHANGED given,
           todo' \in Seq(Addresses \cup {Directory}), pc' \in {"pop", "done"}
    PROVE  PlaceInv'
<1>1. QueueFor(next) \in Seq(Urls) BY QueueIsOfUrls DEF PlaceInv, SearchTyped
<1>2. /\ wanted' = next /\ address' = next /\ queue' = QueueFor(next)
      /\ probed' = (given # None) /\ result' = "none"
      /\ begun' = Range(queue') /\ asked' = {} /\ named' = {}
  BY DEF SearchFor
<1>3. SearchTyped' BY <1>1, <1>2 DEF PlaceInv, SearchTyped, Places
<1>4. Accounted' BY <1>2 DEF Accounted, QueueFor
<1>5. AtTheEnd' BY <1>2 DEF AtTheEnd
<1> QED BY <1>3, <1>4, <1>5 DEF PlaceInv

LEMMA PlaceListing ==
    ASSUME PlaceInv, ListOwn \/ ListAlternative \/ NextAlternative PROVE PlaceInv'
<1>1. CASE ListOwn \/ ListAlternative
  <2>1. /\ UNCHANGED <<given, wanted, address, queue, probed, begun, asked, named, result>>
        /\ pc' \in {"next", "done"}
    BY <1>1 DEF ListOwn, ListAlternative
  <2>2. todo' \in Seq(Addresses \cup {Directory})
    BY <1>1, SearchAssumption DEF ListOwn, ListAlternative, PlaceInv, SearchTyped
  <2> QED BY <2>1, <2>2 DEF PlaceInv, SearchTyped, Accounted, AtTheEnd, QueueFor, Places
<1>2. CASE NextAlternative
  <2>1. CASE todo = <<>>
    BY <1>2, <2>1, PlaceSearchFor DEF NextAlternative, PlaceInv, SearchTyped
  <2>2. CASE todo # <<>>
    <3>1. Head(todo) \in Addresses \cup {Directory} /\ Tail(todo) \in Seq(Addresses \cup {Directory})
      BY <2>2, HeadTailProperties DEF PlaceInv, SearchTyped
    <3>2. CASE Head(todo) = Directory
      BY <1>2, <2>2, <3>1, <3>2
      DEF NextAlternative, PlaceInv, SearchTyped, Accounted, AtTheEnd, QueueFor
    <3>3. CASE Head(todo) # Directory
      BY <1>2, <2>2, <3>1, <3>3, PlaceSearchFor DEF NextAlternative
    <3> QED BY <3>2, <3>3
  <2> QED BY <2>1, <2>2
<1> QED BY <1>1, <1>2

LEMMA PlaceInit == ASSUME Init PROVE PlaceInv
<1>1. QueueFor(wanted) \in Seq(Urls) BY QueueIsOfUrls DEF Init
<1>2. SearchTyped BY <1>1 DEF Init, SearchTyped, Places
<1>3. Accounted /\ AtTheEnd BY DEF Init, Accounted, AtTheEnd
<1> QED BY <1>2, <1>3 DEF PlaceInv

LEMMA PlaceStill == ASSUME PlaceInv, UNCHANGED <<pc, listVars, searchVars>> PROVE PlaceInv'
BY DEF PlaceInv, SearchTyped, Accounted, AtTheEnd, QueueFor

LEMMA PlaceNext == ASSUME PlaceInv, [Next]_vars PROVE PlaceInv'
<1>1. CASE Progress
  BY <1>1, PlacePop, PlaceKept, PlaceProbe, PlaceRedirectUrl, PlaceRedirectAddress, PlaceListing
  DEF Progress, Searching
<1>2. CASE UNCHANGED vars BY <1>2, PlaceStill DEF vars
<1>3. CASE Finished BY <1>3, PlaceStill DEF Finished, vars
<1>4. ASSUME NEW entry \in Range(listed), Build(entry) PROVE PlaceInv'
  BY <1>4, PlaceStill DEF Build
<1>5. ASSUME NEW c \in clients, BeginSession(c) PROVE PlaceInv'
  BY <1>5, PlaceStill DEF BeginSession
<1>6. ASSUME NEW c \in clients, NEW entry \in Range(listed), ForMailbox(c, entry) PROVE PlaceInv'
  BY <1>6, PlaceStill DEF ForMailbox
<1> QED BY <1>1, <1>2, <1>3, <1>4, <1>5, <1>6 DEF Next

\* However servers redirect, "nothing was found" is said only when every place to look has been asked,
\* and no place is asked about an address it was not found for (discovery.rs search_with).
THEOREM AskedEverywhere == Spec => []EveryPlaceAndNoOther
<1>1. PlaceInv => EveryPlaceAndNoOther
  <2> SUFFICES ASSUME PlaceInv PROVE EveryPlaceAndNoOther OBVIOUS
  <2>1. queue = <<>> => begun \cup named \subseteq asked
    BY RangeNone DEF PlaceInv, Accounted
  <2>2. pc = "probe" => begun = Range(Candidates(address))
    BY DEF PlaceInv, Accounted, AtTheEnd, QueueFor
  <2> QED BY <2>1, <2>2 DEF PlaceInv, Accounted, AtTheEnd, EveryPlaceAndNoOther
<1> QED BY <1>1, PlaceInit, PlaceNext, PTL DEF Spec

-----------------------------------------------------------------------------
(* What is listed. *)

Mailboxes == Addresses \cup {Directory}
Listable == [of : Mailboxes, endpoint : Endpoints]
Names(entries) == [i \in DOMAIN entries |-> entries[i].of]

LEMMA NamesOf ==
    ASSUME NEW entries \in Seq(Listable)
    PROVE  Names(entries) \in Seq(Mailboxes) /\ Len(Names(entries)) = Len(entries)
<1>1. DOMAIN entries = 1..Len(entries) /\ Len(entries) \in Nat OBVIOUS
<1>2. \A i \in 1..Len(entries) : entries[i].of \in Mailboxes
  <2> SUFFICES ASSUME NEW i \in 1..Len(entries) PROVE entries[i].of \in Mailboxes OBVIOUS
  <2>1. entries[i] \in Listable OBVIOUS
  <2> QED BY <2>1 DEF Listable
<1>3. Names(entries) = [i \in 1..Len(entries) |-> entries[i].of] BY <1>1 DEF Names
<1> QED BY <1>1, <1>2, <1>3, IsASeq

LEMMA NamesLast ==
    ASSUME NEW entries \in Seq(Listable), NEW entry \in Listable
    PROVE  /\ Append(entries, entry) \in Seq(Listable)
           /\ Append(entries, entry) # <<>>
           /\ Names(Append(entries, entry)) = Append(Names(entries), entry.of)
<1> DEFINE longer == Append(entries, entry)
           names == Append(Names(entries), entry.of)
<1>1. /\ longer \in Seq(Listable) /\ longer # <<>> /\ Len(longer) = Len(entries) + 1
      /\ \A i \in 1..Len(entries) : longer[i] = entries[i]
      /\ longer[Len(entries) + 1] = entry
  BY AppendProperties
<1>2. Names(entries) \in Seq(Mailboxes) /\ Len(Names(entries)) = Len(entries) BY NamesOf
<1>3. entry.of \in Mailboxes BY DEF Listable
<1>4. /\ names \in Seq(Mailboxes) /\ Len(names) = Len(entries) + 1
      /\ \A i \in 1..Len(entries) : names[i] = Names(entries)[i]
      /\ names[Len(entries) + 1] = entry.of
  BY <1>2, <1>3, AppendProperties
<1>5. Names(longer) \in Seq(Mailboxes) /\ Len(Names(longer)) = Len(longer) BY <1>1, NamesOf
<1> HIDE DEF longer, names
<1>6. DOMAIN longer = 1..(Len(entries) + 1) /\ DOMAIN entries = 1..Len(entries)
      /\ Len(entries) \in Nat
  BY <1>1
<1>7. \A i \in 1..(Len(entries) + 1) : Names(longer)[i] = longer[i].of BY <1>6 DEF Names
<1>8. \A i \in 1..Len(Names(longer)) : Names(longer)[i] = names[i]
  <2> SUFFICES ASSUME NEW i \in 1..(Len(entries) + 1) PROVE Names(longer)[i] = names[i]
    BY <1>1, <1>5
  <2>1. CASE i = Len(entries) + 1
    <3>1. longer[i] = entry /\ names[i] = entry.of BY <1>1, <1>4, <2>1
    <3> QED BY <1>7, <3>1
  <2>2. CASE i # Len(entries) + 1
    <3>1. i \in 1..Len(entries) BY <1>6, <2>2
    <3>2. Names(entries)[i] = entries[i].of BY <1>6, <3>1 DEF Names
    <3> QED BY <1>1, <1>4, <1>7, <3>1, <3>2
  <2> QED BY <2>1, <2>2
<1>9. Names(longer) = names BY <1>1, <1>4, <1>5, <1>8, SeqEqual
<1> QED BY <1>1, <1>9 DEF longer, names

\* The first of what is left goes to the end of what there is.
LEMMA HeadMoves ==
    ASSUME NEW S, NEW s \in Seq(S), NEW t \in Seq(S), t # <<>>
    PROVE  s \o t = Append(s, Head(t)) \o Tail(t)
<1>1. /\ Head(t) \in S /\ Tail(t) \in Seq(S) BY HeadTailProperties
<1>2. <<Head(t)>> \in Seq(S) BY <1>1, RangeOne
<1>3. t = <<Head(t)>> \o Tail(t) OBVIOUS
<1>4. Append(s, Head(t)) = s \o <<Head(t)>> BY <1>1, AppendIsConcat
<1>5. (s \o <<Head(t)>>) \o Tail(t) = s \o (<<Head(t)>> \o Tail(t))
  BY <1>1, <1>2, ConcatAssociative
<1> QED BY <1>3, <1>4, <1>5

ListTyped ==
    /\ pc \in Places
    /\ listed \in Seq(Listable)
    /\ wanted \in Addresses
    /\ todo \in Seq(Mailboxes)
    /\ outcome \in {"none", "listed", "error"}

\* Those listed, then the one that is looked up, then those still to resolve are all there are.
InOrder ==
    /\ pc \in {"pop", "ask", "probe", "list"} =>
         /\ listed = <<>> => all = <<wanted>>
         /\ listed # <<>> => all = Append(Names(listed), wanted) \o todo
    /\ pc = "next" => listed # <<>> /\ all = Names(listed) \o todo
    /\ outcome = "listed" => pc = "done" /\ all = Names(listed)
    /\ outcome = "error" => pc = "done" /\ listed = <<>>

ListInv == ListTyped /\ InOrder

LEMMA ListSearching ==
    ASSUME ListInv, UNCHANGED listVars, pc \in {"pop", "ask", "probe"},
           pc' \in {"pop", "ask", "probe", "list"}
    PROVE  ListInv'
BY DEF ListInv, ListTyped, InOrder, Places

LEMMA SearchesOnly ==
    ASSUME Pop \/ Exhausted \/ Probe \/ Moved \/ NoAnswer \/ Stopped \/ Described \/ TooMany
           \/ (\E target \in Urls : RedirectUrl(target))
           \/ (\E next \in Addresses : RedirectAddress(next))
    PROVE  /\ UNCHANGED listVars
           /\ pc \in {"pop", "ask", "probe"} /\ pc' \in {"pop", "ask", "probe", "list"}
BY DEF Pop, Exhausted, Probe, Moved, NoAnswer, Stopped, Described, TooMany, RedirectUrl,
   RedirectAddress, Bump, Conclude

LEMMA ListOwnStep == ASSUME ListInv, ListOwn PROVE ListInv'
<1>1. CASE result = "endpoint"
  <2>1. PICK endpoint \in Endpoints : listed' = <<Entry(wanted, endpoint)>>
    BY <1>1 DEF ListOwn
  <2>2. Entry(wanted, endpoint) \in Listable /\ Entry(wanted, endpoint).of = wanted
    BY DEF Entry, Listable, Mailboxes, ListInv, ListTyped
  <2>3. listed' \in Seq(Listable) /\ listed' # <<>> BY <2>1, <2>2
  <2>4. Names(listed') = <<wanted>> BY <2>1, <2>2 DEF Names
  <2>5. todo' \in Seq(Mailboxes) BY <1>1, SearchAssumption DEF ListOwn, Mailboxes
  <2>6. pc' = "next" /\ all' = <<wanted>> \o todo' /\ UNCHANGED <<wanted, outcome>> /\ pc = "list"
    BY <1>1 DEF ListOwn
  <2> QED BY <2>3, <2>4, <2>5, <2>6 DEF ListInv, ListTyped, InOrder, Places
<1>2. CASE result # "endpoint"
  BY <1>2 DEF ListOwn, ListInv, ListTyped, InOrder, Places
<1> QED BY <1>1, <1>2

LEMMA ListAlternativeStep == ASSUME ListInv, ListAlternative PROVE ListInv'
<1>1. PICK endpoint \in Endpoints : listed' = Append(listed, Entry(wanted, endpoint))
  BY DEF ListAlternative, Endpoints
<1>2. Entry(wanted, endpoint) \in Listable /\ Entry(wanted, endpoint).of = wanted
  BY DEF Entry, Listable, Mailboxes, ListInv, ListTyped
<1>3. /\ listed' \in Seq(Listable) /\ listed' # <<>>
      /\ Names(listed') = Append(Names(listed), wanted)
  BY <1>1, <1>2, NamesLast DEF ListInv, ListTyped
<1>4. /\ pc = "list" /\ listed # <<>> /\ pc' = "next"
      /\ UNCHANGED <<wanted, todo, outcome, all>>
  BY DEF ListAlternative
<1> QED BY <1>3, <1>4 DEF ListInv, ListTyped, InOrder, Places

LEMMA NextAlternativeStep == ASSUME ListInv, NextAlternative PROVE ListInv'
<1>1. pc = "next" /\ all = Names(listed) \o todo /\ listed # <<>> /\ all' = all
  BY DEF NextAlternative, ListInv, InOrder
<1>2. Names(listed) \in Seq(Mailboxes) BY NamesOf DEF ListInv, ListTyped
<1>3. CASE todo = <<>>
  <2>1. all = Names(listed) BY <1>1, <1>2, <1>3, ConcatEmptySeq
  <2>2. /\ pc' = "done" /\ outcome' = "listed" /\ wanted' = wanted
        /\ UNCHANGED <<todo, listed>>
    BY <1>3 DEF NextAlternative, SearchFor
  <2> QED BY <1>1, <2>1, <2>2 DEF ListInv, ListTyped, InOrder, Places
<1>4. CASE todo # <<>>
  <2>1. Head(todo) \in Mailboxes /\ Tail(todo) \in Seq(Mailboxes)
    BY <1>4, HeadTailProperties DEF ListInv, ListTyped
  <2>2. all = Append(Names(listed), Head(todo)) \o Tail(todo)
    BY <1>1, <1>2, <1>4, HeadMoves DEF ListInv, ListTyped
  <2>3. todo' = Tail(todo) /\ outcome' = outcome BY <1>4 DEF NextAlternative
  <2>4. CASE Head(todo) = Directory
    <3>1. listed' = Append(listed, Entry(Directory, "none")) /\ UNCHANGED <<pc, wanted>>
      BY <1>4, <2>4 DEF NextAlternative
    <3>2. Entry(Directory, "none") \in Listable /\ Entry(Directory, "none").of = Directory
      BY DEF Entry, Listable, Mailboxes, Endpoints
    <3>3. /\ listed' \in Seq(Listable) /\ listed' # <<>>
          /\ Names(listed') = Append(Names(listed), Directory)
      BY <3>1, <3>2, NamesLast DEF ListInv, ListTyped
    <3> QED BY <1>1, <2>1, <2>2, <2>3, <2>4, <3>1, <3>3 DEF ListInv, ListTyped, InOrder
  <2>5. CASE Head(todo) # Directory
    <3>1. pc' = "pop" /\ wanted' = Head(todo) /\ UNCHANGED listed
      BY <1>4, <2>5 DEF NextAlternative, SearchFor
    <3>2. Head(todo) \in Addresses BY <2>1, <2>5 DEF Mailboxes
    <3> QED BY <1>1, <2>1, <2>2, <2>3, <3>1, <3>2 DEF ListInv, ListTyped, InOrder, Places
  <2> QED BY <2>4, <2>5
<1> QED BY <1>3, <1>4

LEMMA ListProgress == ASSUME ListInv, Progress PROVE ListInv'
<1>1. CASE ListOwn \/ ListAlternative \/ NextAlternative
  BY <1>1, ListOwnStep, ListAlternativeStep, NextAlternativeStep
<1>2. CASE ~(ListOwn \/ ListAlternative \/ NextAlternative)
  BY <1>2, SearchesOnly, ListSearching DEF Progress, Searching
<1> QED BY <1>1, <1>2

-----------------------------------------------------------------------------
(* The clients. *)

ClientHolds(c) ==
    /\ c.to \in Range(listed) /\ c.to.of = c.name
    /\ c.to.endpoint = "plain" => allowed
    /\ c.identity \in 1..Len(sessions)

\* Clients are made of a finished listing; a session's number is below its identity's counter.
ClientInv ==
    /\ clients # {} => outcome = "listed"
    /\ \A c \in clients : ClientHolds(c)
    /\ sessions \in Seq(Nat) /\ infos \in Seq(Nat \X Nat)
    /\ \A i \in 1..Len(infos) :
         infos[i][1] \in 1..Len(sessions) /\ infos[i][2] < sessions[infos[i][1]]
    /\ IsInjective(infos)

ListingInv == ListInv /\ ClientInv

LEMMA ClientsKept == ASSUME ListingInv, Progress PROVE ListingInv'
<1>1. ListInv' BY ListProgress DEF ListingInv
<1>2. pc # "done"
  BY DEF Progress, Searching, Pop, Exhausted, Probe, Moved, NoAnswer, Stopped, Described, TooMany,
     RedirectUrl, RedirectAddress, Bump, ListOwn, ListAlternative, NextAlternative
<1>3. clients = {} BY <1>2 DEF ListingInv, ListInv, InOrder, ClientInv
<1>4. UNCHANGED <<clients, sessions, infos>> BY DEF Progress
<1> QED BY <1>1, <1>3, <1>4 DEF ListingInv, ClientInv

LEMMA BuildStep ==
    ASSUME ListingInv, NEW entry \in Range(listed), Build(entry) PROVE ListingInv'
<1> DEFINE new == MailboxClient(entry, entry.of, Len(sessions) + 1)
<1>1. /\ UNCHANGED <<pc, allowed, listVars, infos>> /\ outcome = "listed"
      /\ clients' = clients \cup {new} /\ sessions' = Append(sessions, 0)
      /\ Endpoint(entry, allowed)
  BY DEF Build
<1>2. /\ sessions' \in Seq(Nat) /\ Len(sessions') = Len(sessions) + 1
      /\ \A i \in 1..Len(sessions) : sessions'[i] = sessions[i]
  BY <1>1 DEF ListingInv, ClientInv
<1>3. ListInv' BY <1>1 DEF ListingInv, ListInv, ListTyped, InOrder
<1>4. ASSUME NEW c, c = new PROVE ClientHolds(c)'
  <2>1. c.to = entry /\ c.name = entry.of /\ c.identity = Len(sessions) + 1
    BY <1>4 DEF MailboxClient
  <2>2. c.identity \in 1..Len(sessions')
    BY <1>2, <2>1 DEF ListingInv, ClientInv
  <2>3. entry.endpoint = "plain" => allowed' BY <1>1 DEF Endpoint
  <2>4. entry \in Range(listed') BY <1>1
  <2> QED BY <2>1, <2>2, <2>3, <2>4 DEF ClientHolds
<1>5. \A c \in clients : ClientHolds(c)' BY <1>1, <1>2 DEF ClientHolds, ListingInv, ClientInv
<1>6. \A i \in 1..Len(infos) :
        infos[i][1] \in 1..Len(sessions') /\ infos[i][2] < sessions'[infos[i][1]]
  <2> SUFFICES ASSUME NEW i \in 1..Len(infos)
               PROVE infos[i][1] \in 1..Len(sessions') /\ infos[i][2] < sessions'[infos[i][1]]
    OBVIOUS
  <2>1. infos[i][1] \in 1..Len(sessions) /\ infos[i][2] < sessions[infos[i][1]]
    BY DEF ListingInv, ClientInv
  <2>2. 1..Len(sessions) \subseteq 1..Len(sessions') BY <1>2 DEF ListingInv, ClientInv
  <2> QED BY <1>2, <2>1, <2>2
<1>7. \A c \in clients' : ClientHolds(c)' BY <1>1, <1>4, <1>5
<1> HIDE DEF new
<1> QED BY <1>1, <1>2, <1>3, <1>6, <1>7 DEF ListingInv, ClientInv

LEMMA ForMailboxStep ==
    ASSUME ListingInv, NEW c \in clients, NEW entry \in Range(listed), ForMailbox(c, entry)
    PROVE  ListingInv'
<1> DEFINE new == MailboxClient(entry, entry.of, c.identity)
<1>1. /\ UNCHANGED <<pc, allowed, listVars, sessions, infos>>
      /\ clients' = clients \cup {new} /\ Endpoint(entry, c.to.endpoint = "plain")
  BY DEF ForMailbox
<1>2. ClientHolds(c) BY DEF ListingInv, ClientInv
<1>3. ListInv' BY <1>1 DEF ListingInv, ListInv, ListTyped, InOrder
<1>4. ClientHolds(new)' BY <1>1, <1>2 DEF ClientHolds, MailboxClient, Endpoint
<1>5. \A d \in clients : ClientHolds(d)' BY <1>1 DEF ClientHolds, ListingInv, ClientInv
<1> QED BY <1>1, <1>3, <1>4, <1>5 DEF ListingInv, ClientInv

LEMMA BeginSessionStep ==
    ASSUME ListingInv, NEW c \in clients, BeginSession(c) PROVE ListingInv'
<1> DEFINE id == c.identity
           info == <<id, sessions[id]>>
<1>1. /\ UNCHANGED <<pc, allowed, listVars, clients>>
      /\ infos' = Append(infos, info)
      /\ sessions' = [sessions EXCEPT ![id] = @ + 1]
  BY DEF BeginSession
<1>2. id \in 1..Len(sessions) /\ sessions \in Seq(Nat) /\ sessions[id] \in Nat
  BY DEF ListingInv, ClientInv, ClientHolds
<1>3. info \in Nat \X Nat BY <1>2
<1>4. /\ sessions' \in Seq(Nat) /\ Len(sessions') = Len(sessions)
      /\ \A i \in 1..Len(sessions) : sessions'[i] >= sessions[i]
      /\ sessions'[id] = sessions[id] + 1
  <2>1. sessions' = [sessions EXCEPT ![id] = sessions[id] + 1] BY <1>1
  <2> HIDE DEF id
  <2>2. sessions' \in Seq(Nat) /\ Len(sessions') = Len(sessions) BY <1>2, <2>1
  <2>3. sessions'[id] = sessions[id] + 1 BY <1>2, <2>1
  <2>4. \A i \in 1..Len(sessions) : i # id => sessions'[i] = sessions[i] BY <1>2, <2>1
  <2>5. \A i \in 1..Len(sessions) : sessions[i] \in Nat BY <1>2
  <2>6. \A i \in 1..Len(sessions) : sessions'[i] >= sessions[i] BY <1>2, <2>3, <2>4, <2>5
  <2> QED BY <2>2, <2>3, <2>6
<1>5. /\ infos \in Seq(Nat \X Nat) /\ infos' \in Seq(Nat \X Nat)
      /\ Len(infos') = Len(infos) + 1
      /\ \A i \in 1..Len(infos) : infos'[i] = infos[i]
      /\ infos'[Len(infos) + 1] = info
  BY <1>1, <1>3, AppendProperties DEF ListingInv, ClientInv
<1>6. \A i \in 1..Len(infos) :
        /\ infos[i][1] \in 1..Len(sessions) /\ infos[i][2] < sessions[infos[i][1]]
        /\ infos[i] \in Nat \X Nat
  <2>1. \A i \in 1..Len(infos) : infos[i] \in Nat \X Nat BY <1>5
  <2> QED BY <2>1 DEF ListingInv, ClientInv
<1>7. \A i \in 1..Len(infos) : infos[i] # info BY <1>2, <1>6
<1>8. IsInjective(infos')
  <2>1. DOMAIN infos' = 1..(Len(infos) + 1) /\ DOMAIN infos = 1..Len(infos) /\ Len(infos) \in Nat
    BY <1>5
  <2>2. \A i, j \in 1..Len(infos) : infos[i] = infos[j] => i = j
    BY <2>1 DEF ListingInv, ClientInv, IsInjective
  <2> HIDE DEF info
  <2>3. ASSUME NEW i \in DOMAIN infos', NEW j \in DOMAIN infos', infos'[i] = infos'[j] PROVE i = j
    <3>1. i \in 1..Len(infos) \/ i = Len(infos) + 1 BY <2>1
    <3>2. j \in 1..Len(infos) \/ j = Len(infos) + 1 BY <2>1
    <3> QED BY <1>5, <1>7, <2>2, <2>3, <3>1, <3>2
  <2> QED BY <2>3 DEF IsInjective
<1>9. \A i \in 1..Len(infos') :
        infos'[i][1] \in 1..Len(sessions') /\ infos'[i][2] < sessions'[infos'[i][1]]
  <2> SUFFICES ASSUME NEW i \in 1..Len(infos')
               PROVE infos'[i][1] \in 1..Len(sessions') /\ infos'[i][2] < sessions'[infos'[i][1]]
    OBVIOUS
  <2>1. CASE i = Len(infos) + 1
    <3>1. infos'[i] = info BY <1>5, <2>1
    <3>2. infos'[i][1] = id /\ infos'[i][2] = sessions[id] BY <3>1
    <3>3. id \in 1..Len(sessions') /\ sessions[id] < sessions'[id] BY <1>2, <1>4
    <3> QED BY <3>2, <3>3
  <2>2. CASE i # Len(infos) + 1
    <3>1. i \in 1..Len(infos) BY <1>5, <2>2
    <3>2. infos[i][1] \in 1..Len(sessions) /\ infos[i][2] < sessions[infos[i][1]]
          /\ infos[i][2] \in Nat
      BY <1>6, <3>1
    <3> DEFINE n == infos[i][1]
    <3>3. n \in 1..Len(sessions) /\ n \in 1..Len(sessions') BY <1>4, <3>2
    <3> HIDE DEF n
    <3>4. sessions[n] \in Nat /\ sessions'[n] \in Nat /\ sessions'[n] >= sessions[n]
      BY <1>2, <1>4, <3>3
    <3>5. infos[i][2] < sessions'[n] BY <3>2, <3>4 DEF n
    <3>6. infos'[i] = infos[i] BY <1>5, <3>1
    <3> QED BY <3>3, <3>5, <3>6 DEF n
  <2> QED BY <2>1, <2>2
<1>10. ListInv' BY <1>1 DEF ListingInv, ListInv, ListTyped, InOrder
<1>11. \A d \in clients : ClientHolds(d)' BY <1>1, <1>4 DEF ClientHolds, ListingInv, ClientInv
<1> QED BY <1>1, <1>4, <1>5, <1>8, <1>9, <1>10, <1>11 DEF ListingInv, ClientInv

LEMMA ListingInit == ASSUME Init PROVE ListingInv
BY DEF Init, ListingInv, ListInv, ListTyped, InOrder, Places, ClientInv, IsInjective

LEMMA ListingStill == ASSUME ListingInv, UNCHANGED vars PROVE ListingInv'
BY DEF vars, ListingInv, ListInv, ListTyped, InOrder, ClientInv, ClientHolds

\* Whatever became of each lookup, the listing has the account's mailboxes in their order, and a client
\* made for one of them opens that one, over plain HTTP only if allowed, with a session of its own
\* (mailbox.rs list_mailboxes; builder.rs for_endpoint; client.rs for_mailbox and Identity).
THEOREM MailboxesKeptApart == Spec => []MailboxesAreTheirOwn
<1>1. ListingInv /\ [Next]_vars => ListingInv'
  BY ClientsKept, BuildStep, ForMailboxStep, BeginSessionStep, ListingStill DEF Next, Finished
<1>2. ListingInv => MailboxesAreTheirOwn
  BY DEF ListingInv, ListInv, InOrder, ClientInv, ClientHolds, MailboxesAreTheirOwn, ListingIsWhole,
     ClientsAreTheMailboxes, Names
<1> QED BY <1>1, <1>2, ListingInit, PTL DEF Spec
=============================================================================
