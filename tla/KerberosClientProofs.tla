------------------------ MODULE KerberosClientProofs ------------------------
(***************************************************************************)
(* Proofs about KerberosClient, for every forest of realms, every network  *)
(* and every limit of referrals.                                           *)
(***************************************************************************)
EXTENDS KerberosClient, TLAPS, FiniteSetTheorems, WellFoundedInduction

(* A realm of the AS exchange is sent a request, one with the password's key and one stamped anew;
   one of the TGS exchange a request and one stamped anew. *)
AsMessages ==
    /\ sent <= 3 * referrals + 3
    /\ ~retried => sent <= 3 * referrals + 2
    /\ key = "none" => sent <= 3 * referrals + 2
    /\ key = "none" /\ ~retried => sent <= 3 * referrals + 1

TgsMessages ==
    /\ sent <= 3 * referrals + 5
    /\ ~retried => sent <= 3 * referrals + 4

MessagesInv ==
    /\ sent \in Nat /\ referrals \in 0..MaxReferrals
    /\ state \in {"As", "Tgs", "Finished"}
    /\ state = "As" => AsMessages
    /\ state = "Tgs" => TgsMessages
    /\ state = "Finished" => sent <= 3 * referrals + 5

(* Along the referrals the ticket presented changes its realm and the client it names does not. *)
ClientsOwn ==
    /\ tgt.sname = tgt.srealm /\ tgt.srealm = tgt.crealm
    /\ presented.crealm = tgt.crealm /\ presented.cname = tgt.cname

TicketsInv ==
    /\ state \in {"As", "Tgs", "Finished"}
    /\ outcome = "done" => state = "Finished"
    /\ state = "Tgs" => ClientsOwn
    /\ TicketsAreRight

-----------------------------------------------------------------------------

LEMMA MessagesInit == Init => MessagesInv
<1>1. MaxReferrals \in Nat
  BY SetupAssumption
<1> QED  BY <1>1 DEF Init, MessagesInv, AsMessages, TgsMessages

LEMMA MessagesNext == MessagesInv /\ [Next]_vars => MessagesInv'
<1> SUFFICES ASSUME MessagesInv, [Next]_vars
             PROVE  MessagesInv'
  OBVIOUS
<1> USE DEF MessagesInv, AsMessages, TgsMessages
<1>0. MaxReferrals \in Nat
  BY SetupAssumption
<1>1. ASSUME NEW why, Refuse(why), state \in {"As", "Tgs"}
      PROVE  MessagesInv'
  BY <1>0, <1>1 DEF Refuse, End
<1>2. ASSUME NEW r, ReceiveAs(r)
      PROVE  MessagesInv'
  <2>1. CASE r.kind = "error" /\ AsError(r)
    <3>1. CASE key = "none" /\ SendAs(realm, PasswordKey(r.hints), retried)
               /\ UNCHANGED <<offset, referrals>>
      <4>1. PasswordKey(r.hints) # "none"
        BY DEF PasswordKey
      <4> QED  BY <1>0, <1>2, <3>1, <4>1 DEF ReceiveAs, SendAs
    <3>2. CASE Counts /\ SendAs(r.names, "none", FALSE) /\ referrals' = referrals + 1
      BY <1>0, <1>2, <3>2 DEF ReceiveAs, SendAs, Counts
    <3>3. CASE ~retried /\ SendAs(realm, key, TRUE) /\ UNCHANGED referrals
      BY <1>0, <1>2, <3>3 DEF ReceiveAs, SendAs
    <3>4. CASE \E why : Refuse(why)
      BY <1>1, <1>2, <3>4 DEF ReceiveAs
    <3> QED  BY <2>1, <3>1, <3>2, <3>3, <3>4 DEF AsError
  <2>2. CASE SendTgs(Issued(r), Issued(r), realm, {}, FALSE) /\ UNCHANGED <<offset, referrals>>
    BY <1>0, <1>2, <2>2 DEF ReceiveAs, SendTgs
  <2>3. CASE Refuse("reply")
    BY <1>1, <1>2, <2>3 DEF ReceiveAs
  <2> QED  BY <1>2, <2>1, <2>2, <2>3 DEF ReceiveAs
<1>3. ASSUME NEW r, ReceiveTgs(r)
      PROVE  MessagesInv'
  <2>0. state = "Tgs"
    BY <1>3 DEF ReceiveTgs
  <2>1. CASE ~retried /\ TgsSkew(r)
    BY <1>0, <2>0, <2>1 DEF TgsSkew, SendTgs
  <2>2. CASE Done(Issued(r))
    BY <1>0, <1>3, <2>2 DEF ReceiveTgs, Done
  <2>3. CASE Counts /\ Referred(Issued(r))
    BY <1>0, <2>0, <2>3 DEF Referred, SendTgs, Counts
  <2>4. CASE \E why : Refuse(why)
    BY <1>1, <1>3, <2>4 DEF ReceiveTgs
  <2> QED  BY <1>3, <2>1, <2>2, <2>3, <2>4 DEF ReceiveTgs
<1>4. CASE UNCHANGED vars
  BY <1>4 DEF vars
<1> QED  BY <1>2, <1>3, <1>4 DEF Next, Receive, Over

-----------------------------------------------------------------------------

LEMMA TicketsInit == Init => TicketsInv
  BY DEF Init, TicketsInv, ClientsOwn, TicketsAreRight, Own, NoCredential, Credential

LEMMA TicketsNext == TicketsInv /\ [Next]_vars => TicketsInv'
<1> SUFFICES ASSUME TicketsInv, [Next]_vars
             PROVE  TicketsInv'
  OBVIOUS
<1> USE DEF TicketsInv, TicketsAreRight
<1>1. ASSUME NEW why, Refuse(why)
      PROVE  TicketsInv'
  BY <1>1 DEF Refuse, End
<1>2. ASSUME NEW r, ReceiveAs(r)
      PROVE  TicketsInv'
  <2>1. CASE r.kind = "error" /\ AsError(r)
    BY <1>1, <1>2, <2>1 DEF ReceiveAs, AsError, SendAs
  <2>2. CASE IsTgt(r) /\ SendTgs(Issued(r), Issued(r), realm, {}, FALSE)
    BY <1>2, <2>2 DEF ReceiveAs, SendTgs, IsTgt, Issued, Credential, ClientsOwn
  <2> QED  BY <1>1, <1>2, <2>1, <2>2 DEF ReceiveAs
<1>3. ASSUME NEW r, ReceiveTgs(r)
      PROVE  TicketsInv'
  <2>1. CASE TgsSkew(r)
    BY <1>3, <2>1 DEF ReceiveTgs, TgsSkew, SendTgs, ClientsOwn
  <2>2. CASE IsIssued(r) /\ r.sname = Service /\ Done(Issued(r))
    BY <1>3, <2>2 DEF ReceiveTgs, Done, IsIssued, Opens, Issued, Credential, ClientsOwn
  <2>3. CASE IsIssued(r) /\ Referred(Issued(r))
    BY <1>3, <2>3 DEF ReceiveTgs, Referred, SendTgs, IsIssued, Issued, Credential, ClientsOwn
  <2> QED  BY <1>1, <1>3, <2>1, <2>2, <2>3 DEF ReceiveTgs
<1>4. CASE UNCHANGED vars
  BY <1>4 DEF vars, ClientsOwn
<1> QED  BY <1>2, <1>3, <1>4 DEF Next, Receive, Over

-----------------------------------------------------------------------------

\* However many realms there are, and whatever a network answers, it cannot keep a client asking: the
\* messages are bounded by the limit of referrals (exchange.rs count_referral, and the one retry of
\* authentication.rs and ticket_granting.rs).
THEOREM BoundedMessages == Spec => []FewMessages
<1>1. MessagesInv => FewMessages
  BY SetupAssumption DEF MessagesInv, AsMessages, TgsMessages, FewMessages
<1> QED  BY <1>1, MessagesInit, MessagesNext, PTL DEF Spec

\* The ticket a request ends with is the service's, from the realm asked last, for the last message
\* and for the client of the ticket-granting ticket, which is no referral (ticket_granting.rs tgs_rep,
\* authentication.rs as_rep).
THEOREM RightTickets == Spec => []TicketsAreRight
<1>1. TicketsInv => TicketsAreRight
  BY DEF TicketsInv
<1> QED  BY <1>1, TicketsInit, TicketsNext, PTL DEF Spec

-----------------------------------------------------------------------------
(* The ticket of a good account *)

Good == forest.honest /\ forest.password

N == Cardinality(Realms)

(* The referral there was on the way to the account's own realm. *)
Base == IF tgt = Own(forest.home) \/ forest.named = forest.home THEN 0 ELSE 1

(* The AS exchange has come to the account's realm, or is still to. *)
Homing ==
    /\ tgt = NoCredential /\ key \in {"none", "right"}
    /\ \/ realm = forest.named /\ referrals = 0
       \/ realm = forest.home /\ referrals = 1 /\ forest.named # forest.home
    /\ realm # forest.home => key = "none"
    /\ retried => offset = forest.clock[realm]

(* The TGS exchange is on the way from there: each realm visited refers to the next. *)
OnTheWay ==
    /\ realm \in Realms \ visited /\ visited \subseteq Realms \ {forest.holder}
    /\ forest.home \in visited \cup {realm}
    /\ \A v \in visited : forest.referral[v] \in visited \cup {realm}
    /\ referrals = Base + Cardinality(visited)
    /\ Hops[N][forest.home] = Cardinality(visited) + Hops[N - Cardinality(visited)][realm]
    /\ retried => offset = forest.clock[realm]

GoodInv ==
    /\ forest \in Setups /\ sent > 0
    /\ outcome = "done" => state = "Finished"
    /\ Good =>
         /\ state = "As" => Homing
         /\ state = "Tgs" => OnTheWay
         /\ GoodAccountGetsTicket

(* The referrals from each realm, given those from it with one less to go. *)
HopsFrom(before, limit) ==
    [r \in Realms |->
        CASE r = forest.holder -> 0
          [] r # forest.holder /\ (forest.referral[r] = None \/ limit = 0) -> MaxReferrals + 1
          [] OTHER -> 1 + before[forest.referral[r]]]

LEMMA ForestType ==
    ASSUME forest \in Setups
    PROVE  /\ forest.holder \in Realms /\ forest.home \in Realms /\ forest.named \in Realms
           /\ forest.referral \in [Realms -> Realms \cup {None}] /\ forest.clock \in [Realms -> Clocks]
BY SetupAssumption DEF Forest

(* Induction, for a set of numbers. *)
LEMMA SetInduction ==
    ASSUME NEW T, T \subseteq Nat, 0 \in T, \A n \in T : n + 1 \in T
    PROVE  T = Nat
<1> DEFINE U == Nat \ T
           R == {ss \in Nat \X Nat : ss[1] < ss[2]}
<1> SUFFICES ASSUME U # {} PROVE FALSE OBVIOUS
<1>1. IsWellFoundedOn(R, Nat) BY NatLessThanWellFounded DEF OpToRel
<1>2. U \subseteq Nat OBVIOUS
<1>3. PICK x \in U : \A y \in U : <<y, x>> \notin R
  <2> HIDE DEF R, U
  <2> QED BY <1>1, <1>2, WFMin
<1>4. x # 0 /\ x \in Nat OBVIOUS
<1>5. x - 1 \in U /\ x - 1 < x BY <1>4
<1>6. <<x - 1, x>> \in R BY <1>4, <1>5
<1> QED BY <1>3, <1>5, <1>6

LEMMA HopsEquation ==
    ASSUME N \in Nat
    PROVE  \A limit \in 0..N : Hops[limit] = HopsFrom(Hops[limit - 1], limit)
<1> DEFINE Recurs(g, m) == g = [n \in 0..m |-> HopsFrom(g[n - 1], n)]
           T == {m \in Nat : \E g : Recurs(g, m)}
<1>0. Hops = CHOOSE g : Recurs(g, N) BY DEF Hops, HopsFrom, N
<1>a. ASSUME NEW f, NEW g PROVE HopsFrom(f, 0) = HopsFrom(g, 0) BY DEF HopsFrom
<1>1. 0 \in T
  <2> DEFINE h == [n \in 0..0 |-> HopsFrom(0, 0)]
  <2>1. ASSUME NEW n \in 0..0 PROVE HopsFrom(h[n - 1], n) = HopsFrom(0, 0) BY <1>a
  <2>2. Recurs(h, 0) BY <2>1
  <2> HIDE DEF Recurs, h
  <2> QED BY <2>2
<1>2. ASSUME NEW m \in T PROVE m + 1 \in T
  <2>1. PICK g : Recurs(g, m) OBVIOUS
  <2> DEFINE h == [n \in 0..(m + 1) |-> HopsFrom(g[n - 1], n)]
  <2>2. ASSUME NEW n \in 0..m PROVE h[n] = g[n]
    <3>1. n \in 0..(m + 1) OBVIOUS
    <3>2. h[n] = HopsFrom(g[n - 1], n) BY <3>1
    <3>3. g[n] = HopsFrom(g[n - 1], n) BY <2>1
    <3> QED BY <3>2, <3>3
  <2>3. ASSUME NEW n \in 0..(m + 1) PROVE HopsFrom(g[n - 1], n) = HopsFrom(h[n - 1], n)
    <3> HIDE DEF h
    <3>1. CASE n = 0 BY <1>a, <3>1
    <3>2. CASE n # 0
      <4>1. n - 1 \in 0..m BY <3>2
      <4> QED BY <2>2, <4>1
    <3> QED BY <3>1, <3>2
  <2>4. Recurs(h, m + 1) BY <2>3
  <2>5. m + 1 \in Nat OBVIOUS
  <2> HIDE DEF Recurs
  <2> QED BY <2>4, <2>5
<1>3. T = Nat
  <2> HIDE DEF T
  <2>1. T \subseteq Nat BY DEF T
  <2> QED BY <1>1, <1>2, <2>1, SetInduction
<1>4. \E g : Recurs(g, N) BY <1>3
<1>5. Recurs(Hops, N)
  <2> HIDE DEF Recurs
  <2> QED BY <1>0, <1>4
<1> HIDE DEF Hops
<1> QED BY <1>5

(* From each realm. *)
LEMMA HopsIs ==
    ASSUME N \in Nat, NEW limit \in 0..N, NEW r \in Realms
    PROVE  /\ r = forest.holder => Hops[limit][r] = 0
           /\ r # forest.holder /\ (forest.referral[r] = None \/ limit = 0) => Hops[limit][r] = MaxReferrals + 1
           /\ r # forest.holder /\ forest.referral[r] # None /\ limit # 0 =>
                 Hops[limit][r] = 1 + Hops[limit - 1][forest.referral[r]]
<1>1. PICK before : before = Hops[limit - 1] OBVIOUS
<1>2. Hops[limit] = HopsFrom(before, limit) BY <1>1, HopsEquation
<1>3. HopsFrom(before, limit)[r] =
        CASE r = forest.holder -> 0
          [] r # forest.holder /\ (forest.referral[r] = None \/ limit = 0) -> MaxReferrals + 1
          [] OTHER -> 1 + before[forest.referral[r]]
  BY DEF HopsFrom
<1> QED BY <1>1, <1>2, <1>3

LEMMA HopsType ==
    ASSUME forest \in Setups, N \in Nat
    PROVE  \A limit \in 0..N : \A r \in Realms : Hops[limit][r] \in Nat
<1> DEFINE T == {n \in Nat : n <= N => \A r \in Realms : Hops[n][r] \in Nat}
<1>1. 0 \in T
  <2>1. 0 \in 0..N OBVIOUS
  <2>2. \A r \in Realms : Hops[0][r] \in Nat BY <2>1, HopsIs, SetupAssumption
  <2> QED BY <2>2
<1>2. ASSUME NEW n \in T PROVE n + 1 \in T
  <2>1. SUFFICES ASSUME n + 1 <= N, NEW r \in Realms PROVE Hops[n + 1][r] \in Nat
    OBVIOUS
  <2>2. n + 1 \in 0..N /\ (n + 1) - 1 = n /\ n + 1 # 0 /\ n <= N BY <2>1
  <2>3. \A s \in Realms : Hops[n][s] \in Nat BY <2>2
  <2>4. forest.referral[r] # None => forest.referral[r] \in Realms BY ForestType
  <2>5. PICK s : s = forest.referral[r] OBVIOUS
  <2>6. s # None => Hops[n][s] \in Nat BY <2>3, <2>4, <2>5
  <2> HIDE DEF T
  <2>7. Hops[n + 1][r] \in {0, MaxReferrals + 1, 1 + Hops[n][s]} /\ (s = None => Hops[n + 1][r] \in {0, MaxReferrals + 1})
    BY <2>2, <2>5, HopsIs
  <2> QED BY <2>6, <2>7, SetupAssumption
<1>3. T = Nat
  <2> HIDE DEF T
  <2>1. T \subseteq Nat BY DEF T
  <2> QED BY <1>1, <1>2, <2>1, SetInduction
<1> QED BY <1>3

(* Realms that refer to each other only lead nowhere. *)
LEMMA NoWay ==
    ASSUME forest \in Setups, N \in Nat, NEW V, V \subseteq Realms \ {forest.holder},
           \A v \in V : forest.referral[v] \in V
    PROVE  \A limit \in 0..N : \A v \in V : Hops[limit][v] > MaxReferrals
<1> DEFINE T == {n \in Nat : n <= N => \A v \in V : Hops[n][v] > MaxReferrals}
<1>0. MaxReferrals \in Nat /\ None \notin Realms BY SetupAssumption
<1>1. 0 \in T
  <2>1. 0 \in 0..N OBVIOUS
  <2>2. ASSUME NEW v \in V PROVE Hops[0][v] > MaxReferrals
    <3>1. Hops[0][v] = MaxReferrals + 1 BY <2>1, HopsIs
    <3> QED BY <1>0, <3>1
  <2> QED BY <2>2
<1>2. ASSUME NEW n \in T PROVE n + 1 \in T
  <2>1. SUFFICES ASSUME n + 1 <= N, NEW v \in V PROVE Hops[n + 1][v] > MaxReferrals
    OBVIOUS
  <2>2. n + 1 \in 0..N /\ (n + 1) - 1 = n /\ n + 1 # 0 /\ n <= N /\ n \in 0..N BY <2>1
  <2>3. PICK s \in V : s = forest.referral[v] OBVIOUS
  <2>4. Hops[n][s] > MaxReferrals /\ Hops[n][s] \in Nat BY <2>2, HopsType
  <2>5. s # None /\ v # forest.holder /\ v \in Realms BY <1>0
  <2> HIDE DEF T
  <2>6. Hops[n + 1][v] = 1 + Hops[n][s] BY <2>2, <2>3, <2>5, HopsIs
  <2> QED BY <1>0, <2>4, <2>6
<1>3. T = Nat
  <2> HIDE DEF T
  <2>1. T \subseteq Nat BY DEF T
  <2> QED BY <1>1, <1>2, <2>1, SetInduction
<1> QED BY <1>3

(* There is always room for the realms visited. *)
LEMMA Room ==
    ASSUME IsFiniteSet(Realms), NEW V, V \subseteq Realms, NEW r \in Realms \ V
    PROVE  /\ N \in Nat /\ Cardinality(V) \in Nat /\ Cardinality(V \cup {r}) = Cardinality(V) + 1
           /\ Cardinality(V) + 1 <= N
<1>1. IsFiniteSet(V) /\ Cardinality(V) \in Nat BY FS_Subset, FS_CardinalityType
<1>2. Cardinality(V \cup {r}) = Cardinality(V) + 1 BY <1>1, FS_AddElement
<1>3. Cardinality(V \cup {r}) <= N BY FS_Subset DEF N
<1>4. N \in Nat BY FS_CardinalityType DEF N
<1> QED BY <1>1, <1>2, <1>3, <1>4

LEMMA HopsStay == ASSUME UNCHANGED forest PROVE Hops' = Hops /\ N' = N
BY DEF Hops, N

(* A refusal is earned when the way is longer than the limit. *)
LEMMA RefusalEarned ==
    ASSUME forest' = forest, tgt' = tgt, outcome' = "refused", Base + Hops[N][forest.home] > MaxReferrals
    PROVE  GoodAccountGetsTicket'
<1>1. Hops' = Hops BY HopsStay
<1>2. Base + Hops[Cardinality(Realms)][forest.home] > MaxReferrals BY DEF N
<1> QED BY <1>1, <1>2 DEF GoodAccountGetsTicket, Base, Own, Credential

(* What an honest KDC says to a request for the service's ticket, and what comes of it. *)
LEMMA GoodTgs ==
    ASSUME IsFiniteSet(Realms), forest \in Setups, MessagesInv, Good, state = "Tgs", OnTheWay, outcome # "done",
           NEW r \in Replies, ReceiveTgs(r), UNCHANGED forest
    PROVE  /\ state' = "Tgs" => OnTheWay'
           /\ state' # "As" /\ GoodAccountGetsTicket'
<1> DEFINE k == Cardinality(visited)
           limit == N - k
<1>1. /\ realm \in Realms /\ realm \notin visited /\ visited \subseteq Realms
      /\ forest.holder \in Realms /\ forest.home \in Realms /\ forest.referral[realm] \in Realms \cup {None}
      /\ forest.clock[realm] \in Clocks
  BY ForestType DEF OnTheWay
<1>2. N \in Nat /\ k \in Nat /\ Cardinality(visited \cup {realm}) = k + 1 /\ k + 1 <= N
  BY <1>1, Room
<1>3. limit \in 0..N /\ limit # 0 BY <1>2
<1>4. Hops[limit][realm] \in Nat /\ Hops[N][forest.home] \in Nat
  <2>1. N \in 0..N BY <1>2
  <2> HIDE DEF limit
  <2> QED BY <1>1, <1>2, <1>3, <2>1, HopsType
<1>5. /\ referrals = Base + k /\ Hops[N][forest.home] = k + Hops[limit][realm]
  BY DEF OnTheWay
<1>6. Base \in {0, 1} BY DEF Base
<1>7. MaxReferrals \in Nat /\ None \notin Realms /\ Service \notin Realms BY SetupAssumption
<1>8. referrals \in Nat /\ referrals <= MaxReferrals BY <1>7 DEF MessagesInv
<1>9. r = HonestTgs BY DEF Replies, Good
<1> HIDE DEF k, limit
<1>10. CASE offset # forest.clock[realm]
  <2>1. r = Error("skew", None, forest.clock[realm], "none") BY <1>9, <1>10 DEF HonestTgs
  <2>2. r.kind = "error" /\ r.code = "skew" /\ r.stime = forest.clock[realm] BY <2>1 DEF Error
  <2>3. ~retried BY <1>10 DEF OnTheWay
  <2>4. TgsSkew(r) BY <2>2, <2>3 DEF ReceiveTgs
  <2>5. /\ state' = "Tgs" /\ UNCHANGED <<forest, tgt, realm, visited, referrals>> /\ offset' = forest.clock[realm]
    BY <2>2, <2>4 DEF TgsSkew, SendTgs
  <2>6. Hops' = Hops BY <2>5, HopsStay
  <2> QED BY <2>5, <2>6 DEF OnTheWay, Base, N, GoodAccountGetsTicket
<1>11. ASSUME offset = forest.clock[realm], NEW sname,
              r = Rep(TRUE, TRUE, realm, sname, TRUE, presented.crealm, presented.cname, "none")
       PROVE  r.kind = "rep" /\ IsIssued(r) /\ r.sname = sname
  BY <1>11 DEF Rep, IsIssued, Opens
<1>12. CASE offset = forest.clock[realm] /\ forest.holder = realm
  <2>1. r = Rep(TRUE, TRUE, realm, Service, TRUE, presented.crealm, presented.cname, "none")
    BY <1>9, <1>12 DEF HonestTgs
  <2>2. r.kind = "rep" /\ IsIssued(r) /\ r.sname = Service BY <1>11, <1>12, <2>1
  <2>3. Done(Issued(r)) BY <1>7, <2>2 DEF ReceiveTgs
  <2>4. outcome' = "done" /\ state' = "Finished" /\ UNCHANGED <<forest, offset>> BY <2>3 DEF Done
  <2> QED BY <1>12, <2>4 DEF GoodAccountGetsTicket
<1>13. CASE offset = forest.clock[realm] /\ forest.holder # realm /\ forest.referral[realm] = None
  <2>1. r = Error("other", None, 0, "none") BY <1>9, <1>13 DEF HonestTgs
  <2>2. r.kind = "error" /\ r.code = "other" BY <2>1 DEF Error
  <2>3. Refuse("error") BY <2>2 DEF ReceiveTgs
  <2>4. outcome' = "refused" /\ state' = "Finished" /\ tgt' = tgt BY <2>3 DEF Refuse, End
  <2>5. Hops[limit][realm] = MaxReferrals + 1 BY <1>1, <1>2, <1>3, <1>13, HopsIs
  <2>6. Base + Hops[N][forest.home] > MaxReferrals BY <1>2, <1>5, <1>6, <1>7, <2>5
  <2> QED BY <2>4, <2>6, RefusalEarned
<1>14. CASE offset = forest.clock[realm] /\ forest.holder # realm /\ forest.referral[realm] # None
  <2>0. PICK next : next = forest.referral[realm] OBVIOUS
  <2>1. r = Rep(TRUE, TRUE, realm, next, TRUE, presented.crealm, presented.cname, "none")
    BY <1>9, <1>14, <2>0 DEF HonestTgs
  <2>2. r.kind = "rep" /\ IsIssued(r) /\ r.sname = next BY <1>11, <1>14, <2>1
  <2>3. next \in Realms /\ next # Service BY <1>1, <1>7, <1>14, <2>0
  <2>4. Hops[limit][realm] = 1 + Hops[limit - 1][next] BY <1>1, <1>2, <1>3, <1>14, <2>0, HopsIs
  <2>5. Hops[limit - 1][next] \in Nat
    <3>1. limit - 1 \in 0..N BY <1>2, <1>3
    <3> QED BY <1>2, <2>3, <3>1, HopsType
  <2>6. forest.home \in visited \cup {realm} /\ (\A v \in visited : forest.referral[v] \in visited \cup {realm})
        /\ visited \subseteq Realms \ {forest.holder}
    BY DEF OnTheWay
  <2>7. CASE next \in (Realms \ visited) \ {realm} /\ Counts
    <3>1. Referred(Issued(r)) BY <2>2, <2>3, <2>7 DEF ReceiveTgs
    <3>2. Issued(r).sname = next BY <2>2 DEF Issued, Credential
    <3>3. /\ state' = "Tgs" /\ realm' = next /\ visited' = visited \cup {realm} /\ retried' = FALSE
          /\ referrals' = referrals + 1 /\ UNCHANGED <<forest, tgt>>
      BY <3>1, <3>2 DEF Referred, SendTgs
    <3>4. Hops' = Hops BY <3>3, HopsStay
    <3>5. next \notin visited \cup {realm} BY <2>7
    <3>6. Base' = Base BY <3>3 DEF Base
    <3>7. N - (k + 1) = limit - 1 BY <1>2 DEF limit
    <3>8. Hops[N][forest.home] = (k + 1) + Hops[limit - 1][next] BY <1>2, <1>5, <2>4, <2>5
    <3>9. referrals + 1 = Base + (k + 1) BY <1>2, <1>5, <1>6
    <3>10. Cardinality(visited') = k + 1 BY <1>2, <3>3
    <3>11. (Hops[N][forest.home] = Cardinality(visited) + Hops[N - Cardinality(visited)][realm])'
      BY <3>3, <3>4, <3>7, <3>8, <3>10 DEF N
    <3>12. \A v \in visited' : forest.referral[v] \in visited' \cup {realm'}
      BY <2>0, <2>6, <3>3
    <3>13. visited' \subseteq Realms \ {forest.holder} /\ realm' \in Realms \ visited' /\ forest.home \in visited' \cup {realm'}
      BY <1>1, <1>14, <2>3, <2>6, <3>3, <3>5
    <3>14. (referrals = Base + Cardinality(visited))' BY <3>3, <3>6, <3>9, <3>10
    <3>15. OnTheWay' BY <3>3, <3>11, <3>12, <3>13, <3>14 DEF OnTheWay
    <3> QED BY <3>3, <3>15 DEF GoodAccountGetsTicket
  <2>8. CASE next \in (Realms \ visited) \ {realm} /\ ~Counts
    <3>1. Refuse("too many referrals") BY <2>2, <2>3, <2>8 DEF ReceiveTgs
    <3>2. outcome' = "refused" /\ state' = "Finished" /\ tgt' = tgt BY <3>1 DEF Refuse, End
    <3>3. referrals = MaxReferrals BY <1>7, <1>8, <2>8 DEF Counts
    <3>4. Base + Hops[N][forest.home] > MaxReferrals BY <1>2, <1>5, <1>6, <1>7, <2>4, <2>5, <3>3
    <3> QED BY <3>2, <3>4, RefusalEarned
  <2>9. CASE next \in visited \cup {realm}
    <3>1. Refuse("a ticket for something else") BY <1>1, <2>2, <2>3, <2>9 DEF ReceiveTgs
    <3>2. outcome' = "refused" /\ state' = "Finished" /\ tgt' = tgt BY <3>1 DEF Refuse, End
    <3>3. PICK V : V = visited \cup {realm} OBVIOUS
    <3>4. /\ V \subseteq Realms \ {forest.holder} /\ (\A v \in V : forest.referral[v] \in V)
          /\ forest.home \in V
      BY <1>1, <1>14, <2>0, <2>6, <2>9, <3>3
    <3>5. N \in 0..N BY <1>2
    <3>6. Hops[N][forest.home] > MaxReferrals BY <1>2, <3>4, <3>5, NoWay
    <3>7. Base + Hops[N][forest.home] > MaxReferrals BY <1>4, <1>6, <1>7, <3>6
    <3> QED BY <3>2, <3>7, RefusalEarned
  <2> QED BY <2>3, <2>7, <2>8, <2>9
<1> QED BY <1>10, <1>12, <1>13, <1>14

(* Where the TGS exchange begins. *)
LEMMA SetsOut ==
    ASSUME IsFiniteSet(Realms), forest \in Setups
    PROVE  /\ Cardinality({}) = 0 /\ forest.home \in Realms
           /\ Hops[N][forest.home] = 0 + Hops[N - 0][forest.home]
<1>1. forest.home \in Realms BY ForestType
<1>2. Cardinality({}) = 0 BY FS_EmptySet
<1>3. N \in Nat BY FS_CardinalityType DEF N
<1>4. N \in 0..N /\ N - 0 = N BY <1>3
<1>5. Hops[N][forest.home] \in Nat BY <1>1, <1>3, <1>4, HopsType
<1>6. Hops[N][forest.home] = 0 + Hops[N - 0][forest.home] BY <1>4, <1>5
<1> QED BY <1>1, <1>2, <1>6

LEMMA IssuedNotOwn == ASSUME NEW r, r.current, sent > 0, sent \in Nat, NEW home PROVE Issued(r) # Own(home)
<1>1. Issued(r).for = sent /\ Own(home).for = 0 BY DEF Issued, Own, Credential
<1> QED BY <1>1

(* What an honest KDC says to a request for the account's own ticket, and what comes of it. *)
LEMMA GoodAs ==
    ASSUME IsFiniteSet(Realms), forest \in Setups, MessagesInv, Good, state = "As", Homing, outcome # "done", sent > 0,
           NEW r \in Replies, ReceiveAs(r), UNCHANGED forest
    PROVE  /\ state' = "As" => Homing'
           /\ state' = "Tgs" => OnTheWay'
           /\ GoodAccountGetsTicket'
<1>1. r = HonestAs BY DEF Replies, Good
<1>2. /\ forest.home \in Realms /\ forest.named \in Realms /\ forest.holder \in Realms
      /\ MaxReferrals \in Nat /\ None \notin Realms /\ forest.password
  BY ForestType, SetupAssumption DEF Good
<1>3. tgt = NoCredential /\ key \in {"none", "right"} /\ tgt # Own(forest.home)
  BY <1>2 DEF Homing, NoCredential, Own, Credential
<1>4. CASE forest.home # realm
  <2>1. key = "none" /\ realm = forest.named /\ referrals = 0 BY <1>4 DEF Homing
  <2>2. r = Error("wrong realm", forest.home, 0, "none") BY <1>1, <1>4 DEF HonestAs
  <2>3. r.kind = "error" /\ r.code = "wrong realm" /\ r.names = forest.home BY <2>2 DEF Error
  <2>4. r.names \notin {None, realm} BY <1>2, <1>4, <2>3
  <2>5. CASE Counts
    <3>1. SendAs(forest.home, "none", FALSE) /\ referrals' = referrals + 1
      BY <2>3, <2>4, <2>5 DEF ReceiveAs, AsError
    <3>2. /\ state' = "As" /\ realm' = forest.home /\ key' = "none" /\ retried' = FALSE /\ referrals' = 1
          /\ UNCHANGED <<forest, tgt>>
      BY <2>1, <3>1 DEF SendAs
    <3> QED BY <1>3, <1>4, <2>1, <3>2 DEF Homing, NoCredential, Credential, GoodAccountGetsTicket
  <2>6. CASE ~Counts
    <3>1. Refuse("too many referrals") BY <2>3, <2>4, <2>6 DEF ReceiveAs, AsError
    <3>2. outcome' = "refused" /\ state' = "Finished" /\ tgt' = tgt BY <3>1 DEF Refuse, End
    <3>3. MaxReferrals = 0 BY <1>2, <2>1, <2>6 DEF Counts
    <3>4. N \in Nat /\ N \in 0..N
      <4>1. N \in Nat BY FS_CardinalityType DEF N
      <4> QED BY <4>1
    <3>5. Hops[N][forest.home] \in Nat BY <1>2, <3>4, HopsType
    <3>6. Base = 1 BY <1>3, <1>4, <2>1 DEF Base
    <3>7. Base + Hops[N][forest.home] > MaxReferrals BY <3>3, <3>5, <3>6
    <3> QED BY <3>2, <3>7, RefusalEarned
  <2> QED BY <2>5, <2>6
<1>5. CASE forest.home = realm /\ forest.preauth /\ key = "none"
  <2>1. r = Error("preauth required", None, 0, "right") BY <1>1, <1>5 DEF HonestAs
  <2>2. r.kind = "error" /\ r.code = "preauth required" /\ r.hints = "right" BY <2>1 DEF Error
  <2>3. SendAs(realm, PasswordKey(r.hints), retried) /\ UNCHANGED <<offset, referrals>>
    BY <1>5, <2>2 DEF ReceiveAs, AsError
  <2>4. PasswordKey(r.hints) = "right" BY <1>2, <2>2 DEF PasswordKey
  <2>5. /\ state' = "As" /\ realm' = realm /\ key' = "right" /\ retried' = retried
        /\ UNCHANGED <<forest, tgt, offset, referrals>>
    BY <2>3, <2>4 DEF SendAs
  <2> QED BY <1>5, <2>5 DEF Homing, NoCredential, Credential, GoodAccountGetsTicket
<1>6. CASE forest.home = realm /\ forest.preauth /\ key = "right" /\ offset # forest.clock[realm]
  <2>1. r = Error("skew", None, forest.clock[realm], "none") BY <1>1, <1>6 DEF HonestAs
  <2>2. r.kind = "error" /\ r.code = "skew" /\ r.stime = forest.clock[realm] BY <2>1 DEF Error
  <2>3. ~retried BY <1>6 DEF Homing
  <2>4. SendAs(realm, key, TRUE) /\ offset' = r.stime /\ UNCHANGED referrals
    BY <2>2, <2>3 DEF ReceiveAs, AsError
  <2>5. /\ state' = "As" /\ realm' = realm /\ key' = "right" /\ offset' = forest.clock[realm]
        /\ UNCHANGED <<forest, tgt, referrals>>
    BY <1>6, <2>2, <2>4 DEF SendAs
  <2> QED BY <1>6, <2>5 DEF Homing, NoCredential, Credential, GoodAccountGetsTicket
<1>7. CASE forest.home = realm /\ (forest.preauth => key = "right" /\ offset = forest.clock[realm])
  <2>1. r = Rep(TRUE, TRUE, realm, realm, TRUE, realm, "account", "right") BY <1>1, <1>7 DEF HonestAs
  <2>2. /\ r.kind = "rep" /\ r.opens /\ r.current /\ r.same /\ r.crealm = realm /\ r.srealm = realm
        /\ r.sname = realm /\ r.checksum = "right"
    BY <2>1 DEF Rep
  <2>3. IsTgt(r) BY <1>2, <1>3, <2>2 DEF IsTgt, Opens
  <2>4. SendTgs(Issued(r), Issued(r), realm, {}, FALSE) /\ UNCHANGED <<offset, referrals>>
    BY <2>2, <2>3 DEF ReceiveAs
  <2>5. /\ state' = "Tgs" /\ realm' = forest.home /\ visited' = {} /\ retried' = FALSE /\ tgt' = Issued(r)
        /\ UNCHANGED <<forest, referrals>>
    BY <1>7, <2>4 DEF SendTgs
  <2>6. tgt' # Own(forest'.home) BY <2>2, <2>5, IssuedNotOwn DEF MessagesInv
  <2>7. referrals = IF forest.named = forest.home THEN 0 ELSE 1 BY <1>7 DEF Homing
  <2>8. Base' = IF forest.named = forest.home THEN 0 ELSE 1 BY <2>5, <2>6 DEF Base
  <2>9. realm' = forest'.home /\ visited' = {} /\ ~retried' /\ referrals' = Base' /\ forest' \in Setups
    BY <2>5, <2>7, <2>8
  <2>10. Hops' = Hops /\ N' = N BY HopsStay
  <2>11. Cardinality(visited') = 0 BY <2>5, SetsOut
  <2>12. referrals' = Base' + Cardinality(visited') BY <2>9, <2>11 DEF Base
  <2>13. (Hops[N][forest.home] = Cardinality(visited) + Hops[N - Cardinality(visited)][realm])'
    BY <2>5, <2>10, <2>11, SetsOut
  <2>14. OnTheWay' BY <1>2, <2>5, <2>12, <2>13 DEF OnTheWay
  <2> QED BY <2>5, <2>14 DEF GoodAccountGetsTicket
<1> QED BY <1>3, <1>4, <1>5, <1>6, <1>7

LEMMA GoodInit == ASSUME IsFiniteSet(Realms) PROVE Init => GoodInv
<1> SUFFICES ASSUME Init PROVE GoodInv OBVIOUS
<1>1. forest \in Setups /\ sent > 0 /\ outcome = "none" /\ referrals = 0 /\ ~retried /\ visited = {} BY DEF Init
<1>2. state = "As" => Homing BY DEF Init, Homing
<1>3. CASE state = "Tgs"
  <2>1. realm = forest.home /\ tgt = Own(forest.home) BY <1>3 DEF Init
  <2>2. referrals = Base BY <1>1, <2>1 DEF Base
  <2>3. referrals = Base + Cardinality(visited) BY <1>1, <2>2, SetsOut
  <2>4. Cardinality(visited) = 0 BY <1>1, SetsOut
  <2>5. Hops[N][forest.home] = Cardinality(visited) + Hops[N - Cardinality(visited)][realm]
    BY <1>1, <2>1, <2>4, SetsOut
  <2>6. OnTheWay BY <1>1, <2>1, <2>3, <2>5, SetsOut DEF OnTheWay
  <2> QED BY <1>1, <1>3, <2>6 DEF GoodInv, GoodAccountGetsTicket
<1>4. CASE state = "As"
  BY <1>1, <1>2, <1>4 DEF GoodInv, GoodAccountGetsTicket
<1> QED BY <1>3, <1>4 DEF Init

LEMMA GoodNext == ASSUME IsFiniteSet(Realms), MessagesInv, GoodInv, [Next]_vars PROVE GoodInv'
<1>1. CASE Receive
  <2>1. PICK r \in Replies : ReceiveAs(r) \/ ReceiveTgs(r) BY <1>1 DEF Receive
  <2>2. UNCHANGED forest BY <1>1 DEF Receive
  <2>3. state \in {"As", "Tgs"} /\ outcome # "done" BY <2>1 DEF ReceiveAs, ReceiveTgs, GoodInv
  <2>4. Good' <=> Good BY <2>2 DEF Good
  <2>5. /\ sent' \in {sent, sent + 1}
        /\ outcome' = "done" => state' = "Finished"
        /\ ReceiveTgs(r) => state' # "As"
    BY <2>1, <2>3 DEF ReceiveAs, AsError, SendAs, SendTgs, Refuse, End, ReceiveTgs, TgsSkew, Done, Referred
  <2>6. sent' > 0 BY <2>5 DEF MessagesInv, GoodInv
  <2>7. CASE ReceiveAs(r) /\ Good
    <3>1. state = "As" /\ Homing /\ sent > 0 /\ forest \in Setups BY <2>7 DEF ReceiveAs, GoodInv
    <3>2. (state' = "As" => Homing') /\ (state' = "Tgs" => OnTheWay') /\ GoodAccountGetsTicket'
      BY <2>2, <2>3, <2>7, <3>1, GoodAs
    <3> QED BY <2>2, <2>5, <2>6, <3>1, <3>2 DEF GoodInv
  <2>8. CASE ReceiveTgs(r) /\ Good
    <3>1. state = "Tgs" /\ OnTheWay /\ forest \in Setups BY <2>8 DEF ReceiveTgs, GoodInv
    <3>2. (state' = "Tgs" => OnTheWay') /\ state' # "As" /\ GoodAccountGetsTicket'
      BY <2>2, <2>3, <2>8, <3>1, GoodTgs
    <3> QED BY <2>2, <2>5, <2>6, <3>1, <3>2 DEF GoodInv
  <2>9. CASE ~Good
    BY <2>2, <2>4, <2>5, <2>6, <2>9 DEF GoodInv
  <2> QED BY <2>1, <2>7, <2>8, <2>9
<1>2. CASE UNCHANGED vars
  <2>1. UNCHANGED <<forest, state, offset, referrals, realm, retried, key, tgt, visited, outcome, sent>>
    BY <1>2 DEF vars
  <2>2. Hops' = Hops BY <2>1, HopsStay
  <2> QED BY <2>1, <2>2 DEF GoodInv, Good, Homing, OnTheWay, Base, N, GoodAccountGetsTicket
<1> QED BY <1>1, <1>2 DEF Next, Over

\* An account whose password is right gets its ticket in an honest forest of any finite number of realms,
\* unless the way to it takes more referrals than are followed, and the clock it ends with is that of the
\* realm that holds the service (authentication.rs as_error, ticket_granting.rs receive_tgs).
THEOREM GoodGetsTicket == ASSUME IsFiniteSet(Realms) PROVE Spec => []GoodAccountGetsTicket
<1> DEFINE Inv == MessagesInv /\ GoodInv
<1>1. Init => Inv
  BY MessagesInit, GoodInit
<1>2. Inv /\ [Next]_vars => Inv'
  BY MessagesNext, GoodNext
<1>3. Inv => GoodAccountGetsTicket
  BY DEF GoodInv, Good, GoodAccountGetsTicket
<1> HIDE DEF Inv
<1> QED BY <1>1, <1>2, <1>3, PTL DEF Spec
=============================================================================
