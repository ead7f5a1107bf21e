------------------------- MODULE MailboxCallsProofs -------------------------
(***************************************************************************)
(* Proofs about MailboxCalls: the calls on one connection, whatever the    *)
(* tables, properties, items and mailboxes they are made on.  The calls of *)
(* ObjectCalls come first, as MailboxCalls runs them, whatever the server  *)
(* makes of their batches; then the connection all the calls share.        *)
(***************************************************************************)
EXTENDS MailboxCalls, TLAPS, SequenceTheorems, WellFoundedInduction

USE DEF tableVars, streamVars, draftVars, objectVars

Tabling == Table!Progress \/ Table!Call \/ Table!Cancel \/ Table!Close \/ Table!CloseAtOnce
Streaming == Stream!Progress \/ Stream!Cancel \/ Stream!Extend
Drafting == Draft!Progress \/ Draft!Cancel
Objecting == Object!Progress \/ Object!Begin \/ Object!Cancel \/ Object!OtherRegisters

\* A step begins or ends a call, replaces the connection, or is one of the call under way.
LEMMA StepsOfCalls ==
    ASSUME [Next]_vars
    PROVE  \/ BeginTable \/ BeginStream \/ BeginDraft \/ BeginObject \/ End \/ Reconnect
           \/ InTable(Tabling) \/ InStream(Streaming) \/ InDraft(Drafting) \/ InObject(Objecting)
           \/ UNCHANGED vars
BY DEF Next, Progress, Tabling, Streaming, Drafting, Objecting, InTable, InStream, InDraft, InObject

-----------------------------------------------------------------------------
(* What the recursive functions of ObjectCalls compute, by induction. *)

\* Induction, for a set of numbers.
LEMMA SetInduction ==
    ASSUME NEW T, T \subseteq Nat, 0 \in T, \A n \in T : n + 1 \in T
    PROVE  T = Nat
<1> DEFINE U == Nat \ T
           R == {ss \in Nat \X Nat : ss[1] < ss[2]}
<1> SUFFICES ASSUME U # {} PROVE FALSE OBVIOUS
<1>1. IsWellFoundedOn(R, Nat) BY NatLessThanWellFounded DEF OpToRel
<1>2. U \subseteq Nat OBVIOUS
<1>3. PICK x \in U : \A y \in U : <<y, x>> \notin R
  <2> HIDE DEF R, U
  <2> QED BY <1>1, <1>2, WFMin
<1>4. x # 0 /\ x \in Nat OBVIOUS
<1>5. x - 1 \in U /\ x - 1 < x BY <1>4
<1>6. <<x - 1, x>> \in R BY <1>4, <1>5
<1> QED BY <1>3, <1>5, <1>6

\* The same, as far as a bound.
LEMMA BoundedInduction ==
    ASSUME NEW N \in Nat, NEW T, 0 \in T, \A n \in 1..N : n - 1 \in T => n \in T
    PROVE  0..N \subseteq T
<1> DEFINE U == {n \in Nat : n <= N => n \in T}
<1>1. \A n \in U : n + 1 \in U
  <2> SUFFICES ASSUME NEW n \in U, n + 1 <= N PROVE n + 1 \in T OBVIOUS
  <2>1. n + 1 \in 1..N /\ (n + 1) - 1 = n /\ n <= N OBVIOUS
  <2> QED BY <2>1
<1>2. U = Nat
  <2>1. U \subseteq Nat /\ 0 \in U OBVIOUS
  <2> HIDE DEF U
  <2> QED BY <1>1, <2>1, SetInduction
<1> QED BY <1>2

\* What comes of some runs and one more ROP.
Onward(runs, rop) == UNION {Object!RunRop(run, rop) : run \in runs}

\* How a batch may have gone by each of its ROPs.
LEMMA RunsEquation ==
    ASSUME NEW batch, batch = Object!Asked, Len(batch) \in Nat
    PROVE  \E after : /\ Object!Runs = after[Len(batch)]
                      /\ after[0] = {Object!Running}
                      /\ \A n \in 1..Len(batch) :
                           after[n] = Onward(after[n - 1], batch[n])
<1> DEFINE Recurs(g, m) ==
             g = [n \in 0..m |-> IF n = 0 THEN {Object!Running} ELSE Onward(g[n - 1], batch[n])]
           T == {m \in Nat : \E g : Recurs(g, m)}
           after == CHOOSE g : Recurs(g, Len(batch))
<1>0. Object!Runs = after[Len(batch)]
  <2>1. Object!RunBatch(batch) = after[Len(batch)] BY DEF Object!RunBatch, Onward
  <2>2. Object!Runs = Object!RunBatch(batch)
    <3> HIDE DEF after
    <3> QED BY DEF Object!Runs
  <2> QED BY <2>1, <2>2
<1>1. 0 \in T
  <2>1. Recurs([n \in 0..0 |-> {Object!Running}], 0) OBVIOUS
  <2> QED BY <2>1
<1>2. ASSUME NEW m \in T PROVE m + 1 \in T
  <2>1. PICK g : Recurs(g, m) OBVIOUS
  <2> DEFINE h == [n \in 0..(m + 1) |-> IF n = 0 THEN {Object!Running} ELSE Onward(g[n - 1], batch[n])]
  <2>2. ASSUME NEW n \in 0..m PROVE h[n] = g[n]
    <3>1. n \in 0..(m + 1) OBVIOUS
    <3>2. h[n] = IF n = 0 THEN {Object!Running} ELSE Onward(g[n - 1], batch[n]) BY <3>1
    <3>3. g[n] = IF n = 0 THEN {Object!Running} ELSE Onward(g[n - 1], batch[n]) BY <2>1
    <3> QED BY <3>2, <3>3
  <2>3. ASSUME NEW n \in 0..(m + 1)
        PROVE  (IF n = 0 THEN {Object!Running} ELSE Onward(g[n - 1], batch[n]))
                 = (IF n = 0 THEN {Object!Running} ELSE Onward(h[n - 1], batch[n]))
    <3>1. n # 0 => n - 1 \in 0..m OBVIOUS
    <3> HIDE DEF h
    <3> QED BY <2>2, <3>1
  <2>4. Recurs(h, m + 1) BY <2>3
  <2>5. m + 1 \in Nat OBVIOUS
  <2> HIDE DEF Recurs
  <2> QED BY <2>4, <2>5
<1>3. T = Nat
  <2> HIDE DEF T
  <2>1. T \subseteq Nat BY DEF T
  <2> QED BY <1>1, <1>2, <2>1, SetInduction
<1>4. \E g : Recurs(g, Len(batch)) BY <1>3
<1>5. Recurs(after, Len(batch))
  <2> HIDE DEF Recurs
  <2> QED BY <1>4
<1> HIDE DEF after
<1>6. \A n \in 1..Len(batch) : n \in 0..Len(batch) /\ n # 0 OBVIOUS
<1>7. after[0] = {Object!Running} BY <1>5
<1>8. \A n \in 1..Len(batch) : after[n] = Onward(after[n - 1], batch[n]) BY <1>5, <1>6
<1> QED BY <1>0, <1>7, <1>8

\* The elements kept of a sequence so far.
LEMMA AmongEquation ==
    ASSUME NEW seq, Len(seq) \in Nat, NEW set
    PROVE  \E kept :
             /\ Object!Among(seq, set) = kept[Len(seq)]
             /\ kept[0] = <<>>
             /\ \A n \in 1..Len(seq) :
                  kept[n] = IF seq[n] \in set THEN Append(kept[n - 1], seq[n]) ELSE kept[n - 1]
<1> DEFINE Longer(so, n) == IF seq[n] \in set THEN Append(so, seq[n]) ELSE so
           Recurs(g, m) == g = [n \in 0..m |-> IF n = 0 THEN <<>> ELSE Longer(g[n - 1], n)]
           T == {m \in Nat : \E g : Recurs(g, m)}
           kept == CHOOSE g : Recurs(g, Len(seq))
<1>0. Object!Among(seq, set) = kept[Len(seq)] BY DEF Object!Among
<1>1. 0 \in T
  <2>1. Recurs([n \in 0..0 |-> <<>>], 0) OBVIOUS
  <2> QED BY <2>1
<1>2. ASSUME NEW m \in T PROVE m + 1 \in T
  <2>1. PICK g : Recurs(g, m) OBVIOUS
  <2> DEFINE h == [n \in 0..(m + 1) |-> IF n = 0 THEN <<>> ELSE Longer(g[n - 1], n)]
  <2>2. ASSUME NEW n \in 0..m PROVE h[n] = g[n]
    <3>1. n \in 0..(m + 1) OBVIOUS
    <3>2. h[n] = IF n = 0 THEN <<>> ELSE Longer(g[n - 1], n) BY <3>1
    <3>3. g[n] = IF n = 0 THEN <<>> ELSE Longer(g[n - 1], n) BY <2>1
    <3> QED BY <3>2, <3>3
  <2>3. ASSUME NEW n \in 0..(m + 1)
        PROVE  (IF n = 0 THEN <<>> ELSE Longer(g[n - 1], n)) = (IF n = 0 THEN <<>> ELSE Longer(h[n - 1], n))
    <3>1. n # 0 => n - 1 \in 0..m OBVIOUS
    <3> HIDE DEF h
    <3> QED BY <2>2, <3>1
  <2>4. Recurs(h, m + 1) BY <2>3
  <2>5. m + 1 \in Nat OBVIOUS
  <2> HIDE DEF Recurs
  <2> QED BY <2>4, <2>5
<1>3. T = Nat
  <2> HIDE DEF T
  <2>1. T \subseteq Nat BY DEF T
  <2> QED BY <1>1, <1>2, <2>1, SetInduction
<1>4. \E g : Recurs(g, Len(seq)) BY <1>3
<1>5. Recurs(kept, Len(seq))
  <2> HIDE DEF Recurs
  <2> QED BY <1>4
<1> HIDE DEF kept
<1>6. \A n \in 1..Len(seq) : n \in 0..Len(seq) /\ n # 0 OBVIOUS
<1>7. kept[0] = <<>> BY <1>5
<1>8. \A n \in 1..Len(seq) : kept[n] = Longer(kept[n - 1], n) BY <1>5, <1>6
<1> QED BY <1>0, <1>7, <1>8 DEF Longer

\* What is so of those of seq that are in set, among.
IsWhole(seq, among) == Len(among) = Len(seq) => \A i \in 1..Len(seq) : among[i] = seq[i]
IsOnly(seq, set, among) == \A k \in 1..Len(among) : among[k] \in set /\ \E i \in 1..Len(seq) : among[k] = seq[i]
IsAll(seq, set, among) == \A i \in 1..Len(seq) : seq[i] \in set => \E k \in 1..Len(among) : among[k] = seq[i]
IsFirst(seq, kind, among) ==
    \A k \in 1..Len(among) : (among[k] \in kind /\ \A l \in 1..(k - 1) : among[l] \notin kind) =>
        \E i \in 1..Len(seq) : seq[i] = among[k] /\ \A j \in 1..(i - 1) : seq[j] \notin kind

IsInOrder(seq, among) ==
    \E place \in [1..Len(among) -> 1..Len(seq)] :
        /\ \A k \in 1..Len(among) : among[k] = seq[place[k]]
        /\ \A k, l \in 1..Len(among) : k < l => place[k] < place[l]

LEMMA AmongProperties ==
    ASSUME NEW S, NEW seq \in Seq(S), NEW set,
           NEW kind, \A x \in kind : x \in set,
           NEW among, among = Object!Among(seq, set)
    PROVE  /\ among \in Seq(S) /\ Len(among) <= Len(seq)
           /\ IsWhole(seq, among) /\ IsOnly(seq, set, among) /\ IsAll(seq, set, among) /\ IsFirst(seq, kind, among)
           /\ IsInOrder(seq, among)
<1>1. Len(seq) \in Nat OBVIOUS
<1>2. PICK kept : /\ among = kept[Len(seq)]
                  /\ kept[0] = <<>>
                  /\ \A n \in 1..Len(seq) :
                       kept[n] = IF seq[n] \in set THEN Append(kept[n - 1], seq[n]) ELSE kept[n - 1]
  BY <1>1, AmongEquation
<1> DEFINE Whole(so, n) == Len(so) = n => \A i \in 1..n : so[i] = seq[i]
           Only(so, n) == \A k \in 1..Len(so) : so[k] \in set /\ \E i \in 1..n : so[k] = seq[i]
           All(so, n) == \A i \in 1..n : seq[i] \in set => \E k \in 1..Len(so) : so[k] = seq[i]
           None(so, k) == \A l \in 1..k : so[l] \notin kind
           Firsts(so, n) == \A k \in 1..Len(so) : (so[k] \in kind /\ None(so, k - 1)) =>
                              \E i \in 1..n : seq[i] = so[k] /\ None(seq, i - 1)
           \* If nothing of the kind is kept there was nothing of the kind.
           Clear(so, n) == None(so, Len(so)) => None(seq, n)
           InOrder(so, n) == \E place \in [1..Len(so) -> 1..n] :
                               /\ \A k \in 1..Len(so) : so[k] = seq[place[k]]
                               /\ \A k, l \in 1..Len(so) : k < l => place[k] < place[l]
           Holds(so, n) == /\ so \in Seq(S) /\ Len(so) <= n
                           /\ Whole(so, n) /\ Only(so, n) /\ All(so, n) /\ Firsts(so, n) /\ Clear(so, n) /\ InOrder(so, n)
           T == {n \in 0..Len(seq) : Holds(kept[n], n)}
<1>3. 0 \in T
  <2>1. PICK so : so = kept[0] OBVIOUS
  <2>2. so = <<>> BY <1>2, <2>1
  <2>3. so \in Seq(S) /\ Len(so) = 0 BY <2>2
  <2>4. Whole(so, 0) /\ Only(so, 0) /\ All(so, 0) /\ Firsts(so, 0) /\ Clear(so, 0) BY <2>3
  <2>5. InOrder(so, 0)
    <3>1. [k \in {} |-> k] \in [1..Len(so) -> 1..0] /\ 1..Len(so) = {} BY <2>3
    <3> QED BY <3>1
  <2> HIDE DEF Whole, Only, All, Firsts, Clear, InOrder
  <2> QED BY <1>1, <2>1, <2>3, <2>4, <2>5
<1>4. ASSUME NEW n \in 1..Len(seq), n - 1 \in T PROVE n \in T
  <2>1. PICK so : so = kept[n - 1] OBVIOUS
  <2>2. PICK new : new = kept[n] OBVIOUS
  <2>3. PICK x \in S : x = seq[n] BY <1>1
  <2>4. Holds(so, n - 1) BY <1>4, <2>1
  <2>5. new = IF x \in set THEN Append(so, x) ELSE so BY <1>2, <2>1, <2>2, <2>3
  <2>6. n \in Nat /\ so \in Seq(S) /\ Len(so) \in Nat /\ Len(so) <= n - 1 BY <1>1, <2>4
  <2>7. CASE x \notin set
    <3>1. new = so BY <2>5, <2>7
    <3>2. x \notin kind BY <2>7
    <3>3. Whole(so, n) BY <2>6
    <3>4. Only(so, n) BY <2>4, <2>6
    <3>5. All(so, n) BY <2>3, <2>4, <2>6, <2>7
    <3>6. Firsts(so, n)
      <4> SUFFICES ASSUME NEW k \in 1..Len(so), so[k] \in kind, None(so, k - 1)
                   PROVE  \E i \in 1..n : seq[i] = so[k] /\ None(seq, i - 1)
        OBVIOUS
      <4>1. PICK i \in 1..(n - 1) : seq[i] = so[k] /\ None(seq, i - 1) BY <2>4
      <4>2. i \in 1..n BY <2>6
      <4> QED BY <4>1, <4>2
    <3>7. Clear(so, n)
      <4> SUFFICES ASSUME None(so, Len(so)) PROVE None(seq, n) OBVIOUS
      <4>1. None(seq, n - 1) BY <2>4
      <4> SUFFICES ASSUME NEW i \in 1..n PROVE seq[i] \notin kind OBVIOUS
      <4>2. i = n \/ i \in 1..(n - 1) BY <2>6
      <4> QED BY <2>3, <3>2, <4>1, <4>2
    <3>10. InOrder(so, n)
      <4>1. PICK place \in [1..Len(so) -> 1..(n - 1)] :
              /\ \A k \in 1..Len(so) : so[k] = seq[place[k]]
              /\ \A k, l \in 1..Len(so) : k < l => place[k] < place[l]
        BY <2>4
      <4>2. place \in [1..Len(so) -> 1..n] BY <2>6
      <4> QED BY <4>1, <4>2
    <3> HIDE DEF Whole, Only, All, Firsts, Clear, InOrder
    <3>8. Holds(so, n) BY <2>6, <3>3, <3>4, <3>5, <3>6, <3>7, <3>10
    <3>9. so = kept[n] /\ n \in 0..Len(seq) BY <1>1, <2>2, <3>1
    <3> HIDE DEF Holds
    <3> QED BY <3>8, <3>9
  <2>8. CASE x \in set
    <3>1. PICK m : m = Len(so) OBVIOUS
    <3>2. /\ new \in Seq(S) /\ Len(new) = m + 1 /\ m \in Nat /\ m <= n - 1
          /\ new[m + 1] = x /\ \A k \in 1..m : new[k] = so[k]
      <4>1. new = Append(so, x) BY <2>5, <2>8
      <4> QED BY <2>6, <3>1, <4>1, AppendProperties
    <3>3. Whole(new, n)
      <4> SUFFICES ASSUME m + 1 = n, NEW i \in 1..n PROVE new[i] = seq[i] BY <3>2
      <4>1. CASE i = n BY <2>3, <3>2, <4>1
      <4>2. CASE i # n
        <5>1. i \in 1..m /\ i \in 1..(n - 1) /\ Len(so) = n - 1 BY <3>1, <3>2, <4>2
        <5> QED BY <2>4, <3>2, <5>1
      <4> QED BY <4>1, <4>2
    <3>4. Only(new, n)
      <4> SUFFICES ASSUME NEW k \in 1..(m + 1) PROVE new[k] \in set /\ \E i \in 1..n : new[k] = seq[i]
        BY <3>2
      <4>1. CASE k = m + 1 BY <2>3, <2>6, <2>8, <3>2, <4>1
      <4>2. CASE k # m + 1
        <5>1. k \in 1..m BY <3>2, <4>2
        <5>2. PICK i \in 1..(n - 1) : so[k] = seq[i] BY <2>4, <3>1, <5>1
        <5>3. i \in 1..n BY <2>6
        <5> QED BY <2>4, <3>1, <3>2, <5>1, <5>2, <5>3
      <4> QED BY <4>1, <4>2
    <3>5. All(new, n)
      <4> SUFFICES ASSUME NEW i \in 1..n, seq[i] \in set PROVE \E k \in 1..(m + 1) : new[k] = seq[i]
        BY <3>2
      <4>1. CASE i = n BY <2>3, <3>2, <4>1
      <4>2. CASE i # n
        <5>1. i \in 1..(n - 1) BY <2>6, <4>2
        <5>2. PICK k \in 1..m : so[k] = seq[i] BY <2>4, <3>1, <5>1
        <5>3. k \in 1..(m + 1) BY <3>2
        <5> QED BY <3>2, <5>2, <5>3
      <4> QED BY <4>1, <4>2
    <3>6. None(new, m) => None(seq, n - 1)
      <4> SUFFICES ASSUME None(new, m) PROVE None(seq, n - 1) OBVIOUS
      <4>1. None(so, Len(so)) BY <3>1, <3>2
      <4> QED BY <2>4, <4>1
    <3>7. Firsts(new, n)
      <4> SUFFICES ASSUME NEW k \in 1..(m + 1), new[k] \in kind, None(new, k - 1)
                   PROVE  \E i \in 1..n : seq[i] = new[k] /\ None(seq, i - 1)
        BY <3>2
      <4>1. CASE k = m + 1
        <5>1. None(seq, n - 1) BY <3>2, <3>6, <4>1
        <5> QED BY <2>3, <2>6, <3>2, <4>1, <5>1
      <4>2. CASE k # m + 1
        <5>1. k \in 1..m BY <3>2, <4>2
        <5>2. so[k] \in kind /\ None(so, k - 1) BY <3>2, <5>1
        <5>3. PICK i \in 1..(n - 1) : seq[i] = so[k] /\ None(seq, i - 1) BY <2>4, <3>1, <5>1, <5>2
        <5>4. i \in 1..n BY <2>6
        <5> QED BY <3>2, <5>1, <5>3, <5>4
      <4> QED BY <4>1, <4>2
    <3>8. Clear(new, n)
      <4> SUFFICES ASSUME None(new, m + 1) PROVE None(seq, n) BY <3>2
      <4>1. None(new, m) /\ x \notin kind BY <3>2
      <4>2. None(seq, n - 1) BY <3>6, <4>1
      <4> SUFFICES ASSUME NEW i \in 1..n PROVE seq[i] \notin kind OBVIOUS
      <4>3. i = n \/ i \in 1..(n - 1) BY <2>6
      <4> QED BY <2>3, <4>1, <4>2, <4>3
    <3>9. InOrder(new, n)
      <4>1. PICK place \in [1..m -> 1..(n - 1)] :
              /\ \A k \in 1..m : so[k] = seq[place[k]]
              /\ \A k, l \in 1..m : k < l => place[k] < place[l]
        BY <2>4, <3>1
      <4>2. PICK longer : longer = [k \in 1..(m + 1) |-> IF k = m + 1 THEN n ELSE place[k]] OBVIOUS
      <4>3. \A k \in 1..(m + 1) : k = m + 1 \/ k \in 1..m BY <3>2
      <4>4. longer \in [1..Len(new) -> 1..n] BY <2>6, <3>2, <4>2, <4>3
      <4>5. \A k \in 1..Len(new) : new[k] = seq[longer[k]] BY <2>3, <3>2, <4>1, <4>2, <4>3
      <4>6. ASSUME NEW k \in 1..Len(new), NEW l \in 1..Len(new), k < l PROVE longer[k] < longer[l]
        <5>1. k \in 1..m /\ longer[k] = place[k] /\ place[k] \in 1..(n - 1) BY <3>2, <4>2, <4>3, <4>6
        <5>2. CASE l = m + 1 BY <2>6, <3>2, <4>2, <5>1, <5>2
        <5>3. CASE l # m + 1 BY <3>2, <4>1, <4>2, <4>3, <4>6, <5>1, <5>3
        <5> QED BY <5>2, <5>3
      <4> QED BY <4>4, <4>5, <4>6
    <3> HIDE DEF Whole, Only, All, Firsts, Clear, InOrder
    <3> QED BY <2>2, <2>6, <3>2, <3>3, <3>4, <3>5, <3>7, <3>8, <3>9
  <2> QED BY <2>7, <2>8
<1>5. Len(seq) \in T
  <2> HIDE DEF T
  <2>1. 0..Len(seq) \subseteq T BY <1>1, <1>3, <1>4, BoundedInduction
  <2> QED BY <1>1, <2>1
<1>6. Holds(among, Len(seq))
  <2> HIDE DEF Holds
  <2> QED BY <1>2, <1>5
<1> QED BY <1>6 DEF IsWhole, IsOnly, IsAll, IsFirst, IsInOrder

\* They are no more than seq has, and all of them only if it is seq.
LEMMA AmongSeq ==
    ASSUME NEW S, NEW seq \in Seq(S), NEW set, NEW among, among = Object!Among(seq, set)
    PROVE  among \in Seq(S)
<1>1. PICK kind : kind = {} OBVIOUS
<1>2. \A x \in kind : x \in set BY <1>1
<1> QED BY <1>2, AmongProperties, Zenon

LEMMA AmongWhole ==
    ASSUME NEW S, NEW seq \in Seq(S), NEW set, NEW among, among = Object!Among(seq, set)
    PROVE  Len(among) <= Len(seq) /\ (Len(among) = Len(seq) => \A i \in 1..Len(seq) : among[i] = seq[i])
<1>1. PICK kind : kind = {} OBVIOUS
<1>2. \A x \in kind : x \in set BY <1>1
<1>3. Len(among) <= Len(seq) /\ IsWhole(seq, among) BY <1>2, AmongProperties, Zenon
<1> QED BY <1>3 DEF IsWhole

\* They are those, and nothing else.
LEMMA AmongOnly ==
    ASSUME NEW S, NEW seq \in Seq(S), NEW set, NEW among, among = Object!Among(seq, set), NEW k \in 1..Len(among)
    PROVE  among[k] \in set /\ \E i \in 1..Len(seq) : among[k] = seq[i]
<1>1. PICK kind : kind = {} OBVIOUS
<1>2. \A x \in kind : x \in set BY <1>1
<1>3. IsOnly(seq, set, among) BY <1>2, AmongProperties, Zenon
<1> QED BY <1>3 DEF IsOnly

LEMMA AmongAll ==
    ASSUME NEW S, NEW seq \in Seq(S), NEW set, NEW among, among = Object!Among(seq, set),
           NEW i \in 1..Len(seq), seq[i] \in set
    PROVE  \E k \in 1..Len(among) : among[k] = seq[i]
<1>1. PICK kind : kind = {} OBVIOUS
<1>2. \A x \in kind : x \in set BY <1>1
<1>3. IsAll(seq, set, among) BY <1>2, AmongProperties, Zenon
<1> QED BY <1>3 DEF IsAll

\* They come as they do in seq.
LEMMA AmongInOrder ==
    ASSUME NEW S, NEW seq \in Seq(S), NEW set, NEW among, among = Object!Among(seq, set)
    PROVE  IsInOrder(seq, among)
<1>1. PICK kind : kind = {} OBVIOUS
<1>2. \A x \in kind : x \in set BY <1>1
<1> QED BY <1>2, AmongProperties, Zenon

\* The first of a kind that is kept comes first of it.
LEMMA AmongFirst ==
    ASSUME NEW S, NEW seq \in Seq(S), NEW set, NEW kind, \A x \in kind : x \in set,
           NEW among, among = Object!Among(seq, set)
    PROVE  IsFirst(seq, kind, among)
BY AmongProperties, Zenon

-----------------------------------------------------------------------------
(* What the batches ask. *)

\* What is opened i-th to reach an object.
Opens(path, i) == Object!Open(path[i], IF i = 1 THEN "logon" ELSE path[i - 1])

\* A batch around rops opens what is on the path from without, and releases it from within.
LEMMA AroundPath ==
    ASSUME NEW P, NEW path \in Seq(P), NEW R, NEW rops \in Seq(R), NEW batch, batch = Object!Around(path, rops)
    PROVE  /\ Len(batch) = Len(path) + Len(rops) + Len(path)
           /\ \A i \in 1..Len(path) :
                /\ batch[i] = Opens(path, i)
                /\ batch[Len(path) + Len(rops) + i] = Object!Release(path[Len(path) - i + 1])
           /\ \A i \in 1..Len(rops) : batch[Len(path) + i] = rops[i]
<1>1. PICK n \in Nat : n = Len(path) OBVIOUS
<1>2. PICK m \in Nat : m = Len(rops) OBVIOUS
<1> DEFINE shut(i) == Object!Release(path[n - i + 1])
<1>3. PICK opens : opens = [i \in 1..n |-> Opens(path, i)] OBVIOUS
<1>4. PICK closes : closes = [i \in 1..n |-> shut(i)] OBVIOUS
<1>5. batch = opens \o rops \o closes
  <2>1. DOMAIN path = 1..n BY <1>1
  <2>2. \A i \in 1..n : Object!Reverse(path)[i] = path[n - i + 1] BY <1>1 DEF Object!Reverse
  <2>3. closes = [i \in 1..n |-> Object!Release(Object!Reverse(path)[i])] BY <1>4, <2>2
  <2> QED BY <1>3, <2>1, <2>3 DEF Object!Around, Opens
<1> HIDE DEF shut
<1>6. PICK U : opens \in Seq(U) /\ Len(opens) = n /\ closes \in Seq(U) /\ Len(closes) = n /\ rops \in Seq(U)
  <2> DEFINE U == {Opens(path, i) : i \in 1..n} \cup R \cup {shut(i) : i \in 1..n}
  <2>1. opens \in [1..n -> U] /\ closes \in [1..n -> U] BY <1>3, <1>4
  <2>2. R \subseteq U OBVIOUS
  <2> HIDE DEF U
  <2>3. rops \in Seq(U) BY <2>2
  <2>4. Len(opens) = n /\ Len(closes) = n /\ opens \in Seq(U) /\ closes \in Seq(U) BY <2>1
  <2> QED BY <2>3, <2>4
<1>7. /\ opens \o rops \in Seq(U) /\ Len(opens \o rops) = n + m
      /\ \A i \in 1..(n + m) : (opens \o rops)[i] = IF i <= n THEN opens[i] ELSE rops[i - n]
  <2>1. PICK front : front = opens \o rops OBVIOUS
  <2>2. /\ front \in Seq(U) /\ Len(front) = Len(opens) + Len(rops)
        /\ \A i \in 1..(Len(opens) + Len(rops)) : front[i] = IF i <= Len(opens) THEN opens[i] ELSE rops[i - Len(opens)]
    BY <1>6, <2>1, ConcatProperties, Zenon
  <2> QED BY <1>2, <1>6, <2>1, <2>2
<1>8. PICK front : front = opens \o rops OBVIOUS
<1>9. /\ batch \in Seq(U) /\ Len(batch) = n + m + n
      /\ \A i \in 1..(n + m + n) : batch[i] = IF i <= n + m THEN front[i] ELSE closes[i - (n + m)]
  <2>1. front \in Seq(U) /\ batch = front \o closes BY <1>5, <1>7, <1>8
  <2>2. /\ front \o closes \in Seq(U) /\ Len(front \o closes) = Len(front) + Len(closes)
        /\ \A i \in 1..(Len(front) + Len(closes)) :
             (front \o closes)[i] = IF i <= Len(front) THEN front[i] ELSE closes[i - Len(front)]
    <3> HIDE <2>1
    <3>1. front \in Seq(U) /\ closes \in Seq(U) BY <1>6, <2>1
    <3> QED BY <3>1, ConcatProperties, Zenon
  <2>3. Len(front) = n + m /\ Len(closes) = n BY <1>6, <1>7, <1>8
  <2> QED BY <2>1, <2>2, <2>3
<1>10. \A i \in 1..n : batch[i] = Opens(path, i) BY <1>3, <1>7, <1>8, <1>9
<1>11. ASSUME NEW i \in 1..n PROVE batch[n + m + i] = shut(i)
  <2>1. n + m + i \in 1..(n + m + n) /\ ~(n + m + i <= n + m) /\ (n + m + i) - (n + m) = i OBVIOUS
  <2> QED BY <1>4, <1>9, <2>1
<1>12. ASSUME NEW i \in 1..m PROVE batch[n + i] = rops[i]
  <2>1. n + i \in 1..(n + m + n) /\ n + i <= n + m /\ n + i \in 1..(n + m) /\ ~(n + i <= n) /\ (n + i) - n = i
    OBVIOUS
  <2> QED BY <1>7, <1>8, <1>9, <2>1
<1> QED BY <1>1, <1>2, <1>9, <1>10, <1>11, <1>12 DEF shut

\* What AroundPath says, one by one.
LEMMA AroundOpens ==
    ASSUME NEW P, NEW path \in Seq(P), NEW R, NEW rops \in Seq(R), NEW batch, batch = Object!Around(path, rops)
    PROVE  \A i \in 1..Len(path) : batch[i] = Opens(path, i)
BY AroundPath

LEMMA AroundShuts ==
    ASSUME NEW P, NEW path \in Seq(P), NEW R, NEW rops \in Seq(R), NEW batch, batch = Object!Around(path, rops)
    PROVE  \A i \in 1..Len(path) : batch[Len(path) + Len(rops) + i] = Object!Release(path[Len(path) - i + 1])
BY AroundPath

AsksAfter(path, rops, batch) == \A i \in 1..Len(rops) : batch[Len(path) + i] = rops[i]

LEMMA AroundAsks ==
    ASSUME NEW P, NEW path \in Seq(P), NEW R, NEW rops \in Seq(R), NEW batch, batch = Object!Around(path, rops)
    PROVE  AsksAfter(path, rops, batch)
BY AroundPath DEF AsksAfter

\* Every object that a batch opens is released further on.
Balanced(batch) ==
    \A i \in 1..Len(batch) : batch[i].op = "open" =>
        \E j \in (i + 1)..Len(batch) : batch[j].op = "release" /\ batch[j].on = batch[i].makes

LEMMA AroundBalanced ==
    ASSUME NEW P, NEW path \in Seq(P), NEW R, NEW rops \in Seq(R), \A r \in R : r.op # "open",
           NEW batch, batch = Object!Around(path, rops)
    PROVE  Len(batch) \in Nat /\ Balanced(batch)
<1>1. PICK n \in Nat : n = Len(path) OBVIOUS
<1>2. PICK m \in Nat : m = Len(rops) OBVIOUS
<1>3. /\ Len(batch) = n + m + n
      /\ \A i \in 1..n : /\ batch[i] = Opens(path, i)
                         /\ batch[n + m + i] = Object!Release(path[n - i + 1])
      /\ \A i \in 1..m : batch[n + i] = rops[i]
  <2>1. /\ Len(batch) = Len(path) + Len(rops) + Len(path)
        /\ \A i \in 1..Len(path) :
             /\ batch[i] = Opens(path, i)
             /\ batch[Len(path) + Len(rops) + i] = Object!Release(path[Len(path) - i + 1])
        /\ \A i \in 1..Len(rops) : batch[Len(path) + i] = rops[i]
    <3> HIDE <1>1
    <3>1. Len(batch) = Len(path) + Len(rops) + Len(path) BY AroundPath
    <3>2. \A i \in 1..Len(path) : batch[i] = Opens(path, i) BY AroundPath
    <3>3. \A i \in 1..Len(path) : batch[Len(path) + Len(rops) + i] = Object!Release(path[Len(path) - i + 1]) BY AroundPath
    <3>4. \A i \in 1..Len(rops) : batch[Len(path) + i] = rops[i] BY AroundPath
    <3> QED BY <3>1, <3>2, <3>3, <3>4
  <2> QED BY <1>1, <1>2, <2>1
<1>4. ASSUME NEW i \in 1..(n + m + n), batch[i].op = "open"
      PROVE  \E j \in (i + 1)..(n + m + n) : batch[j].op = "release" /\ batch[j].on = batch[i].makes
  <2>1. CASE i <= n
    <3>1. PICK k \in 1..n : k = n - i + 1 BY <2>1
    <3>2. n + m + k \in (i + 1)..(n + m + n) /\ n - k + 1 = i BY <2>1, <3>1
    <3>3. batch[n + m + k] = Object!Release(path[i]) BY <1>3, <3>2
    <3>4. i \in 1..n BY <2>1
    <3>5. batch[i] = Opens(path, i) BY <1>3, <3>4
    <3>6. batch[i].makes = path[i] BY <3>5 DEF Object!Open, Opens
    <3> QED BY <3>2, <3>3, <3>6 DEF Object!Release
  <2>2. CASE i > n /\ i <= n + m
    <3>1. PICK k \in 1..m : i = n + k BY <2>2
    <3>2. batch[i] \in R BY <1>2, <1>3, <3>1
    <3> QED BY <1>4, <3>2
  <2>3. CASE i > n + m
    <3>1. PICK k \in 1..n : i = n + m + k BY <2>3
    <3>2. batch[i] = Object!Release(path[n - k + 1]) BY <1>3, <3>1
    <3>3. batch[i].op = "release" BY <3>2 DEF Object!Release
    <3> QED BY <1>4, <3>3
  <2> QED BY <2>1, <2>2, <2>3
<1> QED BY <1>3, <1>4 DEF Balanced

-----------------------------------------------------------------------------
(* What is opened is given back. *)

RunFields == {"store", "registered", "held", "edit", "out", "refused", "roomless", "refusals"}

\* What a ROP leaves open of what was open before it.
HeldBy(run, rop) ==
    CASE rop.op = "release" -> run.held \ {rop.on}
      [] rop.op = "open"    -> run.held \cup {rop.makes}
      [] OTHER              -> run.held

LEMMA SucceedsHolds ==
    ASSUME NEW run, DOMAIN run = RunFields, NEW rop, rop.op # "release", NEW r \in Object!Succeeds(run, rop)
    PROVE  DOMAIN r = RunFields /\ r.held \subseteq HeldBy(run, rop)
<1> USE DEF RunFields, HeldBy, Object!Said
<1>1. CASE rop.op = "open" BY <1>1 DEF Object!Succeeds
<1>2. CASE rop.op \in {"delete_messages", "move", "copy", "set_read_flags"}
  <2>1. r \in Object!OverMessages(run, rop) BY <1>2 DEF Object!Succeeds
  <2>2. PICK done, how : r = Object!DoneTo(run, rop, done, how) BY <2>1 DEF Object!OverMessages
  <2> QED BY <1>2, <2>2 DEF Object!DoneTo
<1>3. CASE rop.op \in {"set", "delete", "clear", "add"}
  <2>1. r \in Object!Change(run, rop) BY <1>3 DEF Object!Succeeds
  <2> QED BY <1>3, <2>1 DEF Object!Change
<1>4. CASE rop.op = "names"
  <2>1. r \in Object!Identify(run, rop) BY <1>4 DEF Object!Succeeds
  <2>2. PICK new, n : r = Object!Mapped(run, rop, new, n) BY <2>1 DEF Object!Identify
  <2> QED BY <1>4, <2>2 DEF Object!Mapped
<1>5. CASE rop.op \in {"save", "submit", "convert"} BY <1>5 DEF Object!Succeeds
<1>6. CASE rop.op \notin {"open", "delete_messages", "move", "copy", "set_read_flags", "set", "delete", "clear",
                         "add", "names", "save", "submit", "convert"}
  BY <1>6 DEF Object!Succeeds
<1> QED BY <1>1, <1>2, <1>3, <1>4, <1>5, <1>6

LEMMA RopHolds ==
    ASSUME NEW run, DOMAIN run = RunFields, NEW rop, NEW r \in Object!RunRop(run, rop)
    PROVE  DOMAIN r = RunFields /\ (r.roomless \/ (~run.roomless /\ r.held \subseteq HeldBy(run, rop)))
<1> USE DEF RunFields, HeldBy
<1>1. CASE run.roomless BY <1>1 DEF Object!RunRop
<1>2. CASE ~run.roomless /\ rop.op = "release" BY <1>2 DEF Object!RunRop
<1>3. CASE ~run.roomless /\ rop.op # "release"
  <2>1. CASE r \in Object!Succeeds(run, rop) BY <1>3, <2>1, SucceedsHolds
  <2>2. CASE r \notin Object!Succeeds(run, rop)
    <3>1. \/ \E how : r = Object!Fails(run, rop, how)
          \/ \E how : r = [Object!Fails(run, rop, how) EXCEPT !.roomless = TRUE]
      BY <1>3, <2>2 DEF Object!RunRop
    <3> QED BY <1>3, <3>1 DEF Object!Fails, Object!Said
  <2> QED BY <2>1, <2>2
<1> QED BY <1>1, <1>2, <1>3

LEMMA RunsFollow ==
    ASSUME NEW rops, rops = Object!Asked, NEW N \in Nat, N = Len(rops)
    PROVE  \E runs : /\ Object!Runs = runs[N]
                     /\ runs[0] = {Object!Running}
                     /\ \A n \in 1..N : runs[n] = Onward(runs[n - 1], rops[n])
<1>1. Len(rops) \in Nat OBVIOUS
<1>2. PICK after : /\ Object!Runs = after[Len(rops)]
                   /\ after[0] = {Object!Running}
                   /\ \A n \in 1..Len(rops) : after[n] = Onward(after[n - 1], rops[n])
  BY <1>1, RunsEquation
<1> QED BY <1>2

\* What a batch that did not run out of room has open was opened in it and not released since.
LEMMA RunsHold ==
    ASSUME Len(Object!Asked) \in Nat, Balanced(Object!Asked), NEW run \in Object!Runs
    PROVE  run.held \subseteq {"logon"} \/ run.roomless
<1>1. PICK rops : rops = Object!Asked OBVIOUS
<1>2. PICK N \in Nat : N = Len(rops) BY <1>1
<1>3. PICK runs : /\ Object!Runs = runs[N]
                  /\ runs[0] = {Object!Running}
                  /\ \A n \in 1..N : runs[n] = Onward(runs[n - 1], rops[n])
  BY <1>1, <1>2, RunsFollow
<1> DEFINE Open(slot, n) == \E i \in 1..n : /\ rops[i].op = "open" /\ rops[i].makes = slot
                                            /\ \A j \in (i + 1)..n : ~(rops[j].op = "release" /\ rops[j].on = slot)
           Holds(r, n) == DOMAIN r = RunFields /\ (r.roomless \/ \A slot \in r.held : slot = "logon" \/ Open(slot, n))
           T == {n \in 0..N : \A r \in runs[n] : Holds(r, n)}
<1>5. 0 \in T BY <1>3 DEF Object!Running, RunFields
<1>6. ASSUME NEW n \in 1..N, n - 1 \in T PROVE n \in T
  <2> SUFFICES ASSUME NEW r \in runs[n] PROVE Holds(r, n) OBVIOUS
  <2>1. PICK before \in runs[n - 1] : r \in Object!RunRop(before, rops[n])
    <3>1. r \in Onward(runs[n - 1], rops[n]) BY <1>3
    <3> QED BY <3>1 DEF Onward
  <2>2. Holds(before, n - 1) BY <1>6
  <2>3. DOMAIN r = RunFields /\ (r.roomless \/ (~before.roomless /\ r.held \subseteq HeldBy(before, rops[n])))
    BY <2>1, <2>2, RopHolds
  <2>4. ASSUME ~r.roomless, NEW slot \in r.held, slot # "logon" PROVE Open(slot, n)
    <3>1. slot \in HeldBy(before, rops[n]) BY <2>3, <2>4
    <3>2. CASE slot \in before.held /\ ~(rops[n].op = "release" /\ rops[n].on = slot)
      <4>1. PICK i \in 1..(n - 1) :
              /\ rops[i].op = "open" /\ rops[i].makes = slot
              /\ \A j \in (i + 1)..(n - 1) : ~(rops[j].op = "release" /\ rops[j].on = slot)
        BY <2>2, <2>3, <2>4, <3>2
      <4>2. i \in 1..n /\ \A j \in (i + 1)..n : j = n \/ j \in (i + 1)..(n - 1) OBVIOUS
      <4> QED BY <3>2, <4>1, <4>2
    <3>3. CASE rops[n].op = "open" /\ rops[n].makes = slot
      <4>1. n \in 1..n /\ (n + 1)..n = {} OBVIOUS
      <4> QED BY <3>3, <4>1
    <3> QED BY <3>1, <3>2, <3>3 DEF HeldBy
  <2> QED BY <2>3, <2>4
<1>7. N \in T
  <2> HIDE DEF T
  <2>1. 0..N \subseteq T BY <1>5, <1>6, BoundedInduction
  <2> QED BY <2>1
<1>8. Holds(run, N) BY <1>3, <1>7
<1>9. ASSUME NEW slot, Open(slot, N) PROVE FALSE
  <2>1. PICK i \in 1..N : /\ rops[i].op = "open" /\ rops[i].makes = slot
                          /\ \A j \in (i + 1)..N : ~(rops[j].op = "release" /\ rops[j].on = slot)
    BY <1>9
  <2>2. PICK j \in (i + 1)..N : rops[j].op = "release" /\ rops[j].on = rops[i].makes
    BY <1>1, <1>2, <2>1 DEF Balanced
  <2> QED BY <2>1, <2>2
<1> QED BY <1>8, <1>9

\* What is on the way to an object, whatever the object.
Slots == {"folder", "message", "attachment", "embedded"}

\* The calls that say what they reach.
Reaches == call.kind \notin {"delete", "read", "move", "copy", "update", "send", "resolve", "register"}

LEMMA OneRopBalanced ==
    ASSUME NEW op, NEW target \in DOMAIN Object!Path
    PROVE  Len(Object!OneRop(op, target)) \in Nat /\ Balanced(Object!OneRop(op, target))
<1>1. PICK path : path = Object!Path[target] OBVIOUS
<1>2. path \in Seq(Slots)
  <2> USE <1>1 DEF Object!Path, Slots
  <2>1. CASE target = "logon" BY <2>1
  <2>2. CASE target = "folder" BY <2>2
  <2>3. CASE target = "message" BY <2>3
  <2>4. CASE target = "attachment" BY <2>4
  <2>5. CASE target = "embedded" BY <2>5
  <2> QED BY <2>1, <2>2, <2>3, <2>4, <2>5
<1>3. PICK rops : rops = IF op = "open" THEN <<>> ELSE <<Object!Rop(op, target)>> OBVIOUS
<1> DEFINE R == IF op = "open" THEN {} ELSE {Object!Rop(op, target)}
<1>4. rops \in Seq(R)
  <2>1. CASE op = "open" BY <1>3, <2>1
  <2>2. CASE op # "open" BY <1>3, <2>2
  <2> QED BY <2>1, <2>2
<1>5. \A r \in R : r.op # "open" BY DEF Object!Rop
<1>6. Object!OneRop(op, target) = Object!Around(path, rops) BY <1>1, <1>3 DEF Object!OneRop
<1> HIDE DEF R
<1> QED BY <1>2, <1>4, <1>5, <1>6, AroundBalanced

\* What an update may ask of its message, in the order it asks.
UpdateOps == <<"set", "delete", "clear", "add", "save", "submit">>
Deeds == {"set", "delete", "clear", "add", "save", "submit"}
Submits(done) == IF done THEN {"submit"} ELSE {}

\* A function of the numbers to n is a sequence of n.
LEMMA FunctionSeq ==
    ASSUME NEW R, NEW n \in Nat, NEW f, DOMAIN f = 1..n, \A i \in 1..n : f[i] \in R, f = [i \in 1..n |-> f[i]]
    PROVE  f \in Seq(R) /\ Len(f) = n
<1>1. f \in [1..n -> R] OBVIOUS
<1> QED BY <1>1

\* The ROPs of an update's deeds: one of the message for each.
RopsOf(ops) == [i \in DOMAIN ops |-> Object!Rop(ops[i], "message")]
OpsOf(changes, done) == Object!Among(UpdateOps, changes \cup {"set", "save"} \cup Submits(done))

LEMMA UpdateAsks ==
    ASSUME NEW changes, NEW done
    PROVE  Object!Update(changes, done) = Object!Around(<<"message">>, RopsOf(OpsOf(changes, done)))
<1>1. Object!Path.message = <<"message">> BY DEF Object!Path
<1> QED BY <1>1 DEF Object!Update, UpdateOps, Submits, RopsOf, OpsOf

LEMMA OpsAre ==
    ASSUME NEW changes, NEW done
    PROVE  OpsOf(changes, done) \in Seq(Deeds)
<1>1. UpdateOps \in Seq(Deeds) BY DEF UpdateOps, Deeds
<1> QED BY <1>1, AmongSeq DEF OpsOf

LEMMA RopsAre ==
    ASSUME NEW ops \in Seq(Deeds)
    PROVE  RopsOf(ops) \in Seq({Object!Rop(op, "message") : op \in Deeds}) /\ Len(RopsOf(ops)) = Len(ops)
<1> DEFINE R == {Object!Rop(op, "message") : op \in Deeds}
<1>1. PICK n \in Nat : n = Len(ops) /\ DOMAIN ops = 1..n OBVIOUS
<1>2. PICK rops : rops = RopsOf(ops) OBVIOUS
<1>3. \A i \in 1..n : rops[i] \in R BY <1>1, <1>2 DEF RopsOf
<1>4. DOMAIN rops = 1..n /\ rops = [i \in 1..n |-> rops[i]] BY <1>1, <1>2 DEF RopsOf
<1> HIDE DEF R
<1>5. rops \in Seq(R) /\ Len(rops) = n BY <1>3, <1>4, FunctionSeq
<1> QED BY <1>1, <1>2, <1>5 DEF R

LEMMA UpdateBalanced ==
    ASSUME NEW changes, NEW done
    PROVE  Len(Object!Update(changes, done)) \in Nat /\ Balanced(Object!Update(changes, done))
<1>1. PICK ops \in Seq(Deeds) : ops = OpsOf(changes, done) BY OpsAre
<1>2. PICK rops : rops = RopsOf(ops) OBVIOUS
<1>3. PICK R : R = {Object!Rop(op, "message") : op \in Deeds} OBVIOUS
<1>4. Object!Update(changes, done) = Object!Around(<<"message">>, rops) BY <1>1, <1>2, UpdateAsks
<1>5. rops \in Seq(R) BY <1>2, <1>3, RopsAre
<1>6. \A r \in R : r.op # "open" BY <1>3 DEF Object!Rop, Deeds
<1>7. <<"message">> \in Seq(Slots) BY DEF Slots
<1> QED BY <1>4, <1>5, <1>6, <1>7, AroundBalanced

LEMMA AskedBalanced ==
    ASSUME trip # "second" /\ Reaches => call.target \in DOMAIN Object!Path
    PROVE  Len(Object!Asked) \in Nat /\ Balanced(Object!Asked)
<1>1. CASE trip = "second"
  <2>1. PICK asks : asks = Object!Pending OBVIOUS
  <2>2. Specials \in Seq(STRING) BY ObjectAssumption
  <2>3. asks \in Seq(STRING)
    <3>1. PICK set : asks = Object!Among(Specials, set) BY <2>1 DEF Object!Pending
    <3> QED BY <2>2, <3>1, AmongSeq
  <2>4. Object!Conversions = [i \in 1..Len(asks) |-> [op |-> "convert", on |-> "logon", of |-> asks[i]]]
    BY <2>1, <2>3 DEF Object!Conversions
  <2>5. Object!Asked = Object!Conversions BY <1>1 DEF Object!Asked
  <2>6. Len(Object!Asked) = Len(asks) /\ Len(asks) \in Nat BY <2>3, <2>4, <2>5
  <2>7. \A i \in 1..Len(asks) : Object!Asked[i].op = "convert" BY <2>4, <2>5
  <2> QED BY <2>6, <2>7 DEF Balanced
<1>2. CASE trip # "second" /\ call.kind \in {"delete", "read", "send"}
  <2>1. Object!Asked \in {Object!OneRop("delete_messages", "folder"), Object!OneRop("set_read_flags", "folder"),
                          Object!OneRop("submit", "message")}
    BY <1>2 DEF Object!Asked, Object!AskedFirst, Object!DeleteMessages, Object!SetRead, Object!Send
  <2>2. "folder" \in DOMAIN Object!Path /\ "message" \in DOMAIN Object!Path BY DEF Object!Path
  <2> QED BY <2>1, <2>2, OneRopBalanced
<1>3. CASE trip # "second" /\ call.kind \in {"move", "copy"}
  <2>1. Object!Asked = <<Object!Open("folder", "logon"), Object!Open("to", "logon"), Object!Rop(call.kind, "folder"),
                         Object!Release("folder"), Object!Release("to")>>
    BY <1>3 DEF Object!Asked, Object!AskedFirst, Object!MoveOrCopy
  <2>2. Balanced(<<Object!Open("folder", "logon"), Object!Open("to", "logon"), Object!Rop(call.kind, "folder"),
                   Object!Release("folder"), Object!Release("to")>>)
    BY <1>3 DEF Balanced, Object!Open, Object!Rop, Object!Release
  <2> QED BY <2>1, <2>2
<1>4. CASE trip # "second" /\ call.kind = "update"
  <2>1. Object!Asked = Object!Update(call.changes, call.submit) BY <1>4 DEF Object!Asked, Object!AskedFirst
  <2> QED BY <2>1, UpdateBalanced
<1>5. CASE trip # "second" /\ call.kind \in {"resolve", "register"}
  <2>1. PICK r : Object!Asked = <<r>> /\ r.op = "names" BY <1>5 DEF Object!Asked, Object!AskedFirst, Object!PropertyIds
  <2> QED BY <2>1 DEF Balanced
<1>6. CASE trip # "second" /\ Reaches
  <2>1. Object!Asked = Object!OneRop(call.kind, call.target) BY <1>6 DEF Object!Asked, Object!AskedFirst, Reaches
  <2> QED BY <1>6, <2>1, OneRopBalanced
<1> QED BY <1>1, <1>2, <1>3, <1>4, <1>5, <1>6 DEF Reaches

\* Nothing is left open but by a batch that ran out of room; and what a call reaches can be reached.
LeftInv ==
    /\ Object!GivesBack
    /\ trip = "first" /\ Reaches => call.target \in DOMAIN Object!Path

\* What a step does about the mailbox's objects.
LEMMA ObjectSteps == ASSUME [Next]_vars PROVE UNCHANGED objectVars \/ Object!Renew \/ Objecting
BY StepsOfCalls DEF BeginTable, BeginStream, BeginDraft, BeginObject, End, Reconnect, InTable, InStream, InDraft,
                    InObject, Objecting, vars

\* However the answer is read, the call is over or goes on to its second round trip.
LEMMA AbsorbEnds ==
    ASSUME NEW run, Object!Absorb(run)
    PROVE  trip' \in {"second", "done"}
<1> USE DEF Object!Finish
<1>1. CASE Object!Converted(run.out) BY <1>1 DEF Object!Converted
<1>2. CASE Object!ListDone(run.out) BY <1>2 DEF Object!ListDone
<1>3. CASE Object!UpdateDone(run.out) BY <1>3 DEF Object!UpdateDone
<1>4. CASE Object!InboxRead BY <1>4 DEF Object!InboxRead
<1>5. CASE Object!NamesGot(run.out[1].ids) BY <1>5 DEF Object!NamesGot
<1>6. CASE trip' = "done" BY <1>6
<1> QED BY <1>1, <1>2, <1>3, <1>4, <1>5, <1>6 DEF Object!Absorb

LEMMA PostLeaves ==
    ASSUME Object!GivesBack, NEW c, Object!Post(c),
           c.kind \notin {"delete", "read", "move", "copy", "update", "send", "resolve", "register"} =>
             c.target \in DOMAIN Object!Path
    PROVE  LeftInv'
BY DEF Object!Post, Object!historyVars, LeftInv, Object!GivesBack, Reaches

LEMMA BeginLeaves == ASSUME LeftInv, Object!Begin PROVE LeftInv'
<1> USE DEF Object!Call
<1>0. Object!GivesBack BY DEF LeftInv
<1>1. ASSUME NEW kind \in {"delete", "read", "move", "copy"}, Object!OverList(kind) PROVE LeftInv'
  <2>1. [kind |-> kind].kind \in {"delete", "read", "move", "copy"} OBVIOUS
  <2> QED BY <1>0, <1>1, <2>1, PostLeaves DEF Object!OverList
<1>2. CASE Object!UpdateMessage
  <2>1. PICK changes, done : Object!Post([kind |-> "update", changes |-> changes, submit |-> done])
    BY <1>2 DEF Object!UpdateMessage
  <2> QED BY <1>0, <2>1, PostLeaves
<1>3. CASE Object!SendMessage BY <1>0, <1>3, PostLeaves DEF Object!SendMessage
<1>4. ASSUME NEW kind, NEW target \in DOMAIN Object!Path, Object!Call([kind |-> kind, target |-> target])
      PROVE  LeftInv'
  <2>1. [kind |-> kind, target |-> target].target = target OBVIOUS
  <2> QED BY <1>0, <1>4, <2>1, PostLeaves
<1>5. /\ "logon" \in DOMAIN Object!Path /\ "folder" \in DOMAIN Object!Path /\ "message" \in DOMAIN Object!Path
      /\ "attachment" \in DOMAIN Object!Path /\ "embedded" \in DOMAIN Object!Path
  BY DEF Object!Path
<1>6. CASE Object!AskProperties \/ Object!OpenObject \/ Object!ConvertId \/ Object!NamesOf
  BY <1>4, <1>5, <1>6 DEF Object!AskProperties, Object!OpenObject, Object!ConvertId, Object!NamesOf
<1>7. CASE Object!ResolveSpecialFolders
  BY <1>0, <1>5, <1>7, PostLeaves DEF Object!ResolveSpecialFolders
<1>8. ASSUME NEW kind \in {"resolve", "register"}, NEW wanted, Object!AskNames(kind, wanted) PROVE LeftInv'
  <2>1. PICK c : c = [kind |-> kind, wanted |-> wanted] OBVIOUS
  <2>2. c.kind \in {"resolve", "register"} BY <2>1
  <2>3. CASE Object!Post(c) BY <1>0, <2>2, <2>3, PostLeaves
  <2>4. CASE trip' = "done" /\ UNCHANGED <<left, roomless>> BY <1>0, <2>4 DEF LeftInv, Object!GivesBack
  <2> QED BY <1>8, <2>1, <2>3, <2>4 DEF Object!AskNames, Object!Finish, Object!historyVars
<1> QED BY <1>1, <1>2, <1>3, <1>6, <1>7, <1>8
        DEF Object!Begin, Object!ResolveNames, Object!RegisterNames

LEMMA ObjectsLeave == ASSUME LeftInv, Objecting PROVE LeftInv'
<1>1. CASE Object!Begin BY <1>1, BeginLeaves
<1>2. ASSUME NEW run \in Object!Runs, Object!Waiting, Object!Effect(run) PROVE Object!GivesBack'
  <2>1. Len(Object!Asked) \in Nat /\ Balanced(Object!Asked) BY <1>2, AskedBalanced DEF LeftInv, Object!Waiting
  <2>2. run.held \subseteq {"logon"} \/ run.roomless BY <2>1, RunsHold
  <2> QED BY <1>2, <2>2 DEF Object!Effect, Object!GivesBack
<1>3. ASSUME Object!Waiting, UNCHANGED call, Object!GivesBack', trip' \in {"second", "done"} PROVE LeftInv'
  BY <1>3 DEF LeftInv
<1>4. CASE Object!Answered
  <2>1. PICK run \in Object!Runs : Object!Effect(run) /\ Object!Absorb(run) BY <1>4 DEF Object!Answered
  <2>2. trip' \in {"second", "done"} BY <2>1, AbsorbEnds
  <2> QED BY <1>2, <1>3, <1>4, <2>1, <2>2 DEF Object!Answered
<1>5. CASE Object!Unreadable BY <1>2, <1>3, <1>5 DEF Object!Unreadable, Object!Finish
<1>6. CASE Object!Lost \/ Object!Cancel
  <2>1. Object!Waiting /\ UNCHANGED call /\ trip' = "done" BY <1>6 DEF Object!Lost, Object!Cancel, Object!Gone, Object!Finish
  <2>2. UNCHANGED <<left, roomless>> \/ \E run \in Object!Runs : Object!Effect(run)
    BY <1>6 DEF Object!Lost, Object!Cancel, Object!Gone
  <2>3. Object!GivesBack' BY <1>2, <2>1, <2>2 DEF LeftInv, Object!GivesBack
  <2> QED BY <1>3, <2>1, <2>3
<1>7. CASE Object!OtherRegisters
  BY <1>7 DEF Object!OtherRegisters, Object!clientVars, Object!historyVars, LeftInv, Object!GivesBack, Reaches
<1> QED BY <1>1, <1>4, <1>5, <1>6, <1>7 DEF Objecting, Object!Progress

\* Nothing is left open in the server but by a batch that ran out of room.
THEOREM LeftInvariant == Spec => []LeftInv
<1>1. Init => LeftInv BY DEF Init, Object!Init, LeftInv, Object!GivesBack
<1>2. LeftInv /\ [Next]_vars => LeftInv'
  <2> SUFFICES ASSUME LeftInv, [Next]_vars PROVE LeftInv' OBVIOUS
  <2>1. CASE UNCHANGED objectVars BY <2>1 DEF LeftInv, Object!GivesBack, Reaches
  <2>2. CASE Object!Renew BY <2>2 DEF Object!Renew, LeftInv, Object!GivesBack
  <2>3. CASE Objecting BY <2>3, ObjectsLeave
  <2>4. UNCHANGED objectVars \/ Object!Renew \/ Objecting BY ObjectSteps
  <2> QED BY <2>1, <2>2, <2>3, <2>4
<1> QED BY <1>1, <1>2, PTL DEF Spec

-----------------------------------------------------------------------------
(* What is cached of names. *)

Entries == [name : Names, id : Names \cup {"zero"}]

\* The i-th entry is the first of its name.
FirstOf(entries, n, i) == entries[i].name = n /\ \A j \in 1..(i - 1) : entries[j].name # n

LEMMA GetFirst ==
    ASSUME NEW entries \in Seq(Entries), NEW n
    PROVE  \/ Object!Get(entries, n) = "unasked" /\ \A i \in 1..Len(entries) : entries[i].name # n
           \/ \E i \in 1..Len(entries) : FirstOf(entries, n, i) /\ Object!Get(entries, n) = entries[i].id
<1>1. PICK set : set = {e \in Object!ToSet(entries) : e.name = n} OBVIOUS
<1>2. PICK among : among = Object!Among(entries, set) OBVIOUS
<1>3. Object!Get(entries, n) = IF among = <<>> THEN "unasked" ELSE among[1].id BY <1>1, <1>2 DEF Object!Get
<1>4. \A x \in set : x \in set OBVIOUS
<1>5. among \in Seq(Entries) BY <1>2, AmongSeq
<1>6. \A i \in 1..Len(entries) : entries[i] \in set <=> entries[i].name = n BY <1>1 DEF Object!ToSet
<1>7. CASE among = <<>>
  <2>1. ASSUME NEW i \in 1..Len(entries), entries[i] \in set PROVE \E k \in 1..Len(among) : among[k] = entries[i]
    BY <1>2, <2>1, AmongAll
  <2>2. \A i \in 1..Len(entries) : entries[i] \notin set BY <1>7, <2>1
  <2> QED BY <1>3, <1>6, <1>7, <2>2
<1>8. CASE among # <<>>
  <2>1. 1 \in 1..Len(among) /\ \A l \in 1..(1 - 1) : among[l] \notin set BY <1>5, <1>8
  <2>2. among[1] \in set BY <1>2, <2>1, AmongOnly
  <2>3. PICK i \in 1..Len(entries) : entries[i] = among[1] /\ \A j \in 1..(i - 1) : entries[j] \notin set
    <3>1. IsFirst(entries, set, among) BY <1>2, <1>4, AmongFirst
    <3> QED BY <2>1, <2>2, <3>1 DEF IsFirst
  <2>4. \A j \in 1..(i - 1) : entries[j].name # n BY <1>6, <2>3
  <2> QED BY <1>3, <1>6, <1>8, <2>2, <2>3, <2>4 DEF FirstOf
<1> QED BY <1>7, <1>8

\* What is got of a name is what its first entry says, and nothing else.
LEMMA GetIs ==
    ASSUME NEW entries \in Seq(Entries), NEW n, NEW i \in 1..Len(entries), FirstOf(entries, n, i)
    PROVE  Object!Get(entries, n) = entries[i].id
<1>1. PICK j \in 1..Len(entries) : FirstOf(entries, n, j) /\ Object!Get(entries, n) = entries[j].id
  BY GetFirst DEF FirstOf
<1>2. i = j
  <2>1. ~(i < j) /\ ~(j < i) BY <1>1 DEF FirstOf
  <2> QED BY <2>1
<1> QED BY <1>1, <1>2

LEMMA GetNone ==
    ASSUME NEW entries \in Seq(Entries), NEW n
    PROVE  Object!Get(entries, n) = "unasked" <=> \A i \in 1..Len(entries) : entries[i].name # n
<1>1. \A e \in Entries : e.id # "unasked" BY NamesAssumption DEF Entries
<1>2. \A i \in 1..Len(entries) : entries[i] \in Entries OBVIOUS
<1> QED BY <1>1, <1>2, GetFirst DEF FirstOf

\* What is forgotten of the names wanted is all there was of them, and of no other.
LEMMA Forgotten ==
    ASSUME names \in Seq(Entries), NEW wanted, NEW rest, rest = Object!Forget(wanted)
    PROVE  /\ rest \in Seq(Entries)
           /\ \A n \in Object!ToSet(wanted) : Object!Get(rest, n) = "unasked"
           /\ \A n : n \notin Object!ToSet(wanted) => Object!Get(rest, n) = Object!Get(names, n)
<1>1. PICK set : set = {e \in Object!ToSet(names) : e.name \notin Object!ToSet(wanted)} OBVIOUS
<1>2. rest = Object!Among(names, set) BY <1>1 DEF Object!Forget
<1>3. rest \in Seq(Entries) BY <1>2, AmongSeq
<1>4. \A x \in set : x \in set OBVIOUS
<1>5. ASSUME NEW n \in Object!ToSet(wanted) PROVE Object!Get(rest, n) = "unasked"
  <2>1. \A k \in 1..Len(rest) : rest[k] \in set BY <1>2, AmongOnly
  <2>2. \A k \in 1..Len(rest) : rest[k].name # n BY <1>1, <1>5, <2>1
  <2> QED BY <1>3, <2>2, GetNone
<1>6. ASSUME NEW n, n \notin Object!ToSet(wanted) PROVE Object!Get(rest, n) = Object!Get(names, n)
  <2>1. PICK kind : kind = {e \in Object!ToSet(names) : e.name = n} OBVIOUS
  <2>2. \A x \in kind : x \in set BY <1>1, <1>6, <2>1
  <2>3. \A i \in 1..Len(names) : names[i] \in kind <=> names[i].name = n BY <2>1 DEF Object!ToSet
  <2>4. CASE \A k \in 1..Len(rest) : rest[k].name # n
    <3>1. ASSUME NEW i \in 1..Len(names), names[i] \in set PROVE \E k \in 1..Len(rest) : rest[k] = names[i]
      BY <1>2, <3>1, AmongAll
    <3>2. \A i \in 1..Len(names) : names[i].name # n BY <2>2, <2>3, <2>4, <3>1
    <3> QED BY <1>3, <2>4, <3>2, GetNone
  <2>5. CASE \E k \in 1..Len(rest) : rest[k].name = n
    <3>1. PICK k \in 1..Len(rest) : FirstOf(rest, n, k) /\ Object!Get(rest, n) = rest[k].id
      BY <1>3, <2>5, GetFirst
    <3>2. ASSUME NEW l \in 1..Len(rest) PROVE \E i \in 1..Len(names) : rest[l] = names[i]
      BY <1>2, AmongOnly
    <3>3. \A l \in 1..Len(rest) : rest[l] \in kind <=> rest[l].name = n BY <2>3, <3>2
    <3>4. rest[k] \in kind /\ \A l \in 1..(k - 1) : rest[l] \notin kind BY <1>3, <3>1, <3>3 DEF FirstOf
    <3>5. PICK i \in 1..Len(names) : names[i] = rest[k] /\ \A j \in 1..(i - 1) : names[j] \notin kind
      <4>1. IsFirst(names, kind, rest) BY <1>2, <2>2, AmongFirst
      <4> QED BY <3>4, <4>1 DEF IsFirst
    <3>6. FirstOf(names, n, i) BY <2>3, <3>1, <3>5 DEF FirstOf
    <3> QED BY <3>1, <3>5, <3>6, GetIs
  <2> QED BY <2>4, <2>5
<1> QED BY <1>3, <1>5, <1>6

\* What is wanted of a list is of the list, and what is got of it is among the ids.
LEMMA WantedIs ==
    ASSUME NEW asked \in Seq(Names), NEW ids, NEW wanted, wanted = Object!Wanted(asked, ids)
    PROVE  wanted \in Seq(Names) /\ \A k \in 1..Len(wanted) : Object!Get(names, wanted[k]) \in ids
<1>1. PICK count : count = [i \in DOMAIN asked |-> i] OBVIOUS
<1>2. PICK set : /\ \A i \in set : i \in DOMAIN asked /\ Object!Get(names, asked[i]) \in ids
                 /\ \E places : places = Object!Among(count, set) /\ wanted = [k \in DOMAIN places |-> asked[places[k]]]
  BY <1>1 DEF Object!Wanted
<1>3. PICK places : places = Object!Among(count, set) /\ wanted = [k \in DOMAIN places |-> asked[places[k]]]
  BY <1>2
<1>4. count \in Seq(Nat) BY <1>1
<1>5. places \in Seq(Nat) BY <1>3, <1>4, AmongSeq
<1>7. \A k \in 1..Len(places) : places[k] \in set BY <1>3, <1>4, AmongOnly
<1>8. DOMAIN places = 1..Len(places) /\ Len(places) \in Nat BY <1>5
<1>9. \A k \in 1..Len(places) : wanted[k] = asked[places[k]] /\ asked[places[k]] \in Names BY <1>2, <1>3, <1>7, <1>8
<1>10. wanted \in Seq(Names) /\ Len(wanted) = Len(places) BY <1>3, <1>8, <1>9
<1> QED BY <1>2, <1>7, <1>9, <1>10

\* What is cached is of the store; and what is asked now is not cached, so that what is absorbed is found.
NamesInv ==
    /\ names \in Seq(Entries) /\ learnt \subseteq Names
    /\ Object!NamesAreTheStores
    /\ trip = "first" /\ call.kind \in {"resolve", "register"} =>
         call.wanted \in Seq(Names) /\ \A i \in 1..Len(call.wanted) : Object!Get(names, call.wanted[i]) = "unasked"

\* A store answers a name with its own id or none, and the same name alike.
IdsOf(wanted, ids) ==
    \E n \in Int : /\ n <= Len(wanted) /\ DOMAIN ids = 1..n
                   /\ \A i \in 1..n : ids[i] \in {wanted[i], "zero"}
                   /\ \A i, j \in 1..n : wanted[i] = wanted[j] => ids[i] = ids[j]

LEMMA NamesAnswered ==
    ASSUME trip = "first", call.kind \in {"resolve", "register"}, call.wanted \in Seq(Names),
           NEW run \in Object!Runs, ~run.refused
    PROVE  IdsOf(call.wanted, run.out[1].ids)
<1>1. PICK rop : Object!Asked = <<rop>> /\ rop.op = "names" /\ rop.wanted = call.wanted
  BY DEF Object!Asked, Object!AskedFirst, Object!PropertyIds
<1>2. Len(Object!Asked) = 1 /\ Object!Asked[1] = rop BY <1>1
<1>3. run \in Object!RunRop(Object!Running, rop)
  <2>1. PICK batch : batch = Object!Asked OBVIOUS
  <2>2. PICK after : /\ Object!Runs = after[Len(batch)]
                     /\ after[0] = {Object!Running}
                     /\ \A n \in 1..Len(batch) : after[n] = Onward(after[n - 1], batch[n])
    BY <1>2, <2>1, RunsEquation
  <2>3. PICK n \in Nat : n = Len(batch) /\ n = 1 BY <1>2, <2>1
  <2>4. Object!Runs = after[1] /\ after[1] = Onward(after[1 - 1], batch[1])
    BY <2>2, <2>3
  <2>5. 1 - 1 = 0 OBVIOUS
  <2> QED BY <1>2, <2>1, <2>2, <2>4, <2>5 DEF Onward
<1>4. PICK before : before = Object!Running OBVIOUS
<1>5. DOMAIN before = RunFields /\ ~before.roomless /\ before.out = <<>> BY <1>4 DEF Object!Running, RunFields
<1>6. run \in Object!Succeeds(before, rop)
  <2> SUFFICES ASSUME run \notin Object!Succeeds(before, rop) PROVE FALSE OBVIOUS
  <2>1. \/ \E how : run = Object!Fails(before, rop, how)
        \/ \E how : run = [Object!Fails(before, rop, how) EXCEPT !.roomless = TRUE]
    BY <1>1, <1>3, <1>4, <1>5 DEF Object!RunRop
  <2> QED BY <1>1, <1>5, <2>1 DEF Object!Fails, RunFields
<1>7. run \in Object!Identify(before, rop) BY <1>1, <1>6 DEF Object!Succeeds
<1>8. PICK new, n : n \in {Len(rop.wanted), Len(rop.wanted) - 1} /\ run = Object!Mapped(before, rop, new, n)
  BY <1>7 DEF Object!Identify
<1> DEFINE known == before.registered \cup new
           ids == [i \in 1..n |-> IF rop.wanted[i] \in known THEN rop.wanted[i] ELSE "zero"]
<1>9. run.out = <<[op |-> "names", how |-> "ok", ids |-> ids]>>
  BY <1>5, <1>8 DEF Object!Mapped, RunFields
<1>10. run.out[1].ids = ids
  <2> HIDE DEF ids
  <2> QED BY <1>9
<1>11. n \in Int /\ n <= Len(call.wanted) BY <1>1, <1>8
<1>12. IdsOf(call.wanted, ids) BY <1>1, <1>11 DEF IdsOf
<1> QED BY <1>10, <1>12

LEMMA Absorbed ==
    ASSUME NamesInv, NEW wanted \in Seq(Names), NEW ids, IdsOf(wanted, ids),
           \A i \in 1..Len(wanted) : Object!Get(names, wanted[i]) = "unasked",
           NEW after, after = Object!AbsorbNames(wanted, ids)
    PROVE  /\ after \in Seq(Entries)
           /\ \A i \in DOMAIN after : after[i].id \in {after[i].name, "zero"}
           /\ Object!ToSet(ids) \ {"zero"} \subseteq Names
           /\ \A n \in learnt \cup (Object!ToSet(ids) \ {"zero"}) : Object!Get(after, n) = n
<1>1. PICK m \in Int : /\ m <= Len(wanted) /\ DOMAIN ids = 1..m
                       /\ \A i \in 1..m : ids[i] \in {wanted[i], "zero"}
                       /\ \A i, j \in 1..m : wanted[i] = wanted[j] => ids[i] = ids[j]
  BY DEF IdsOf
<1>2. PICK new : new = [i \in 1..Len(wanted) |->
                          [name |-> wanted[i], id |-> IF i \in 1..m THEN ids[i] ELSE "zero"]]
  OBVIOUS
<1>3. \A i \in 1..Len(wanted) : /\ new[i] \in Entries /\ new[i].name = wanted[i]
                                /\ new[i].id = IF i \in 1..m THEN ids[i] ELSE "zero"
  BY <1>1, <1>2 DEF Entries
<1>4. new \in Seq(Entries) /\ Len(new) = Len(wanted) /\ names \in Seq(Entries) BY <1>2, <1>3 DEF NamesInv
<1>5. after = names \o new BY <1>1, <1>2 DEF Object!AbsorbNames, Object!Entry
<1>6. PICK L \in Nat : L = Len(names) BY <1>4
<1>7. /\ after \in Seq(Entries) /\ Len(after) = L + Len(wanted)
      /\ \A i \in 1..L : after[i] = names[i]
      /\ \A i \in 1..Len(wanted) : after[L + i] = new[i]
  <2>1. /\ names \o new \in Seq(Entries) /\ Len(names \o new) = Len(names) + Len(new)
        /\ \A i \in 1..(Len(names) + Len(new)) :
             (names \o new)[i] = IF i <= Len(names) THEN names[i] ELSE new[i - Len(names)]
    BY <1>4, ConcatProperties, Zenon
  <2>2. \A i \in 1..Len(wanted) : L + i \in 1..(L + Len(wanted)) /\ ~(L + i <= L) /\ (L + i) - L = i
    BY <1>6
  <2> QED BY <1>4, <1>5, <1>6, <2>1, <2>2
<1>8. ASSUME NEW i \in DOMAIN after PROVE after[i].id \in {after[i].name, "zero"}
  <2>1. i \in 1..L \/ \E k \in 1..Len(wanted) : i = L + k
    <3>1. i \in 1..(L + Len(wanted)) BY <1>7
    <3>2. CASE i > L
      <4>1. i - L \in 1..Len(wanted) /\ i = L + (i - L) BY <3>1, <3>2
      <4> QED BY <4>1
    <3> QED BY <3>1, <3>2
  <2>2. CASE i \in 1..L BY <1>4, <1>6, <1>7, <2>2 DEF NamesInv, Object!NamesAreTheStores
  <2>3. ASSUME NEW k \in 1..Len(wanted), i = L + k PROVE after[i].id \in {after[i].name, "zero"}
    <3>1. after[i] = new[k] BY <1>7, <2>3
    <3>2. new[k].name = wanted[k] /\ new[k].id \in {wanted[k], "zero"} BY <1>1, <1>3
    <3> QED BY <3>1, <3>2
  <2> QED BY <2>1, <2>2, <2>3
<1>9. Object!ToSet(ids) \ {"zero"} \subseteq Names BY <1>1 DEF Object!ToSet
<1>10. ASSUME NEW n \in learnt PROVE Object!Get(after, n) = n
  <2>1. Object!Get(names, n) = n /\ n # "unasked"
    BY <1>10, NamesAssumption DEF NamesInv, Object!NamesAreTheStores
  <2>2. PICK i \in 1..L : FirstOf(names, n, i) /\ Object!Get(names, n) = names[i].id
    BY <1>4, <1>6, <2>1, GetFirst
  <2>3. i \in 1..Len(after) /\ FirstOf(after, n, i) /\ after[i].id = n BY <1>7, <2>1, <2>2 DEF FirstOf
  <2> QED BY <1>7, <2>3, GetIs
<1>11. ASSUME NEW n \in Object!ToSet(ids), n # "zero" PROVE Object!Get(after, n) = n
  <2>1. PICK i \in 1..m : ids[i] = n BY <1>1, <1>11 DEF Object!ToSet
  <2>2. i \in 1..Len(wanted) /\ wanted[i] = n BY <1>1, <1>11, <2>1
  <2>3. \A k \in 1..L : names[k].name # n BY <1>4, <1>6, <2>2, GetNone
  <2>4. new[i].name = n BY <1>3, <2>2
  <2>5. PICK j \in 1..Len(wanted) : FirstOf(new, n, j)
    <3>1. Object!Get(new, n) # "unasked" BY <1>4, <2>2, <2>4, GetNone
    <3> QED BY <1>4, <3>1, GetFirst
  <2>6. j <= i BY <2>2, <2>4, <2>5 DEF FirstOf
  <2>7. wanted[j] = n BY <1>3, <2>5 DEF FirstOf
  <2>8. j \in 1..m /\ new[j].id = n
    <3>1. j \in 1..m BY <2>6
    <3> QED BY <1>1, <1>3, <2>1, <2>2, <2>7, <3>1
  <2>9. L + j \in 1..Len(after) /\ after[L + j].name = n /\ after[L + j].id = n
    BY <1>3, <1>7, <2>7, <2>8
  <2>10. ASSUME NEW k \in 1..((L + j) - 1) PROVE after[k].name # n
    <3>1. CASE k <= L BY <1>7, <2>3, <3>1
    <3>2. CASE k > L
      <4>1. PICK l \in 1..(j - 1) : k = L + l
        <5>1. k - L \in 1..(j - 1) /\ k = L + (k - L) BY <3>2
        <5> QED BY <5>1
      <4>2. l \in 1..Len(wanted) OBVIOUS
      <4> QED BY <1>7, <2>5, <4>1, <4>2 DEF FirstOf
    <3> QED BY <3>1, <3>2
  <2>11. FirstOf(after, n, L + j) BY <2>9, <2>10 DEF FirstOf
  <2> QED BY <1>7, <2>9, <2>11, GetIs
<1> QED BY <1>7, <1>8, <1>9, <1>10, <1>11

LEMMA NamesPost ==
    ASSUME names' \in Seq(Entries), UNCHANGED learnt, learnt \subseteq Names, Object!NamesAreTheStores',
           NEW c, Object!Post(c),
           c.kind \in {"resolve", "register"} =>
             /\ c.wanted \in Seq(Names)
             /\ \A i \in 1..Len(c.wanted) : Object!Get(names', c.wanted[i]) = "unasked"
    PROVE  NamesInv'
<1>1. call' = c BY DEF Object!Post
<1> QED BY <1>1 DEF NamesInv

LEMMA NamesAsked ==
    ASSUME NamesInv, NEW kind \in {"resolve", "register"}, NEW asked \in Seq(Names),
           NEW wanted, wanted = (IF kind = "register" THEN Object!Unregistered(asked) ELSE Object!Missing(asked)),
           Object!AskNames(kind, wanted)
    PROVE  NamesInv'
<1>1. /\ wanted \in Seq(Names)
      /\ kind = "register" => \A i \in 1..Len(wanted) : Object!Get(names, wanted[i]) \in {"unasked", "zero"}
      /\ kind = "resolve" => \A i \in 1..Len(wanted) : Object!Get(names, wanted[i]) \in {"unasked"}
  <2>1. PICK ids : /\ ids = (IF kind = "register" THEN {"unasked", "zero"} ELSE {"unasked"})
                   /\ wanted = Object!Wanted(asked, ids)
    BY DEF Object!Unregistered, Object!Missing
  <2>2. wanted \in Seq(Names) /\ \A k \in 1..Len(wanted) : Object!Get(names, wanted[k]) \in ids
    BY <2>1, WantedIs
  <2> QED BY <2>1, <2>2
<1>2. UNCHANGED learnt BY DEF Object!AskNames, Object!Post, Object!historyVars
<1>3. learnt \subseteq Names /\ names \in Seq(Entries) BY DEF NamesInv
<1>4. /\ names' \in Seq(Entries) /\ Object!NamesAreTheStores'
      /\ \A i \in 1..Len(wanted) : Object!Get(names', wanted[i]) = "unasked"
  <2>1. CASE kind = "resolve"
    <3>1. names' = names BY <2>1 DEF Object!AskNames
    <3> QED BY <1>1, <1>2, <1>3, <2>1, <3>1 DEF NamesInv, Object!NamesAreTheStores
  <2>2. CASE kind = "register"
    <3>1. PICK rest : rest = Object!Forget(wanted) /\ names' = rest BY <2>2 DEF Object!AskNames
    <3>2. rest \in Seq(Entries) /\ \A n \in Object!ToSet(wanted) : Object!Get(rest, n) = "unasked"
      BY <1>3, <3>1, Forgotten
    <3>3. \A n : n \notin Object!ToSet(wanted) => Object!Get(rest, n) = Object!Get(names, n)
      BY <1>3, <3>1, Forgotten
    <3>4. ASSUME NEW n \in learnt PROVE Object!Get(rest, n) = n
      <4>1. Object!Get(names, n) = n /\ n \notin {"unasked", "zero"}
        BY <1>3, NamesAssumption DEF NamesInv, Object!NamesAreTheStores
      <4>2. n \notin Object!ToSet(wanted) BY <1>1, <2>2, <4>1 DEF Object!ToSet
      <4> QED BY <3>3, <4>1, <4>2
    <3>5. ASSUME NEW i \in DOMAIN rest PROVE rest[i].id \in {rest[i].name, "zero"}
      <4>1. PICK set : rest = Object!Among(names, set) BY <3>1 DEF Object!Forget
      <4>2. i \in 1..Len(rest) BY <3>2
      <4>3. PICK j \in 1..Len(names) : rest[i] = names[j] BY <1>3, <4>1, <4>2, AmongOnly
      <4> QED BY <1>3, <4>3 DEF NamesInv, Object!NamesAreTheStores
    <3>6. \A i \in 1..Len(wanted) : wanted[i] \in Object!ToSet(wanted) BY <1>1 DEF Object!ToSet
    <3>7. Object!NamesAreTheStores' BY <1>2, <3>1, <3>4, <3>5 DEF Object!NamesAreTheStores
    <3> QED BY <3>1, <3>2, <3>6, <3>7
  <2> QED BY <2>1, <2>2
<1>5. PICK c : c = [kind |-> kind, wanted |-> wanted] OBVIOUS
<1>6. c.wanted = wanted BY <1>5
<1>7. CASE Object!Post(c) BY <1>1, <1>2, <1>3, <1>4, <1>6, <1>7, NamesPost
<1>8. CASE trip' = "done" BY <1>2, <1>3, <1>4, <1>8 DEF NamesInv
<1> QED BY <1>5, <1>7, <1>8 DEF Object!AskNames, Object!Finish

LEMMA NamesBegin == ASSUME NamesInv, Object!Begin PROVE NamesInv'
<1>1. ASSUME NEW c, Object!Post(c), UNCHANGED names, c.kind \notin {"resolve", "register"} PROVE NamesInv'
  <2>1. UNCHANGED learnt BY <1>1 DEF Object!Post, Object!historyVars
  <2>2. Object!NamesAreTheStores' BY <1>1, <2>1 DEF NamesInv, Object!NamesAreTheStores
  <2> QED BY <1>1, <2>1, <2>2, NamesPost DEF NamesInv
<1>2. ASSUME NEW kind \in {"delete", "read", "move", "copy"}, Object!OverList(kind) PROVE NamesInv'
  <2>1. [kind |-> kind].kind \notin {"resolve", "register"} OBVIOUS
  <2> QED BY <1>1, <1>2, <2>1 DEF Object!OverList, Object!Call
<1>3. CASE Object!UpdateMessage
  <2>1. PICK changes, done : Object!Call([kind |-> "update", changes |-> changes, submit |-> done])
    BY <1>3 DEF Object!UpdateMessage
  <2> QED BY <1>1, <2>1 DEF Object!Call
<1>4. CASE Object!SendMessage BY <1>1, <1>4 DEF Object!SendMessage, Object!Call
<1>5. ASSUME NEW kind, NEW target, Object!Post([kind |-> kind, target |-> target]), UNCHANGED names,
             kind \notin {"resolve", "register"}
      PROVE  NamesInv'
  <2>1. [kind |-> kind, target |-> target].kind = kind OBVIOUS
  <2> QED BY <1>1, <1>5, <2>1
<1>6. CASE Object!AskProperties \/ Object!OpenObject \/ Object!ConvertId \/ Object!NamesOf
  <2>1. PICK kind, target : kind \notin {"resolve", "register"} /\ Object!Call([kind |-> kind, target |-> target])
    BY <1>6 DEF Object!AskProperties, Object!OpenObject, Object!ConvertId, Object!NamesOf
  <2> QED BY <1>5, <2>1 DEF Object!Call
<1>7. CASE Object!ResolveSpecialFolders
  <2>1. PICK kind, target : /\ kind \notin {"resolve", "register"} /\ UNCHANGED names
                            /\ Object!Post([kind |-> kind, target |-> target])
    BY <1>7 DEF Object!ResolveSpecialFolders
  <2> QED BY <1>5, <2>1
<1>8. ASSUME NEW asked \in Lists, Object!ResolveNames(asked) \/ Object!RegisterNames(asked) PROVE NamesInv'
  <2>1. asked \in Seq(Names) BY ObjectAssumption
  <2>2. CASE Object!ResolveNames(asked) BY <2>1, <2>2, NamesAsked DEF Object!ResolveNames
  <2>3. CASE Object!RegisterNames(asked) BY <2>1, <2>3, NamesAsked DEF Object!RegisterNames
  <2> QED BY <1>8, <2>2, <2>3
<1> QED BY <1>2, <1>3, <1>4, <1>6, <1>7, <1>8 DEF Object!Begin

LEMMA NamesSteps == ASSUME NamesInv, Objecting PROVE NamesInv'
<1>1. CASE Object!Begin BY <1>1, NamesBegin
<1>2. ASSUME UNCHANGED <<names, learnt>>, trip' \in {"second", "done"} PROVE NamesInv'
  BY <1>2 DEF NamesInv, Object!NamesAreTheStores
<1>3. CASE Object!Answered
  <2>1. PICK run \in Object!Runs : Object!Absorb(run) BY <1>3 DEF Object!Answered
  <2>2. trip' \in {"second", "done"} BY <2>1, AbsorbEnds
  <2>3. CASE UNCHANGED <<names, learnt>> BY <1>2, <2>2, <2>3
  <2>4. CASE trip = "first" /\ ~run.refused /\ call.kind \in {"resolve", "register"} /\ Object!NamesGot(run.out[1].ids)
    <3>1. PICK ids : ids = run.out[1].ids OBVIOUS
    <3>2. PICK wanted : wanted = call.wanted OBVIOUS
    <3>3. wanted \in Seq(Names) /\ \A i \in 1..Len(wanted) : Object!Get(names, wanted[i]) = "unasked"
      BY <2>4, <3>2 DEF NamesInv
    <3>4. IdsOf(wanted, ids) BY <2>4, <3>1, <3>2, <3>3, NamesAnswered
    <3>5. names' = Object!AbsorbNames(wanted, ids) /\ learnt' = learnt \cup (Object!ToSet(ids) \ {"zero"}) /\ trip' = "done"
      BY <2>4, <3>1, <3>2 DEF Object!NamesGot, Object!Finish
    <3>6. PICK after : after = Object!AbsorbNames(wanted, ids) OBVIOUS
    <3>7. /\ after \in Seq(Entries)
          /\ \A i \in DOMAIN after : after[i].id \in {after[i].name, "zero"}
          /\ Object!ToSet(ids) \ {"zero"} \subseteq Names
          /\ \A n \in learnt \cup (Object!ToSet(ids) \ {"zero"}) : Object!Get(after, n) = n
      BY <3>3, <3>4, <3>6, Absorbed
    <3>8. learnt' \subseteq Names BY <3>5, <3>7 DEF NamesInv
    <3> QED BY <3>5, <3>6, <3>7, <3>8 DEF NamesInv, Object!NamesAreTheStores
  <2>5. UNCHANGED <<names, learnt>>
        \/ (trip = "first" /\ ~run.refused /\ call.kind \in {"resolve", "register"} /\ Object!NamesGot(run.out[1].ids))
    BY <2>1 DEF Object!Absorb, Object!Converted, Object!ListDone, Object!UpdateDone, Object!InboxRead
  <2> QED BY <2>3, <2>4, <2>5
<1>4. CASE Object!Unreadable BY <1>2, <1>4 DEF Object!Unreadable, Object!Finish
<1>5. CASE Object!Lost \/ Object!Cancel
  BY <1>2, <1>5 DEF Object!Lost, Object!Cancel, Object!Gone, Object!Finish
<1>6. CASE Object!OtherRegisters
  BY <1>2, <1>6 DEF Object!OtherRegisters, Object!clientVars, Object!historyVars
<1> QED BY <1>1, <1>3, <1>4, <1>5, <1>6 DEF Objecting, Object!Progress

\* A name is never cached with another's id, and an id that was told is found.
THEOREM NamesCached == Spec => []NamesAreTheStores
<1>0. ASSUME names = <<>>, learnt = {}, trip = "idle" PROVE NamesInv
  <2>1. names \in Seq(Entries) /\ DOMAIN names = {} BY <1>0
  <2> QED BY <1>0, <2>1 DEF NamesInv, Object!NamesAreTheStores
<1>1. Init => NamesInv BY <1>0 DEF Init, Object!Init
<1>2. NamesInv /\ [Next]_vars => NamesInv'
  <2> SUFFICES ASSUME NamesInv, [Next]_vars PROVE NamesInv' OBVIOUS
  <2>1. CASE UNCHANGED objectVars BY <2>1 DEF NamesInv, Object!NamesAreTheStores
  <2>2. CASE Object!Renew
    <3>1. names' = <<>> /\ learnt' = {} /\ trip' = "idle" BY <2>2 DEF Object!Renew
    <3>2. names' \in Seq(Entries) /\ DOMAIN names' = {} BY <3>1
    <3> QED BY <3>1, <3>2 DEF NamesInv, Object!NamesAreTheStores
  <2>3. CASE Objecting BY <2>3, NamesSteps
  <2>4. UNCHANGED objectVars \/ Object!Renew \/ Objecting BY ObjectSteps
  <2> QED BY <2>1, <2>2, <2>3, <2>4
<1>3. NamesInv => NamesAreTheStores BY DEF NamesInv, NamesAreTheStores
<1> QED BY <1>1, <1>2, <1>3, PTL DEF Spec


-----------------------------------------------------------------------------
(* What a batch does that is not refused. *)

\* What a ROP does that is not refused.
Does(run, rop, r) ==
    IF rop.op = "release" THEN r = [run EXCEPT !.held = @ \ {rop.on}] ELSE r \in Object!Succeeds(run, rop)

LEMMA SucceedsGoesOn ==
    ASSUME NEW run, DOMAIN run = RunFields, NEW rop, NEW r \in Object!Succeeds(run, rop)
    PROVE  r.refused = run.refused /\ r.roomless = run.roomless
<1> USE DEF RunFields, Object!Said
<1>1. CASE rop.op = "open" BY <1>1 DEF Object!Succeeds
<1>2. CASE rop.op \in {"delete_messages", "move", "copy", "set_read_flags"}
  <2>1. r \in Object!OverMessages(run, rop) BY <1>2 DEF Object!Succeeds
  <2>2. PICK done, how : r = Object!DoneTo(run, rop, done, how) BY <2>1 DEF Object!OverMessages
  <2> QED BY <1>2, <2>2 DEF Object!DoneTo
<1>3. CASE rop.op \in {"set", "delete", "clear", "add"}
  <2>1. r \in Object!Change(run, rop) BY <1>3 DEF Object!Succeeds
  <2> QED BY <1>3, <2>1 DEF Object!Change
<1>4. CASE rop.op = "names"
  <2>1. r \in Object!Identify(run, rop) BY <1>4 DEF Object!Succeeds
  <2>2. PICK new, n : r = Object!Mapped(run, rop, new, n) BY <2>1 DEF Object!Identify
  <2> QED BY <1>4, <2>2 DEF Object!Mapped
<1>5. CASE rop.op \in {"save", "submit", "convert"} BY <1>5 DEF Object!Succeeds
<1>6. CASE rop.op \notin {"open", "delete_messages", "move", "copy", "set_read_flags", "set", "delete", "clear",
                         "add", "names", "save", "submit", "convert"}
  BY <1>6 DEF Object!Succeeds
<1> QED BY <1>1, <1>2, <1>3, <1>4, <1>5, <1>6

\* A ROP that nobody asks past a refusal is done, or the batch is refused.
LEMMA DoneOrRefused ==
    ASSUME NEW run, DOMAIN run = RunFields, run.roomless => run.refused,
           NEW rop, rop.op # "convert", NEW r \in Object!RunRop(run, rop)
    PROVE  /\ DOMAIN r = RunFields /\ (r.roomless => r.refused)
           /\ r.refused \/ (~run.refused /\ Does(run, rop, r))
<1> USE DEF RunFields
<1>1. CASE run.roomless BY <1>1 DEF Object!RunRop
<1>2. CASE ~run.roomless /\ rop.op = "release" BY <1>2 DEF Object!RunRop, Does
<1>3. CASE ~run.roomless /\ rop.op # "release"
  <2>1. CASE r \in Object!Succeeds(run, rop)
    <3>1. DOMAIN r = RunFields BY <1>3, <2>1, SucceedsHolds
    <3>2. r.refused = run.refused /\ r.roomless = run.roomless BY <2>1, SucceedsGoesOn
    <3>3. Does(run, rop, r) BY <1>3, <2>1 DEF Does
    <3> QED BY <3>1, <3>2, <3>3
  <2>2. CASE r \notin Object!Succeeds(run, rop)
    <3>1. \/ \E how : r = Object!Fails(run, rop, how)
          \/ \E how : r = [Object!Fails(run, rop, how) EXCEPT !.roomless = TRUE]
      BY <1>3, <2>2 DEF Object!RunRop
    <3> QED BY <3>1 DEF Object!Fails
  <2> QED BY <2>1, <2>2
<1> QED BY <1>1, <1>2, <1>3

\* How the rops were done one by one, from what a batch begins with to how it ended.
Traces(was, rops, N, run) ==
    /\ was[0] = Object!Running /\ was[N] = run
    /\ \A n \in 0..N : DOMAIN was[n] = RunFields
    /\ \A n \in 1..N : Does(was[n - 1], rops[n], was[n])

\* A batch that was not refused did each of its ROPs, in their order.
LEMMA RunsTrace ==
    ASSUME NEW rops, rops = Object!Asked, NEW N \in Nat, N = Len(rops),
           \A n \in 1..N : rops[n].op # "convert",
           NEW run \in Object!Runs, ~run.refused
    PROVE  \E was : Traces(was, rops, N, run)
<1>1. PICK runs : /\ Object!Runs = runs[N]
                  /\ runs[0] = {Object!Running}
                  /\ \A n \in 1..N : runs[n] = Onward(runs[n - 1], rops[n])
  <2>1. rops = Object!Asked /\ N = Len(rops) OBVIOUS
  <2> QED BY <2>1, RunsFollow
<1> DEFINE Holds(r, n) == /\ DOMAIN r = RunFields /\ (r.roomless => r.refused)
                          /\ r.refused \/ \E was : Traces(was, rops, n, r)
           T == {n \in 0..N : \A r \in runs[n] : Holds(r, n)}
<1>2. 0 \in T
  <2>1. PICK first : first = Object!Running OBVIOUS
  <2>2. DOMAIN first = RunFields /\ ~first.roomless BY <2>1 DEF Object!Running, RunFields
  <2>3. PICK was : was = [n \in 0..0 |-> first] OBVIOUS
  <2>4. Traces(was, rops, 0, first) BY <2>1, <2>2, <2>3 DEF Traces
  <2>5. Holds(first, 0) BY <2>2, <2>4
  <2> HIDE DEF Holds
  <2> QED BY <1>1, <2>1, <2>5
<1>3. ASSUME NEW n \in 1..N, n - 1 \in T PROVE n \in T
  <2> SUFFICES ASSUME NEW r \in runs[n] PROVE Holds(r, n) OBVIOUS
  <2>1. PICK before \in runs[n - 1] : r \in Object!RunRop(before, rops[n])
    <3>1. r \in Onward(runs[n - 1], rops[n]) BY <1>1
    <3> QED BY <3>1 DEF Onward
  <2>2. Holds(before, n - 1) BY <1>3
  <2>3. /\ DOMAIN r = RunFields /\ (r.roomless => r.refused)
        /\ r.refused \/ (~before.refused /\ Does(before, rops[n], r))
    BY <2>1, <2>2, DoneOrRefused
  <2>4. ASSUME ~r.refused PROVE \E was : Traces(was, rops, n, r)
    <3>1. PICK was : Traces(was, rops, n - 1, before) BY <2>2, <2>3, <2>4
    <3>2. PICK longer : longer = [m \in 0..n |-> IF m = n THEN r ELSE was[m]] OBVIOUS
    <3>3. longer[n] = r /\ \A m \in 0..(n - 1) : longer[m] = was[m] BY <3>2
    <3>4. \A m \in 0..n : m = n \/ m \in 0..(n - 1) OBVIOUS
    <3>5. longer[0] = Object!Running
      <4>1. 0 \in 0..(n - 1) OBVIOUS
      <4> QED BY <3>1, <3>3, <4>1 DEF Traces
    <3>6. \A m \in 0..n : DOMAIN longer[m] = RunFields BY <2>3, <3>1, <3>3, <3>4 DEF Traces
    <3>7. ASSUME NEW m \in 1..n PROVE Does(longer[m - 1], rops[m], longer[m])
      <4>1. CASE m = n
        <5>1. n - 1 \in 0..(n - 1) OBVIOUS
        <5>2. longer[n - 1] = before BY <3>1, <3>3, <5>1 DEF Traces
        <5> QED BY <2>3, <2>4, <3>3, <4>1, <5>2
      <4>2. CASE m # n
        <5>1. m - 1 \in 0..(n - 1) /\ m \in 0..(n - 1) /\ m \in 1..(n - 1) BY <4>2
        <5>2. Does(was[m - 1], rops[m], was[m]) BY <3>1, <5>1 DEF Traces
        <5> QED BY <3>3, <5>1, <5>2
      <4> QED BY <4>1, <4>2
    <3>8. Traces(longer, rops, n, r) BY <3>3, <3>5, <3>6, <3>7 DEF Traces
    <3> QED BY <3>8
  <2> QED BY <2>3, <2>4
<1>4. N \in T
  <2> HIDE DEF T
  <2>1. 0..N \subseteq T BY <1>2, <1>3, BoundedInduction
  <2> QED BY <2>1
<1>5. Holds(run, N) BY <1>1, <1>4
<1> QED BY <1>5

\* What a ROP leaves of what a caller is told of a batch.
Kept(run, r) == r.store = run.store /\ r.out = run.out /\ r.refusals = run.refusals

LEMMA ReleaseKeeps ==
    ASSUME NEW run, DOMAIN run = RunFields, NEW slot, NEW r, Does(run, Object!Release(slot), r)
    PROVE  Kept(run, r) /\ r.edit = run.edit
BY DEF Does, Object!Release, Kept, RunFields

LEMMA OpenKeeps ==
    ASSUME NEW run, DOMAIN run = RunFields, NEW slot, NEW on, NEW r, Does(run, Object!Open(slot, on), r)
    PROVE  Kept(run, r)
<1>1. PICK rop : rop = Object!Open(slot, on) OBVIOUS
<1>2. rop.op = "open" /\ rop.makes = slot BY <1>1 DEF Object!Open
<1>3. r \in Object!Succeeds(run, rop) BY <1>1, <1>2 DEF Does
<1> QED BY <1>2, <1>3 DEF Object!Succeeds, Kept, RunFields

LEMMA OpenReads ==
    ASSUME NEW run, DOMAIN run = RunFields, NEW on, NEW r, Does(run, Object!Open("message", on), r)
    PROVE  r.edit = run.store.item
<1>1. PICK rop : rop = Object!Open("message", on) OBVIOUS
<1>2. rop.op = "open" /\ rop.makes = "message" BY <1>1 DEF Object!Open
<1>3. r \in Object!Succeeds(run, rop) BY <1>1, <1>2 DEF Does
<1> QED BY <1>2, <1>3 DEF Object!Succeeds, RunFields

\* A batch of one ROP opens its object, asks that, and releases it.
LEMMA OneRopIs ==
    ASSUME NEW op, op # "open", NEW target \in {"folder", "message"},
           NEW batch, batch = Object!OneRop(op, target)
    PROVE  /\ Len(batch) = 3 /\ batch[1] = Object!Open(target, "logon")
           /\ batch[2] = Object!Rop(op, target) /\ batch[3] = Object!Release(target)
<1>1. PICK path : path = Object!Path[target] OBVIOUS
<1>2. path = <<target>> BY <1>1 DEF Object!Path
<1>3. PICK rop : rop = Object!Rop(op, target) OBVIOUS
<1>4. PICK rops : rops = <<rop>> OBVIOUS
<1>5. batch = Object!Around(path, rops) BY <1>1, <1>3, <1>4 DEF Object!OneRop
<1>6. path \in Seq({target}) /\ Len(path) = 1 /\ rops \in Seq({rop}) /\ Len(rops) = 1 BY <1>2, <1>4
<1>7. Len(batch) = Len(path) + Len(rops) + Len(path) BY <1>5, <1>6, AroundPath
<1>8. \A i \in 1..Len(path) : batch[i] = Opens(path, i) BY <1>5, <1>6, AroundOpens
<1>9. \A i \in 1..Len(path) : batch[Len(path) + Len(rops) + i] = Object!Release(path[Len(path) - i + 1])
  BY <1>5, <1>6, AroundShuts
<1>10. \A i \in 1..Len(rops) : batch[Len(path) + i] = rops[i]
  <2>1. path \in Seq({target}) /\ rops \in Seq({rop}) BY <1>6
  <2>2. AsksAfter(path, rops, batch) BY <1>5, <2>1, AroundAsks
  <2> QED BY <2>2 DEF AsksAfter
<1>11. batch[1] = Object!Open(target, "logon") BY <1>2, <1>6, <1>8 DEF Opens
<1>12. batch[3] = Object!Release(target)
  <2>1. batch[1 + 1 + 1] = Object!Release(path[1 - 1 + 1]) BY <1>6, <1>9
  <2>2. path[1 - 1 + 1] = target /\ 1 + 1 + 1 = 3 BY <1>2
  <2> QED BY <2>1, <2>2
<1>13. batch[2] = rop
  <2>1. batch[1 + 1] = rops[1] BY <1>6, <1>10
  <2> QED BY <1>4, <2>1
<1> QED BY <1>3, <1>6, <1>7, <1>11, <1>12, <1>13

\* It does that to the store as it was, with its object open.
LEMMA OneRopDoes ==
    ASSUME NEW op, op \notin {"open", "release", "convert"}, NEW target \in {"folder", "message"},
           Object!Asked = Object!OneRop(op, target),
           NEW run \in Object!Runs, ~run.refused
    PROVE  \E before, after :
             /\ DOMAIN before = RunFields /\ before.store = store /\ before.out = <<>>
             /\ after \in Object!Succeeds(before, Object!Rop(op, target))
             /\ DOMAIN after = RunFields /\ Kept(after, run)
<1>1. PICK rops : rops = Object!Asked OBVIOUS
<1>2. /\ Len(rops) = 3 /\ rops[1] = Object!Open(target, "logon")
      /\ rops[2] = Object!Rop(op, target) /\ rops[3] = Object!Release(target)
  <2>1. op # "open" /\ rops = Object!OneRop(op, target) BY <1>1
  <2> QED BY <2>1, OneRopIs
<1>3. ASSUME NEW n \in 1..3 PROVE rops[n].op # "convert"
  <2>1. n = 1 \/ n = 2 \/ n = 3 OBVIOUS
  <2> QED BY <1>2, <2>1 DEF Object!Open, Object!Rop, Object!Release
<1>4. PICK N \in Nat : N = 3 /\ N = Len(rops) BY <1>2
<1>5. PICK was : Traces(was, rops, N, run) BY <1>1, <1>3, <1>4, RunsTrace
<1>6. /\ was[0] = Object!Running /\ was[3] = run
      /\ DOMAIN was[0] = RunFields /\ DOMAIN was[1] = RunFields /\ DOMAIN was[2] = RunFields
      /\ Does(was[0], rops[1], was[1]) /\ Does(was[1], rops[2], was[2]) /\ Does(was[2], rops[3], was[3])
  <2>1. \A n \in 0..3 : DOMAIN was[n] = RunFields BY <1>4, <1>5 DEF Traces
  <2>2. \A n \in 1..3 : Does(was[n - 1], rops[n], was[n]) BY <1>4, <1>5 DEF Traces
  <2>3. 0 \in 0..3 /\ 1 \in 1..3 /\ 2 \in 1..3 /\ 3 \in 1..3 /\ 1 \in 0..3 /\ 2 \in 0..3 /\ 1 - 1 = 0 /\ 2 - 1 = 1 /\ 3 - 1 = 2
    OBVIOUS
  <2>4. was[0] = Object!Running /\ was[3] = run BY <1>4, <1>5 DEF Traces
  <2>5. Does(was[1 - 1], rops[1], was[1]) /\ Does(was[2 - 1], rops[2], was[2]) /\ Does(was[3 - 1], rops[3], was[3])
    BY <2>2, <2>3
  <2> QED BY <2>1, <2>3, <2>4, <2>5
<1>7. PICK before : before = was[1] OBVIOUS
<1>8. PICK after : after = was[2] OBVIOUS
<1>9. DOMAIN before = RunFields /\ before.store = store /\ before.out = <<>>
  <2>1. PICK first : first = was[0] OBVIOUS
  <2>2. first.store = store /\ first.out = <<>> /\ DOMAIN first = RunFields BY <1>6, <2>1 DEF Object!Running
  <2>3. Does(first, Object!Open(target, "logon"), before) BY <1>2, <1>6, <1>7, <2>1
  <2>4. Kept(first, before) BY <2>2, <2>3, OpenKeeps
  <2> QED BY <1>6, <1>7, <2>2, <2>4 DEF Kept
<1>10. after \in Object!Succeeds(before, Object!Rop(op, target))
  <2>1. PICK rop : rop = Object!Rop(op, target) OBVIOUS
  <2>2. rop.op # "release" BY <2>1 DEF Object!Rop
  <2>3. Does(before, rop, after) BY <1>2, <1>6, <1>7, <1>8, <2>1
  <2> QED BY <2>1, <2>2, <2>3 DEF Does
<1>11. DOMAIN after = RunFields /\ Kept(after, run)
  <2>1. DOMAIN after = RunFields /\ Does(after, Object!Release(target), run) BY <1>2, <1>6, <1>8
  <2> QED BY <2>1, ReleaseKeeps
<1> QED BY <1>9, <1>10, <1>11

\* What is said of a list of messages.
LEMMA ListSays ==
    ASSUME NEW run, NEW rop, rop.op \in {"delete_messages", "move", "copy", "set_read_flags"},
           NEW r \in Object!Succeeds(run, rop)
    PROVE  \E done, how : /\ done \subseteq run.store.here /\ (how = "ok" => done = Messages)
                          /\ r = Object!DoneTo(run, rop, done, how)
<1>1. r \in Object!OverMessages(run, rop) BY DEF Object!Succeeds
<1> QED BY <1>1 DEF Object!OverMessages

StoreFields == {"here", "there", "read", "item", "posted", "inbox"}

LEMMA ListAnswers ==
    ASSUME NEW run, DOMAIN run = RunFields, NEW rop, NEW done, NEW how
    PROVE  Object!DoneTo(run, rop, done, how).out = Append(run.out, [op |-> rop.op, how |-> how])
<1>1. PICK said : said = Object!Said(run, rop, how) OBVIOUS
<1>2. DOMAIN said = RunFields /\ said.out = Append(run.out, [op |-> rop.op, how |-> how])
  BY <1>1 DEF Object!Said, RunFields
<1>3. PICK r : r = Object!DoneTo(run, rop, done, how) OBVIOUS
<1>4. r = [said EXCEPT !.store = Object!Handled(@, rop.op, done)] BY <1>1, <1>3 DEF Object!DoneTo
<1> QED BY <1>2, <1>3, <1>4 DEF RunFields

LEMMA ListHandles ==
    ASSUME NEW run, DOMAIN run = RunFields, NEW rop, NEW done, NEW how
    PROVE  Object!DoneTo(run, rop, done, how).store = Object!Handled(run.store, rop.op, done)
<1>1. PICK said : said = Object!Said(run, rop, how) OBVIOUS
<1>2. DOMAIN said = RunFields /\ said.store = run.store BY <1>1 DEF Object!Said, RunFields
<1>3. PICK r : r = Object!DoneTo(run, rop, done, how) OBVIOUS
<1>4. r = [said EXCEPT !.store = Object!Handled(@, rop.op, done)] BY <1>1, <1>3 DEF Object!DoneTo
<1> QED BY <1>2, <1>3, <1>4 DEF RunFields

\* A list of messages that is said to be done is done whole.
LEMMA HandledWhole ==
    ASSUME NEW box, DOMAIN box = StoreFields, box.here = Messages, box.there = {}, box.read = {}, NEW op
    PROVE  /\ op \in {"delete_messages", "move"} => Object!Handled(box, op, Messages).here = {}
           /\ op \in {"move", "copy"} => Object!Handled(box, op, Messages).there = Messages
           /\ op = "set_read_flags" => Object!Handled(box, op, Messages).read = Messages
BY DEF Object!Handled, StoreFields

LEMMA ListIsDone ==
    ASSUME NEW run, DOMAIN run = RunFields, run.out = <<>>,
           NEW rop, rop.op \in {"delete_messages", "move", "copy", "set_read_flags"},
           NEW r \in Object!Succeeds(run, rop)
    PROVE  Len(r.out) = 1 /\ (r.out[1].how = "ok" => r.store = Object!Handled(run.store, rop.op, Messages))
<1>1. PICK done, how : /\ done \subseteq run.store.here /\ (how = "ok" => done = Messages)
                       /\ r = Object!DoneTo(run, rop, done, how)
  BY ListSays
<1>2. r.out = Append(run.out, [op |-> rop.op, how |-> how]) BY <1>1, ListAnswers
<1>3. r.store = Object!Handled(run.store, rop.op, done) BY <1>1, ListHandles
<1>4. r.out = <<[op |-> rop.op, how |-> how]>> BY <1>2
<1>5. r.out[1].how = how /\ Len(r.out) = 1 BY <1>4
<1> QED BY <1>1, <1>3, <1>5

\* The mailbox as a call finds it, before anything is said of the call.
AtHand ==
    /\ store = Object!Mailbox(store.inbox)
    /\ DOMAIN store.inbox = Object!ToSet(Specials) /\ DOMAIN specials = Object!ToSet(Specials)
    /\ result = "none"

LEMMA MailboxFound ==
    ASSUME AtHand, NEW box, box = store
    PROVE  /\ DOMAIN box = StoreFields
           /\ box.here = Messages /\ box.there = {} /\ box.read = {} /\ box.item = {}
BY DEF AtHand, Object!Mailbox, StoreFields

\* What a run that is not refused comes to, of a call over a list of messages.
ListTold(run) ==
    Len(run.out) = 1 /\ (run.out[1].how = "ok" =>
        /\ call.kind \in {"delete", "move"} => run.store.here = {}
        /\ call.kind \in {"move", "copy"} => run.store.there = Messages
        /\ call.kind = "read" => run.store.read = Messages)

LEMMA ListTells ==
    ASSUME AtHand, NEW before, DOMAIN before = RunFields, before.store = store, before.out = <<>>,
           NEW rop, rop.op \in {"delete_messages", "move", "copy", "set_read_flags"},
           NEW after \in Object!Succeeds(before, rop), NEW run, Kept(after, run),
           call.kind = IF rop.op = "delete_messages" THEN "delete" ELSE IF rop.op = "set_read_flags" THEN "read" ELSE rop.op
    PROVE  ListTold(run)
<1>1. PICK box : box = before.store OBVIOUS
<1>2. DOMAIN box = StoreFields /\ box.here = Messages /\ box.there = {} /\ box.read = {} BY <1>1, MailboxFound
<1>3. PICK op : op = rop.op OBVIOUS
<1>4. /\ op \in {"delete_messages", "move"} => Object!Handled(box, op, Messages).here = {}
      /\ op \in {"move", "copy"} => Object!Handled(box, op, Messages).there = Messages
      /\ op = "set_read_flags" => Object!Handled(box, op, Messages).read = Messages
  BY <1>2, HandledWhole
<1>5. Len(after.out) = 1 /\ (after.out[1].how = "ok" => after.store = Object!Handled(before.store, rop.op, Messages))
  BY ListIsDone
<1>6. Len(run.out) = 1 /\ (run.out[1].how = "ok" => run.store = Object!Handled(box, op, Messages))
  BY <1>1, <1>3, <1>5 DEF Kept
<1> QED BY <1>3, <1>4, <1>6 DEF ListTold

LEMMA DeletedOrRead ==
    ASSUME AtHand, trip = "first", call.kind \in {"delete", "read"}, NEW run \in Object!Runs, ~run.refused
    PROVE  ListTold(run)
<1>1. PICK op : op = IF call.kind = "delete" THEN "delete_messages" ELSE "set_read_flags" OBVIOUS
<1>2. Object!Asked = Object!OneRop(op, "folder")
  <2>1. CASE call.kind = "delete" BY <1>1, <2>1 DEF Object!Asked, Object!AskedFirst, Object!DeleteMessages
  <2>2. CASE call.kind = "read" BY <1>1, <2>2 DEF Object!Asked, Object!AskedFirst, Object!SetRead
  <2> QED BY <2>1, <2>2
<1>3. op \notin {"open", "release", "convert"} BY <1>1
<1>4. PICK before, after :
        /\ DOMAIN before = RunFields /\ before.store = store /\ before.out = <<>>
        /\ after \in Object!Succeeds(before, Object!Rop(op, "folder"))
        /\ DOMAIN after = RunFields /\ Kept(after, run)
  BY <1>2, <1>3, OneRopDoes
<1>5. PICK rop : rop = Object!Rop(op, "folder") OBVIOUS
<1>6. rop.op = op BY <1>5 DEF Object!Rop
<1>7. call.kind = IF rop.op = "delete_messages" THEN "delete" ELSE IF rop.op = "set_read_flags" THEN "read" ELSE rop.op
  BY <1>1, <1>6
<1>8. rop.op \in {"delete_messages", "move", "copy", "set_read_flags"} BY <1>1, <1>6
<1> QED BY <1>4, <1>5, <1>7, <1>8, ListTells

LEMMA MovedOrCopied ==
    ASSUME AtHand, trip = "first", call.kind \in {"move", "copy"}, NEW run \in Object!Runs, ~run.refused
    PROVE  ListTold(run)
<1>1. PICK rop : rop = Object!Rop(call.kind, "folder") OBVIOUS
<1>2. rop.op = call.kind BY <1>1 DEF Object!Rop
<1>3. PICK rops : rops = Object!Asked OBVIOUS
<1>4. rops = <<Object!Open("folder", "logon"), Object!Open("to", "logon"), rop,
               Object!Release("folder"), Object!Release("to")>>
  BY <1>1, <1>3 DEF Object!Asked, Object!AskedFirst, Object!MoveOrCopy
<1>5. Len(rops) = 5 /\ rops[1] = Object!Open("folder", "logon") /\ rops[2] = Object!Open("to", "logon")
      /\ rops[3] = rop /\ rops[4] = Object!Release("folder") /\ rops[5] = Object!Release("to")
  BY <1>4
<1>6. ASSUME NEW n \in 1..5 PROVE rops[n].op # "convert"
  <2>1. n = 1 \/ n = 2 \/ n = 3 \/ n = 4 \/ n = 5 OBVIOUS
  <2> QED BY <1>2, <1>5, <2>1 DEF Object!Open, Object!Release
<1>7. PICK N \in Nat : N = 5 /\ N = Len(rops) BY <1>5
<1>8. PICK was : Traces(was, rops, N, run) BY <1>3, <1>6, <1>7, RunsTrace
<1>9. was[0] = Object!Running /\ was[5] = run BY <1>7, <1>8 DEF Traces
<1>10. \A n \in 0..5 : DOMAIN was[n] = RunFields BY <1>7, <1>8 DEF Traces
<1>11. \A n \in 1..5 : Does(was[n - 1], rops[n], was[n]) BY <1>7, <1>8 DEF Traces
<1>12. /\ Does(was[0], rops[1], was[1]) /\ Does(was[1], rops[2], was[2]) /\ Does(was[2], rops[3], was[3])
       /\ Does(was[3], rops[4], was[4]) /\ Does(was[4], rops[5], was[5])
  <2>1. 1 \in 1..5 /\ 2 \in 1..5 /\ 3 \in 1..5 /\ 4 \in 1..5 /\ 5 \in 1..5 OBVIOUS
  <2>2. 1 - 1 = 0 /\ 2 - 1 = 1 /\ 3 - 1 = 2 /\ 4 - 1 = 3 /\ 5 - 1 = 4 OBVIOUS
  <2>3. Does(was[1 - 1], rops[1], was[1]) /\ Does(was[2 - 1], rops[2], was[2]) /\ Does(was[3 - 1], rops[3], was[3])
        /\ Does(was[4 - 1], rops[4], was[4]) /\ Does(was[5 - 1], rops[5], was[5])
    BY <1>11, <2>1
  <2> QED BY <2>2, <2>3
<1>13. PICK first, before, after :
         first = was[1] /\ before = was[2] /\ after = was[3]
  OBVIOUS
<1>14. DOMAIN was[0] = RunFields /\ DOMAIN was[1] = RunFields /\ DOMAIN was[2] = RunFields
       /\ DOMAIN was[3] = RunFields /\ DOMAIN was[4] = RunFields
  BY <1>10
<1>15. DOMAIN before = RunFields /\ before.store = store /\ before.out = <<>>
  <2>1. PICK none : none = was[0] OBVIOUS
  <2>2. none.store = store /\ none.out = <<>> BY <1>9, <2>1 DEF Object!Running
  <2>3. DOMAIN none = RunFields /\ Does(none, Object!Open("folder", "logon"), first) BY <1>5, <1>12, <1>13, <1>14, <2>1
  <2>4. Kept(none, first) BY <2>3, OpenKeeps
  <2>5. DOMAIN first = RunFields /\ Does(first, Object!Open("to", "logon"), before) BY <1>5, <1>12, <1>13, <1>14
  <2>6. Kept(first, before) BY <2>5, OpenKeeps
  <2> QED BY <1>13, <1>14, <2>2, <2>4, <2>6 DEF Kept
<1>16. after \in Object!Succeeds(before, rop)
  <2>1. Does(before, rop, after) BY <1>5, <1>12, <1>13
  <2> QED BY <1>2, <2>1 DEF Does
<1>17. Kept(after, run)
  <2>1. PICK next : next = was[4] OBVIOUS
  <2>2. DOMAIN after = RunFields /\ Does(after, Object!Release("folder"), next) BY <1>5, <1>12, <1>13, <1>14, <2>1
  <2>3. Kept(after, next) BY <2>2, ReleaseKeeps
  <2>4. DOMAIN next = RunFields /\ Does(next, Object!Release("to"), run) BY <1>5, <1>9, <1>12, <1>14, <2>1
  <2>5. Kept(next, run) BY <2>4, ReleaseKeeps
  <2> QED BY <2>3, <2>5 DEF Kept
<1>18. rop.op \in {"delete_messages", "move", "copy", "set_read_flags"} BY <1>2
<1>19. call.kind = IF rop.op = "delete_messages" THEN "delete" ELSE IF rop.op = "set_read_flags" THEN "read" ELSE rop.op
  BY <1>2
<1> QED BY <1>15, <1>16, <1>17, <1>18, <1>19, ListTells

\* What is sent is what is in the store.
LEMMA SentAsIs ==
    ASSUME AtHand, trip = "first", call.kind = "send", NEW run \in Object!Runs, ~run.refused
    PROVE  run.store.posted = run.store.item
<1>1. Object!Asked = Object!OneRop("submit", "message") BY DEF Object!Asked, Object!AskedFirst, Object!Send
<1>2. PICK op : op = "submit" OBVIOUS
<1>3. op \notin {"open", "release", "convert"} /\ Object!Asked = Object!OneRop(op, "message") BY <1>1, <1>2
<1>4. PICK before, after :
        /\ DOMAIN before = RunFields /\ before.store = store /\ before.out = <<>>
        /\ after \in Object!Succeeds(before, Object!Rop(op, "message"))
        /\ DOMAIN after = RunFields /\ Kept(after, run)
  BY <1>3, OneRopDoes
<1>5. PICK rop : rop = Object!Rop(op, "message") OBVIOUS
<1>6. rop.op = "submit" BY <1>2, <1>5 DEF Object!Rop
<1>7. PICK box : box = before.store OBVIOUS
<1>8. DOMAIN box = StoreFields BY <1>4, <1>7, MailboxFound
<1>9. after = [before EXCEPT !.store.posted = before.store.item] BY <1>4, <1>5, <1>6 DEF Object!Succeeds
<1>10. after.store.posted = box.item /\ after.store.item = box.item BY <1>4, <1>7, <1>8, <1>9 DEF RunFields, StoreFields
<1> QED BY <1>4, <1>10 DEF Kept

\* Whatever else is asked of one object leaves the store as it was.
LEMMA InboxAsked ==
    ASSUME AtHand, trip = "first", call.kind = "special_folders", call.target = "folder",
           NEW run \in Object!Runs, ~run.refused
    PROVE  run.store = store
<1>1. PICK op : op = "special_folders" OBVIOUS
<1>2. Object!Asked = Object!OneRop(op, "folder") BY <1>1 DEF Object!Asked, Object!AskedFirst
<1>3. op \notin {"open", "release", "convert"} BY <1>1
<1>4. PICK before, after :
        /\ DOMAIN before = RunFields /\ before.store = store /\ before.out = <<>>
        /\ after \in Object!Succeeds(before, Object!Rop(op, "folder"))
        /\ DOMAIN after = RunFields /\ Kept(after, run)
  BY <1>2, <1>3, OneRopDoes
<1>5. PICK rop : rop = Object!Rop(op, "folder") OBVIOUS
<1>6. rop.op = "special_folders" BY <1>1, <1>5 DEF Object!Rop
<1>7. after = before BY <1>4, <1>5, <1>6 DEF Object!Succeeds
<1> QED BY <1>4, <1>7 DEF Kept

-----------------------------------------------------------------------------
(* Special folders. *)

\* What a conversion adds to what its batch says.
Adds(run, rop, r) ==
    /\ DOMAIN r = RunFields /\ r.store = run.store
    /\ \/ run.roomless /\ r = run
       \/ ~run.roomless /\ \E x : r.out = Append(run.out, x) /\ (x.how = "ok" => x.folder = rop.of)

LEMMA ConvertAdds ==
    ASSUME NEW run, DOMAIN run = RunFields, NEW rop, rop.op = "convert", NEW r \in Object!RunRop(run, rop)
    PROVE  Adds(run, rop, r)
<1>1. CASE run.roomless BY <1>1 DEF Object!RunRop, Adds
<1>2. CASE ~run.roomless
  <2>1. \/ r \in Object!Succeeds(run, rop)
        \/ \E how \in {"refused", "backoff", "no_room"} :
             r = Object!Said(run, rop, how) \/ r = [Object!Said(run, rop, how) EXCEPT !.roomless = TRUE]
    BY <1>2 DEF Object!RunRop, Object!Fails
  <2>2. CASE r \in Object!Succeeds(run, rop)
    <3>1. PICK x : x = [op |-> "convert", how |-> "ok", folder |-> rop.of] OBVIOUS
    <3>2. r = [run EXCEPT !.out = Append(@, x)] BY <2>2, <3>1 DEF Object!Succeeds
    <3>3. x.folder = rop.of BY <3>1
    <3> QED BY <1>2, <3>2, <3>3 DEF Adds, RunFields
  <2>3. ASSUME NEW how \in {"refused", "backoff", "no_room"},
               r = Object!Said(run, rop, how) \/ r = [Object!Said(run, rop, how) EXCEPT !.roomless = TRUE]
        PROVE  Adds(run, rop, r)
    <3>1. PICK x : x = [op |-> rop.op, how |-> how] OBVIOUS
    <3>2. r = [run EXCEPT !.out = Append(@, x)] \/ r = [[run EXCEPT !.out = Append(@, x)] EXCEPT !.roomless = TRUE]
      BY <2>3, <3>1 DEF Object!Said
    <3>3. x.how # "ok" BY <3>1
    <3>4. DOMAIN r = RunFields /\ r.store = run.store /\ r.out = Append(run.out, x) BY <3>2 DEF RunFields
    <3> QED BY <1>2, <3>3, <3>4 DEF Adds
  <2> QED BY <2>1, <2>2, <2>3
<1> QED BY <1>1, <1>2

\* The answers so far, of folders in their order.
Pairs(out, folders, n) ==
    /\ \E U : out \in Seq(U)
    /\ Len(out) <= n
    /\ \A i \in 1..Len(out) : out[i].how = "ok" => out[i].folder = folders[i]

LEMMA PairsOn ==
    ASSUME NEW n \in Nat, NEW folders, NEW out, Pairs(out, folders, n - 1), Len(out) = n - 1,
           NEW x, x.how = "ok" => x.folder = folders[n]
    PROVE  Pairs(Append(out, x), folders, n) /\ Len(Append(out, x)) = n
<1>1. PICK U : out \in Seq(U) BY DEF Pairs
<1>2. PICK V : V = U \cup {x} OBVIOUS
<1>3. out \in Seq(V) /\ x \in V BY <1>1, <1>2
<1>4. PICK new : new = Append(out, x) OBVIOUS
<1>5. /\ new \in Seq(V) /\ Len(new) = Len(out) + 1 /\ new[Len(out) + 1] = x
      /\ \A i \in 1..Len(out) : new[i] = out[i]
  BY <1>3, <1>4, AppendProperties
<1>6. Len(new) = n /\ new[n] = x /\ \A i \in 1..(n - 1) : new[i] = out[i] BY <1>5
<1>7. ASSUME NEW i \in 1..n, new[i].how = "ok" PROVE new[i].folder = folders[i]
  <2>1. CASE i = n BY <1>6, <1>7, <2>1
  <2>2. CASE i # n
    <3>1. i \in 1..(n - 1) BY <2>2
    <3> QED BY <1>6, <1>7, <3>1 DEF Pairs
  <2> QED BY <2>1, <2>2
<1>8. Pairs(new, folders, n) BY <1>5, <1>6, <1>7 DEF Pairs
<1> QED BY <1>4, <1>6, <1>8

Paired(run, folders, n) == run.store = store /\ Pairs(run.out, folders, n)

\* The n-th ROP of a batch of conversions, and its answer.
LEMMA ConversionsPair ==
    ASSUME NEW rops, rops = Object!Asked, NEW N \in Nat, N = Len(rops),
           NEW folders, \A n \in 1..N : rops[n].op = "convert" /\ rops[n].of = folders[n],
           NEW run \in Object!Runs
    PROVE  Paired(run, folders, N)
<1>1. PICK runs : /\ Object!Runs = runs[N]
                  /\ runs[0] = {Object!Running}
                  /\ \A n \in 1..N : runs[n] = Onward(runs[n - 1], rops[n])
  <2>1. rops = Object!Asked /\ N = Len(rops) OBVIOUS
  <2> QED BY <2>1, RunsFollow
<1> DEFINE Holds(r, n) == /\ DOMAIN r = RunFields /\ r.store = store /\ Pairs(r.out, folders, n)
                          /\ r.roomless \/ Len(r.out) = n
           T == {n \in 0..N : \A r \in runs[n] : Holds(r, n)}
<1>2. 0 \in T
  <2>1. PICK first : first = Object!Running OBVIOUS
  <2>2. DOMAIN first = RunFields /\ first.store = store /\ first.out = <<>> BY <2>1 DEF Object!Running, RunFields
  <2>3. PICK out : out = first.out OBVIOUS
  <2>4. out \in Seq({}) /\ Len(out) = 0 BY <2>2, <2>3
  <2>5. Pairs(out, folders, 0) BY <2>4 DEF Pairs
  <2>6. Holds(first, 0) BY <2>2, <2>3, <2>4, <2>5
  <2> HIDE DEF Holds
  <2> QED BY <1>1, <2>1, <2>6
<1>3. ASSUME NEW n \in 1..N, n - 1 \in T PROVE n \in T
  <2> SUFFICES ASSUME NEW r \in runs[n] PROVE Holds(r, n) OBVIOUS
  <2>1. PICK before \in runs[n - 1] : r \in Object!RunRop(before, rops[n])
    <3>1. r \in Onward(runs[n - 1], rops[n]) BY <1>1
    <3> QED BY <3>1 DEF Onward
  <2>2. Holds(before, n - 1) BY <1>3
  <2>3. PICK rop : rop = rops[n] OBVIOUS
  <2>4. Adds(before, rop, r) BY <2>1, <2>2, <2>3, ConvertAdds
  <2>5. DOMAIN r = RunFields /\ r.store = store BY <2>2, <2>4 DEF Adds
  <2>6. CASE before.roomless /\ r = before
    <3>1. Pairs(r.out, folders, n) BY <2>2, <2>6 DEF Pairs
    <3> QED BY <2>5, <2>6, <3>1
  <2>7. CASE ~before.roomless
    <3>1. PICK x : r.out = Append(before.out, x) /\ (x.how = "ok" => x.folder = rop.of) BY <2>4, <2>7 DEF Adds
    <3>2. PICK out : out = before.out OBVIOUS
    <3>3. Pairs(out, folders, n - 1) /\ Len(out) = n - 1 BY <2>2, <2>7, <3>2
    <3>4. x.how = "ok" => x.folder = folders[n] BY <2>3, <3>1
    <3>5. n \in Nat OBVIOUS
    <3>6. Pairs(Append(out, x), folders, n) /\ Len(Append(out, x)) = n BY <3>3, <3>4, <3>5, PairsOn
    <3> QED BY <2>5, <3>1, <3>2, <3>6
  <2> QED BY <2>4, <2>6, <2>7 DEF Adds
<1>4. N \in T
  <2> HIDE DEF T
  <2>1. 0..N \subseteq T BY <1>2, <1>3, BoundedInduction
  <2> QED BY <2>1
<1> QED BY <1>1, <1>4 DEF Paired

\* What is asked of each folder that is to be converted.
LEMMA PendingIs ==
    ASSUME NEW folders, folders = Object!Pending
    PROVE  /\ folders \in Seq(STRING)
           /\ \A f \in Object!ToSet(Specials) : f \in Object!ToSet(folders) <=> specials[f] = "entry_id"
<1>1. Specials \in Seq(STRING) BY ObjectAssumption
<1>2. PICK set : set = {f \in Object!ToSet(Specials) : specials[f] = "entry_id"} OBVIOUS
<1>3. folders = Object!Among(Specials, set) BY <1>2 DEF Object!Pending
<1>4. folders \in Seq(STRING) BY <1>1, <1>3, AmongSeq
<1>5. ASSUME NEW f \in Object!ToSet(Specials), specials[f] = "entry_id" PROVE f \in Object!ToSet(folders)
  <2>1. PICK i \in 1..Len(Specials) : Specials[i] = f BY <1>1 DEF Object!ToSet
  <2>2. Specials[i] \in set BY <1>2, <1>5, <2>1
  <2>3. PICK k \in 1..Len(folders) : folders[k] = Specials[i] BY <1>1, <1>3, <2>2, AmongAll
  <2> QED BY <1>4, <2>1, <2>3 DEF Object!ToSet
<1>6. ASSUME NEW f \in Object!ToSet(folders) PROVE specials[f] = "entry_id"
  <2>1. PICK k \in 1..Len(folders) : folders[k] = f BY <1>4 DEF Object!ToSet
  <2>2. folders[k] \in set BY <1>1, <1>3, AmongOnly
  <2> QED BY <1>2, <2>1, <2>2
<1> QED BY <1>4, <1>5, <1>6

\* If there are as many answers as folders, the n-th is of the n-th.
LEMMA AnswersPair ==
    ASSUME NEW out, NEW folders, NEW n \in Nat, Pairs(out, folders, n), NEW answers, answers = Object!Answers(out),
           ~(Len(answers) < n), NEW i \in 1..n
    PROVE  answers[i].how = "ok" => answers[i].folder = folders[i]
<1>1. PICK U : out \in Seq(U) BY DEF Pairs
<1>2. PICK set : answers = Object!Among(out, set) BY DEF Object!Answers
<1>3. Len(out) \in Nat /\ Len(out) <= n BY <1>1 DEF Pairs
<1>4. Len(answers) <= Len(out) /\ (Len(answers) = Len(out) => \A j \in 1..Len(out) : answers[j] = out[j])
  BY <1>1, <1>2, AmongWhole
<1>5. answers \in Seq(U) BY <1>1, <1>2, AmongSeq
<1>6. Len(answers) \in Nat BY <1>5
<1>7. Len(answers) = Len(out) /\ Len(out) = n BY <1>3, <1>4, <1>6
<1>8. answers[i] = out[i] BY <1>4, <1>7
<1> QED BY <1>7, <1>8 DEF Pairs

\* Each folder becomes what its own conversion came to.
LEMMA ConvertedOwn ==
    ASSUME AtHand, trip = "second", specials = store.inbox, NEW run \in Object!Runs,
           Object!Converted(run.out), result' = "ok"
    PROVE  /\ run.store = store
           /\ \A f \in Object!ToSet(Specials) :
                specials'[f] \in IF specials[f] = "entry_id" THEN {f, "refused"} ELSE {specials[f]}
<1>1. PICK folders : folders = Object!Pending OBVIOUS
<1>2. folders \in Seq(STRING) BY <1>1, PendingIs
<1>3. \A f \in Object!ToSet(Specials) : f \in Object!ToSet(folders) <=> specials[f] = "entry_id" BY <1>1, PendingIs
<1>4. PICK rops : rops = Object!Asked OBVIOUS
<1>5. PICK N \in Nat : N = Len(folders) BY <1>2
<1>6. rops = [i \in 1..N |-> [op |-> "convert", on |-> "logon", of |-> folders[i]]]
  BY <1>1, <1>2, <1>4, <1>5 DEF Object!Asked, Object!Conversions
<1>7. N = Len(rops) /\ \A n \in 1..N : rops[n].op = "convert" /\ rops[n].of = folders[n] BY <1>6
<1>8. run.store = store /\ Pairs(run.out, folders, N)
  <2>1. \A n \in 1..N : rops[n].op = "convert" /\ rops[n].of = folders[n] BY <1>7
  <2>2. N = Len(rops) BY <1>7
  <2>3. Paired(run, folders, N) BY <1>4, <2>1, <2>2, ConversionsPair, Zenon
  <2> QED BY <2>3 DEF Paired
<1>9. PICK answers : answers = Object!Answers(run.out) OBVIOUS
<1>10. ~(Len(answers) < Len(folders)) BY <1>1, <1>9 DEF Object!Converted, Object!Finish
<1>11. ASSUME NEW f \in DOMAIN specials
       PROVE  specials'[f] = IF f \in Object!ToSet(folders)
                               THEN LET a == answers[CHOOSE i \in DOMAIN folders : folders[i] = f]
                                    IN  IF a.how = "ok" THEN a.folder ELSE "refused"
                               ELSE specials[f]
  BY <1>1, <1>9, <1>10 DEF Object!Converted
<1>12. ASSUME NEW f \in Object!ToSet(Specials)
       PROVE  specials'[f] \in IF specials[f] = "entry_id" THEN {f, "refused"} ELSE {specials[f]}
  <2>1. f \in DOMAIN specials BY DEF AtHand
  <2>2. CASE f \notin Object!ToSet(folders) BY <1>3, <1>11, <2>1, <2>2
  <2>3. CASE f \in Object!ToSet(folders)
    <3>1. \E i \in DOMAIN folders : folders[i] = f BY <2>3 DEF Object!ToSet
    <3>2. PICK i : i = CHOOSE j \in DOMAIN folders : folders[j] = f OBVIOUS
    <3>3. i \in DOMAIN folders /\ folders[i] = f BY <3>1, <3>2
    <3>4. i \in 1..N BY <1>2, <1>5, <3>3
    <3>5. answers[i].how = "ok" => answers[i].folder = folders[i] BY <1>5, <1>8, <1>9, <1>10, <3>4, AnswersPair
    <3>6. specials'[f] = IF answers[i].how = "ok" THEN answers[i].folder ELSE "refused"
      BY <1>11, <2>1, <2>3, <3>2
    <3> QED BY <1>3, <2>3, <3>3, <3>5, <3>6
  <2> QED BY <2>2, <2>3
<1> QED BY <1>8, <1>12

-----------------------------------------------------------------------------
(* Updates. *)

\* In what turn an update's deeds come: each once, what was set first, saved after it is changed, sent last.
InTurn(ops) ==
    \A i \in 1..Len(ops), j \in 1..Len(ops) : i < j =>
        ops[i] # ops[j] /\ (ops[i] = "save" => ops[j] = "submit") /\ ops[i] # "submit" /\ ops[j] # "set"

LEMMA UpdateOpsInTurn == InTurn(UpdateOps)
<1>1. PICK seq : seq = UpdateOps OBVIOUS
<1>2. /\ Len(seq) = 6 /\ seq[1] = "set" /\ seq[2] = "delete" /\ seq[3] = "clear"
      /\ seq[4] = "add" /\ seq[5] = "save" /\ seq[6] = "submit"
  BY <1>1 DEF UpdateOps
<1>3. ASSUME NEW i \in 1..6, NEW j \in 1..6, i < j
      PROVE  seq[i] # seq[j] /\ (seq[i] = "save" => seq[j] = "submit") /\ seq[i] # "submit" /\ seq[j] # "set"
  <2>1. i = 1 \/ i = 2 \/ i = 3 \/ i = 4 \/ i = 5 BY <1>3
  <2>2. j = 2 \/ j = 3 \/ j = 4 \/ j = 5 \/ j = 6 BY <1>3
  <2> QED BY <1>2, <1>3, <2>1, <2>2
<1> QED BY <1>1, <1>2, <1>3 DEF InTurn

LEMMA OpsInTurn ==
    ASSUME NEW changes, NEW done, NEW ops, ops = OpsOf(changes, done)
    PROVE  InTurn(ops)
<1>1. PICK seq : seq = UpdateOps OBVIOUS
<1>2. seq \in Seq(Deeds) BY <1>1 DEF UpdateOps, Deeds
<1>3. PICK set : ops = Object!Among(seq, set) BY <1>1 DEF OpsOf
<1>4. IsInOrder(seq, ops) BY <1>2, <1>3, AmongInOrder
<1>5. PICK place \in [1..Len(ops) -> 1..Len(seq)] :
        /\ \A k \in 1..Len(ops) : ops[k] = seq[place[k]]
        /\ \A k, l \in 1..Len(ops) : k < l => place[k] < place[l]
  BY <1>4 DEF IsInOrder
<1>6. InTurn(seq) BY <1>1, UpdateOpsInTurn
<1>7. ASSUME NEW i \in 1..Len(ops), NEW j \in 1..Len(ops), i < j
      PROVE  ops[i] # ops[j] /\ (ops[i] = "save" => ops[j] = "submit") /\ ops[i] # "submit" /\ ops[j] # "set"
  <2>1. place[i] < place[j] /\ place[i] \in 1..Len(seq) /\ place[j] \in 1..Len(seq) BY <1>5, <1>7
  <2>2. ops[i] = seq[place[i]] /\ ops[j] = seq[place[j]] BY <1>5
  <2> QED BY <1>6, <2>1, <2>2 DEF InTurn
<1> QED BY <1>7 DEF InTurn

\* The deeds among the first n.
Upto(ops, n) == {ops[i] : i \in 1..n}

LEMMA OpsAll ==
    ASSUME NEW changes, changes \subseteq {"delete", "clear", "add"}, NEW done \in BOOLEAN,
           NEW ops, ops = OpsOf(changes, done)
    PROVE  Upto(ops, Len(ops)) = changes \cup {"set", "save"} \cup Submits(done)
<1>1. PICK seq : seq = UpdateOps OBVIOUS
<1>2. seq \in Seq(Deeds) BY <1>1 DEF UpdateOps, Deeds
<1>3. PICK set : set = changes \cup {"set", "save"} \cup Submits(done) OBVIOUS
<1>4. ops = Object!Among(seq, set) BY <1>1, <1>3 DEF OpsOf
<1>5. /\ Len(seq) = 6 /\ seq[1] = "set" /\ seq[2] = "delete" /\ seq[3] = "clear"
      /\ seq[4] = "add" /\ seq[5] = "save" /\ seq[6] = "submit"
  BY <1>1 DEF UpdateOps
<1>6. ASSUME NEW x \in set PROVE x \in Upto(ops, Len(ops))
  <2>1. x \in Deeds BY <1>3 DEF Submits, Deeds
  <2>2. \E i \in 1..6 : seq[i] = x
    <3>1. 1 \in 1..6 /\ 2 \in 1..6 /\ 3 \in 1..6 /\ 4 \in 1..6 /\ 5 \in 1..6 /\ 6 \in 1..6 OBVIOUS
    <3> QED BY <1>5, <2>1, <3>1 DEF Deeds
  <2>3. PICK i \in 1..Len(seq) : seq[i] = x BY <1>5, <2>2
  <2>4. seq[i] \in set BY <2>3
  <2>5. PICK k \in 1..Len(ops) : ops[k] = seq[i] BY <1>2, <1>4, <2>4, AmongAll
  <2> QED BY <2>3, <2>5 DEF Upto
<1>7. ASSUME NEW x \in Upto(ops, Len(ops)) PROVE x \in set
  <2>1. PICK k \in 1..Len(ops) : x = ops[k] BY DEF Upto
  <2>2. ops[k] \in set BY <1>2, <1>4, AmongOnly
  <2> QED BY <2>1, <2>2
<1> QED BY <1>3, <1>6, <1>7

\* What an update comes to as far as it has done the deeds in some set.
Changes == {"set", "delete", "clear", "add"}
Edited(run, deeds) ==
    /\ DOMAIN run = RunFields /\ DOMAIN run.store = StoreFields
    /\ run.refusals \subseteq deeds \cap {"set", "delete"}
    /\ run.edit = (deeds \cap Changes) \ run.refusals
    /\ "save" \in deeds => run.store.item = run.edit
    /\ "submit" \in deeds => run.store.posted = run.store.item

\* What the first report says, of what was set.
Reported(run, deeds) ==
    /\ \E U : run.out \in Seq(U)
    /\ "set" \notin deeds => run.out = <<>>
    /\ "set" \in deeds => /\ Len(run.out) > 0 /\ run.out[1].op = "set"
                          /\ run.out[1].how = "problems" <=> "set" \in run.refusals

\* How a change is answered.
LEMMA ChangeIs ==
    ASSUME NEW run, DOMAIN run = RunFields, NEW rop, rop.op \in Changes, NEW r \in Object!Succeeds(run, rop)
    PROVE  /\ DOMAIN r = RunFields /\ r.store = run.store
           /\ \/ /\ r.out = Append(run.out, [op |-> rop.op, how |-> "ok"])
                 /\ r.edit = run.edit \cup {rop.op} /\ r.refusals = run.refusals
              \/ /\ rop.op \in {"set", "delete"} /\ r.out = Append(run.out, [op |-> rop.op, how |-> "problems"])
                 /\ r.edit = run.edit /\ r.refusals = run.refusals \cup {rop.op}
<1>1. r \in Object!Change(run, rop) BY DEF Object!Succeeds, Changes
<1>2. CASE r = [Object!Said(run, rop, "ok") EXCEPT !.edit = @ \cup {rop.op}]
  BY <1>2 DEF Object!Said, RunFields
<1>3. CASE /\ rop.op \in {"set", "delete"}
           /\ r = [Object!Said(run, rop, "problems") EXCEPT !.refusals = @ \cup {rop.op}]
  BY <1>3 DEF Object!Said, RunFields
<1> QED BY <1>1, <1>2, <1>3 DEF Object!Change

LEMMA DeedDone ==
    ASSUME NEW run, NEW deeds, Edited(run, deeds), NEW op \in Deeds, op \notin deeds, "submit" \notin deeds,
           "save" \in deeds => op = "submit", NEW rop, rop = Object!Rop(op, "message"),
           NEW r \in Object!Succeeds(run, rop)
    PROVE  Edited(r, deeds \cup {op})
<1>1. rop.op = op BY DEF Object!Rop
<1>2. DOMAIN run = RunFields BY DEF Edited
<1>3. CASE op \in Changes
  <2>1. rop.op \in Changes BY <1>1, <1>3
  <2>2. /\ DOMAIN r = RunFields /\ r.store = run.store
        /\ \/ /\ r.out = Append(run.out, [op |-> rop.op, how |-> "ok"])
              /\ r.edit = run.edit \cup {rop.op} /\ r.refusals = run.refusals
           \/ /\ rop.op \in {"set", "delete"} /\ r.out = Append(run.out, [op |-> rop.op, how |-> "problems"])
              /\ r.edit = run.edit /\ r.refusals = run.refusals \cup {rop.op}
    BY <1>2, <2>1, ChangeIs
  <2>3. "save" \notin deeds /\ op \notin {"save", "submit"} BY <1>3 DEF Changes
  <2>4. CASE r.edit = run.edit \cup {op} /\ r.refusals = run.refusals
    BY <1>3, <2>2, <2>3, <2>4 DEF Edited
  <2>5. CASE op \in {"set", "delete"} /\ r.edit = run.edit /\ r.refusals = run.refusals \cup {op}
    BY <1>3, <2>2, <2>3, <2>5 DEF Edited
  <2> QED BY <1>1, <2>2, <2>4, <2>5
<1>4. PICK box : box = run.store OBVIOUS
<1>5. DOMAIN box = StoreFields BY <1>4 DEF Edited
<1>6. CASE op = "save"
  <2>1. r = [run EXCEPT !.store.item = run.edit] BY <1>1, <1>6 DEF Object!Succeeds
  <2>2. DOMAIN r = RunFields /\ r.edit = run.edit /\ r.refusals = run.refusals BY <1>2, <2>1 DEF RunFields
  <2>3. DOMAIN r.store = StoreFields /\ r.store.item = run.edit BY <1>2, <1>4, <1>5, <2>1 DEF RunFields, StoreFields
  <2>4. op \notin Changes /\ op # "submit" BY <1>6 DEF Changes
  <2> QED BY <2>2, <2>3, <2>4 DEF Edited
<1>7. CASE op = "submit"
  <2>1. r = [run EXCEPT !.store.posted = run.store.item] BY <1>1, <1>7 DEF Object!Succeeds
  <2>2. DOMAIN r = RunFields /\ r.edit = run.edit /\ r.refusals = run.refusals BY <1>2, <2>1 DEF RunFields
  <2>3. DOMAIN r.store = StoreFields /\ r.store.item = box.item /\ r.store.posted = box.item
    BY <1>2, <1>4, <1>5, <2>1 DEF RunFields, StoreFields
  <2>4. op \notin Changes /\ op # "save" BY <1>7 DEF Changes
  <2> QED BY <1>4, <2>2, <2>3, <2>4 DEF Edited
<1> QED BY <1>3, <1>6, <1>7 DEF Deeds, Changes

LEMMA Lengthens ==
    ASSUME NEW U, NEW seq \in Seq(U), NEW x
    PROVE  /\ \E V : Append(seq, x) \in Seq(V)
           /\ Len(Append(seq, x)) = Len(seq) + 1 /\ Append(seq, x)[Len(seq) + 1] = x
           /\ \A i \in 1..Len(seq) : Append(seq, x)[i] = seq[i]
<1>1. PICK V : V = U \cup {x} OBVIOUS
<1>2. seq \in Seq(V) /\ x \in V BY <1>1
<1>3. PICK new : new = Append(seq, x) OBVIOUS
<1>4. /\ new \in Seq(V) /\ Len(new) = Len(seq) + 1 /\ new[Len(seq) + 1] = x
      /\ \A i \in 1..Len(seq) : new[i] = seq[i]
  BY <1>2, <1>3, AppendProperties
<1> QED BY <1>3, <1>4

LEMMA DeedReported ==
    ASSUME NEW run, NEW deeds, Edited(run, deeds), Reported(run, deeds), NEW op \in Deeds,
           op = "set" <=> "set" \notin deeds, NEW rop, rop = Object!Rop(op, "message"),
           NEW r \in Object!Succeeds(run, rop)
    PROVE  Reported(r, deeds \cup {op})
<1>1. rop.op = op BY DEF Object!Rop
<1>2. DOMAIN run = RunFields BY DEF Edited
<1>3. CASE op \in Changes
  <2>1. rop.op \in Changes BY <1>1, <1>3
  <2>2. \/ r.out = Append(run.out, [op |-> rop.op, how |-> "ok"]) /\ r.refusals = run.refusals
        \/ r.out = Append(run.out, [op |-> rop.op, how |-> "problems"]) /\ r.refusals = run.refusals \cup {rop.op}
    BY <1>2, <2>1, ChangeIs
  <2>3. PICK how : /\ r.out = Append(run.out, [op |-> op, how |-> how])
                   /\ how = "problems" => r.refusals = run.refusals \cup {op}
                   /\ how # "problems" => r.refusals = run.refusals
    <3>1. CASE r.out = Append(run.out, [op |-> op, how |-> "ok"]) /\ r.refusals = run.refusals
      <4>1. PICK said : said = "ok" OBVIOUS
      <4>2. said # "problems" /\ r.out = Append(run.out, [op |-> op, how |-> said]) BY <3>1, <4>1
      <4> QED BY <3>1, <4>2
    <3>2. CASE r.out = Append(run.out, [op |-> op, how |-> "problems"]) /\ r.refusals = run.refusals \cup {op}
      <4>1. PICK said : said = "problems" OBVIOUS
      <4>2. r.out = Append(run.out, [op |-> op, how |-> said]) BY <3>2, <4>1
      <4> QED BY <3>2, <4>1, <4>2
    <3> QED BY <1>1, <2>2, <3>1, <3>2
  <2>4. PICK x : x = [op |-> op, how |-> how] OBVIOUS
  <2>5. x.op = op /\ x.how = how BY <2>4
  <2>6. PICK seq, U : seq = run.out /\ seq \in Seq(U) BY DEF Reported
  <2>7. PICK new : new = Append(seq, x) OBVIOUS
  <2>8. PICK V : new \in Seq(V) BY <2>6, <2>7, Lengthens
  <2>9. Len(new) = Len(seq) + 1 BY <2>6, <2>7, Lengthens
  <2>10. new[Len(seq) + 1] = x BY <2>6, <2>7, Lengthens
  <2>11. \A i \in 1..Len(seq) : new[i] = seq[i] BY <2>6, <2>7, Lengthens
  <2>12. r.out = new BY <2>3, <2>4, <2>6, <2>7
  <2>13. Len(seq) \in Nat BY <2>6
  <2>14. CASE op = "set"
    <3>1. Len(seq) = 0 /\ "set" \notin run.refusals BY <2>6, <2>14 DEF Reported, Edited
    <3>2. Len(new) = 1 /\ new[1] = x BY <2>9, <2>10, <3>1
    <3>3. new[1].how = "problems" <=> "set" \in r.refusals BY <2>3, <2>5, <2>14, <3>1, <3>2
    <3> QED BY <2>5, <2>8, <2>12, <2>14, <3>2, <3>3 DEF Reported
  <2>15. CASE op # "set"
    <3>1. "set" \in deeds /\ Len(seq) > 0 /\ seq[1].op = "set" /\ (seq[1].how = "problems" <=> "set" \in run.refusals)
      BY <2>6, <2>15 DEF Reported
    <3>2. 1 \in 1..Len(seq) BY <2>13, <3>1
    <3>3. new[1] = seq[1] /\ Len(new) > 0 BY <2>9, <2>11, <2>13, <3>1, <3>2
    <3>4. "set" \in r.refusals <=> "set" \in run.refusals BY <2>3, <2>15
    <3> QED BY <2>8, <2>12, <3>1, <3>3, <3>4 DEF Reported
  <2> QED BY <2>14, <2>15
<1>4. CASE op \in {"save", "submit"}
  <2>1. r.out = run.out /\ r.refusals = run.refusals BY <1>1, <1>2, <1>4 DEF Object!Succeeds, RunFields
  <2> QED BY <1>4, <2>1 DEF Reported
<1> QED BY <1>3, <1>4 DEF Deeds, Changes

\* The first report there is, if something was set first.
LEMMA ProblemsAre ==
    ASSUME NEW U, NEW out \in Seq(U), Len(out) > 0, out[1].op = "set"
    PROVE  Object!Problems(out) = IF out[1].how = "problems" THEN {"set"} ELSE {}
<1>1. PICK set : set = {o \in Object!ToSet(out) : o.op \in {"set", "delete"}} OBVIOUS
<1>2. PICK reports : reports = Object!Among(out, set) OBVIOUS
<1>3. 1 \in 1..Len(out) BY DEF Seq
<1>4. out[1] \in set BY <1>1, <1>3 DEF Object!ToSet
<1>5. PICK k \in 1..Len(reports) : reports[k] = out[1] BY <1>2, <1>3, <1>4, AmongAll
<1>6. \A x \in set : x \in set OBVIOUS
<1>7. IsFirst(out, set, reports) BY <1>2, <1>6, AmongFirst
<1>8. reports \in Seq(U) BY <1>2, AmongSeq
<1>9. 1 \in 1..Len(reports) BY <1>5, <1>8
<1>10. reports[1] \in set BY <1>2, <1>9, AmongOnly
<1>11. PICK i \in 1..Len(out) : out[i] = reports[1] /\ \A j \in 1..(i - 1) : out[j] \notin set
  <2>1. 1..(1 - 1) = {} OBVIOUS
  <2>2. \A l \in 1..(1 - 1) : reports[l] \notin set BY <2>1
  <2> QED BY <1>7, <1>9, <1>10, <2>2 DEF IsFirst
<1>12. i = 1
  <2> SUFFICES ASSUME i # 1 PROVE FALSE OBVIOUS
  <2>1. 1 \in 1..(i - 1) OBVIOUS
  <2> QED BY <1>4, <1>11, <2>1
<1>13. reports[1] = out[1] BY <1>11, <1>12
<1> QED BY <1>1, <1>2, <1>13 DEF Object!Problems

\* What an update that is not refused is told, and has come to.
UpdateTold(run, changes, done) ==
    /\ run.store.item = (changes \cup {"set"}) \ run.refusals
    /\ done => run.store.posted = run.store.item
    /\ Object!Problems(run.out) = IF "set" \in run.refusals THEN {"set"} ELSE {}

LEMMA UpdateBatch ==
    ASSUME NEW ops \in Seq(Deeds), NEW m \in Nat, m = Len(ops),
           NEW batch, batch = Object!Around(<<"message">>, RopsOf(ops))
    PROVE  /\ Len(batch) = m + 2 /\ batch[1] = Object!Open("message", "logon")
           /\ batch[m + 2] = Object!Release("message")
           /\ \A i \in 1..m : batch[i + 1] = Object!Rop(ops[i], "message")
<1>1. PICK rops : rops = RopsOf(ops) OBVIOUS
<1>2. PICK R : R = {Object!Rop(op, "message") : op \in Deeds} OBVIOUS
<1>3. rops \in Seq(R) BY <1>1, <1>2, RopsAre
<1>4. Len(rops) = m BY <1>1, RopsAre
<1>5. PICK path : path = <<"message">> OBVIOUS
<1>6. path \in Seq(Slots) /\ Len(path) = 1 /\ path[1] = "message" BY <1>5 DEF Slots
<1>7. batch = Object!Around(path, rops) BY <1>1, <1>5
<1>8. Len(batch) = Len(path) + Len(rops) + Len(path) BY <1>3, <1>6, <1>7, AroundPath
<1>9. \A i \in 1..Len(path) : batch[i] = Opens(path, i) BY <1>3, <1>6, <1>7, AroundOpens
<1>10. \A i \in 1..Len(path) : batch[Len(path) + Len(rops) + i] = Object!Release(path[Len(path) - i + 1])
  BY <1>3, <1>6, <1>7, AroundShuts
<1>11. \A i \in 1..Len(rops) : batch[Len(path) + i] = rops[i]
  <2>1. path \in Seq(Slots) /\ rops \in Seq(R) /\ batch = Object!Around(path, rops) BY <1>3, <1>6, <1>7
  <2>2. AsksAfter(path, rops, batch) BY <2>1, AroundAsks
  <2> QED BY <2>2 DEF AsksAfter
<1>12. batch[1] = Object!Open("message", "logon") BY <1>6, <1>9 DEF Opens
<1>13. batch[m + 2] = Object!Release("message")
  <2>1. batch[1 + m + 1] = Object!Release(path[1 - 1 + 1]) BY <1>4, <1>6, <1>10
  <2>2. 1 - 1 + 1 = 1 /\ 1 + m + 1 = m + 2 OBVIOUS
  <2> QED BY <1>6, <2>1, <2>2
<1>14. ASSUME NEW i \in 1..m PROVE batch[i + 1] = Object!Rop(ops[i], "message")
  <2>1. batch[1 + i] = rops[i] BY <1>4, <1>6, <1>11
  <2>2. 1 + i = i + 1 OBVIOUS
  <2>3. rops[i] = Object!Rop(ops[i], "message") BY <1>1 DEF RopsOf
  <2> QED BY <2>1, <2>2, <2>3
<1> QED BY <1>4, <1>6, <1>8, <1>12, <1>13, <1>14

LEMMA UpdateDoes ==
    ASSUME AtHand, trip = "first", call.kind = "update", call.changes \subseteq {"delete", "clear", "add"},
           call.submit \in BOOLEAN, NEW run \in Object!Runs, ~run.refused
    PROVE  UpdateTold(run, call.changes, call.submit)
<1>1. PICK changes, done : changes = call.changes /\ done = call.submit OBVIOUS
<1>2. PICK ops : ops = OpsOf(changes, done) OBVIOUS
<1>3. ops \in Seq(Deeds) BY <1>2, OpsAre
<1>4. PICK m \in Nat : m = Len(ops) BY <1>3
<1>5. InTurn(ops) BY <1>2, OpsInTurn
<1>6. PICK all : all = Upto(ops, m) OBVIOUS
<1>7. all = changes \cup {"set", "save"} \cup Submits(done)
  <2>1. changes \subseteq {"delete", "clear", "add"} /\ done \in BOOLEAN BY <1>1
  <2> QED BY <1>2, <1>4, <1>6, <2>1, OpsAll
<1>8. PICK rops : rops = Object!Asked OBVIOUS
<1>9. rops = Object!Around(<<"message">>, RopsOf(ops))
  <2>1. rops = Object!Update(changes, done) BY <1>1, <1>8 DEF Object!Asked, Object!AskedFirst
  <2> QED BY <1>2, <2>1, UpdateAsks
<1>10. Len(rops) = m + 2 BY <1>3, <1>4, <1>9, UpdateBatch
<1>11. rops[1] = Object!Open("message", "logon") BY <1>3, <1>4, <1>9, UpdateBatch
<1>12. rops[m + 2] = Object!Release("message") BY <1>3, <1>4, <1>9, UpdateBatch
<1>13. \A i \in 1..m : rops[i + 1] = Object!Rop(ops[i], "message") BY <1>3, <1>4, <1>9, UpdateBatch
<1>14. \A i \in 1..m : ops[i] \in Deeds BY <1>3, <1>4
<1>15. ASSUME NEW n \in 1..(m + 2) PROVE rops[n].op # "convert"
  <2>1. CASE n = 1 BY <1>11, <2>1 DEF Object!Open
  <2>2. CASE n = m + 2 BY <1>12, <2>2 DEF Object!Release
  <2>3. CASE n # 1 /\ n # m + 2
    <3>1. PICK i \in 1..m : n = i + 1
      <4>1. n - 1 \in 1..m /\ n = (n - 1) + 1 BY <2>3
      <4> QED BY <4>1
    <3>2. rops[n] = Object!Rop(ops[i], "message") /\ ops[i] \in Deeds BY <1>13, <1>14, <3>1
    <3> QED BY <3>2 DEF Object!Rop, Deeds
  <2> QED BY <2>1, <2>2, <2>3
<1>16. PICK N \in Nat : N = m + 2 /\ N = Len(rops) BY <1>10
<1>17. PICK was : Traces(was, rops, N, run) BY <1>8, <1>15, <1>16, RunsTrace
<1>18. was[0] = Object!Running /\ was[N] = run BY <1>17 DEF Traces
<1>19. \A n \in 0..N : DOMAIN was[n] = RunFields BY <1>17 DEF Traces
<1>20. \A n \in 1..N : Does(was[n - 1], rops[n], was[n]) BY <1>17 DEF Traces
<1> DEFINE T == {n \in 0..m : Edited(was[n + 1], Upto(ops, n)) /\ Reported(was[n + 1], Upto(ops, n))}
<1>21. 0 \in T
  <2>1. PICK none, first : none = was[0] /\ first = was[1] OBVIOUS
  <2>2. PICK box : box = store OBVIOUS
  <2>3. DOMAIN box = StoreFields /\ box.item = {} BY <2>2, MailboxFound
  <2>4. DOMAIN none = RunFields /\ none.store = box /\ none.out = <<>> /\ none.refusals = {}
    BY <1>18, <2>1, <2>2 DEF Object!Running, RunFields
  <2>5. Does(none, Object!Open("message", "logon"), first)
    <3>1. 1 \in 1..N /\ 1 - 1 = 0 BY <1>16
    <3>2. Does(was[1 - 1], rops[1], was[1]) BY <1>20, <3>1
    <3> QED BY <1>11, <2>1, <3>1, <3>2
  <2>6. Kept(none, first) BY <2>4, <2>5, OpenKeeps
  <2>7. first.edit = none.store.item BY <2>4, <2>5, OpenReads
  <2>8. DOMAIN first = RunFields
    <3>1. 1 \in 0..N BY <1>16
    <3> QED BY <1>19, <2>1, <3>1
  <2>9. PICK deeds : deeds = Upto(ops, 0) OBVIOUS
  <2>10. deeds = {} BY <2>9 DEF Upto
  <2>11. Edited(first, deeds) BY <2>3, <2>4, <2>6, <2>7, <2>8, <2>10 DEF Edited, Kept
  <2>12. first.out \in Seq({})
    <3>1. first.out = <<>> BY <2>4, <2>6 DEF Kept
    <3> QED BY <3>1
  <2>13. Reported(first, deeds) BY <2>4, <2>6, <2>10, <2>12 DEF Reported, Kept
  <2>14. 0 + 1 = 1 /\ 0 \in 0..m OBVIOUS
  <2> QED BY <2>1, <2>9, <2>11, <2>13, <2>14
<1>22. ASSUME NEW n \in 1..m, n - 1 \in T PROVE n \in T
  <2>1. PICK before, after : before = was[n] /\ after = was[n + 1] OBVIOUS
  <2>2. PICK deeds : deeds = Upto(ops, n - 1) OBVIOUS
  <2>3. PICK op \in Deeds : op = ops[n] BY <1>14
  <2>4. Edited(before, deeds) /\ Reported(before, deeds)
    <3>1. (n - 1) + 1 = n OBVIOUS
    <3> QED BY <1>22, <2>1, <2>2, <3>1
  <2>5. PICK rop : rop = Object!Rop(op, "message") OBVIOUS
  <2>6. after \in Object!Succeeds(before, rop)
    <3>1. n + 1 \in 1..N /\ (n + 1) - 1 = n BY <1>16
    <3>2. Does(was[(n + 1) - 1], rops[n + 1], was[n + 1]) BY <1>20, <3>1
    <3>3. Does(before, rop, after) BY <1>13, <2>1, <2>3, <2>5, <3>1, <3>2
    <3>4. rop.op # "release" BY <2>5 DEF Object!Rop, Deeds
    <3> QED BY <3>3, <3>4 DEF Does
  <2>7. \A i \in 1..(n - 1) : i \in 1..Len(ops) /\ i < n /\ n \in 1..Len(ops) BY <1>4
  <2>8. \A d \in deeds : d # op /\ (d = "save" => op = "submit") /\ d # "submit" /\ op # "set"
    BY <1>5, <2>2, <2>3, <2>7 DEF InTurn, Upto
  <2>9. Edited(after, deeds \cup {op}) BY <2>4, <2>5, <2>6, <2>8, DeedDone
  <2>10. op = "set" <=> "set" \notin deeds
    <3>1. op = "set" => "set" \notin deeds BY <2>8
    <3>2. ASSUME "set" \notin deeds, op # "set" PROVE FALSE
      <4>1. "set" \in all BY <1>7
      <4>2. PICK k \in 1..m : ops[k] = "set" BY <1>6, <4>1 DEF Upto
      <4>3. k \notin 1..(n - 1) /\ k # n BY <2>2, <2>3, <3>2, <4>2 DEF Upto
      <4>4. 1 < k /\ 1 \in 1..Len(ops) /\ k \in 1..Len(ops) BY <1>4, <4>3
      <4> QED BY <1>5, <4>2, <4>4 DEF InTurn
    <3> QED BY <3>1, <3>2
  <2>11. Reported(after, deeds \cup {op}) BY <2>4, <2>5, <2>6, <2>10, DeedReported
  <2>12. Upto(ops, n) = deeds \cup {op}
    <3>1. \A i : i \in 1..n <=> i \in 1..(n - 1) \/ i = n OBVIOUS
    <3> QED BY <2>2, <2>3, <3>1 DEF Upto
  <2>13. n \in 0..m OBVIOUS
  <2> QED BY <2>1, <2>9, <2>11, <2>12, <2>13
<1>23. m \in T
  <2> HIDE DEF T
  <2>1. 0..m \subseteq T BY <1>21, <1>22, BoundedInduction
  <2> QED BY <2>1
<1>24. PICK after : after = was[m + 1] OBVIOUS
<1>25. Edited(after, all) /\ Reported(after, all) BY <1>6, <1>23, <1>24
<1>26. Kept(after, run)
  <2>1. m + 2 \in 1..N /\ (m + 2) - 1 = m + 1 /\ N = m + 2 /\ m + 1 \in 0..N BY <1>16
  <2>2. Does(was[(m + 2) - 1], rops[m + 2], was[m + 2]) BY <1>20, <2>1
  <2>3. Does(after, Object!Release("message"), run) BY <1>12, <1>18, <1>24, <2>1, <2>2
  <2>4. DOMAIN after = RunFields BY <1>19, <1>24, <2>1
  <2> QED BY <2>3, <2>4, ReleaseKeeps
<1>27. /\ after.store.item = (all \cap Changes) \ after.refusals
       /\ done => after.store.posted = after.store.item
  BY <1>7, <1>25 DEF Edited, Submits
<1>28. all \cap Changes = changes \cup {"set"}
  <2>1. changes \subseteq {"delete", "clear", "add"} BY <1>1
  <2> QED BY <1>7, <2>1 DEF Changes, Submits
<1>29. Object!Problems(run.out) = IF "set" \in run.refusals THEN {"set"} ELSE {}
  <2>1. PICK out : out = run.out OBVIOUS
  <2>2. "set" \in all BY <1>7
  <2>3. PICK U : out \in Seq(U) BY <1>25, <1>26, <2>1 DEF Reported, Kept
  <2>4. /\ Len(out) > 0 /\ out[1].op = "set"
        /\ out[1].how = "problems" <=> "set" \in run.refusals
    BY <1>25, <1>26, <2>1, <2>2 DEF Reported, Kept
  <2>5. Object!Problems(out) = IF out[1].how = "problems" THEN {"set"} ELSE {} BY <2>3, <2>4, ProblemsAre
  <2> QED BY <2>1, <2>4, <2>5
<1> QED BY <1>1, <1>26, <1>27, <1>28, <1>29 DEF UpdateTold, Kept

-----------------------------------------------------------------------------
(* What a caller is told. *)

\* A call that waits for its answer finds the mailbox as it was, and asks what a caller may ask.
ToldInv ==
    /\ ObjectsAreAsTold
    /\ trip = "idle" => AtHand
    /\ trip = "first" /\ call.kind \notin {"resolve", "register"} => AtHand
    /\ trip = "first" /\ call.kind = "update" =>
         call.changes \subseteq {"delete", "clear", "add"} /\ call.submit \in BOOLEAN
    /\ trip = "first" /\ call.kind = "special_folders" => call.target = "folder"
    /\ trip = "second" => AtHand /\ call.kind = "special_folders" /\ specials = store.inbox

LEMMA NotDoneTold == ASSUME trip' = "done", result' # "ok" PROVE ToldInv'
BY DEF ToldInv, ObjectsAreAsTold, Object!ObjectsAreAsTold, Object!SpecialFoldersAreTheirOwn

LEMMA DoneTold == ASSUME trip' = "done", ObjectsAreAsTold' PROVE ToldInv'
BY DEF ToldInv

LEMMA PostTold ==
    ASSUME NEW c, Object!Post(c), result' = "none" /\ c.kind \notin {"resolve", "register"} => AtHand',
           c.kind = "update" => c.changes \subseteq {"delete", "clear", "add"} /\ c.submit \in BOOLEAN,
           c.kind = "special_folders" => c.target = "folder"
    PROVE  ToldInv'
<1>1. call' = c BY DEF Object!Post
<1>2. (trip' = "first" /\ result' = "none") \/ (trip' = "done" /\ result' = "failed")
  BY DEF Object!Post, Object!Finish
<1>3. CASE trip' = "done" /\ result' = "failed" BY <1>3, NotDoneTold
<1>4. CASE trip' = "first" /\ result' = "none"
  <2>1. ObjectsAreAsTold' BY <1>4 DEF ObjectsAreAsTold, Object!ObjectsAreAsTold, Object!SpecialFoldersAreTheirOwn
  <2> QED BY <1>1, <1>4, <2>1 DEF ToldInv
<1> QED BY <1>2, <1>3, <1>4

LEMMA BeginTold == ASSUME ToldInv, Object!Begin PROVE ToldInv'
<1>1. ASSUME NEW c, Object!Call(c),
             c.kind = "update" => c.changes \subseteq {"delete", "clear", "add"} /\ c.submit \in BOOLEAN,
             c.kind # "special_folders"
      PROVE  ToldInv'
  <2>1. Object!Post(c) /\ UNCHANGED <<specials, store>> BY <1>1 DEF Object!Call, Object!Post
  <2>2. AtHand BY <1>1 DEF Object!Call, ToldInv
  <2>3. result' = "none" => AtHand' BY <2>1, <2>2 DEF AtHand
  <2> QED BY <1>1, <2>1, <2>3, PostTold
<1>2. ASSUME NEW kind \in {"delete", "read", "move", "copy"}, Object!OverList(kind) PROVE ToldInv'
  <2>1. PICK c : c = [kind |-> kind] OBVIOUS
  <2>2. c.kind \notin {"update", "special_folders"} BY <2>1
  <2>3. Object!Call(c) BY <1>2, <2>1 DEF Object!OverList
  <2> QED BY <1>1, <2>2, <2>3
<1>3. CASE Object!UpdateMessage
  <2>1. PICK changes \in SUBSET {"delete", "clear", "add"}, done \in BOOLEAN :
          Object!Call([kind |-> "update", changes |-> changes, submit |-> done])
    BY <1>3 DEF Object!UpdateMessage
  <2>2. PICK c : c = [kind |-> "update", changes |-> changes, submit |-> done] OBVIOUS
  <2>3. c.kind = "update" /\ c.changes = changes /\ c.submit = done BY <2>2
  <2> QED BY <1>1, <2>1, <2>2, <2>3
<1>4. CASE Object!SendMessage
  <2>1. PICK c : c = [kind |-> "send"] OBVIOUS
  <2>2. c.kind = "send" /\ Object!Call(c) BY <1>4, <2>1 DEF Object!SendMessage
  <2> QED BY <1>1, <2>2
<1>5. CASE Object!AskProperties \/ Object!OpenObject \/ Object!ConvertId \/ Object!NamesOf
  <2>1. PICK kind, target : /\ kind \notin {"update", "special_folders"}
                            /\ Object!Call([kind |-> kind, target |-> target])
    BY <1>5 DEF Object!AskProperties, Object!OpenObject, Object!ConvertId, Object!NamesOf
  <2>2. PICK c : c = [kind |-> kind, target |-> target] OBVIOUS
  <2>3. c.kind = kind BY <2>2
  <2> QED BY <1>1, <2>1, <2>2, <2>3
<1>6. CASE Object!ResolveSpecialFolders
  <2>1. PICK c : c = [kind |-> "special_folders", target |-> "folder"] OBVIOUS
  <2>2. c.kind = "special_folders" /\ c.target = "folder" BY <2>1
  <2>3. Object!Post(c) /\ trip = "idle" BY <1>6, <2>1 DEF Object!ResolveSpecialFolders
  <2>4. PICK answers : DOMAIN answers = Object!ToSet(Specials) /\ store' = Object!Mailbox(answers)
    BY <1>6 DEF Object!ResolveSpecialFolders
  <2>5. store'.inbox = answers BY <2>4 DEF Object!Mailbox
  <2>6. DOMAIN specials' = Object!ToSet(Specials) BY <2>3 DEF Object!Post, ToldInv, AtHand
  <2>7. result' = "none" => AtHand' BY <2>4, <2>5, <2>6 DEF AtHand
  <2> QED BY <2>2, <2>3, <2>7, PostTold
<1>7. ASSUME NEW kind \in {"resolve", "register"}, NEW wanted, Object!AskNames(kind, wanted) PROVE ToldInv'
  <2>1. PICK c : c = [kind |-> kind, wanted |-> wanted] OBVIOUS
  <2>2. c.kind = kind BY <2>1
  <2>3. CASE Object!Post(c) BY <2>2, <2>3, PostTold
  <2>4. CASE trip' = "done" /\ call' = c
    BY <2>2, <2>4, DoneTold DEF ObjectsAreAsTold, Object!ObjectsAreAsTold, Object!SpecialFoldersAreTheirOwn
  <2> QED BY <1>7, <2>1, <2>3, <2>4 DEF Object!AskNames, Object!Finish
<1> QED BY <1>2, <1>3, <1>4, <1>5, <1>6, <1>7 DEF Object!Begin, Object!ResolveNames, Object!RegisterNames

\* A batch that was not refused is told of as it was.
LEMMA FirstAnswerTold ==
    ASSUME ToldInv, trip = "first", NEW run \in Object!Runs, ~run.refused, Object!Absorb(run),
           UNCHANGED call, refusals' = run.refusals,
           store' = IF result' \in {"ok", "partial", "none"} THEN run.store ELSE Object!NotLookedAt
    PROVE  ToldInv'
<1> USE DEF ObjectsAreAsTold, Object!ObjectsAreAsTold, Object!SpecialFoldersAreTheirOwn
<1>1. CASE call.kind \in {"delete", "read", "move", "copy"} /\ Object!ListDone(run.out)
  <2>1. AtHand BY <1>1 DEF ToldInv
  <2>2. ListTold(run) BY <1>1, <2>1, DeletedOrRead, MovedOrCopied
  <2>3. PICK how : how = run.out[1].how OBVIOUS
  <2>4. trip' = "done" /\ result' = IF how = "progress" THEN "failed" ELSE how
    BY <1>1, <2>2, <2>3 DEF Object!ListDone, Object!Finish, ListTold
  <2>5. CASE result' # "ok" BY <2>4, <2>5, NotDoneTold
  <2>6. CASE result' = "ok"
    <3>1. how = "ok" /\ store' = run.store BY <2>4, <2>6
    <3>2. ObjectsAreAsTold' BY <1>1, <2>2, <2>3, <3>1 DEF ListTold
    <3> QED BY <2>4, <3>2, DoneTold
  <2> QED BY <2>5, <2>6
<1>2. CASE call.kind = "update" /\ Object!UpdateDone(run.out)
  <2>1. AtHand /\ call.changes \subseteq {"delete", "clear", "add"} /\ call.submit \in BOOLEAN BY <1>2 DEF ToldInv
  <2>2. UpdateTold(run, call.changes, call.submit) BY <1>2, <2>1, UpdateDoes
  <2>3. trip' = "done" /\ result' = "ok" /\ told' = Object!Problems(run.out) BY <1>2 DEF Object!UpdateDone, Object!Finish
  <2>4. store' = run.store BY <2>3
  <2>5. ObjectsAreAsTold' BY <1>2, <2>2, <2>3, <2>4 DEF UpdateTold
  <2> QED BY <2>3, <2>5, DoneTold
<1>3. CASE call.kind = "special_folders" /\ Object!InboxRead
  <2>1. AtHand /\ call.target = "folder" BY <1>3 DEF ToldInv
  <2>2. run.store = store BY <1>3, <2>1, InboxAsked
  <2>3. specials' = store.inbox BY <1>3 DEF Object!InboxRead
  <2>4. CASE trip' = "second" /\ UNCHANGED result
    <3>1. result' = "none" BY <2>1, <2>4 DEF AtHand
    <3>2. store' = store BY <2>2, <3>1
    <3>3. AtHand' BY <2>1, <2>3, <2>4, <3>2 DEF AtHand
    <3> QED BY <1>3, <2>3, <2>4, <3>2, <3>3 DEF ToldInv
  <2>5. CASE /\ \A f \in DOMAIN specials : store.inbox[f] # "entry_id"
             /\ Object!Finish("ok")
    <3>1. trip' = "done" /\ result' = "ok" BY <2>5 DEF Object!Finish
    <3>2. store' = store BY <2>2, <3>1
    <3>3. \A f \in Object!ToSet(Specials) : store.inbox[f] # "entry_id" BY <2>1, <2>5 DEF AtHand
    <3>4. ObjectsAreAsTold' BY <1>3, <2>3, <3>2, <3>3
    <3> QED BY <3>1, <3>4, DoneTold
  <2> QED BY <1>3, <2>4, <2>5 DEF Object!InboxRead
<1>4. CASE call.kind \in {"resolve", "register"} /\ Object!NamesGot(run.out[1].ids)
  BY <1>4, DoneTold DEF Object!NamesGot, Object!Finish
<1>5. CASE /\ call.kind \notin {"delete", "read", "move", "copy", "update", "special_folders", "resolve", "register"}
           /\ Object!Finish("ok")
  <2>1. AtHand BY <1>5 DEF ToldInv
  <2>2. trip' = "done" /\ result' = "ok" BY <1>5 DEF Object!Finish
  <2>3. call.kind = "send" => run.store.posted = run.store.item BY <2>1, SentAsIs
  <2>4. store' = run.store BY <2>2
  <2>5. ObjectsAreAsTold' BY <1>5, <2>3, <2>4
  <2> QED BY <2>2, <2>5, DoneTold
<1> QED BY <1>1, <1>2, <1>3, <1>4, <1>5 DEF Object!Absorb

LEMMA SecondAnswerTold ==
    ASSUME ToldInv, trip = "second", NEW run \in Object!Runs, Object!Converted(run.out), UNCHANGED call,
           store' = IF result' \in {"ok", "partial", "none"} THEN run.store ELSE Object!NotLookedAt
    PROVE  ToldInv'
<1>1. AtHand /\ call.kind = "special_folders" /\ specials = store.inbox BY DEF ToldInv
<1>2. trip' = "done" BY DEF Object!Converted, Object!Finish
<1>3. CASE result' # "ok" BY <1>2, <1>3, NotDoneTold
<1>4. CASE result' = "ok"
  <2>1. run.store = store BY <1>1, <1>4, ConvertedOwn
  <2>2. \A f \in Object!ToSet(Specials) :
          specials'[f] \in IF specials[f] = "entry_id" THEN {f, "refused"} ELSE {specials[f]}
    BY <1>1, <1>4, ConvertedOwn
  <2>3. store' = store BY <1>4, <2>1
  <2>4. ObjectsAreAsTold' BY <1>1, <2>2, <2>3
        DEF ObjectsAreAsTold, Object!ObjectsAreAsTold, Object!SpecialFoldersAreTheirOwn
  <2> QED BY <1>2, <2>4, DoneTold
<1> QED BY <1>3, <1>4

LEMMA ObjectsTell == ASSUME ToldInv, Objecting PROVE ToldInv'
<1>1. CASE Object!Begin BY <1>1, BeginTold
<1>2. CASE Object!Answered
  <2>1. PICK run \in Object!Runs :
          /\ Object!Effect(run) /\ Object!Absorb(run)
          /\ store' = IF result' \in {"ok", "partial", "none"} THEN run.store ELSE Object!NotLookedAt
    BY <1>2 DEF Object!Answered
  <2>2. refusals' = run.refusals /\ UNCHANGED call BY <1>2, <2>1 DEF Object!Effect, Object!Answered
  <2>3. CASE trip = "first" /\ ~run.refused BY <2>1, <2>2, <2>3, FirstAnswerTold
  <2>4. CASE trip = "second" /\ Object!Converted(run.out) BY <2>1, <2>2, <2>4, SecondAnswerTold
  <2>5. CASE trip = "first" /\ run.refused /\ Object!Finish("refused") BY <2>5, NotDoneTold DEF Object!Finish
  <2> QED BY <2>1, <2>3, <2>4, <2>5 DEF Object!Absorb
<1>3. CASE Object!Unreadable BY <1>3, NotDoneTold DEF Object!Unreadable, Object!Finish
<1>4. CASE Object!Lost \/ Object!Cancel
  BY <1>4, NotDoneTold DEF Object!Lost, Object!Cancel, Object!Gone, Object!Finish
<1>5. CASE Object!OtherRegisters
  <2>1. trip = "done" /\ UNCHANGED <<call, trip, result, told, specials, store, refusals>>
    BY <1>5 DEF Object!OtherRegisters, Object!clientVars, Object!historyVars
  <2>2. ObjectsAreAsTold'
    BY <2>1 DEF ToldInv, ObjectsAreAsTold, Object!ObjectsAreAsTold, Object!SpecialFoldersAreTheirOwn
  <2> QED BY <2>1, <2>2, DoneTold
<1> QED BY <1>1, <1>2, <1>3, <1>4, <1>5 DEF Objecting, Object!Progress

\* A caller told that a list was done, a message was updated or sent, or what the special folders are, is told the truth.
THEOREM ObjectsTold == Spec => []ObjectsAreAsTold
<1>0. ASSUME NEW folders, folders = Object!Unread PROVE DOMAIN folders = Object!ToSet(Specials)
  BY <1>0 DEF Object!Unread
<1>1. Init => ToldInv
  <2> SUFFICES ASSUME Init PROVE ToldInv OBVIOUS
  <2>1. trip = "idle" /\ result = "none" /\ specials = Object!Unread /\ store = Object!Mailbox(Object!Unread)
    BY DEF Init, Object!Init
  <2>2. store.inbox = Object!Unread BY <2>1 DEF Object!Mailbox
  <2>3. AtHand BY <1>0, <2>1, <2>2 DEF AtHand
  <2> QED BY <2>1, <2>3 DEF ToldInv, ObjectsAreAsTold, Object!ObjectsAreAsTold, Object!SpecialFoldersAreTheirOwn
<1>2. ToldInv /\ [Next]_vars => ToldInv'
  <2> SUFFICES ASSUME ToldInv, [Next]_vars PROVE ToldInv' OBVIOUS
  <2>1. CASE UNCHANGED objectVars
    BY <2>1 DEF ToldInv, AtHand, ObjectsAreAsTold, Object!ObjectsAreAsTold, Object!SpecialFoldersAreTheirOwn
  <2>2. CASE Object!Renew
    <3>1. trip' = "idle" /\ result' = "none" /\ specials' = Object!Unread /\ store' = Object!Mailbox(Object!Unread)
      BY <2>2 DEF Object!Renew
    <3>2. store'.inbox = Object!Unread BY <3>1 DEF Object!Mailbox
    <3>3. AtHand' BY <1>0, <3>1, <3>2 DEF AtHand
    <3> QED BY <3>1, <3>3 DEF ToldInv, ObjectsAreAsTold, Object!ObjectsAreAsTold, Object!SpecialFoldersAreTheirOwn
  <2>3. CASE Objecting BY <2>3, ObjectsTell
  <2>4. UNCHANGED objectVars \/ Object!Renew \/ Objecting BY ObjectSteps
  <2> QED BY <2>1, <2>2, <2>3, <2>4
<1>3. ToldInv => ObjectsAreAsTold BY DEF ToldInv
<1> QED BY <1>1, <1>2, <1>3, PTL DEF Spec

-----------------------------------------------------------------------------
(* What a call may still ask of a connection. *)

\* Whatever is not under way is where it begins; and the only call on a connection that takes no request
\* is one that reads a table, or one that is on its way out.
RestInv ==
    /\ doing # "stream" => step = "start"
    /\ doing # "draft" => stage = "create"
    /\ doing = "object" <=> trip # "idle"
    /\ step = "rest" => usable
    /\ stage \in {"attach", "fill", "finish", "commit"} => usable
    /\ trip \in {"first", "second"} => usable

LEMMA RestTable == ASSUME RestInv, InTable(Tabling) PROVE RestInv'
BY DEF RestInv, InTable

LEMMA RestStream == ASSUME RestInv, InStream(Streaming) PROVE RestInv'
<1> USE DEF RestInv, InStream, Stream!Decide, Stream!clientVars
<1>1. CASE Stream!OpenStream BY <1>1 DEF Stream!OpenStream
<1>2. CASE Stream!OpenRefused \/ Stream!OpenUnsent BY <1>2 DEF Stream!OpenRefused, Stream!OpenUnsent
<1>3. CASE Stream!ReadOn \/ Stream!ReadNothing \/ Stream!ReadFails
  BY <1>3 DEF Stream!ReadOn, Stream!ReadNothing, Stream!ReadFails
<1>4. CASE Stream!Release \/ Stream!TransportFails BY <1>4 DEF Stream!Release, Stream!TransportFails
<1>5. CASE Stream!Cancel \/ Stream!Extend BY <1>5 DEF Stream!Cancel, Stream!Extend
<1> QED BY <1>1, <1>2, <1>3, <1>4, <1>5 DEF Streaming, Stream!Progress

LEMMA RestDraft == ASSUME RestInv, InDraft(Drafting) PROVE RestInv'
<1> USE DEF RestInv, InDraft, Draft!Finish
<1>1. CASE Draft!CreateMessage \/ Draft!CreateUnsent
  BY <1>1 DEF Draft!CreateMessage, Draft!CreateUnsent
<1>2. CASE Draft!CreateAttachment \/ Draft!AttachmentRefused
  BY <1>2 DEF Draft!CreateAttachment, Draft!AttachmentRefused
<1>3. CASE Draft!WriteChunk \/ Draft!WriteRefused BY <1>3 DEF Draft!WriteChunk, Draft!WriteRefused
<1>4. CASE Draft!FinishAttachment BY <1>4 DEF Draft!FinishAttachment, Draft!Next1
<1>5. CASE Draft!Abandon \/ Draft!Commit \/ Draft!CommitUnread
  BY <1>5 DEF Draft!Abandon, Draft!Commit, Draft!CommitUnread
<1>6. CASE Draft!TransportFails
  BY <1>6 DEF Draft!TransportFails, Draft!LostCreate, Draft!LostAttach, Draft!LostFill, Draft!LostFinish,
              Draft!LostCommit
<1>7. CASE Draft!Cancel BY <1>7 DEF Draft!Cancel
<1> QED BY <1>1, <1>2, <1>3, <1>4, <1>5, <1>6, <1>7 DEF Drafting, Draft!Progress

LEMMA PostRests ==
    ASSUME NEW c, Object!Post(c)
    PROVE  trip' # "idle" /\ usable' = usable /\ (trip' \in {"first", "second"} => usable')
           /\ left' = left
BY DEF Object!Post, Object!Finish

LEMMA BeginRests ==
    ASSUME Object!Begin
    PROVE  /\ trip' # "idle" /\ usable' = usable /\ (trip' \in {"first", "second"} => usable)
           /\ left' = left
           /\ trip \in {"idle", "done"}
           /\ trip # "idle" => store' = store
<1>1. ASSUME NEW c, Object!Call(c) PROVE Object!Post(c) /\ store' = store /\ trip = "idle"
  BY <1>1 DEF Object!Call
<1>2. ASSUME NEW kind, NEW wanted, Object!AskNames(kind, wanted)
      PROVE  /\ trip' # "idle" /\ usable' = usable /\ (trip' \in {"first", "second"} => usable)
             /\ left' = left /\ store' = store /\ trip \in {"idle", "done"}
  <2>1. CASE wanted # <<>> BY <1>2, <2>1, PostRests DEF Object!AskNames
  <2>2. CASE wanted = <<>> BY <1>2, <2>2 DEF Object!AskNames, Object!Finish
  <2> QED BY <2>1, <2>2
<1>3. CASE Object!ResolveSpecialFolders
  <2>1. trip = "idle" /\ \E c : Object!Post(c) BY <1>3 DEF Object!ResolveSpecialFolders
  <2> QED BY <2>1, PostRests
<1>4. CASE \E c : Object!Call(c) BY <1>1, <1>4, PostRests
<1>5. CASE \E kind, wanted : Object!AskNames(kind, wanted) BY <1>2, <1>5
<1>6. \/ \E c : Object!Call(c)
      \/ Object!ResolveSpecialFolders
      \/ \E kind, wanted : Object!AskNames(kind, wanted)
  BY DEF Object!Begin, Object!OverList, Object!UpdateMessage, Object!SendMessage, Object!AskProperties,
         Object!OpenObject, Object!ConvertId, Object!NamesOf, Object!ResolveNames, Object!RegisterNames
<1> QED BY <1>3, <1>4, <1>5, <1>6

LEMMA RestObject == ASSUME RestInv, InObject(Objecting) PROVE RestInv'
<1> USE DEF RestInv, InObject
<1>1. CASE Object!Begin BY <1>1, BeginRests
<1>2. CASE Object!Answered
  <2>1. PICK run \in Object!Runs : Object!Absorb(run) BY <1>2 DEF Object!Answered
  <2>2. Object!Waiting /\ usable' = usable BY <1>2 DEF Object!Answered
  <2> QED BY <2>1, <2>2, AbsorbEnds DEF Object!Waiting
<1>3. CASE Object!Unreadable BY <1>3 DEF Object!Unreadable, Object!Finish
<1>4. CASE Object!Lost \/ Object!Cancel BY <1>4 DEF Object!Lost, Object!Cancel, Object!Gone, Object!Finish
<1>5. CASE Object!OtherRegisters BY <1>5 DEF Object!OtherRegisters, Object!clientVars
<1> QED BY <1>1, <1>2, <1>3, <1>4, <1>5 DEF Objecting, Object!Progress

\* What is not under way is at its beginning, and only a connection that can be used is asked.
THEOREM RestInvariant == Spec => []RestInv
<1>1. Init => RestInv BY DEF Init, RestInv, Stream!Init, Draft!Init, Object!Init
<1>2. RestInv /\ [Next]_vars => RestInv'
  <2> SUFFICES ASSUME RestInv, [Next]_vars PROVE RestInv' OBVIOUS
  <2>1. CASE BeginTable BY <2>1 DEF BeginTable, Begin, RestInv
  <2>2. CASE BeginStream BY <2>2 DEF BeginStream, Begin, RestInv, Stream!Renew
  <2>3. CASE BeginDraft BY <2>3 DEF BeginDraft, Begin, RestInv, Draft!Renew
  <2>4. CASE BeginObject BY <2>4, BeginRests DEF BeginObject, Begin, RestInv
  <2>5. CASE End BY <2>5 DEF End, RestInv, Stream!Renew, Draft!Renew, Object!Renew
  <2>6. CASE Reconnect BY <2>6 DEF Reconnect, RestInv
  <2>7. CASE UNCHANGED vars BY <2>7 DEF vars, RestInv
  <2> QED BY <2>1, <2>2, <2>3, <2>4, <2>5, <2>6, <2>7, StepsOfCalls, RestTable, RestStream, RestDraft,
             RestObject
<1> QED BY <1>1, <1>2, PTL DEF Spec

-----------------------------------------------------------------------------
(* Once a reply was lost or a future dropped. *)

\* What the server does for the calls of a connection.
Served == <<cursor, lent, offset, opened, handles, content, attached, stored, sent, store, left>>

LEMMA LostTable == ASSUME InTable(Tabling), ~usable, ~usable' PROVE UNCHANGED Served
<1> USE DEF InTable, Served, Table!closeVars
<1>1. CASE Table!NextRow \/ Table!ReportEnd BY <1>1 DEF Table!NextRow, Table!ReportEnd
<1>2. CASE Table!FetchFirst \/ Table!FetchPage BY <1>2 DEF Table!FetchFirst, Table!FetchPage
<1>3. CASE Table!FetchNothing \/ Table!FetchBusy BY <1>3 DEF Table!FetchNothing, Table!FetchBusy
<1>4. CASE Table!Answered BY <1>4 DEF Table!Answered
<1>5. CASE Table!Fail \/ Table!FailUnread BY <1>5 DEF Table!Fail, Table!FailUnread
<1>6. CASE Table!Released BY <1>6 DEF Table!Released
<1>7. CASE Table!Call \/ Table!Cancel BY <1>7 DEF Table!Call, Table!Cancel
<1>8. CASE Table!Close \/ Table!CloseAtOnce BY <1>8 DEF Table!Close, Table!CloseAtOnce
<1> QED BY <1>1, <1>2, <1>3, <1>4, <1>5, <1>6, <1>7, <1>8 DEF Tabling, Table!Progress

LEMMA LostStream == ASSUME RestInv, InStream(Streaming), ~usable PROVE UNCHANGED Served
<1> USE DEF RestInv, InStream, Served, Stream!serverVars
<1>1. ~Stream!OpenStream /\ ~Stream!OpenRefused BY DEF Stream!OpenStream, Stream!OpenRefused
<1>2. ~Stream!ReadOn /\ ~Stream!ReadNothing /\ ~Stream!ReadFails
  BY DEF Stream!ReadOn, Stream!ReadNothing, Stream!ReadFails
<1>3. CASE Stream!OpenUnsent BY <1>3 DEF Stream!OpenUnsent
<1>4. CASE Stream!Release BY <1>4 DEF Stream!Release
<1>5. ~Stream!TransportFails /\ ~Stream!Cancel BY DEF Stream!TransportFails, Stream!Cancel
<1>6. CASE Stream!Extend BY <1>6 DEF Stream!Extend
<1> QED BY <1>1, <1>2, <1>3, <1>4, <1>5, <1>6 DEF Streaming, Stream!Progress

LEMMA LostDraft == ASSUME RestInv, InDraft(Drafting), ~usable PROVE UNCHANGED Served
<1> USE DEF RestInv, InDraft, Served, Draft!serverVars
<1>1. ~Draft!CreateMessage /\ ~Draft!CreateAttachment /\ ~Draft!AttachmentRefused
  BY DEF Draft!CreateMessage, Draft!CreateAttachment, Draft!AttachmentRefused
<1>2. ~Draft!WriteChunk /\ ~Draft!WriteRefused /\ ~Draft!FinishAttachment
  BY DEF Draft!WriteChunk, Draft!WriteRefused, Draft!FinishAttachment
<1>3. ~Draft!Commit /\ ~Draft!CommitUnread /\ ~Draft!TransportFails /\ ~Draft!Cancel
  BY DEF Draft!Commit, Draft!CommitUnread, Draft!TransportFails, Draft!Cancel
<1>4. CASE Draft!CreateUnsent BY <1>4 DEF Draft!CreateUnsent
<1>5. CASE Draft!Abandon BY <1>5 DEF Draft!Abandon
<1> QED BY <1>1, <1>2, <1>3, <1>4, <1>5 DEF Drafting, Draft!Progress

LEMMA LostObject == ASSUME RestInv, InObject(Objecting), ~usable PROVE UNCHANGED Served
<1> USE DEF RestInv, InObject, Served
<1>1. CASE Object!Begin BY <1>1, BeginRests
<1>2. ~Object!Waiting BY DEF Object!Waiting
<1>3. ~Object!Answered /\ ~Object!Unreadable /\ ~Object!Lost /\ ~Object!Cancel
  BY <1>2 DEF Object!Answered, Object!Unreadable, Object!Lost, Object!Cancel, Object!Gone
<1>4. CASE Object!OtherRegisters BY <1>4 DEF Object!OtherRegisters
<1> QED BY <1>1, <1>3, <1>4 DEF Objecting, Object!Progress

\* Once a reply was lost or a future dropped, a call asks the server for nothing more.
THEOREM AsksNoMore == Spec => LostIsLost
<1>1. ASSUME RestInv, [Next]_vars, doing' = doing, ~usable, ~usable' PROVE UNCHANGED Served
  <2>1. ~BeginTable /\ ~BeginStream /\ ~BeginDraft /\ ~BeginObject
    BY <1>1 DEF BeginTable, BeginStream, BeginDraft, BeginObject, Begin
  <2>2. ~End /\ ~Reconnect BY <1>1 DEF End, Reconnect
  <2>3. CASE UNCHANGED vars BY <2>3 DEF vars, Served
  <2> QED BY <1>1, <2>1, <2>2, <2>3, StepsOfCalls, LostTable, LostStream, LostDraft, LostObject
<1>2. RestInv /\ [Next]_vars =>
        [(doing' = doing /\ ~usable /\ ~usable') =>
            UNCHANGED <<cursor, lent, offset, opened, handles, content, attached, stored, sent, store, left>>]_vars
  BY <1>1 DEF Served
<1> QED BY <1>2, RestInvariant, PTL DEF Spec, LostIsLost

-----------------------------------------------------------------------------
(* Tables. *)

\* The rows the caller has, those it gets from the page it has, and those of pages that could not be read
\* are all that the server has sent, in its order.
RowsSent ==
    /\ given \in Seq(Nat) /\ page \in Seq(Nat)
    /\ \A i, j \in DOMAIN given : i < j => given[i] < given[j]
    /\ \A i, j \in DOMAIN page : i < j => page[i] < page[j]
    /\ \A i \in DOMAIN given, j \in DOMAIN page : given[i] < page[j]
    /\ \A i \in DOMAIN given : given[i] \in 1..cursor
    /\ \A j \in DOMAIN page : page[j] \in 1..cursor
    /\ missed \subseteq 1..cursor
    /\ \A x \in 1..cursor :
         \/ x \in missed
         \/ \E i \in DOMAIN given : given[i] = x
         \/ \E j \in DOMAIN page : page[j] = x

\* Where a read of a table stands.
TableInv ==
    /\ total \in Nat /\ cursor \in 0..total
    /\ start \/ awaited = "open" => given = <<>> /\ page = <<>> /\ missed = {} /\ cursor = 0
    /\ awaited \in {"open", "page"} => calling /\ page = <<>> /\ ~start /\ ~finished /\ closing = "no"
    /\ calling => closing = "no" \/ awaited = "release"
    /\ awaited = "release" => closing = "asked"
    /\ (~start /\ ~table /\ closing = "no") => awaited = "open" \/ forgotten
    /\ finished => cursor = total \/ forgotten
    /\ ended => finished /\ page = <<>>
    /\ closing = "no" => (lent => table)
    /\ closing = "closed" => ~lent
    /\ RowsSent

\* A page arrives when the last one has been given.
LEMMA PageArrives ==
    ASSUME RowsSent, cursor \in Nat, page = <<>>, NEW n \in Nat, page' = [i \in 1..n |-> cursor + i],
           cursor' = cursor + n, UNCHANGED <<given, missed>>
    PROVE  RowsSent'
<1> USE DEF RowsSent
<1>1. page' \in Seq(Nat) /\ DOMAIN page' = 1..n /\ \A j \in 1..n : page'[j] = cursor + j OBVIOUS
<1>2. \A j \in DOMAIN page' : page'[j] \in 1..cursor' /\ cursor < page'[j] BY <1>1
<1>3. \A i \in DOMAIN given : given[i] \in 1..cursor' /\ given[i] <= cursor OBVIOUS
<1>4. ASSUME NEW x \in 1..cursor', x \notin missed, ~\E i \in DOMAIN given : given[i] = x
      PROVE  \E j \in DOMAIN page' : page'[j] = x
  <2>1. x \notin 1..cursor BY <1>4
  <2>2. x - cursor \in 1..n BY <2>1
  <2> QED BY <1>1, <2>2
<1>5. \A i, j \in DOMAIN page' : i < j => page'[i] < page'[j] BY <1>1
<1>6. \A i \in DOMAIN given, j \in DOMAIN page' : given[i] < page'[j] BY <1>2, <1>3
<1>7. missed' \subseteq 1..cursor' OBVIOUS
<1> QED BY <1>1, <1>2, <1>3, <1>4, <1>5, <1>6, <1>7

\* A page is sent that cannot be read.
LEMMA PageMissed ==
    ASSUME RowsSent, cursor \in Nat, page = <<>>, NEW n \in Nat,
           missed' = missed \cup {cursor + i : i \in 1..n}, cursor' = cursor + n, UNCHANGED <<given, page>>
    PROVE  RowsSent'
<1> USE DEF RowsSent
<1>1. missed' \subseteq 1..cursor'
  <2>1. 1..cursor \subseteq 1..cursor' OBVIOUS
  <2>2. \A i \in 1..n : cursor + i \in 1..cursor' OBVIOUS
  <2> QED BY <2>1, <2>2
<1>2. ASSUME NEW x \in 1..cursor', x \notin missed', ~\E i \in DOMAIN given : given[i] = x
      PROVE  FALSE
  <2>1. x \notin 1..cursor BY <1>2
  <2>2. x - cursor \in 1..n /\ x = cursor + (x - cursor) BY <2>1
  <2> QED BY <1>2, <2>2
<1> QED BY <1>1, <1>2

\* The next row of the page is given.
LEMMA RowGiven ==
    ASSUME RowsSent, page # <<>>, given' = Append(given, Head(page)), page' = Tail(page),
           UNCHANGED <<cursor, missed>>
    PROVE  RowsSent'
<1> USE DEF RowsSent
<1>1. given' \in Seq(Nat) /\ page' \in Seq(Nat) OBVIOUS
<1>2. /\ DOMAIN given' = 1..(Len(given) + 1) /\ given'[Len(given) + 1] = page[1]
      /\ Len(given) + 1 \in DOMAIN given'
      /\ \A i \in DOMAIN given : i \in DOMAIN given' /\ given'[i] = given[i]
  OBVIOUS
<1>3. /\ DOMAIN page' = 1..(Len(page) - 1) /\ 1 \in DOMAIN page
      /\ \A j \in DOMAIN page' : page'[j] = page[j + 1] /\ j + 1 \in DOMAIN page
  OBVIOUS
<1>4. \A i, j \in DOMAIN given' : i < j => given'[i] < given'[j] BY <1>2, <1>3
<1>5. \A i, j \in DOMAIN page' : i < j => page'[i] < page'[j] BY <1>3
<1>6. ASSUME NEW i \in DOMAIN given', NEW j \in DOMAIN page' PROVE given'[i] < page'[j]
  <2>1. page[1] < page'[j] BY <1>3
  <2>2. CASE i \in DOMAIN given BY <1>2, <1>3, <2>2
  <2>3. CASE i = Len(given) + 1 BY <1>2, <2>1, <2>3
  <2> QED BY <1>2, <2>2, <2>3
<1>7. /\ \A i \in DOMAIN given' : given'[i] \in 1..cursor'
      /\ \A j \in DOMAIN page' : page'[j] \in 1..cursor'
  BY <1>2, <1>3
<1> HIDE DEF RowsSent
<1>8. ASSUME NEW x \in 1..cursor', x \notin missed'
      PROVE  (\E i \in DOMAIN given' : given'[i] = x) \/ (\E j \in DOMAIN page' : page'[j] = x)
  <2>1. CASE \E i \in DOMAIN given : given[i] = x BY <1>2, <2>1
  <2>2. ASSUME NEW j \in DOMAIN page, page[j] = x
        PROVE  (\E i \in DOMAIN given' : given'[i] = x) \/ (\E k \in DOMAIN page' : page'[k] = x)
    <3>1. CASE j = 1 BY <1>2, <2>2, <3>1
    <3>2. CASE j # 1
      <4>0. Len(page) \in Nat /\ j \in 1..Len(page) BY <2>2 DEF RowsSent
      <4>1. PICK k \in Nat : j = k + 1 /\ k \in 1..(Len(page) - 1)
        <5>1. j - 1 \in Nat /\ j = (j - 1) + 1 /\ j - 1 \in 1..(Len(page) - 1) BY <3>2, <4>0
        <5> QED BY <5>1
      <4>2. k \in DOMAIN page' /\ page'[k] = page[k + 1] BY <1>3, <4>1
      <4> QED BY <2>2, <4>1, <4>2
    <3> QED BY <3>1, <3>2
  <2>3. x \in 1..cursor /\ x \notin missed BY <1>8
  <2>4. (\E i \in DOMAIN given : given[i] = x) \/ (\E j \in DOMAIN page : page[j] = x)
    BY <2>3 DEF RowsSent
  <2> QED BY <2>1, <2>2, <2>4
<1>9. missed' \subseteq 1..cursor' BY DEF RowsSent
<1> QED BY <1>1, <1>4, <1>5, <1>6, <1>7, <1>8, <1>9 DEF RowsSent

LEMMA TableSteps == ASSUME TableInv, Tabling PROVE TableInv'
<1> USE DEF TableInv, Table!closeVars
<1>1. CASE Table!NextRow
  <2>1. RowsSent' BY <1>1, RowGiven DEF Table!NextRow
  <2> QED BY <1>1, <2>1 DEF Table!NextRow
<1>2. CASE Table!Answered
  <2>0. /\ calling /\ awaited \in {"open", "page"} /\ table' /\ awaited' = "none" /\ lent'
        /\ UNCHANGED <<start, calling, given, ended, total, missed, forgotten, closing>>
    BY <1>2 DEF Table!Answered, Table!Reading
  <2>1. Table!From = cursor BY <2>0 DEF Table!From
  <2>2. PICK n \in Table!PageLengths, end \in BOOLEAN :
          /\ end => Table!From + n = total
          /\ Table!Absorb([i \in 1..n |-> Table!From + i], end)
          /\ cursor' = Table!From + n
    BY <1>2 DEF Table!Answered
  <2>3. n \in Nat /\ cursor + n <= total /\ (n = 0 => cursor = total)
    BY <2>1, <2>2, TableAssumption DEF Table!PageLengths
  <2>4. page' = [i \in 1..n |-> cursor + i] /\ cursor' = cursor + n /\ finished' \in BOOLEAN
    BY <2>1, <2>2 DEF Table!Absorb
  <2>5. finished' => cursor' = total
    <3>1. ASSUME page' = <<>> PROVE n = 0
      <4>1. DOMAIN page' = 1..n BY <2>4
      <4>2. 1 \notin 1..n BY <3>1, <4>1
      <4> QED BY <2>3, <4>2
    <3>2. finished' => end \/ page' = <<>> BY <2>2 DEF Table!Absorb
    <3> QED BY <2>1, <2>2, <2>3, <2>4, <3>1, <3>2
  <2>6. page = <<>> /\ cursor \in Nat BY <2>0
  <2>7. RowsSent' BY <2>0, <2>3, <2>4, <2>6, PageArrives
  <2>8. cursor' \in 0..total' BY <2>0, <2>3, <2>4
  <2> QED BY <2>0, <2>5, <2>7, <2>8
<1>3. CASE Table!FailUnread /\ awaited = "page"
  <2>1. PICK n \in Table!PageLengths :
          /\ cursor' = cursor + n
          /\ missed' = missed \cup {cursor + i : i \in 1..n}
    BY <1>3 DEF Table!FailUnread
  <2>2. n \in Nat /\ cursor + n <= total
    BY <1>3, <2>1, TableAssumption DEF Table!PageLengths, Table!From
  <2>3. RowsSent' BY <1>3, <2>1, <2>2, PageMissed DEF Table!FailUnread, Table!Reading
  <2>4. cursor' \in 0..total' BY <1>3, <2>1, <2>2 DEF Table!FailUnread
  <2>5. ~start' /\ awaited' = "none" /\ ~calling' BY <1>3 DEF Table!FailUnread
  <2> QED BY <1>3, <2>3, <2>4, <2>5 DEF Table!FailUnread, Table!Reading
<1>4. ASSUME UNCHANGED <<given, page, missed, cursor>> PROVE RowsSent' BY <1>4 DEF RowsSent
<1>5. CASE Table!FailUnread /\ awaited # "page" BY <1>4, <1>5 DEF Table!FailUnread, Table!Reading
<1>6. CASE Table!Fail
  <2>1. start' <=> awaited = "open" BY <1>6 DEF Table!Fail
  <2> QED BY <1>4, <1>6, <2>1 DEF Table!Fail, Table!Reading
<1>7. CASE Table!ReportEnd \/ Table!FetchNothing
  BY <1>4, <1>7 DEF Table!ReportEnd, Table!FetchNothing, Table!Fetching
<1>8. CASE Table!FetchFirst \/ Table!FetchPage \/ Table!FetchBusy
  BY <1>4, <1>8 DEF Table!FetchFirst, Table!FetchPage, Table!FetchBusy, Table!Fetching
<1>9. CASE Table!Released BY <1>4, <1>9 DEF Table!Released
<1>10. CASE Table!Call BY <1>4, <1>10 DEF Table!Call
<1>12. CASE Table!Cancel
  <2>1. awaited = "open" => forgotten' BY <1>12 DEF Table!Cancel
  <2>2. forgotten => forgotten' BY <1>12 DEF Table!Cancel
  <2> QED BY <1>4, <1>12, <2>1, <2>2 DEF Table!Cancel
<1>11. CASE Table!Close \/ Table!CloseAtOnce BY <1>4, <1>11 DEF Table!Close, Table!CloseAtOnce
<1> QED BY <1>1, <1>2, <1>3, <1>5, <1>6, <1>7, <1>8, <1>9, <1>10, <1>11, <1>12
       DEF Tabling, Table!Progress

LEMMA TableAnew == ASSUME NEW rows \in Nat, Table!Renew(rows) PROVE TableInv'
<1>1. given' \in Seq(Nat) /\ page' \in Seq(Nat) /\ DOMAIN given' = {} /\ DOMAIN page' = {}
  BY DEF Table!Renew
<1>2. RowsSent' BY <1>1 DEF Table!Renew, RowsSent
<1> QED BY <1>2 DEF Table!Renew, TableInv

\* Where a read of a table stands, in every state there is.
THEOREM TableInvariant == Spec => []TableInv
<1>1. Init => TableInv
  <2> SUFFICES ASSUME Init PROVE TableInv OBVIOUS
  <2>1. given \in Seq(Nat) /\ page \in Seq(Nat) /\ DOMAIN given = {} /\ DOMAIN page = {}
    BY DEF Init, Table!Init
  <2>2. RowsSent BY <2>1 DEF Init, Table!Init, RowsSent
  <2> QED BY <2>2 DEF Init, Table!Init, TableInv
<1>2. TableInv /\ [Next]_vars => TableInv'
  <2> SUFFICES ASSUME TableInv, [Next]_vars PROVE TableInv' OBVIOUS
  <2>1. CASE BeginTable BY <2>1, TableAnew, TableAssumption DEF BeginTable
  <2>2. CASE End /\ doing = "table" BY <2>2, TableAnew DEF End
  <2>3. CASE UNCHANGED tableVars BY <2>3 DEF TableInv, RowsSent
  <2>4. CASE InTable(Tabling) BY <2>4, TableSteps DEF InTable
  <2>5. \/ BeginTable \/ (End /\ doing = "table") \/ UNCHANGED tableVars \/ InTable(Tabling)
    BY StepsOfCalls
       DEF BeginStream, BeginDraft, BeginObject, End, Reconnect, InStream, InDraft, InObject, vars
  <2> QED BY <2>1, <2>2, <2>3, <2>4, <2>5
<1> QED BY <1>1, <1>2, PTL DEF Spec

-----------------------------------------------------------------------------
(* Streams. *)

\* Where a read of a stream stands: what the caller has is what the server has read, and the read ends where
\* the property ended, unless an answer fell short.
StreamInv ==
    /\ size \in Nat /\ bytes \in 0..size /\ offset = bytes /\ last \in Nat
    /\ step \in {"start", "rest", "release", "done"}
    /\ step = "start" => bytes = 0 /\ opened = {}
    /\ step \in {"start", "rest"} => verdict = "none"
    /\ step \in {"start", "rest", "release"} => value = "none"
    /\ step \in {"rest", "release"} => opened = held
    /\ value = "complete" => verdict = "complete"
    /\ (verdict = "complete" /\ ~short) => bytes = last

LEMMA StreamSteps == ASSUME StreamInv, Streaming PROVE StreamInv'
<1> USE DEF StreamInv, Stream!clientVars, Stream!serverVars, Stream!historyVars, Stream!Decide
<1>1. ASSUME NEW n, Stream!Take(n)
      PROVE  /\ bytes' \in 0..size /\ offset' = bytes' /\ last' = size
             /\ (n < Chunk /\ ~(n < Stream!Most)) => bytes' = size
  BY <1>1, StreamAssumption DEF Stream!Take, Stream!Most, Stream!Smaller
<1>2. CASE Stream!OpenStream
  <2>1. PICK n \in 0..Chunk, handle \in BOOLEAN :
          /\ Stream!Take(n)
          /\ short' = (n < Stream!Most \/ ~handle)
          /\ IF n < Chunk \/ ~handle THEN Stream!Decide("complete") ELSE step' = "rest" /\ UNCHANGED verdict
    BY <1>2 DEF Stream!OpenStream
  <2>2. /\ step = "start" /\ held' = opened' /\ UNCHANGED <<value, size>>
    BY <1>2 DEF Stream!OpenStream
  <2>3. ~short' => handle /\ ~(n < Stream!Most) BY <2>1
  <2>4. step' \in {"rest", "release"} /\ (step' = "rest" => verdict' = verdict) BY <2>1
  <2>5. (verdict' = "complete" /\ ~short') => bytes' = last' BY <1>1, <2>1, <2>2, <2>3
  <2>6. bytes' \in 0..size' /\ offset' = bytes' /\ last' \in Nat /\ size' \in Nat BY <1>1, <2>1, <2>2
  <2> QED BY <2>2, <2>3, <2>4, <2>5, <2>6
<1>3. CASE Stream!ReadOn
  <2>1. PICK n \in 0..Chunk :
          /\ Stream!Take(n)
          /\ short' = (short \/ n < Stream!Most)
          /\ IF n < Chunk THEN Stream!Decide("complete")
             ELSE IF reads + 1 = MaxReads THEN Stream!Decide("prefix") ELSE UNCHANGED <<step, verdict>>
    BY <1>3 DEF Stream!ReadOn
  <2>2. /\ step = "rest" /\ UNCHANGED <<held, value, size, opened>>
    BY <1>3 DEF Stream!ReadOn
  <2>3. ~short' => ~(n < Stream!Most) BY <2>1
  <2>4. step' \in {"rest", "release"} /\ (step' = "rest" => verdict' = verdict) BY <2>1, <2>2
  <2>5. (verdict' = "complete" /\ ~short') => bytes' = last' BY <1>1, <2>1, <2>2, <2>3
  <2>6. bytes' \in 0..size' /\ offset' = bytes' /\ last' \in Nat /\ size' \in Nat BY <1>1, <2>1, <2>2
  <2> QED BY <2>2, <2>3, <2>4, <2>5, <2>6
<1>4. CASE Stream!OpenRefused \/ Stream!OpenUnsent BY <1>4 DEF Stream!OpenRefused, Stream!OpenUnsent
<1>5. CASE Stream!ReadNothing \/ Stream!ReadFails BY <1>5 DEF Stream!ReadNothing, Stream!ReadFails
<1>6. CASE Stream!Release BY <1>6 DEF Stream!Release
<1>7. CASE Stream!TransportFails BY <1>7 DEF Stream!TransportFails
<1>8. CASE Stream!Cancel BY <1>8 DEF Stream!Cancel
<1>9. CASE Stream!Extend
  <2>1. PICK more \in 1..(MaxSize - size) : size' = size + more BY <1>9 DEF Stream!Extend
  <2>2. size' \in Nat /\ bytes \in 0..size' BY <2>1, StreamAssumption
  <2> QED BY <1>9, <2>2 DEF Stream!Extend
<1> QED BY <1>2, <1>3, <1>4, <1>5, <1>6, <1>7, <1>8, <1>9 DEF Streaming, Stream!Progress

\* Where a read of a stream stands, in every state there is.
THEOREM StreamInvariant == Spec => []StreamInv
<1>1. Init => StreamInv BY DEF Init, Stream!Init, StreamInv
<1>2. StreamInv /\ [Next]_vars => StreamInv'
  <2> SUFFICES ASSUME StreamInv, [Next]_vars PROVE StreamInv' OBVIOUS
  <2>1. ASSUME NEW length \in Nat, Stream!Renew(length) PROVE StreamInv'
    BY <2>1 DEF Stream!Renew, StreamInv
  <2>2. CASE BeginStream BY <2>1, <2>2, StreamAssumption DEF BeginStream
  <2>3. CASE End /\ doing = "stream" BY <2>1, <2>3 DEF End
  <2>4. CASE UNCHANGED streamVars BY <2>4 DEF StreamInv
  <2>5. CASE InStream(Streaming) BY <2>5, StreamSteps DEF InStream
  <2>6. \/ BeginStream \/ (End /\ doing = "stream") \/ UNCHANGED streamVars \/ InStream(Streaming)
    BY StepsOfCalls
       DEF BeginTable, BeginDraft, BeginObject, End, Reconnect, InTable, InDraft, InObject, vars
  <2> QED BY <2>2, <2>3, <2>4, <2>5, <2>6
<1> QED BY <1>1, <1>2, PTL DEF Spec

-----------------------------------------------------------------------------
(* Items. *)

InHand == {"message", "attachment", "stream"}
Written(n) == {Draft!AllOf(i, TRUE) : i \in 1..n}

\* Where the writing of an item stands.
DraftInv ==
    /\ submit \in BOOLEAN /\ ~stray
    /\ stage \in {"create", "attach", "fill", "finish", "commit", "abandon", "done"}
    /\ stage # "done" => stored = Draft!Absent /\ sent = "none"
    /\ stage \in {"create", "attach", "fill", "finish", "commit"} => ~cut /\ outcome = "none"
    /\ stage = "create" => handles = {} /\ attached = {} /\ at = 1
    /\ stage \in {"attach", "fill", "finish"} => at \in DOMAIN Chunks /\ attached = Written(at - 1)
    /\ stage \in {"attach", "commit"} => handles = {"message"}
    /\ stage \in {"fill", "finish"} => handles = InHand
    /\ stage = "fill" => chunk \in Nat /\ content = chunk /\ chunk < Chunks[at]
    /\ (stage = "finish" /\ filled) => content = Chunks[at]
    /\ stage = "commit" => attached = Draft!WholeItem
    /\ stage = "abandon" => "message" \in handles /\ outcome \in {"refused", "failed"}
    /\ Draft!SavedIsWhole /\ Draft!ResultIsTrue /\ Draft!RefusalKeepsTheMailbox

\* Saving and submitting what is in hand: only a whole item is saved, and what is sent is what is there.
LEMMA ItemSaved ==
    ASSUME stored = Draft!Absent, sent = "none", attached = Draft!WholeItem,
           NEW save \in BOOLEAN, NEW send \in BOOLEAN, Draft!SaveAndSubmit(save, send)
    PROVE  /\ stored' = IF save THEN Draft!WholeItem ELSE Draft!Absent
           /\ ~send => sent' = "none"
           /\ (save /\ send) => sent' = "whole"
<1>1. Draft!WholeItem # Draft!Absent
  <2>1. \A item \in Draft!WholeItem : item.n # 0
    BY DraftAssumption DEF Draft!WholeItem, Draft!AllOf
  <2>2. PICK none : none = [n |-> 0, whole |-> FALSE] OBVIOUS
  <2>3. none.n = 0 /\ none \in Draft!Absent BY <2>2 DEF Draft!Absent
  <2> QED BY <2>1, <2>3
<1> QED BY <1>1 DEF Draft!SaveAndSubmit

\* One more attachment is saved whole.
LEMMA OneMoreWritten ==
    ASSUME NEW n \in Nat \ {0}
    PROVE  Written(n - 1) \cup {Draft!AllOf(n, TRUE)} = Written(n)
<1>1. 1..n = 1..(n - 1) \cup {n} OBVIOUS
<1> QED BY <1>1 DEF Written

LEMMA LastWritten == Draft!WholeItem = Written(Len(Chunks))
<1>1. DOMAIN Chunks = 1..Len(Chunks) BY DraftAssumption
<1> QED BY <1>1 DEF Draft!WholeItem, Written

LEMMA DraftSteps == ASSUME DraftInv, Drafting PROVE DraftInv'
<1> USE DEF DraftInv, Draft!Finish, Draft!Released, Draft!serverVars, Draft!historyVars, InHand
<1> USE DEF Draft!SavedIsWhole, Draft!ResultIsTrue, Draft!RefusalKeepsTheMailbox
<1>0. Len(Chunks) \in Nat /\ DOMAIN Chunks = 1..Len(Chunks)
      /\ \A i \in 1..Len(Chunks) : Chunks[i] \in Nat /\ Chunks[i] # 0
  BY DraftAssumption
<1>1. CASE Draft!CreateMessage
  <2>1. 1 - 1 = 0 /\ Written(0) = {} BY DEF Written
  <2>2. Chunks = <<>> => Draft!WholeItem = {} BY <1>0, <2>1, LastWritten
  <2>3. Chunks # <<>> => 1 \in DOMAIN Chunks BY DraftAssumption
  <2>4. /\ stage = "create"
        /\ UNCHANGED <<at, submit, attached, stored, sent, stray>>
    BY <1>1 DEF Draft!CreateMessage
  <2>5. CASE handles' = {"message"} /\ stage' = (IF Chunks = <<>> THEN "commit" ELSE "attach")
             /\ UNCHANGED <<outcome, cut>>
    <3>1. stage' \in {"commit", "attach"} /\ (stage' = "commit" => Chunks = <<>>)
          /\ (stage' = "attach" => Chunks # <<>>)
      BY <2>5
    <3>2. stage' = "commit" => attached' = Draft!WholeItem BY <2>2, <2>4, <3>1
    <3>3. stage' = "attach" => at' \in DOMAIN Chunks /\ attached' = Written(at' - 1)
      BY <2>1, <2>3, <2>4, <3>1
    <3> QED BY <2>4, <2>5, <3>1, <3>2, <3>3
  <2>6. CASE stage' = "done" /\ outcome' = "refused" BY <2>4, <2>6
  <2> QED BY <1>1, <2>5, <2>6 DEF Draft!CreateMessage
<1>2. CASE Draft!CreateUnsent BY <1>2 DEF Draft!CreateUnsent
<1>3. CASE Draft!CreateAttachment BY <1>0, <1>3 DEF Draft!CreateAttachment
<1>4. CASE Draft!AttachmentRefused BY <1>4 DEF Draft!AttachmentRefused
<1>5. CASE Draft!WriteChunk BY <1>0, <1>5 DEF Draft!WriteChunk
<1>6. CASE Draft!WriteRefused BY <1>6 DEF Draft!WriteRefused
<1>7. CASE Draft!FinishAttachment
  <2>1. /\ stage = "finish" /\ handles' = {"message"} /\ ~stray'
        /\ UNCHANGED <<chunk, filled, submit, usable, content, stored, sent, cut>>
    BY <1>7 DEF Draft!FinishAttachment
  <2>2. CASE /\ filled
             /\ attached' = attached \cup {Draft!AllOf(at, content = Chunks[at])}
             /\ at' = at + 1 /\ stage' = Draft!Next1(at) /\ UNCHANGED outcome
    <3>1. at \in 1..Len(Chunks) /\ attached' = Written(at - 1) \cup {Draft!AllOf(at, TRUE)}
      BY <1>0, <2>1, <2>2
    <3>2. attached' = Written(at)
      <4>1. at \in Nat \ {0} BY <1>0, <3>1
      <4> HIDE DEF DraftInv
      <4> QED BY <3>1, <4>1, OneMoreWritten
    <3>3. at' - 1 = at BY <2>2, <3>1
    <3>4. CASE at = Len(Chunks) BY <2>1, <2>2, <3>2, <3>4, LastWritten DEF Draft!Next1
    <3>5. CASE at # Len(Chunks)
      <4>1. at' \in DOMAIN Chunks
        <5>1. \A n \in Nat : \A m \in 1..n : m # n => m + 1 \in 1..n OBVIOUS
        <5>2. at + 1 \in 1..Len(Chunks) BY <1>0, <3>1, <3>5, <5>1
        <5> QED BY <1>0, <2>2, <5>2
      <4> QED BY <2>1, <2>2, <3>2, <3>3, <3>5, <4>1 DEF Draft!Next1
    <3> QED BY <3>4, <3>5
  <2>3. CASE stage' = "abandon" /\ outcome' = "refused" BY <2>1, <2>3
  <2> QED BY <1>7, <2>2, <2>3 DEF Draft!FinishAttachment
<1>8. CASE Draft!Abandon BY <1>8 DEF Draft!Abandon
<1>9. CASE Draft!Commit
  <2>1. /\ stage = "commit" /\ ~stray' /\ stage' = "done" /\ UNCHANGED submit
    BY <1>9 DEF Draft!Commit
  <2>2. PICK save \in BOOLEAN, send \in {FALSE, submit} :
          /\ Draft!SaveAndSubmit(save, send)
          /\ outcome' = IF ~save THEN "refused" ELSE IF send = submit THEN "ok" ELSE "unsent"
    BY <1>9 DEF Draft!Commit
  <2>3. send \in BOOLEAN OBVIOUS
  <2> QED BY <2>1, <2>2, <2>3, ItemSaved
<1>10. ASSUME stage = "commit", stage' = "done", outcome' \in {"failed", "cancelled"}, ~stray', submit' = submit,
              \/ UNCHANGED stored
              \/ \E save \in BOOLEAN, send \in {FALSE, submit} : Draft!SaveAndSubmit(save, send)
       PROVE  DraftInv'
  <2>1. stored' \in {Draft!Absent, Draft!WholeItem} BY <1>10, ItemSaved
  <2> QED BY <1>10, <2>1
<1>11. CASE Draft!CommitUnread BY <1>10, <1>11 DEF Draft!CommitUnread
<1>12. CASE Draft!TransportFails
  <2>1. CASE Draft!LostCreate \/ Draft!LostAttach
    BY <1>12, <2>1 DEF Draft!TransportFails, Draft!LostCreate, Draft!LostAttach
  <2>2. CASE Draft!LostFill \/ Draft!LostFinish
    BY <1>12, <2>2 DEF Draft!TransportFails, Draft!LostFill, Draft!LostFinish
  <2>3. CASE Draft!LostCommit BY <1>10, <1>12, <2>3 DEF Draft!TransportFails, Draft!LostCommit
  <2> QED BY <1>12, <2>1, <2>2, <2>3 DEF Draft!TransportFails
<1>13. CASE Draft!Cancel
  <2>1. CASE stage = "commit" BY <1>10, <1>13, <2>1 DEF Draft!Cancel
  <2>2. CASE stage # "commit" BY <1>13, <2>2 DEF Draft!Cancel
  <2> QED BY <2>1, <2>2
<1> QED BY <1>1, <1>2, <1>3, <1>4, <1>5, <1>6, <1>7, <1>8, <1>9, <1>11, <1>12, <1>13
       DEF Drafting, Draft!Progress

\* Where the writing of an item stands, in every state there is.
THEOREM DraftInvariant == Spec => []DraftInv
<1> USE DEF Draft!SavedIsWhole, Draft!ResultIsTrue, Draft!RefusalKeepsTheMailbox
<1>1. Init => DraftInv BY DEF Init, Draft!Init, DraftInv
<1>2. DraftInv /\ [Next]_vars => DraftInv'
  <2> SUFFICES ASSUME DraftInv, [Next]_vars PROVE DraftInv' OBVIOUS
  <2>1. ASSUME NEW send \in BOOLEAN, Draft!Renew(send) PROVE DraftInv'
    BY <2>1 DEF Draft!Renew, DraftInv
  <2>2. CASE BeginDraft BY <2>1, <2>2 DEF BeginDraft
  <2>3. CASE End /\ doing = "draft" BY <2>1, <2>3 DEF End
  <2>4. CASE UNCHANGED draftVars BY <2>4 DEF DraftInv
  <2>5. CASE InDraft(Drafting) BY <2>5, DraftSteps DEF InDraft
  <2>6. \/ BeginDraft \/ (End /\ doing = "draft") \/ UNCHANGED draftVars \/ InDraft(Drafting)
    BY StepsOfCalls
       DEF BeginTable, BeginStream, BeginObject, End, Reconnect, InTable, InStream, InObject, vars
  <2> QED BY <2>2, <2>3, <2>4, <2>5, <2>6
<1> QED BY <1>1, <1>2, PTL DEF Spec

-----------------------------------------------------------------------------
(* What is left open, of a connection that goes on. *)

\* What a stream or a draft has open, it gives back; an abandoned draft has its message open.
OpenInv ==
    /\ doing = "stream" => Stream!GivesBack
    /\ doing = "draft" =>
          Draft!GivesBack /\ (stage = "abandon" /\ usable /\ ~cut => handles = {"message"})

LEMMA OpenStreams == ASSUME StreamInv, OpenInv, InStream(Streaming) PROVE OpenInv'
<1> USE DEF InStream, OpenInv, Stream!GivesBack, Stream!Decide, Stream!clientVars
<1>1. CASE Stream!Release BY <1>1 DEF Stream!Release, StreamInv
<1>2. CASE Stream!OpenStream BY <1>2 DEF Stream!OpenStream
<1>3. CASE Stream!OpenRefused \/ Stream!OpenUnsent BY <1>3 DEF Stream!OpenRefused, Stream!OpenUnsent
<1>4. CASE Stream!ReadOn \/ Stream!ReadNothing \/ Stream!ReadFails
  BY <1>4 DEF Stream!ReadOn, Stream!ReadNothing, Stream!ReadFails
<1>5. CASE Stream!TransportFails BY <1>5 DEF Stream!TransportFails
<1>6. CASE Stream!Cancel \/ Stream!Extend BY <1>6 DEF Stream!Cancel, Stream!Extend
<1> QED BY <1>1, <1>2, <1>3, <1>4, <1>5, <1>6 DEF Streaming, Stream!Progress

LEMMA OpenDrafts == ASSUME RestInv, DraftInv, OpenInv, InDraft(Drafting) PROVE OpenInv'
<1> USE DEF InDraft, OpenInv, Draft!GivesBack, Draft!Finish, Draft!Released, Draft!serverVars, Draft!historyVars
<1>1. CASE Draft!CreateMessage BY <1>1 DEF Draft!CreateMessage
<1>2. CASE Draft!CreateUnsent BY <1>2 DEF Draft!CreateUnsent
<1>3. CASE Draft!CreateAttachment BY <1>3 DEF Draft!CreateAttachment
<1>4. CASE Draft!AttachmentRefused BY <1>4 DEF Draft!AttachmentRefused, DraftInv
<1>5. CASE Draft!WriteChunk \/ Draft!WriteRefused BY <1>5 DEF Draft!WriteChunk, Draft!WriteRefused
<1>6. CASE Draft!FinishAttachment
  BY <1>6 DEF Draft!FinishAttachment, Draft!Next1, DraftInv, InHand
<1>7. CASE Draft!Abandon BY <1>7 DEF Draft!Abandon
<1>8. CASE Draft!Commit \/ Draft!CommitUnread BY <1>8 DEF Draft!Commit, Draft!CommitUnread, DraftInv
<1>9. CASE Draft!TransportFails \/ Draft!Cancel BY <1>9 DEF Draft!TransportFails, Draft!Cancel
<1> QED BY <1>1, <1>2, <1>3, <1>4, <1>5, <1>6, <1>7, <1>8, <1>9 DEF Drafting, Draft!Progress

\* That of every state there is.
THEOREM OpenInvariant == Spec => []OpenInv
<1>1. Init => OpenInv BY DEF Init, OpenInv
<1>2. RestInv /\ StreamInv /\ DraftInv /\ OpenInv /\ [Next]_vars => OpenInv'
  <2> SUFFICES ASSUME RestInv, StreamInv, DraftInv, OpenInv, [Next]_vars PROVE OpenInv' OBVIOUS
  <2>1. CASE BeginStream BY <2>1 DEF BeginStream, Begin, OpenInv, Stream!Renew, Stream!GivesBack
  <2>2. CASE BeginDraft BY <2>2 DEF BeginDraft, Begin, OpenInv, Draft!Renew, Draft!GivesBack
  <2>3. CASE doing' \notin {"stream", "draft"} BY <2>3 DEF OpenInv
  <2>4. CASE UNCHANGED vars BY <2>4 DEF vars, OpenInv, Stream!GivesBack, Draft!GivesBack
  <2>5. \/ BeginStream \/ BeginDraft \/ doing' \notin {"stream", "draft"} \/ UNCHANGED vars
        \/ InStream(Streaming) \/ InDraft(Drafting)
    BY StepsOfCalls DEF BeginTable, BeginObject, Begin, End, Reconnect, InTable, InObject
  <2> QED BY <2>1, <2>2, <2>3, <2>4, <2>5, OpenStreams, OpenDrafts
<1> QED BY <1>1, <1>2, RestInvariant, StreamInvariant, DraftInvariant, PTL DEF Spec

-----------------------------------------------------------------------------
(* What the runs check. *)

\* The end of a table whose first call was not dropped is its end, its rows come once and in order, and a
\* value reported complete is the whole property.
THEOREM WholeReads == Spec => []ReadsAreWhole
<1>1. TableInv => Table!EndIsTheEnd
  <2> SUFFICES ASSUME TableInv, ended, ~forgotten PROVE Table!Given \cup missed = 1..total
    BY DEF Table!EndIsTheEnd
  <2>1. cursor = total /\ page = <<>> /\ RowsSent BY DEF TableInv
  <2>2. DOMAIN page = {} BY <2>1
  <2>3. \A x \in 1..total : x \in missed \/ x \in Table!Given BY <2>1, <2>2 DEF RowsSent, Table!Given
  <2>4. missed \subseteq 1..total /\ Table!Given \subseteq 1..total BY <2>1 DEF RowsSent, Table!Given
  <2> QED BY <2>3, <2>4
<1>2. TableInv => Table!InOrder BY DEF TableInv, RowsSent, Table!InOrder
<1>3. StreamInv => Stream!CompleteIsWhole BY DEF StreamInv, Stream!CompleteIsWhole
<1> QED BY <1>1, <1>2, <1>3, TableInvariant, StreamInvariant, PTL DEF ReadsAreWhole

\* An item in the mailbox is whole, its caller is told what became of it, and a refusal leaves the mailbox
\* as it was.
THEOREM SavesAreTold == Spec => []SavedAsTold
<1>1. DraftInv => SavedAsTold BY DEF DraftInv, SavedAsTold
<1> QED BY <1>1, DraftInvariant, PTL

\* What is opened is given back, once.
THEOREM HandlesGivenBack == Spec => []HandlesComeBackOnce
<1>1. TableInv => Table!ClosedIsReleased BY DEF TableInv, Table!ClosedIsReleased
<1>2. RestInv /\ OpenInv => Stream!GivesBack /\ Draft!GivesBack
  BY DEF RestInv, OpenInv, Stream!GivesBack, Draft!GivesBack
<1>3. DraftInv => Draft!ReleasesOnce BY DEF DraftInv, Draft!ReleasesOnce
<1>4. LeftInv => Object!GivesBack BY DEF LeftInv
<1> QED BY <1>1, <1>2, <1>3, <1>4, TableInvariant, RestInvariant, OpenInvariant, DraftInvariant, LeftInvariant,
           PTL DEF HandlesComeBackOnce
=============================================================================
