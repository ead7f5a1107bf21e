------------------------ MODULE FixtureCaptureProofs ------------------------
(***************************************************************************)
(* Proofs about FixtureCapture.                                            *)
(***************************************************************************)
EXTENDS FixtureCapture, TLAPS, FiniteSetTheorems, SequenceTheorems, WellFoundedInduction

-----------------------------------------------------------------------------
(* The rules of a file. *)

LEMMA SetInduction ==
    ASSUME NEW T, T \subseteq Nat, 0 \in T, \A n \in T : n + 1 \in T
    PROVE  T = Nat
<1> DEFINE U == Nat \ T
           R == {ss \in Nat \X Nat : ss[1] < ss[2]}
<1> SUFFICES ASSUME U # {} PROVE FALSE OBVIOUS
<1>1. IsWellFoundedOn(R, Nat) BY NatLessThanWellFounded DEF OpToRel
<1>2. U \subseteq Nat OBVIOUS
<1>3. PICK x \in U : \A y \in U : <<y, x>> \notin R
  <2> HIDE DEF R, U
  <2> QED BY <1>1, <1>2, WFMin
<1>4. x # 0 /\ x \in Nat OBVIOUS
<1>5. x - 1 \in U /\ x - 1 < x BY <1>4
<1>6. <<x - 1, x>> \in R BY <1>4, <1>5
<1> QED BY <1>3, <1>5, <1>6

LEMMA InsertAtRange ==
    ASSUME NEW S, NEW s \in Seq(S), NEW i \in 1..(Len(s) + 1), NEW e
    PROVE  /\ InsertAt(s, i, e) \in Seq(S \cup {e})
           /\ \A k \in 1..Len(s) : \E m \in 1..Len(InsertAt(s, i, e)) : InsertAt(s, i, e)[m] = s[k]
           /\ \E m \in 1..Len(InsertAt(s, i, e)) : InsertAt(s, i, e)[m] = e
<1> DEFINE first == SubSeq(s, 1, i - 1)
           rest == SubSeq(s, i, Len(s))
           U == S \cup {e}
           t == InsertAt(s, i, e)
<1>1. Len(s) \in Nat /\ s \in Seq(U) /\ i \in Nat /\ \A k \in 1..Len(s) : s[k] \in U
  BY SeqMonotonic, ElementOfSeq, LenProperties
<1>2. /\ first \in Seq(U) /\ Len(first) = i - 1
      /\ \A k \in 1..(i - 1) : first[k] = s[k]
  <2>1. \A k \in 1..(i - 1) : s[k] \in U BY <1>1
  <2>2. /\ SubSeq(s, 1, i - 1) \in Seq(U)
        /\ Len(SubSeq(s, 1, i - 1)) = IF 1 <= i - 1 THEN (i - 1) - 1 + 1 ELSE 0
        /\ \A k \in 1..((i - 1) - 1 + 1) : SubSeq(s, 1, i - 1)[k] = s[1 + k - 1]
    <3> HIDE DEF U
    <3> QED BY <1>1, <2>1, SubSeqProperties
  <2> QED BY <1>1, <2>2
<1>3. /\ rest \in Seq(U) /\ Len(rest) = Len(s) - i + 1
      /\ \A k \in 1..(Len(s) - i + 1) : rest[k] = s[i + k - 1]
  <2>1. \A k \in i..Len(s) : s[k] \in U BY <1>1
  <2>2. /\ SubSeq(s, i, Len(s)) \in Seq(U)
        /\ Len(SubSeq(s, i, Len(s))) = IF i <= Len(s) THEN Len(s) - i + 1 ELSE 0
        /\ \A k \in 1..(Len(s) - i + 1) : SubSeq(s, i, Len(s))[k] = s[i + k - 1]
    <3> HIDE DEF U
    <3> QED BY <1>1, <2>1, SubSeqProperties
  <2> QED BY <1>1, <2>2
<1>4. <<e>> \in Seq(U) /\ Len(<<e>>) = 1 /\ <<e>>[1] = e OBVIOUS
<1>5. t = (first \o <<e>>) \o rest BY DEF InsertAt
<1> HIDE DEF first, rest, U, t
<1>6. /\ first \o <<e>> \in Seq(U) /\ Len(first \o <<e>>) = i
      /\ \A k \in 1..i : (first \o <<e>>)[k] = IF k <= i - 1 THEN first[k] ELSE <<e>>[k - (i - 1)]
  <2>1. /\ first \o <<e>> \in Seq(U) /\ Len(first \o <<e>>) = Len(first) + Len(<<e>>)
        /\ \A k \in 1..(Len(first) + Len(<<e>>)) :
              (first \o <<e>>)[k] = IF k <= Len(first) THEN first[k] ELSE <<e>>[k - Len(first)]
    BY <1>2, <1>4, ConcatProperties
  <2> QED BY <1>1, <1>2, <1>4, <2>1
<1>7. /\ t \in Seq(U) /\ Len(t) = Len(s) + 1
      /\ \A k \in 1..(Len(s) + 1) : t[k] = IF k <= i THEN (first \o <<e>>)[k] ELSE rest[k - i]
  <2> DEFINE b == first \o <<e>>
  <2>1. b \in Seq(U) /\ Len(b) = i BY <1>6
  <2>2. t = b \o rest BY <1>5
  <2> HIDE DEF b
  <2>3. /\ b \o rest \in Seq(U) /\ Len(b \o rest) = Len(b) + Len(rest)
        /\ \A k \in 1..(Len(b) + Len(rest)) :
              (b \o rest)[k] = IF k <= Len(b) THEN b[k] ELSE rest[k - Len(b)]
    BY <1>3, <2>1, ConcatProperties
  <2>4. i + (Len(s) - i + 1) = Len(s) + 1 BY <1>1
  <2>5. /\ t \in Seq(U) /\ Len(t) = Len(s) + 1
        /\ \A k \in 1..(Len(s) + 1) : t[k] = IF k <= i THEN b[k] ELSE rest[k - i]
    BY <1>1, <1>3, <2>1, <2>2, <2>3, <2>4
  <2> QED BY <2>5 DEF b
<1>8. t[i] = e
  <2>1. i - (i - 1) = 1 /\ i \in 1..i /\ ~(i <= i - 1) /\ i <= i /\ i \in 1..(Len(s) + 1) BY <1>1
  <2>2. (first \o <<e>>)[i] = <<e>>[i - (i - 1)] BY <1>6, <2>1
  <2>3. (first \o <<e>>)[i] = e BY <1>4, <2>1, <2>2
  <2> QED BY <1>7, <2>1, <2>3
<1>9. ASSUME NEW k \in 1..Len(s) PROVE \E m \in 1..(Len(s) + 1) : t[m] = s[k]
  <2>1. CASE k < i
    <3>1. k \in 1..(i - 1) /\ k \in 1..(Len(s) + 1) /\ k <= i /\ k \in 1..i BY <1>1, <2>1
    <3>2. t[k] = s[k] BY <1>2, <1>6, <1>7, <3>1
    <3> QED BY <3>1, <3>2
  <2>2. CASE ~(k < i)
    <3>1. k + 1 \in 1..(Len(s) + 1) /\ ~(k + 1 <= i) /\ (k + 1) - i \in 1..(Len(s) - i + 1)
          /\ i + ((k + 1) - i) - 1 = k BY <1>1, <2>2
    <3>2. t[k + 1] = rest[(k + 1) - i] BY <1>7, <3>1
    <3>3. rest[(k + 1) - i] = s[k] BY <1>3, <3>1
    <3> QED BY <3>1, <3>2, <3>3
  <2> QED BY <2>1, <2>2
<1>10. i \in 1..(Len(s) + 1) OBVIOUS
<1> QED BY <1>1, <1>7, <1>8, <1>9, <1>10 DEF t, U

(* What the rules of a file are made by: each put in its place among those there are. *)
Placing(rule, done, names) ==
    LET key(r) == Rank(Placed(r), names) \o Rank(Found(r), names)
        rest == Cardinality({i \in DOMAIN done : Precedes(key(done[i]), key(rule))})
    IN  InsertAt(done, rest + 1, rule)

AnyOf(S) == CHOOSE x \in S : TRUE
WithOneMore(g, S, names) == IF S = {} THEN <<>> ELSE Placing(AnyOf(S), g[S \ {AnyOf(S)}], names)
AllRules(lines) == UNION {RulesOf(lines[i]) : i \in DOMAIN lines}
Placer(g, all, names) == g = [S \in SUBSET all |-> WithOneMore(g, S, names)]

LEMMA RulesFold ==
    ASSUME NEW lines, NEW names
    PROVE  Rules(lines, names) = (CHOOSE g : Placer(g, AllRules(lines), names))[AllRules(lines)]
BY DEF Rules, FoldSet, MapThenFoldSet, Placer, WithOneMore, AnyOf, Placing, AllRules

LEMMA PlacerExists ==
    ASSUME NEW all, IsFiniteSet(all), NEW names
    PROVE  \E g : Placer(g, all, names)
<1> DEFINE Upto(g, n) == \A S \in SUBSET all : Cardinality(S) <= n => g[S] = WithOneMore(g, S, names)
           T == {n \in Nat : \E g : Upto(g, n)}
<1>1. ASSUME NEW S \in SUBSET all
      PROVE  /\ Cardinality(S) \in Nat /\ (Cardinality(S) = 0 <=> S = {})
             /\ S # {} => /\ AnyOf(S) \in S
                          /\ S \ {AnyOf(S)} \in SUBSET all
                          /\ Cardinality(S \ {AnyOf(S)}) = Cardinality(S) - 1
  <2>1. IsFiniteSet(S) BY FS_Subset
  <2>2. S # {} => AnyOf(S) \in S BY DEF AnyOf
  <2> QED BY <2>1, <2>2, FS_CardinalityType, FS_EmptySet, FS_RemoveElement
<1>2. 0 \in T
  <2> DEFINE g == [S \in SUBSET all |-> <<>>]
  <2>1. ASSUME NEW S \in SUBSET all, Cardinality(S) <= 0 PROVE g[S] = WithOneMore(g, S, names)
    <3>1. Cardinality(S) \in Nat /\ (Cardinality(S) = 0 <=> S = {}) BY <1>1
    <3>2. Cardinality(S) = 0 BY <2>1, <3>1
    <3> QED BY <3>1, <3>2 DEF WithOneMore
  <2> QED BY <2>1
<1>3. ASSUME NEW n \in T PROVE n + 1 \in T
  <2>1. PICK g : Upto(g, n) OBVIOUS
  <2> DEFINE h == [S \in SUBSET all |-> IF Cardinality(S) <= n THEN g[S] ELSE WithOneMore(g, S, names)]
  <2>2. ASSUME NEW S \in SUBSET all, Cardinality(S) <= n + 1 PROVE h[S] = WithOneMore(h, S, names)
    <3>1. h[S] = WithOneMore(g, S, names) BY <2>1
    <3>2. S # {} => h[S \ {AnyOf(S)}] = g[S \ {AnyOf(S)}]
      <4> SUFFICES ASSUME S # {} PROVE h[S \ {AnyOf(S)}] = g[S \ {AnyOf(S)}] OBVIOUS
      <4>1. S \ {AnyOf(S)} \in SUBSET all /\ Cardinality(S \ {AnyOf(S)}) <= n BY <1>1, <2>2
      <4> QED BY <4>1
    <3> HIDE DEF h
    <3> QED BY <3>1, <3>2 DEF WithOneMore
  <2> HIDE DEF h
  <2> QED BY <2>2
<1>4. T = Nat
  <2> HIDE DEF Upto
  <2>1. T \subseteq Nat OBVIOUS
  <2> HIDE DEF T
  <2> QED BY <1>2, <1>3, <2>1, SetInduction
<1>5. Cardinality(all) \in Nat /\ \A S \in SUBSET all : Cardinality(S) <= Cardinality(all)
  BY FS_CardinalityType, FS_Subset
<1>6. PICK g : Upto(g, Cardinality(all)) BY <1>4, <1>5
<1> DEFINE h == [S \in SUBSET all |-> g[S]]
<1>7. ASSUME NEW S \in SUBSET all PROVE g[S] = WithOneMore(h, S, names)
  <2>1. g[S] = WithOneMore(g, S, names) BY <1>5, <1>6
  <2>2. S # {} => h[S \ {AnyOf(S)}] = g[S \ {AnyOf(S)}] BY <1>1
  <2> HIDE DEF h
  <2> QED BY <2>1, <2>2 DEF WithOneMore
<1>8. h = [S \in SUBSET all |-> WithOneMore(h, S, names)]
  <2> DEFINE k == [S \in SUBSET all |-> WithOneMore(h, S, names)]
  <2>1. \A S \in SUBSET all : h[S] = k[S] BY <1>7
  <2> QED BY <1>7
<1> QED BY <1>8 DEF Placer
LEMMA RulesOfFinite == ASSUME NEW line PROVE IsFiniteSet(RulesOf(line))
<1>1. ASSUME NEW a, NEW b, NEW c PROVE IsFiniteSet({a, b, c})
  <2>1. IsFiniteSet({a}) /\ IsFiniteSet({b}) /\ IsFiniteSet({c}) BY FS_Singleton
  <2>2. IsFiniteSet({b} \cup {c}) BY <2>1, FS_Union
  <2>3. IsFiniteSet({a} \cup ({b} \cup {c})) BY <2>1, <2>2, FS_Union
  <2>4. {a, b, c} = {a} \cup ({b} \cup {c}) OBVIOUS
  <2> QED BY <2>3, <2>4
<1>2. IsFiniteSet(ExpandText(line))
  <2> DEFINE of(e) == {Rule(e, "upper", line), Rule(e, "written", line), Rule(e, "lower", line)}
  <2>1. ExpandText(line) = of("text") \cup of("utf16") BY DEF ExpandText, Casings
  <2>2. IsFiniteSet(of("text")) /\ IsFiniteSet(of("utf16")) BY <1>1
  <2> HIDE DEF of
  <2> QED BY <2>1, <2>2, FS_Union
<1> QED BY <1>2, FS_EmptySet, FS_Singleton DEF RulesOf

LEMMA RulesFinite == ASSUME NEW L, NEW lines \in Seq(L) PROVE IsFiniteSet(AllRules(lines))
<1> DEFINE D == 1..Len(lines)
           f == [i \in D |-> RulesOf(lines[i])]
           R == {RulesOf(lines[i]) : i \in DOMAIN lines}
<1>1. D = DOMAIN lines /\ Len(lines) \in Nat BY LenProperties
<1>2. IsFiniteSet(D) BY <1>1, FS_Interval
<1>3. f \in Surjection(D, R) BY <1>1 DEF Surjection
<1>4. IsFiniteSet(R)
  <2> HIDE DEF D, R, f
  <2> QED BY <1>2, <1>3, FS_Surjection
<1>5. \A S \in R : IsFiniteSet(S) BY RulesOfFinite
<1>6. IsFiniteSet(UNION R)
  <2> HIDE DEF R
  <2> QED BY <1>4, <1>5, FS_UNION
<1> QED BY <1>6 DEF AllRules

(* A sequence with all of a set in it and nothing else. *)
Lists(seq, S) == seq \in Seq(S) /\ \A x \in S : \E i \in 1..Len(seq) : seq[i] = x

LEMMA InsertAtLists ==
    ASSUME NEW S, NEW done, Lists(done, S), NEW at \in 1..(Len(done) + 1), NEW rule
    PROVE  Lists(InsertAt(done, at, rule), S \cup {rule})
<1>1. done \in Seq(S) BY DEF Lists
<1>2. PICK t : t = InsertAt(done, at, rule) OBVIOUS
<1>3. /\ t \in Seq(S \cup {rule})
      /\ \A k \in 1..Len(done) : \E m \in 1..Len(t) : t[m] = done[k]
      /\ \E m \in 1..Len(t) : t[m] = rule
  BY <1>1, <1>2, InsertAtRange
<1>4. \A x \in S : \E k \in 1..Len(done) : done[k] = x BY DEF Lists
<1>5. \A x \in S : \E m \in 1..Len(t) : t[m] = x BY <1>3, <1>4
<1> QED BY <1>2, <1>3, <1>5 DEF Lists

LEMMA PlacingLists ==
    ASSUME NEW S, NEW done, Lists(done, S), NEW rule, NEW names
    PROVE  Lists(Placing(rule, done, names), S \cup {rule})
<1> DEFINE key(r) == Rank(Placed(r), names) \o Rank(Found(r), names)
           passed == {i \in DOMAIN done : Precedes(key(done[i]), key(rule))}
<1>1. done \in Seq(S) /\ Len(done) \in Nat /\ DOMAIN done = 1..Len(done) BY LenProperties DEF Lists
<1>2. Cardinality(passed) \in 0..Len(done)
  <2>1. passed \subseteq 1..Len(done) BY <1>1
  <2>2. IsFiniteSet(1..Len(done)) /\ Cardinality(1..Len(done)) = Len(done) BY <1>1, FS_Interval
  <2> HIDE DEF passed
  <2>3. IsFiniteSet(passed) /\ Cardinality(passed) <= Len(done) BY <2>1, <2>2, FS_Subset
  <2> QED BY <1>1, <2>3, FS_CardinalityType
<1>3. Placing(rule, done, names) = InsertAt(done, Cardinality(passed) + 1, rule) BY DEF Placing
<1> HIDE DEF passed
<1>4. Cardinality(passed) + 1 \in 1..(Len(done) + 1) BY <1>1, <1>2
<1> QED BY <1>3, <1>4, InsertAtLists

LEMMA RulesList ==
    ASSUME NEW L, NEW lines \in Seq(L), NEW names
    PROVE  Lists(Rules(lines, names), AllRules(lines))
<1> DEFINE all == AllRules(lines)
           g == CHOOSE h : Placer(h, all, names)
           T == {n \in Nat : \A S \in SUBSET all : Cardinality(S) = n => Lists(g[S], S)}
<1>1. IsFiniteSet(all) BY RulesFinite
<1>2. Placer(g, all, names)
  <2> HIDE DEF all
  <2> QED BY <1>1, PlacerExists
<1> HIDE DEF all, g
<1>3. ASSUME NEW S \in SUBSET all PROVE g[S] = WithOneMore(g, S, names) BY <1>2 DEF Placer
<1>4. 0 \in T
  <2>1. ASSUME NEW S \in SUBSET all, Cardinality(S) = 0 PROVE Lists(g[S], S)
    <3>1. IsFiniteSet(S) BY <1>1, FS_Subset
    <3>2. S = {} BY <2>1, <3>1, FS_EmptySet
    <3>3. g[S] = <<>> BY <1>3, <3>2 DEF WithOneMore
    <3> QED BY <3>2, <3>3 DEF Lists
  <2> QED BY <2>1
<1>5. ASSUME NEW n \in T PROVE n + 1 \in T
  <2>1. ASSUME NEW S \in SUBSET all, Cardinality(S) = n + 1 PROVE Lists(g[S], S)
    <3>1. IsFiniteSet(S) BY <1>1, FS_Subset
    <3>2. S # {} BY <2>1, <3>1, FS_EmptySet
    <3>3. AnyOf(S) \in S BY <3>2 DEF AnyOf
    <3> DEFINE R == S \ {AnyOf(S)}
    <3>4. R \in SUBSET all /\ Cardinality(R) = n /\ R \cup {AnyOf(S)} = S
      <4>1. Cardinality(R) = Cardinality(S) - 1 BY <3>1, <3>3, FS_RemoveElement
      <4>2. n \in Nat /\ Cardinality(R) = n BY <2>1, <4>1
      <4> QED BY <3>3, <4>2
    <3>5. Lists(g[R], R) BY <3>4
    <3>6. g[S] = Placing(AnyOf(S), g[R], names) BY <1>3, <3>2 DEF WithOneMore
    <3> HIDE DEF R
    <3>7. Lists(Placing(AnyOf(S), g[R], names), R \cup {AnyOf(S)}) BY <3>5, PlacingLists
    <3> QED BY <3>4, <3>6, <3>7
  <2> QED BY <2>1
<1>6. T = Nat
  <2>1. T \subseteq Nat OBVIOUS
  <2> HIDE DEF T
  <2> QED BY <1>4, <1>5, <2>1, SetInduction
<1>7. Lists(g[all], all) BY <1>1, <1>6, FS_CardinalityType
<1> QED BY <1>7, RulesFold DEF all, g
LEMMA LeastThere ==
    ASSUME NEW S, S \subseteq Nat, S # {}
    PROVE  Min(S) \in S /\ \A x \in S : Min(S) <= x
<1> DEFINE R == {ss \in Nat \X Nat : ss[1] < ss[2]}
<1>1. IsWellFoundedOn(R, Nat) BY NatLessThanWellFounded DEF OpToRel
<1>2. PICK x \in S : \A y \in S : <<y, x>> \notin R
  <2> HIDE DEF R
  <2> QED BY <1>1, WFMin
<1>3. ASSUME NEW y \in S PROVE x <= y
  <2>1. x \in Nat /\ y \in Nat /\ <<y, x>> \notin R BY <1>2
  <2> QED BY <2>1
<1> QED BY <1>3 DEF Min

(* The rules a capture goes by, once it has read them. *)
RulesRead == IF file.given THEN Rules(file.lines, NameOrder) ELSE <<>>
Untold(text, lines) == \A rule \in AllRules(lines) : \A i \in DOMAIN text : text[i] # rule.needle

\* Whatever is on the disk was searched, when it was written, by every rule of the file.
PrivateInv ==
    /\ file \in RuleFiles
    /\ step \in {"talk", "write"} => rules = RulesRead
    /\ directory \in Seq(Range(directory))
    /\ \A i \in DOMAIN directory : Untold(Text(directory[i]), file.lines)

LEMMA ParsedRules ==
    ASSUME NEW lines, lines \in Seq(Range(lines)), NEW names, Parse(lines, names).error = "none"
    PROVE  Parse(lines, names).rules = Rules(lines, names)
<1> DEFINE wrong == {i \in DOMAIN lines : RuleError(lines[i]) # "none"}
<1>1. wrong \subseteq Nat
  <2>1. DOMAIN lines = 1..Len(lines) BY LenProperties
  <2> QED BY <2>1
<1>2. wrong = {}
  <2> SUFFICES ASSUME wrong # {} PROVE FALSE OBVIOUS
  <2>1. Parse(lines, names).error = RuleError(lines[Min(wrong)]) BY DEF Parse
  <2>2. Min(wrong) \in wrong
    <3> HIDE DEF wrong
    <3> QED BY <1>1, LeastThere
  <2> QED BY <2>1, <2>2
<1> QED BY <1>2 DEF Parse

LEMMA AppendTo ==
    ASSUME NEW s, s \in Seq(Range(s)), NEW e
    PROVE  /\ Append(s, e) \in Seq(Range(Append(s, e))) /\ DOMAIN s = 1..Len(s) /\ Len(s) \in Nat
           /\ DOMAIN Append(s, e) = 1..(Len(s) + 1) /\ Len(Append(s, e)) = Len(s) + 1
           /\ Append(s, e)[Len(s) + 1] = e
           /\ \A i \in 1..Len(s) : Append(s, e)[i] = s[i]
<1> DEFINE U == Range(s) \cup {e}
<1>1. s \in Seq(U) /\ e \in U BY SeqMonotonic
<1> HIDE DEF U
<1>2. /\ Append(s, e) \in Seq(U) /\ Len(Append(s, e)) = Len(s) + 1
      /\ \A i \in 1..Len(s) : Append(s, e)[i] = s[i]
      /\ Append(s, e)[Len(s) + 1] = e
  BY <1>1, AppendProperties
<1>3. Append(s, e) \in Seq(Range(Append(s, e))) BY <1>2, SeqOfRange
<1>4. DOMAIN Append(s, e) = 1..Len(Append(s, e)) BY <1>2, LenProperties
<1>5. DOMAIN s = 1..Len(s) /\ Len(s) \in Nat BY LenProperties
<1> QED BY <1>2, <1>3, <1>4, <1>5

LEMMA NothingSurvives ==
    ASSUME file \in RuleFiles, rules = RulesRead, NEW fixture, Survived(fixture) = {}
    PROVE  Untold(Text(fixture), file.lines)
<1>1. file.lines \in Seq(Range(file.lines)) /\ (~file.given => file.lines = <<>>) BY RuleFilesAssumption
<1>2. ASSUME NEW rule \in AllRules(file.lines), NEW i \in DOMAIN Text(fixture)
      PROVE  Text(fixture)[i] # rule.needle
  <2>1. file.given
    <3>1. file.lines = <<>> => AllRules(file.lines) = {} BY DEF AllRules
    <3> QED BY <1>1, <1>2, <3>1
  <2>2. Lists(Rules(file.lines, NameOrder), AllRules(file.lines)) BY <1>1, RulesList
  <2>3. rules = Rules(file.lines, NameOrder) BY <2>1 DEF RulesRead
  <2>4. PICK k \in 1..Len(rules) : rules[k] = rule BY <2>2, <2>3 DEF Lists
  <2>5. k \in DOMAIN rules BY <2>2, <2>3, LenProperties DEF Lists
  <2>6. Occurrences(Text(fixture), rules[k].needle) = {} BY <2>5 DEF Survived, Find
  <2> QED BY <2>4, <2>6 DEF Occurrences
<1> QED BY <1>2 DEF Untold

LEMMA PrivateStep == ASSUME PrivateInv, [Next]_vars PROVE PrivateInv'
<1> USE DEF PrivateInv
<1>1. CASE LoadRules
  <2>1. UNCHANGED <<file, directory>> BY <1>1 DEF LoadRules
  <2>2. step' \in {"talk", "write"} => rules' = RulesRead'
    <3>1. ASSUME step' \in {"talk", "write"}
          PROVE  rules' = IF file.given THEN Parse(file.lines, NameOrder).rules ELSE <<>>
      BY <1>1, <3>1 DEF LoadRules, Finish
    <3>2. ASSUME step' \in {"talk", "write"}, file.given PROVE Parse(file.lines, NameOrder).error = "none"
      BY <1>1, <3>2 DEF LoadRules, Finish
    <3>3. file.lines \in Seq(Range(file.lines)) BY RuleFilesAssumption
    <3> QED BY <2>1, <3>1, <3>2, <3>3, ParsedRules DEF RulesRead
  <2> QED BY <2>1, <2>2
<1>2. CASE Converse
  <2>1. UNCHANGED captureVars BY <1>2 DEF Converse
  <2> QED BY <2>1 DEF captureVars, RulesRead
<1>3. CASE Gather
  <2>1. UNCHANGED <<file, rules>> /\ (directory' = <<>> \/ directory' = directory) /\ step = "talk"
    BY <1>3 DEF Gather
  <2>2. <<>> \in Seq(Range(<<>>)) /\ DOMAIN <<>> = {} OBVIOUS
  <2> QED BY <2>1, <2>2 DEF RulesRead
<1>4. CASE WriteExchange
  <2>1. UNCHANGED <<file, rules>> /\ step = "write" BY <1>4 DEF WriteExchange
  <2>2. PICK fixture : \/ Survived(fixture) = {} /\ directory' = Append(directory, fixture)
                       \/ directory' = directory
    BY <1>4 DEF WriteExchange
  <2>3. CASE directory' = directory BY <2>1, <2>3 DEF RulesRead
  <2>4. CASE Survived(fixture) = {} /\ directory' = Append(directory, fixture)
    <3>1. Untold(Text(fixture), file.lines) BY <2>1, <2>4, NothingSurvives
    <3>2. \A i \in DOMAIN directory' :
             directory'[i] = fixture \/ (i \in DOMAIN directory /\ directory'[i] = directory[i])
      BY <2>4, AppendTo
    <3>3. directory' \in Seq(Range(directory')) BY <2>4, AppendTo
    <3>4. \A i \in DOMAIN directory' : Untold(Text(directory'[i]), file.lines) BY <3>1, <3>2
    <3> QED BY <2>1, <3>3, <3>4 DEF RulesRead, Text
  <2> QED BY <2>2, <2>3, <2>4
<1>5. CASE DiskFails BY <1>5 DEF DiskFails, RulesRead
<1>6. CASE Close
  <2>1. UNCHANGED <<file, rules, directory>> /\ step = "write" BY <1>6 DEF Close
  <2> QED BY <2>1 DEF RulesRead
<1>7. CASE Again BY <1>7 DEF Again, RulesRead
<1>8. CASE UNCHANGED vars BY <1>8 DEF vars, captureVars, RulesRead
<1> QED BY <1>1, <1>2, <1>3, <1>4, <1>5, <1>6, <1>7, <1>8 DEF Next

LEMMA PrivateIs == ASSUME PrivateInv PROVE NothingPrivateIsWritten
<1> SUFFICES ASSUME NEW i \in DOMAIN directory, NEW l \in DOMAIN file.lines
             PROVE  LET text == Range(Text(directory[i]))
                        needle == file.lines[l].needle
                    IN  /\ file.lines[l].kind = "text" =>
                              text \cap {Spelled(e, c, needle) : e \in {"text", "utf16"}, c \in Casings} = {}
                        /\ file.lines[l].kind = "bytes" => Spelled("bytes", "written", needle) \notin text
  BY DEF NothingPrivateIsWritten
<1> DEFINE line == file.lines[l]
<1>1. \A rule \in RulesOf(line) : rule \in AllRules(file.lines) BY DEF AllRules
<1>2. ASSUME NEW rule \in RulesOf(line) PROVE rule.needle \notin Range(Text(directory[i]))
  <2>1. Untold(Text(directory[i]), file.lines) BY DEF PrivateInv
  <2> QED BY <1>1, <2>1 DEF Untold, Range
<1>3. ASSUME NEW e, NEW c PROVE Rule(e, c, line).needle = Spelled(e, c, line.needle) BY DEF Rule
<1>4. ASSUME line.kind = "text", NEW e \in {"text", "utf16"}, NEW c \in Casings
      PROVE  Spelled(e, c, line.needle) \notin Range(Text(directory[i]))
  <2>1. Rule(e, c, line) \in RulesOf(line) BY <1>4 DEF RulesOf, ExpandText
  <2> QED BY <1>2, <1>3, <2>1
<1>5. ASSUME line.kind = "bytes" PROVE Spelled("bytes", "written", line.needle) \notin Range(Text(directory[i]))
  <2>1. Rule("bytes", "written", line) \in RulesOf(line) BY <1>5 DEF RulesOf
  <2> QED BY <1>2, <1>3, <2>1
<1> QED BY <1>4, <1>5

\* No name that a rule is about is in a file on the disk, whatever rules there are and however the
\* capture ends (scrub.rs expand_text, find).
THEOREM NothingPrivate == Spec => []NothingPrivateIsWritten
<1>1. Init => PrivateInv
  <2>1. <<>> \in Seq(Range(<<>>)) /\ DOMAIN <<>> = {} OBVIOUS
  <2> QED BY <2>1 DEF Init, PrivateInv
<1> QED BY <1>1, PrivateStep, PrivateIs, PTL DEF Spec

-----------------------------------------------------------------------------
(* The scripts, step by step. *)

LEMMA SweepsInOrder ==
    ASSUME NEW one, NEW two
    PROVE  SweepOf(<<one, two>>) =
              <<[Clean("find", "delete-leftovers") EXCEPT !.folder = one],
                [Clean("take", "delete-leftovers") EXCEPT !.folder = one]>>
              \o <<[Clean("find", "delete-leftovers") EXCEPT !.folder = two],
                   [Clean("take", "delete-leftovers") EXCEPT !.folder = two]>>
<1> DEFINE folders == <<one, two>>
           pair(steps, folder) ==
               steps \o <<[Clean("find", "delete-leftovers") EXCEPT !.folder = folder],
                          [Clean("take", "delete-leftovers") EXCEPT !.folder = folder]>>
           body(g, S) == IF S = {} THEN <<>> ELSE pair(g[S \ {Max(S)}], folders[Max(S)])
           Sweeper(g) == g = [S \in SUBSET (DOMAIN folders) |-> body(g, S)]
           G == [S \in SUBSET {1, 2} |->
                    IF S = {} THEN <<>>
                    ELSE IF S = {1} THEN pair(<<>>, one)
                    ELSE IF S = {2} THEN pair(<<>>, two)
                    ELSE pair(pair(<<>>, one), two)]
<1>1. SweepOf(folders) = (CHOOSE g : Sweeper(g))[DOMAIN folders]
  BY DEF SweepOf, FoldLeft, MapThenFoldSet
<1>2. DOMAIN folders = {1, 2} /\ folders[1] = one /\ folders[2] = two OBVIOUS
<1>3. Max({1}) = 1 /\ Max({2}) = 2 /\ Max({1, 2}) = 2 BY DEF Max
<1>4. {1} \ {1} = {} /\ {2} \ {2} = {} /\ {1, 2} \ {2} = {1} OBVIOUS
<1> HIDE DEF folders, pair
<1>5. \A S \in SUBSET {1, 2} : S = {} \/ S = {1} \/ S = {2} \/ S = {1, 2} OBVIOUS
<1>6. ASSUME NEW g, Sweeper(g) PROVE g[{1, 2}] = pair(pair(<<>>, one), two)
  <2>1. \A S \in SUBSET {1, 2} : g[S] = body(g, S) BY <1>2, <1>6
  <2>2. g[{}] = <<>> BY <2>1
  <2>3. g[{1}] = pair(g[{}], one) BY <1>2, <1>3, <1>4, <2>1
  <2>4. g[{1, 2}] = pair(g[{1}], two) BY <1>2, <1>3, <1>4, <2>1
  <2> QED BY <2>2, <2>3, <2>4
<1>7. /\ G[{}] = <<>> /\ G[{1}] = pair(<<>>, one) /\ G[{2}] = pair(<<>>, two)
      /\ G[{1, 2}] = pair(pair(<<>>, one), two)
  <2>1. {1} # {} /\ {2} # {} /\ {2} # {1} /\ {1, 2} # {} /\ {1, 2} # {1} /\ {1, 2} # {2} OBVIOUS
  <2> QED BY <2>1
<1>8. G = [S \in SUBSET {1, 2} |-> G[S]] OBVIOUS
<1>9. Sweeper(G)
  <2> HIDE DEF G
  <2>1. \A S \in SUBSET {1, 2} : G[S] = body(G, S) BY <1>2, <1>3, <1>4, <1>5, <1>7
  <2> HIDE DEF body
  <2> QED BY <1>2, <1>8, <2>1
<1>10. Sweeper(CHOOSE g : Sweeper(g))
  <2> HIDE DEF Sweeper
  <2> QED BY <1>9
<1>11. (CHOOSE g : Sweeper(g))[{1, 2}] = pair(pair(<<>>, one), two)
  <2> HIDE DEF Sweeper
  <2> QED BY <1>6, <1>10
<1>12. pair(<<>>, one) = <<[Clean("find", "delete-leftovers") EXCEPT !.folder = one],
                           [Clean("take", "delete-leftovers") EXCEPT !.folder = one]>>
  BY DEF pair
<1> QED BY <1>1, <1>2, <1>11, <1>12 DEF folders, pair

Listing(s) == s \in Seq(Range(s))

LEMMA Joined ==
    ASSUME NEW s, NEW t, Listing(s), Listing(t)
    PROVE  /\ Listing(s \o t) /\ Len(s \o t) = Len(s) + Len(t) /\ Len(s) \in Nat /\ Len(t) \in Nat
           /\ \A i \in 1..Len(s) : (s \o t)[i] = s[i]
           /\ \A i \in (Len(s) + 1)..(Len(s) + Len(t)) : (s \o t)[i] = t[i - Len(s)]
<1> DEFINE U == Range(s) \cup Range(t)
<1>1. s \in Seq(U) /\ t \in Seq(U)
  <2>1. s \in Seq(Range(s)) /\ t \in Seq(Range(t)) BY DEF Listing
  <2>2. Range(s) \subseteq U /\ Range(t) \subseteq U OBVIOUS
  <2> HIDE DEF U
  <2> QED BY <2>1, <2>2, SeqMonotonic
<1> HIDE DEF U
<1>2. Len(s) \in Nat /\ Len(t) \in Nat BY <1>1, LenProperties
<1>3. /\ s \o t \in Seq(U) /\ Len(s \o t) = Len(s) + Len(t)
      /\ \A i \in 1..(Len(s) + Len(t)) : (s \o t)[i] = IF i <= Len(s) THEN s[i] ELSE t[i - Len(s)]
  BY <1>1, ConcatProperties
<1>4. Listing(s \o t) BY <1>3, SeqOfRange DEF Listing
<1> QED BY <1>2, <1>3, <1>4

LEMMA Listing1 == ASSUME NEW a PROVE Listing(<<a>>) /\ Len(<<a>>) = 1 /\ <<a>>[1] = a
<1>1. <<a>> \in Seq({a}) OBVIOUS
<1> QED BY <1>1, SeqOfRange DEF Listing

\* A step of a script, of which it does not matter here whether its answer is looked at.
Says(line, part, call, label) == line.part = part /\ line.call = call /\ line.label = label

LEMMA SessionSteps ==
    /\ Len(SessionScript) = 17 /\ DOMAIN SessionScript = 1..17
    /\ Says(SessionScript[1], "plain", "ping", "")
    /\ Says(SessionScript[2], "plain", "connect", "")
    /\ Says(SessionScript[3], "plain", "logon", "logon")
    /\ Says(SessionScript[4], "plain", "measure", "properties")
    /\ Says(SessionScript[5], "plain", "read", "properties-refused")
    /\ Says(SessionScript[6], "plain", "read", "named-properties")
    /\ Says(SessionScript[7], "plain", "read", "named-property-unregistered")
    /\ Says(SessionScript[8], "plain", "read", "named-properties-inverse")
    /\ Says(SessionScript[9], "plain", "read", "hierarchy")
    /\ Says(SessionScript[10], "plain", "read", "hierarchy-release")
    /\ Says(SessionScript[11], "plain", "read", "hierarchy-deep")
    /\ Says(SessionScript[12], "plain", "read", "hierarchy-deep-release")
    /\ Says(SessionScript[13], "plain", "read", "special-folders")
    /\ Says(SessionScript[14], "plain", "read", "folder-properties")
    /\ Says(SessionScript[15], "plain", "read", "contents")
    /\ Says(SessionScript[16], "plain", "read", "contents-release")
    /\ Says(SessionScript[17], "last", "disconnect", "")
<1> DEFINE a == Step("plain", "ping", "", FALSE)
           b == Connect
           c == Logon(TRUE)
           d == Step("plain", "measure", "properties", FALSE)
           e == Look("properties-refused")
           f == Look("named-properties")
           g == Look("named-property-unregistered")
           h == Look("named-properties-inverse")
           i == Read("hierarchy")
           j == Read("hierarchy-release")
           k == Read("hierarchy-deep")
           l == Read("hierarchy-deep-release")
           m == Look("special-folders")
           n == Read("folder-properties")
           o == Read("contents")
           p == Read("contents-release")
           q == Disconnect
           all == <<a, b, c>> \o <<d, e>> \o <<f, g, h>> \o <<i, j, k, l>> \o <<m, n>> \o <<o, p, q>>
<1>1. SessionScript = all BY DEF SessionScript, StoreObject, NamedProperties, Hierarchy, SpecialFolders
<1>2. Says(a, "plain", "ping", "") BY DEF Says, Step
<1>3. Says(b, "plain", "connect", "") BY DEF Says, Connect, Step
<1>4. Says(c, "plain", "logon", "logon") BY DEF Says, Logon, Step
<1>5. Says(d, "plain", "measure", "properties") BY DEF Says, Step
<1>6. Says(e, "plain", "read", "properties-refused") BY DEF Says, Look, Step
<1>7. Says(f, "plain", "read", "named-properties") BY DEF Says, Look, Step
<1>8. Says(g, "plain", "read", "named-property-unregistered") BY DEF Says, Look, Step
<1>9. Says(h, "plain", "read", "named-properties-inverse") BY DEF Says, Look, Step
<1>10. Says(i, "plain", "read", "hierarchy") BY DEF Says, Read, Step
<1>11. Says(j, "plain", "read", "hierarchy-release") BY DEF Says, Read, Step
<1>12. Says(k, "plain", "read", "hierarchy-deep") BY DEF Says, Read, Step
<1>13. Says(l, "plain", "read", "hierarchy-deep-release") BY DEF Says, Read, Step
<1>14. Says(m, "plain", "read", "special-folders") BY DEF Says, Look, Step
<1>15. Says(n, "plain", "read", "folder-properties") BY DEF Says, Read, Step
<1>16. Says(o, "plain", "read", "contents") BY DEF Says, Read, Step
<1>17. Says(p, "plain", "read", "contents-release") BY DEF Says, Read, Step
<1>18. Says(q, "last", "disconnect", "") BY DEF Says, Disconnect, Step
<1> HIDE DEF a, b, c, d, e, f, g, h, i, j, k, l, m, n, o, p, q
<1>19. Len(all) = 17 /\ DOMAIN all = 1..17 OBVIOUS
<1>20. all[1] = a OBVIOUS
<1>21. all[2] = b OBVIOUS
<1>22. all[3] = c OBVIOUS
<1>23. all[4] = d OBVIOUS
<1>24. all[5] = e OBVIOUS
<1>25. all[6] = f OBVIOUS
<1>26. all[7] = g OBVIOUS
<1>27. all[8] = h OBVIOUS
<1>28. all[9] = i OBVIOUS
<1>29. all[10] = j OBVIOUS
<1>30. all[11] = k OBVIOUS
<1>31. all[12] = l OBVIOUS
<1>32. all[13] = m OBVIOUS
<1>33. all[14] = n OBVIOUS
<1>34. all[15] = o OBVIOUS
<1>35. all[16] = p OBVIOUS
<1>36. all[17] = q OBVIOUS
<1> HIDE DEF all
<1> QED BY <1>1, <1>2, <1>3, <1>4, <1>5, <1>6, <1>7, <1>8, <1>9, <1>10, <1>11, <1>12, <1>13, <1>14, <1>15,
       <1>16, <1>17, <1>18, <1>19, <1>20, <1>21, <1>22, <1>23, <1>24, <1>25, <1>26, <1>27, <1>28, <1>29,
       <1>30, <1>31, <1>32, <1>33, <1>34, <1>35, <1>36

LEMMA ItemsSteps ==
    /\ Len(ItemsScript) = 20 /\ DOMAIN ItemsScript = 1..20
    /\ Says(ItemsScript[1], "plain", "connect", "")
    /\ Says(ItemsScript[2], "plain", "logon", "logon")
    /\ Says(ItemsScript[3], "plain", "read", "calendar-folder")
    /\ Says(ItemsScript[4], "plain", "read", "appointment-names")
    /\ Says(ItemsScript[5], "plain", "read", "events")
    /\ Says(ItemsScript[6], "plain", "read", "events-release")
    /\ Says(ItemsScript[7], "plain", "read", "contacts-folder")
    /\ Says(ItemsScript[8], "plain", "read", "contact-names")
    /\ Says(ItemsScript[9], "plain", "read", "contacts")
    /\ Says(ItemsScript[10], "plain", "read", "contacts-release")
    /\ Says(ItemsScript[11], "plain", "read", "filtered-contents")
    /\ Says(ItemsScript[12], "plain", "read", "filtered-contents-release")
    /\ Says(ItemsScript[13], "plain", "read", "open-message")
    /\ Says(ItemsScript[14], "plain", "read", "message-properties")
    /\ Says(ItemsScript[15], "plain", "read", "attachment-table")
    /\ Says(ItemsScript[16], "plain", "read", "attachment-table-release")
    /\ Says(ItemsScript[17], "plain", "read", "attachment-content")
    /\ Says(ItemsScript[18], "plain", "read", "embedded-message")
    /\ Says(ItemsScript[19], "plain", "read", "body-stream")
    /\ Says(ItemsScript[20], "last", "disconnect", "")
<1> DEFINE a == Connect
           b == Logon(TRUE)
           c == Look("calendar-folder")
           d == Look("appointment-names")
           e == Read("events")
           f == Look("events-release")
           g == Look("contacts-folder")
           h == Look("contact-names")
           i == Read("contacts")
           j == Look("contacts-release")
           k == Read("filtered-contents")
           l == Look("filtered-contents-release")
           m == Read("open-message")
           n == Read("message-properties")
           o == Read("attachment-table")
           p == Look("attachment-table-release")
           q == Read("attachment-content")
           r == Look("embedded-message")
           s == Look("body-stream")
           t == Disconnect
           all == <<a, b>> \o <<c, d, e, f>> \o <<g, h, i, j>> \o <<k, l>> \o <<m, n>> \o <<o, p, q, r>>
                      \o <<s>> \o <<t>>
<1>1. ItemsScript = all BY DEF ItemsScript, Calendar, Contacts, FindMessage, OpenMessage, Attachments, Body
<1>2. Says(a, "plain", "connect", "") BY DEF Says, Connect, Step
<1>3. Says(b, "plain", "logon", "logon") BY DEF Says, Logon, Step
<1>4. Says(c, "plain", "read", "calendar-folder") BY DEF Says, Look, Step
<1>5. Says(d, "plain", "read", "appointment-names") BY DEF Says, Look, Step
<1>6. Says(e, "plain", "read", "events") BY DEF Says, Read, Step
<1>7. Says(f, "plain", "read", "events-release") BY DEF Says, Look, Step
<1>8. Says(g, "plain", "read", "contacts-folder") BY DEF Says, Look, Step
<1>9. Says(h, "plain", "read", "contact-names") BY DEF Says, Look, Step
<1>10. Says(i, "plain", "read", "contacts") BY DEF Says, Read, Step
<1>11. Says(j, "plain", "read", "contacts-release") BY DEF Says, Look, Step
<1>12. Says(k, "plain", "read", "filtered-contents") BY DEF Says, Read, Step
<1>13. Says(l, "plain", "read", "filtered-contents-release") BY DEF Says, Look, Step
<1>14. Says(m, "plain", "read", "open-message") BY DEF Says, Read, Step
<1>15. Says(n, "plain", "read", "message-properties") BY DEF Says, Read, Step
<1>16. Says(o, "plain", "read", "attachment-table") BY DEF Says, Read, Step
<1>17. Says(p, "plain", "read", "attachment-table-release") BY DEF Says, Look, Step
<1>18. Says(q, "plain", "read", "attachment-content") BY DEF Says, Read, Step
<1>19. Says(r, "plain", "read", "embedded-message") BY DEF Says, Look, Step
<1>20. Says(s, "plain", "read", "body-stream") BY DEF Says, Look, Step
<1>21. Says(t, "last", "disconnect", "") BY DEF Says, Disconnect, Step
<1> HIDE DEF a, b, c, d, e, f, g, h, i, j, k, l, m, n, o, p, q, r, s, t
<1>22. Len(all) = 20 /\ DOMAIN all = 1..20 OBVIOUS
<1>23. all[1] = a OBVIOUS
<1>24. all[2] = b OBVIOUS
<1>25. all[3] = c OBVIOUS
<1>26. all[4] = d OBVIOUS
<1>27. all[5] = e OBVIOUS
<1>28. all[6] = f OBVIOUS
<1>29. all[7] = g OBVIOUS
<1>30. all[8] = h OBVIOUS
<1>31. all[9] = i OBVIOUS
<1>32. all[10] = j OBVIOUS
<1>33. all[11] = k OBVIOUS
<1>34. all[12] = l OBVIOUS
<1>35. all[13] = m OBVIOUS
<1>36. all[14] = n OBVIOUS
<1>37. all[15] = o OBVIOUS
<1>38. all[16] = p OBVIOUS
<1>39. all[17] = q OBVIOUS
<1>40. all[18] = r OBVIOUS
<1>41. all[19] = s OBVIOUS
<1>42. all[20] = t OBVIOUS
<1> HIDE DEF all
<1> QED BY <1>1, <1>2, <1>3, <1>4, <1>5, <1>6, <1>7, <1>8, <1>9, <1>10, <1>11, <1>12, <1>13, <1>14, <1>15,
       <1>16, <1>17, <1>18, <1>19, <1>20, <1>21, <1>22, <1>23, <1>24, <1>25, <1>26, <1>27, <1>28, <1>29,
       <1>30, <1>31, <1>32, <1>33, <1>34, <1>35, <1>36, <1>37, <1>38, <1>39, <1>40, <1>41, <1>42

LEMMA WritesSteps ==
    /\ Len(WritesScript) = 10 /\ DOMAIN WritesScript = 1..10
    /\ Says(WritesScript[1], "plain", "connect", "")
    /\ Says(WritesScript[2], "plain", "logon", "logon")
    /\ Says(WritesScript[3], "plain", "read", "drafts-folder")
    /\ Says(WritesScript[4], "plain", "create", "create-draft")
    /\ Says(WritesScript[5], "guarded", "use", "read-draft")
    /\ Says(WritesScript[6], "guarded", "use", "draft-properties")
    /\ Says(WritesScript[7], "guarded", "use", "attachment-table")
    /\ Says(WritesScript[8], "guarded", "use", "attachment-content")
    /\ Says(WritesScript[9], "clean", "delete", "delete-draft")
    /\ Says(WritesScript[10], "last", "disconnect", "")
<1> DEFINE a == Connect
           b == Logon(FALSE)
           c == Look("drafts-folder")
           d == Step("plain", "create", "create-draft", TRUE)
           e == Guarded("use", "read-draft", TRUE)
           f == Guarded("use", "draft-properties", TRUE)
           g == Guarded("use", "attachment-table", TRUE)
           h == Guarded("use", "attachment-content", TRUE)
           i == Clean("delete", "delete-draft")
           j == Disconnect
           all == <<a, b, c, d>> \o <<e, f, g, h>> \o <<i, j>>
<1>1. WritesScript = all BY DEF WritesScript, ReadBack
<1>2. Says(a, "plain", "connect", "") BY DEF Says, Connect, Step
<1>3. Says(b, "plain", "logon", "logon") BY DEF Says, Logon, Step
<1>4. Says(c, "plain", "read", "drafts-folder") BY DEF Says, Look, Step
<1>5. Says(d, "plain", "create", "create-draft") BY DEF Says, Step
<1>6. Says(e, "guarded", "use", "read-draft") BY DEF Says, Guarded, Step
<1>7. Says(f, "guarded", "use", "draft-properties") BY DEF Says, Guarded, Step
<1>8. Says(g, "guarded", "use", "attachment-table") BY DEF Says, Guarded, Step
<1>9. Says(h, "guarded", "use", "attachment-content") BY DEF Says, Guarded, Step
<1>10. Says(i, "clean", "delete", "delete-draft") BY DEF Says, Clean, Step
<1>11. Says(j, "last", "disconnect", "") BY DEF Says, Disconnect, Step
<1> HIDE DEF a, b, c, d, e, f, g, h, i, j
<1>12. Len(all) = 10 /\ DOMAIN all = 1..10 OBVIOUS
<1>13. all[1] = a OBVIOUS
<1>14. all[2] = b OBVIOUS
<1>15. all[3] = c OBVIOUS
<1>16. all[4] = d OBVIOUS
<1>17. all[5] = e OBVIOUS
<1>18. all[6] = f OBVIOUS
<1>19. all[7] = g OBVIOUS
<1>20. all[8] = h OBVIOUS
<1>21. all[9] = i OBVIOUS
<1>22. all[10] = j OBVIOUS
<1> HIDE DEF all
<1> QED BY <1>1, <1>2, <1>3, <1>4, <1>5, <1>6, <1>7, <1>8, <1>9, <1>10, <1>11, <1>12, <1>13, <1>14, <1>15,
       <1>16, <1>17, <1>18, <1>19, <1>20, <1>21, <1>22

LEMMA ActsSteps ==
    /\ Len(ActsScript) = 17 /\ DOMAIN ActsScript = 1..17
    /\ Says(ActsScript[1], "plain", "connect", "")
    /\ Says(ActsScript[2], "plain", "logon", "logon")
    /\ Says(ActsScript[3], "plain", "read", "drafts-folder")
    /\ Says(ActsScript[4], "plain", "create", "create-message")
    /\ Says(ActsScript[5], "guarded", "use", "replace-recipients")
    /\ Says(ActsScript[6], "guarded", "use", "read-recipients")
    /\ Says(ActsScript[7], "guarded", "mark", "mark-read")
    /\ Says(ActsScript[8], "guarded", "mark", "mark-unread")
    /\ Says(ActsScript[9], "guarded", "use", "remove-recipients")
    /\ Says(ActsScript[10], "guarded", "submit", "submit-refused")
    /\ Says(ActsScript[11], "guarded", "move", "move-message")
    /\ Says(ActsScript[12], "guarded", "locate", "find-moved-message")
    /\ Says(ActsScript[13], "clean", "find", "delete-leftovers") /\ ActsScript[13].folder = "deleted"
    /\ Says(ActsScript[14], "clean", "take", "delete-leftovers") /\ ActsScript[14].folder = "deleted"
    /\ Says(ActsScript[15], "clean", "find", "delete-leftovers") /\ ActsScript[15].folder = "drafts"
    /\ Says(ActsScript[16], "clean", "take", "delete-leftovers") /\ ActsScript[16].folder = "drafts"
    /\ Says(ActsScript[17], "last", "disconnect", "")
<1> DEFINE a == Connect
           b == Logon(TRUE)
           c == Look("drafts-folder")
           d == Step("plain", "create", "create-message", FALSE)
           e == Guarded("use", "replace-recipients", FALSE)
           f == Guarded("use", "read-recipients", TRUE)
           g == Guarded("mark", "mark-read", FALSE)
           h == Guarded("mark", "mark-unread", FALSE)
           i == Guarded("use", "remove-recipients", FALSE)
           j == Guarded("submit", "submit-refused", FALSE)
           k == Guarded("move", "move-message", FALSE)
           l == Guarded("locate", "find-moved-message", FALSE)
           m == [Clean("find", "delete-leftovers") EXCEPT !.folder = "deleted"]
           n == [Clean("take", "delete-leftovers") EXCEPT !.folder = "deleted"]
           o == [Clean("find", "delete-leftovers") EXCEPT !.folder = "drafts"]
           p == [Clean("take", "delete-leftovers") EXCEPT !.folder = "drafts"]
           q == Disconnect
           all == <<a, b, c, d>> \o (<<e, f, g, h>> \o <<i, j>> \o <<k, l>>) \o (<<m, n>> \o <<o, p>>) \o <<q>>
<1>1. ActsScript = all BY SweepsInOrder DEF ActsScript, Act, SubmitRefused, Sweep
<1>2. Says(a, "plain", "connect", "") BY DEF Says, Connect, Step
<1>3. Says(b, "plain", "logon", "logon") BY DEF Says, Logon, Step
<1>4. Says(c, "plain", "read", "drafts-folder") BY DEF Says, Look, Step
<1>5. Says(d, "plain", "create", "create-message") BY DEF Says, Step
<1>6. Says(e, "guarded", "use", "replace-recipients") BY DEF Says, Guarded, Step
<1>7. Says(f, "guarded", "use", "read-recipients") BY DEF Says, Guarded, Step
<1>8. Says(g, "guarded", "mark", "mark-read") BY DEF Says, Guarded, Step
<1>9. Says(h, "guarded", "mark", "mark-unread") BY DEF Says, Guarded, Step
<1>10. Says(i, "guarded", "use", "remove-recipients") BY DEF Says, Guarded, Step
<1>11. Says(j, "guarded", "submit", "submit-refused") BY DEF Says, Guarded, Step
<1>12. Says(k, "guarded", "move", "move-message") BY DEF Says, Guarded, Step
<1>13. Says(l, "guarded", "locate", "find-moved-message") BY DEF Says, Guarded, Step
<1>14. Says(m, "clean", "find", "delete-leftovers") /\ m.folder = "deleted" BY DEF Says, Clean, Step
<1>15. Says(n, "clean", "take", "delete-leftovers") /\ n.folder = "deleted" BY DEF Says, Clean, Step
<1>16. Says(o, "clean", "find", "delete-leftovers") /\ o.folder = "drafts" BY DEF Says, Clean, Step
<1>17. Says(p, "clean", "take", "delete-leftovers") /\ p.folder = "drafts" BY DEF Says, Clean, Step
<1>18. Says(q, "last", "disconnect", "") BY DEF Says, Disconnect, Step
<1> HIDE DEF a, b, c, d, e, f, g, h, i, j, k, l, m, n, o, p, q
<1>19. Len(all) = 17 /\ DOMAIN all = 1..17 OBVIOUS
<1>20. all[1] = a OBVIOUS
<1>21. all[2] = b OBVIOUS
<1>22. all[3] = c OBVIOUS
<1>23. all[4] = d OBVIOUS
<1>24. all[5] = e OBVIOUS
<1>25. all[6] = f OBVIOUS
<1>26. all[7] = g OBVIOUS
<1>27. all[8] = h OBVIOUS
<1>28. all[9] = i OBVIOUS
<1>29. all[10] = j OBVIOUS
<1>30. all[11] = k OBVIOUS
<1>31. all[12] = l OBVIOUS
<1>32. all[13] = m OBVIOUS
<1>33. all[14] = n OBVIOUS
<1>34. all[15] = o OBVIOUS
<1>35. all[16] = p OBVIOUS
<1>36. all[17] = q OBVIOUS
<1> HIDE DEF all
<1> QED BY <1>1, <1>2, <1>3, <1>4, <1>5, <1>6, <1>7, <1>8, <1>9, <1>10, <1>11, <1>12, <1>13, <1>14, <1>15,
       <1>16, <1>17, <1>18, <1>19, <1>20, <1>21, <1>22, <1>23, <1>24, <1>25, <1>26, <1>27, <1>28, <1>29,
       <1>30, <1>31, <1>32, <1>33, <1>34, <1>35, <1>36

-----------------------------------------------------------------------------
(* Where a conversation is. *)

Ordinary == {"session", "items", "writes", "acts"}
Quiet == {"ping", "connect", "logon", "measure", "read", "disconnect"}
Ends(script, n) ==
    /\ Len(script) = n /\ DOMAIN script = 1..n /\ script[n].call = "disconnect"
    /\ \A k \in 1..n : script[k].part = "last" <=> k = n
Hushed(line) == line.call \in Quiet /\ line.part = "plain"
Early(line) == line.call \in {"connect", "logon", "read"} /\ line.part = "plain"

LEMMA SaysHushed ==
    ASSUME NEW line, NEW label,
           \/ Says(line, "plain", "ping", label) \/ Says(line, "plain", "connect", label)
           \/ Says(line, "plain", "logon", label) \/ Says(line, "plain", "measure", label)
           \/ Says(line, "plain", "read", label)
    PROVE  Hushed(line)
BY DEF Says, Hushed, Quiet

LEMMA SaysEarly ==
    ASSUME NEW line, NEW label,
           \/ Says(line, "plain", "connect", label) \/ Says(line, "plain", "logon", label)
           \/ Says(line, "plain", "read", label)
    PROVE  Early(line)
BY DEF Says, Early

LEMMA SessionParts ==
    /\ Ends(SessionScript, 17)
    /\ \A k \in 1..16 : Hushed(SessionScript[k])
<1>1. \A k \in 1..16 : Hushed(SessionScript[k])
  <2>1. ASSUME NEW k \in 1..8 PROVE Hushed(SessionScript[k])
    <3>1. k = 1 \/ k = 2 \/ k = 3 \/ k = 4 \/ k = 5 \/ k = 6 \/ k = 7 \/ k = 8 OBVIOUS
    <3> QED BY <3>1, SessionSteps, SaysHushed
  <2>2. ASSUME NEW k \in 9..16 PROVE Hushed(SessionScript[k])
    <3>1. k = 9 \/ k = 10 \/ k = 11 \/ k = 12 \/ k = 13 \/ k = 14 \/ k = 15 \/ k = 16 OBVIOUS
    <3> QED BY <3>1, SessionSteps, SaysHushed
  <2> QED BY <2>1, <2>2
<1>2. /\ SessionScript[17].call = "disconnect" /\ SessionScript[17].part = "last"
      /\ Len(SessionScript) = 17 /\ DOMAIN SessionScript = 1..17
  BY SessionSteps DEF Says
<1> QED BY <1>1, <1>2 DEF Ends, Hushed

LEMMA ItemsParts ==
    /\ Ends(ItemsScript, 20)
    /\ \A k \in 1..19 : Hushed(ItemsScript[k])
<1>1. \A k \in 1..19 : Hushed(ItemsScript[k])
  <2>1. ASSUME NEW k \in 1..7 PROVE Hushed(ItemsScript[k])
    <3>1. k = 1 \/ k = 2 \/ k = 3 \/ k = 4 \/ k = 5 \/ k = 6 \/ k = 7 OBVIOUS
    <3> QED BY <3>1, ItemsSteps, SaysHushed
  <2>2. ASSUME NEW k \in 8..13 PROVE Hushed(ItemsScript[k])
    <3>1. k = 8 \/ k = 9 \/ k = 10 \/ k = 11 \/ k = 12 \/ k = 13 OBVIOUS
    <3> QED BY <3>1, ItemsSteps, SaysHushed
  <2>3. ASSUME NEW k \in 14..19 PROVE Hushed(ItemsScript[k])
    <3>1. k = 14 \/ k = 15 \/ k = 16 \/ k = 17 \/ k = 18 \/ k = 19 OBVIOUS
    <3> QED BY <3>1, ItemsSteps, SaysHushed
  <2> QED BY <2>1, <2>2, <2>3
<1>2. /\ ItemsScript[20].call = "disconnect" /\ ItemsScript[20].part = "last"
      /\ Len(ItemsScript) = 20 /\ DOMAIN ItemsScript = 1..20
  BY ItemsSteps DEF Says
<1> QED BY <1>1, <1>2 DEF Ends, Hushed

LEMMA WritesParts ==
    /\ Ends(WritesScript, 10)
    /\ \A k \in 1..3 : Early(WritesScript[k])
    /\ WritesScript[4].part = "plain" /\ WritesScript[4].call = "create"
    /\ \A k \in 5..8 : WritesScript[k].part = "guarded" /\ WritesScript[k].call = "use"
    /\ WritesScript[9].part = "clean" /\ WritesScript[9].call = "delete"
    /\ WritesScript[10].part = "last" /\ WritesScript[10].call = "disconnect"
<1>1. ASSUME NEW k \in 1..3 PROVE Early(WritesScript[k])
  <2>1. k = 1 \/ k = 2 \/ k = 3 OBVIOUS
  <2> QED BY <2>1, WritesSteps, SaysEarly
<1>2. ASSUME NEW k \in 5..8 PROVE WritesScript[k].part = "guarded" /\ WritesScript[k].call = "use"
  <2>1. k = 5 \/ k = 6 \/ k = 7 \/ k = 8 OBVIOUS
  <2> QED BY <2>1, WritesSteps DEF Says
<1>3. /\ WritesScript[4].part = "plain" /\ WritesScript[4].call = "create"
      /\ WritesScript[9].part = "clean" /\ WritesScript[9].call = "delete"
      /\ WritesScript[10].part = "last" /\ WritesScript[10].call = "disconnect"
  BY WritesSteps DEF Says
<1>4. Len(WritesScript) = 10 /\ DOMAIN WritesScript = 1..10 BY WritesSteps
<1> QED BY <1>1, <1>2, <1>3, <1>4 DEF Ends, Early

LEMMA ActsParts ==
    /\ Ends(ActsScript, 17)
    /\ \A k \in 1..3 : Early(ActsScript[k])
    /\ ActsScript[4].part = "plain" /\ ActsScript[4].call = "create"
    /\ \A k \in 5..12 : ActsScript[k].part = "guarded"
    /\ \A k \in 5..9 : ActsScript[k].call \in {"use", "mark"}
    /\ ActsScript[10].call = "submit" /\ ActsScript[11].call = "move" /\ ActsScript[12].call = "locate"
    /\ \A k \in 13..16 : ActsScript[k].part = "clean"
    /\ ActsScript[13].call = "find" /\ ActsScript[13].folder = "deleted"
    /\ ActsScript[14].call = "take" /\ ActsScript[14].folder = "deleted"
    /\ ActsScript[15].call = "find" /\ ActsScript[15].folder = "drafts"
    /\ ActsScript[16].call = "take" /\ ActsScript[16].folder = "drafts"
    /\ ActsScript[17].part = "last" /\ ActsScript[17].call = "disconnect"
<1>1. ASSUME NEW k \in 1..3 PROVE Early(ActsScript[k])
  <2>1. k = 1 \/ k = 2 \/ k = 3 OBVIOUS
  <2> QED BY <2>1, ActsSteps, SaysEarly
<1>2. ASSUME NEW k \in 5..9 PROVE ActsScript[k].part = "guarded" /\ ActsScript[k].call \in {"use", "mark"}
  <2>1. k = 5 \/ k = 6 \/ k = 7 \/ k = 8 \/ k = 9 OBVIOUS
  <2>2. ActsScript[k].part = "guarded" BY <2>1, ActsSteps DEF Says
  <2>3. k = 5 \/ k = 6 \/ k = 9 => ActsScript[k].call = "use"
    <3>1. ActsScript[5].call = "use" /\ ActsScript[6].call = "use" /\ ActsScript[9].call = "use"
      BY ActsSteps DEF Says
    <3> QED BY <3>1
  <2>4. k = 7 \/ k = 8 => ActsScript[k].call = "mark"
    <3>1. ActsScript[7].call = "mark" /\ ActsScript[8].call = "mark" BY ActsSteps DEF Says
    <3> QED BY <3>1
  <2> QED BY <2>1, <2>2, <2>3, <2>4
<1>3. ASSUME NEW k \in 10..12 PROVE ActsScript[k].part = "guarded"
  <2>1. k = 10 \/ k = 11 \/ k = 12 OBVIOUS
  <2> QED BY <2>1, ActsSteps DEF Says
<1>4. /\ ActsScript[4].part = "plain" /\ ActsScript[4].call = "create"
      /\ ActsScript[10].call = "submit" /\ ActsScript[11].call = "move" /\ ActsScript[12].call = "locate"
  BY ActsSteps DEF Says
<1>5. /\ ActsScript[13].call = "find" /\ ActsScript[13].folder = "deleted" /\ ActsScript[13].part = "clean"
      /\ ActsScript[14].call = "take" /\ ActsScript[14].folder = "deleted" /\ ActsScript[14].part = "clean"
  BY ActsSteps DEF Says
<1>6. /\ ActsScript[15].call = "find" /\ ActsScript[15].folder = "drafts" /\ ActsScript[15].part = "clean"
      /\ ActsScript[16].call = "take" /\ ActsScript[16].folder = "drafts" /\ ActsScript[16].part = "clean"
  BY ActsSteps DEF Says
<1>7. ActsScript[17].part = "last" /\ ActsScript[17].call = "disconnect"
  BY ActsSteps DEF Says
<1>8. Len(ActsScript) = 17 /\ DOMAIN ActsScript = 1..17 BY ActsSteps
<1> QED BY <1>1, <1>2, <1>3, <1>4, <1>5, <1>6, <1>7, <1>8 DEF Ends, Early

LEMMA RefusedParts ==
    /\ Ends(RefusedScript, 2)
    /\ RefusedScript[1].part = "refusal" /\ RefusedScript[1].call = "connect"
    /\ RefusedScript[2].part = "last" /\ RefusedScript[2].call = "disconnect"
<1>1. RefusedScript[1].part = "refusal" /\ RefusedScript[1].call = "connect"
  BY DEF RefusedScript, Connect, Step
<1>2. RefusedScript[2].part = "last" /\ RefusedScript[2].call = "disconnect"
  BY DEF RefusedScript, Disconnect, Step
<1>3. Len(RefusedScript) = 2 /\ DOMAIN RefusedScript = 1..2 BY DEF RefusedScript
<1> QED BY <1>1, <1>2, <1>3 DEF Ends

LEMMA WrongServerParts ==
    /\ Ends(WrongServerScript, 3)
    /\ WrongServerScript[1].part = "plain" /\ WrongServerScript[1].call = "connect"
    /\ WrongServerScript[2].part = "refusal" /\ WrongServerScript[2].call = "logon"
    /\ WrongServerScript[3].part = "last" /\ WrongServerScript[3].call = "disconnect"
<1>1. WrongServerScript[1].part = "plain" /\ WrongServerScript[1].call = "connect"
  BY DEF WrongServerScript, Connect, Step
<1>2. WrongServerScript[2].part = "refusal" /\ WrongServerScript[2].call = "logon"
  BY DEF WrongServerScript, Logon, Step
<1>3. WrongServerScript[3].part = "last" /\ WrongServerScript[3].call = "disconnect"
  BY DEF WrongServerScript, Disconnect, Step
<1>4. Len(WrongServerScript) = 3 /\ DOMAIN WrongServerScript = 1..3 BY DEF WrongServerScript
<1> QED BY <1>1, <1>2, <1>3, <1>4 DEF Ends

\* Where each conversation's script ends, and what part of it each step belongs to.
EndOf == Len(Script(doing))

LEMMA FirstIs ==
    ASSUME NEW part, NEW k \in 1..EndOf, EndOf \in Nat, Script(doing)[k].part = part,
           \A j \in 1..(k - 1) : Script(doing)[j].part # part
    PROVE  FirstOf(part) = k
<1> DEFINE I == {i \in 1..Len(Script(doing)) : Script(doing)[i].part = part}
<1>1. FirstOf(part) = IF I # {} THEN Min(I) ELSE 0 BY DEF FirstOf, SelectInSeq
<1>2. k \in I /\ I \subseteq Nat BY DEF EndOf
<1>3. Min(I) \in I /\ \A x \in I : Min(I) <= x
  <2> HIDE DEF I
  <2> QED BY <1>2, LeastThere
<1>4. Min(I) = k
  <2>1. Min(I) \in 1..EndOf /\ Script(doing)[Min(I)].part = part BY <1>3 DEF EndOf
  <2>2. Min(I) <= k BY <1>2, <1>3
  <2>3. ~(Min(I) <= k - 1) BY <2>1
  <2> QED BY <2>1, <2>2, <2>3
<1> QED BY <1>1, <1>2, <1>4

LEMMA ScriptOf ==
    /\ Script("session") = SessionScript /\ Script("items") = ItemsScript
    /\ Script("writes") = WritesScript /\ Script("acts") = ActsScript
    /\ Script("connect-refused") = RefusedScript /\ Script("wrong-server") = WrongServerScript
BY DEF Script

LEMMA EndsThere ==
    ASSUME doing \in Conversations
    PROVE  /\ EndOf \in Nat /\ EndOf >= 1 /\ Ends(Script(doing), EndOf) /\ FirstOf("last") = EndOf
<1>1. EndOf \in Nat /\ EndOf >= 1 /\ Ends(Script(doing), EndOf)
  <2>1. \E n \in Nat \ {0} : Ends(Script(doing), n)
    <3>1. {2, 3, 10, 17, 20} \subseteq Nat \ {0} OBVIOUS
    <3> QED BY <3>1, ScriptOf, SessionParts, ItemsParts, WritesParts, ActsParts, RefusedParts, WrongServerParts
            DEF Conversations
  <2> QED BY <2>1 DEF Ends, EndOf
<1>2. Script(doing)[EndOf].part = "last" /\ \A j \in 1..(EndOf - 1) : Script(doing)[j].part # "last"
  BY <1>1 DEF Ends
<1> QED BY <1>1, <1>2, FirstIs

LEMMA CleanThere ==
    /\ doing = "writes" => FirstOf("clean") = 9
    /\ doing = "acts" => FirstOf("clean") = 13
<1>1. ASSUME doing = "writes" PROVE FirstOf("clean") = 9
  <2>1. EndOf = 10 BY <1>1, ScriptOf, WritesParts DEF EndOf, Ends
  <2>2. Script(doing)[9].part = "clean" /\ \A j \in 1..(9 - 1) : Script(doing)[j].part # "clean"
    BY <1>1, ScriptOf, WritesParts DEF Early
  <2> QED BY <2>1, <2>2, FirstIs
<1>2. ASSUME doing = "acts" PROVE FirstOf("clean") = 13
  <2>1. EndOf = 17 BY <1>2, ScriptOf, ActsParts DEF EndOf, Ends
  <2>2. Script(doing)[13].part = "clean" /\ \A j \in 1..(13 - 1) : Script(doing)[j].part # "clean"
    BY <1>2, ScriptOf, ActsParts DEF Early
  <2> QED BY <2>1, <2>2, FirstIs
<1> QED BY <1>1, <1>2

\* What is called only where.
LEMMA CallsThere ==
    ASSUME doing \in Conversations, place \in 1..EndOf
    PROVE  /\ Now.call \notin Quiet => doing \in {"writes", "acts"}
           /\ Now.part = "guarded" => doing \in {"writes", "acts"}
           /\ Now.part = "last" <=> place = EndOf
           /\ place = EndOf => Now.call = "disconnect"
           /\ Now.part = "refusal" => doing \notin Ordinary
           /\ Now.part \in {"plain", "guarded", "clean", "refusal", "last"}
<1>1. Ends(Script(doing), EndOf) /\ EndOf \in Nat BY EndsThere
<1>2. /\ Now.part = "last" <=> place = EndOf
      /\ place = EndOf => Now.call = "disconnect"
  BY <1>1 DEF Ends, Now
<1>3. CASE doing = "session"
  <2>1. EndOf = 17 BY <1>3, ScriptOf, SessionParts DEF EndOf, Ends
  <2>2. place # 17 => Hushed(Now) BY <1>3, <2>1, ScriptOf, SessionParts DEF Now
  <2> QED BY <1>2, <1>3, <2>1, <2>2 DEF Hushed, Quiet
<1>4. CASE doing = "items"
  <2>1. EndOf = 20 BY <1>4, ScriptOf, ItemsParts DEF EndOf, Ends
  <2>2. place # 20 => Hushed(Now) BY <1>4, <2>1, ScriptOf, ItemsParts DEF Now
  <2> QED BY <1>2, <1>4, <2>1, <2>2 DEF Hushed, Quiet
<1>5. CASE doing = "writes"
  <2>1. EndOf = 10 BY <1>5, ScriptOf, WritesParts DEF EndOf, Ends
  <2>2. place = 9 \/ place = 10 \/ place \in 1..3 \/ place = 4 \/ place \in 5..8 BY <2>1
  <2>3. Now.part # "refusal" BY <1>5, <2>2, ScriptOf, WritesParts DEF Now, Early
  <2>4. Now.part \in {"plain", "guarded", "clean", "last"} BY <1>5, <2>2, ScriptOf, WritesParts DEF Now, Early
  <2> QED BY <1>2, <1>5, <2>3, <2>4
<1>6. CASE doing = "acts"
  <2>1. EndOf = 17 BY <1>6, ScriptOf, ActsParts DEF EndOf, Ends
  <2>2. place = 17 \/ place \in 1..3 \/ place = 4 \/ place \in 5..12 \/ place \in 13..16 BY <2>1
  <2>3. Now.part # "refusal" BY <1>6, <2>2, ScriptOf, ActsParts DEF Now, Early
  <2>4. Now.part \in {"plain", "guarded", "clean", "last"} BY <1>6, <2>2, ScriptOf, ActsParts DEF Now, Early
  <2> QED BY <1>2, <1>6, <2>3, <2>4
<1>7. CASE doing = "connect-refused"
  <2>1. EndOf = 2 BY <1>7, ScriptOf, RefusedParts DEF EndOf, Ends
  <2>2. place = 1 \/ place = 2 BY <2>1
  <2>3. Now.call \in Quiet /\ Now.part \in {"refusal", "last"}
    BY <1>7, <2>2, ScriptOf, RefusedParts DEF Now, Quiet
  <2> QED BY <1>2, <1>7, <2>3 DEF Ordinary
<1>8. CASE doing = "wrong-server"
  <2>1. EndOf = 3 BY <1>8, ScriptOf, WrongServerParts DEF EndOf, Ends
  <2>2. place = 1 \/ place = 2 \/ place = 3 BY <2>1
  <2>3. Now.call \in Quiet /\ Now.part \in {"plain", "refusal", "last"}
    BY <1>8, <2>2, ScriptOf, WrongServerParts DEF Now, Quiet
  <2> QED BY <1>2, <1>8, <2>3 DEF Ordinary
<1> QED BY <1>3, <1>4, <1>5, <1>6, <1>7, <1>8 DEF Conversations

LEMMA WritesCalls ==
    ASSUME doing = "writes", place \in 1..EndOf
    PROVE  /\ EndOf = 10
           /\ place \in 1..3 => Early(Now)
           /\ place = 4 => Now.part = "plain" /\ Now.call = "create"
           /\ place \in 5..8 => Now.part = "guarded" /\ Now.call = "use"
           /\ place = 9 => Now.part = "clean" /\ Now.call = "delete"
           /\ place = 10 => Now.part = "last" /\ Now.call = "disconnect"
<1>1. EndOf = 10 BY ScriptOf, WritesParts DEF EndOf, Ends
<1> QED BY <1>1, ScriptOf, WritesParts DEF Now

LEMMA ActsCalls ==
    ASSUME doing = "acts", place \in 1..EndOf
    PROVE  /\ EndOf = 17
           /\ place \in 1..3 => Early(Now)
           /\ place = 4 => Now.part = "plain" /\ Now.call = "create"
           /\ place \in 5..9 => Now.part = "guarded" /\ Now.call \in {"use", "mark"}
           /\ place \in 10..12 => Now.part = "guarded"
           /\ place = 10 => Now.call = "submit"
           /\ place = 11 => Now.call = "move"
           /\ place = 12 => Now.call = "locate"
           /\ place \in {13, 15} => Now.part = "clean" /\ Now.call = "find"
           /\ place \in {14, 16} => Now.part = "clean" /\ Now.call = "take"
           /\ place \in {13, 14} => Now.folder = "deleted"
           /\ place \in {15, 16} => Now.folder = "drafts"
           /\ place = 17 => Now.part = "last" /\ Now.call = "disconnect"
<1>1. EndOf = 17 BY ScriptOf, ActsParts DEF EndOf, Ends
<1> QED BY <1>1, ScriptOf, ActsParts DEF Now

Verdicts == {"fine", "failed"}

PlaceInv ==
    /\ doing \in Conversations /\ place \in 1..EndOf
    /\ outcome \in Verdicts /\ swept \in Verdicts
    /\ ended \in {"no", "ok", "failed"}
    /\ mailbox = [f \in Folders |-> mailbox[f]] /\ before = [f \in Folders |-> before[f]]
    /\ doing \in Ordinary /\ ended = "ok" =>
           alive = TRUE /\ outcome = "fine" /\ swept = "fine" /\ place = EndOf

LEMMA GoOnIs ==
    ASSUME PlaceInv, ended = "no", GoOn
    PROVE  /\ place' \in 1..EndOf /\ outcome' \in Verdicts /\ swept' = swept /\ ended' \in {"no", "ok", "failed"}
           /\ doing \in Ordinary /\ ended' = "ok" => outcome' = "fine" /\ swept = "fine" /\ place' = EndOf
           /\ Now.part \notin {"last", "refusal"} => place' = place + 1 /\ outcome' = outcome /\ ended' = ended
           /\ Now.part = "last" => place' = place /\ outcome' = outcome
<1>1. doing \in Conversations /\ place \in 1..EndOf /\ outcome \in Verdicts /\ swept \in Verdicts BY DEF PlaceInv
<1>2. EndOf \in Nat /\ EndOf >= 1 /\ FirstOf("last") = EndOf BY <1>1, EndsThere
<1>3. /\ Now.part = "last" <=> place = EndOf
      /\ Now.part = "refusal" => doing \notin Ordinary
  BY <1>1, CallsThere
<1>4. CASE Now.part = "last"
  <2>1. UNCHANGED <<place, outcome, swept>> /\ ended' = IF Verdict = "failed" THEN "failed" ELSE "ok"
    BY <1>4 DEF GoOn, End
  <2>2. ended' = "ok" => outcome = "fine" /\ swept = "fine" BY <1>1, <2>1 DEF Verdict, Verdicts
  <2> QED BY <1>1, <1>3, <1>4, <2>1, <2>2
<1>5. CASE Now.part = "refusal"
  <2>1. place' = FirstOf("last") /\ outcome' = "failed" /\ UNCHANGED <<swept, ended>> BY <1>5 DEF GoOn
  <2> QED BY <1>2, <1>3, <1>5, <2>1 DEF Verdicts
<1>6. CASE Now.part \notin {"last", "refusal"}
  <2>1. place' = place + 1 /\ UNCHANGED <<outcome, swept, ended>> BY <1>6 DEF GoOn
  <2> QED BY <1>1, <1>2, <1>3, <1>6, <2>1
<1> QED BY <1>4, <1>5, <1>6

LEMMA GiveUpIs ==
    ASSUME PlaceInv, ended = "no", GiveUp
    PROVE  /\ place' \in 1..EndOf /\ outcome' \in Verdicts /\ swept' \in Verdicts
           /\ ended' \in {"no", "ok", "failed"}
           /\ doing \in Ordinary => ended' # "ok"
           /\ Now.part \in {"plain", "last"} => place' = place /\ ended' = "failed"
           /\ Now.part = "guarded" => place' = FirstOf("clean") /\ outcome' = "failed" /\ UNCHANGED <<swept, ended>>
           /\ Now.part = "clean" => swept' = "failed" /\ UNCHANGED <<outcome, ended>>
           /\ Now.part # "clean" => swept' = swept
<1>1. doing \in Conversations /\ place \in 1..EndOf /\ outcome \in Verdicts /\ swept \in Verdicts BY DEF PlaceInv
<1>2. EndOf \in Nat /\ EndOf >= 1 /\ FirstOf("last") = EndOf BY <1>1, EndsThere
<1>3. /\ Now.part = "last" <=> place = EndOf
      /\ Now.part = "refusal" => doing \notin Ordinary
      /\ Now.part = "guarded" => doing \in {"writes", "acts"}
      /\ Now.part \in {"plain", "guarded", "clean", "refusal", "last"}
  BY <1>1, CallsThere
<1>4. CASE Now.part \in {"plain", "last"}
  <2>1. UNCHANGED <<place, outcome, swept>> /\ ended' = "failed" BY <1>4 DEF GiveUp, End
  <2> QED BY <1>1, <1>4, <2>1
<1>5. CASE Now.part = "refusal"
  <2>1. UNCHANGED <<place, outcome, swept>> /\ ended' = "ok" BY <1>5 DEF GiveUp, End
  <2> QED BY <1>1, <1>3, <1>5, <2>1
<1>6. CASE Now.part = "guarded"
  <2>1. place' = FirstOf("clean") /\ outcome' = "failed" /\ UNCHANGED <<swept, ended>> BY <1>6 DEF GiveUp
  <2>2. FirstOf("clean") \in 1..EndOf
    <3>1. CASE doing = "writes" BY <1>1, <3>1, CleanThere, WritesCalls
    <3>2. CASE doing = "acts" BY <1>1, <3>2, CleanThere, ActsCalls
    <3> QED BY <1>3, <1>6, <3>1, <3>2
  <2> QED BY <1>1, <1>6, <2>1, <2>2 DEF Verdicts
<1>7. CASE Now.part = "clean"
  <2>1. place' = FirstOf("last") /\ swept' = "failed" /\ UNCHANGED <<outcome, ended>> BY <1>7 DEF GiveUp
  <2> QED BY <1>1, <1>2, <1>7, <2>1 DEF Verdicts
<1> QED BY <1>3, <1>4, <1>5, <1>6, <1>7

LEMMA ServerKeeps ==
    ASSUME mailbox = [f \in Folders |-> mailbox[f]],
           NEW i, NEW folder,
           Create \/ (\E renamed \in BOOLEAN : Move(i, renamed)) \/ TakeOut(folder, i) \/ Unmoved
    PROVE  mailbox' = [f \in Folders |-> mailbox'[f]]
<1>1. CASE Create BY <1>1 DEF Create
<1>2. CASE \E renamed \in BOOLEAN : Move(i, renamed) BY <1>2 DEF Move
<1>3. CASE TakeOut(folder, i) BY <1>3 DEF TakeOut
<1>4. CASE Unmoved BY <1>4 DEF Unmoved
<1> QED BY <1>1, <1>2, <1>3, <1>4


LEMMA PlaceTalk == ASSUME PlaceInv, Talk, UNCHANGED before PROVE PlaceInv'
<1>1. /\ doing \in Conversations /\ place \in 1..EndOf /\ outcome \in Verdicts /\ swept \in Verdicts
      /\ mailbox = [f \in Folders |-> mailbox[f]] /\ before = [f \in Folders |-> before[f]]
  BY DEF PlaceInv
<1>2. EndOf \in Nat /\ FirstOf("last") = EndOf BY <1>1, EndsThere
<1>3. ended = "no" /\ doing' = doing
  BY DEF Talk, Plain, Measure, Save, Use, Mark, Submitted, MoveMessage, Locate, DeleteDraft, SweepFind, SweepTake,
         Refused, Lost, Unusable, Served, Talking, ForgetNothing
<1>4. EndOf' = EndOf BY <1>3 DEF EndOf, Script
<1>5. mailbox' = [f \in Folders |-> mailbox'[f]]
  <2>1. \/ Create \/ Unmoved
        \/ \E i : (\E renamed \in BOOLEAN : Move(i, renamed)) \/ TakeOut("drafts", i) \/ TakeOut(Now.folder, i)
        \/ UNCHANGED mailbox
    BY DEF Talk, Plain, Measure, Save, Use, Mark, Submitted, MoveMessage, Locate, DeleteDraft, SweepFind, SweepTake,
           Refused, Lost, Unusable, Effect
  <2> QED BY <1>1, <2>1, ServerKeeps
<1>6. ASSUME GoOn \/ GiveUp, alive = TRUE /\ alive' = alive PROVE PlaceInv'
  <2>1. CASE GoOn BY <1>1, <1>3, <1>4, <1>5, <1>6, <2>1, GoOnIs DEF PlaceInv
  <2>2. CASE GiveUp BY <1>1, <1>3, <1>4, <1>5, <2>2, GiveUpIs DEF PlaceInv
  <2> QED BY <1>6, <2>1, <2>2
<1>7. ASSUME GiveUp PROVE PlaceInv'
  BY <1>1, <1>3, <1>4, <1>5, <1>7, GiveUpIs DEF PlaceInv
<1>8. ASSUME place' \in 1..EndOf, ended' = ended, outcome' \in Verdicts, swept' \in Verdicts PROVE PlaceInv'
  BY <1>1, <1>3, <1>4, <1>5, <1>8 DEF PlaceInv
<1>9. Now.call \in {"delete", "take"} => place < EndOf BY <1>1, <1>2, CallsThere
<1>10. Now.call = "find" => place + 2 \in 1..EndOf
  <2> SUFFICES ASSUME Now.call = "find" PROVE place + 2 \in 1..EndOf OBVIOUS
  <2>1. doing = "writes" \/ doing = "acts" BY <1>1, CallsThere DEF Quiet
  <2>2. doing # "writes"
    <3> SUFFICES ASSUME doing = "writes" PROVE FALSE OBVIOUS
    <3>1. EndOf = 10 BY <1>1, WritesCalls
    <3>2. place \in 1..3 \/ place = 4 \/ place \in 5..8 \/ place = 9 \/ place = 10 BY <1>1, <3>1
    <3> QED BY <1>1, <3>2, WritesCalls DEF Early
  <2>3. doing = "acts" /\ EndOf = 17 BY <1>1, <2>1, <2>2, ActsCalls
  <2>4. place # 17 /\ place # 16 BY <1>1, <2>3, ActsCalls
  <2> QED BY <1>1, <2>3, <2>4
<1>11. CASE Plain BY <1>6, <1>11 DEF Plain
<1>12. CASE Measure BY <1>6, <1>12 DEF Measure, Served
<1>13. CASE Save BY <1>6, <1>13 DEF Save, Served
<1>14. CASE Use BY <1>6, <1>14 DEF Use, Served
<1>15. CASE Mark BY <1>6, <1>15 DEF Mark, Served
<1>16. CASE Submitted BY <1>7, <1>16 DEF Submitted
<1>17. CASE MoveMessage BY <1>6, <1>17 DEF MoveMessage, Served
<1>18. CASE Locate BY <1>6, <1>18 DEF Locate, Served
<1>19. CASE DeleteDraft
  <2>1. /\ place' = place + 1 /\ UNCHANGED <<ended, outcome>> /\ (swept' = swept \/ swept' = "failed")
        /\ Now.call = "delete"
    BY <1>19 DEF DeleteDraft, Served
  <2>2. place' \in 1..EndOf BY <1>1, <1>2, <1>9, <2>1
  <2> QED BY <1>1, <1>8, <2>1, <2>2 DEF Verdicts
<1>20. CASE SweepFind
  <2>1. (place' = place + 1 \/ place' = place + 2) /\ UNCHANGED <<ended, outcome, swept>> /\ Now.call = "find"
    BY <1>20 DEF SweepFind, Served
  <2>2. place' \in 1..EndOf BY <1>1, <1>2, <1>10, <2>1
  <2> QED BY <1>1, <1>8, <2>1, <2>2
<1>21. CASE SweepTake
  <2>1. /\ place' = place + 1 /\ UNCHANGED <<ended, outcome>> /\ (swept' = swept \/ swept' = "failed")
        /\ Now.call = "take"
    BY <1>21 DEF SweepTake, Served
  <2>2. place' \in 1..EndOf BY <1>1, <1>2, <1>9, <2>1
  <2> QED BY <1>1, <1>8, <2>1, <2>2 DEF Verdicts
<1>22. CASE Refused
  <2>1. (GoOn \/ GiveUp) /\ alive /\ UNCHANGED alive BY <1>22 DEF Refused
  <2> QED BY <1>6, <2>1
<1>23. CASE Lost BY <1>7, <1>23 DEF Lost
<1>24. CASE Unusable BY <1>7, <1>24 DEF Unusable
<1> QED BY <1>11, <1>12, <1>13, <1>14, <1>15, <1>16, <1>17, <1>18, <1>19, <1>20, <1>21, <1>22, <1>23, <1>24 DEF Talk

LEMMA PlaceStep == ASSUME PlaceInv, [Next]_vars PROVE PlaceInv'
<1>1. CASE LoadRules
  <2>1. doing' = doing /\ mailbox' = mailbox
    BY <1>1 DEF LoadRules, StartOver, scenarioVars, programVars, serverVars
  <2>2. doing \in Conversations BY DEF PlaceInv
  <2>3. EndOf' = EndOf /\ EndOf \in Nat /\ EndOf >= 1 BY <2>1, <2>2, EndsThere DEF EndOf, Script
  <2>4. CASE UNCHANGED <<before, scenarioVars>>
    BY <2>1, <2>3, <2>4 DEF PlaceInv, scenarioVars, programVars, serverVars
  <2>5. CASE before' = mailbox /\ StartOver(doing)
    <3>1. 1 \in 1..EndOf BY <2>3
    <3> QED BY <2>1, <2>2, <2>3, <2>5, <3>1 DEF PlaceInv, StartOver, Verdicts
  <2> QED BY <1>1, <2>4, <2>5 DEF LoadRules
<1>2. CASE Converse
  <2>1. Talk /\ UNCHANGED before BY <1>2 DEF Converse, captureVars
  <2> QED BY <2>1, PlaceTalk
<1>3. ASSUME UNCHANGED <<before, scenarioVars>> PROVE PlaceInv'
  <2>1. UNCHANGED <<doing, place, outcome, swept, alive, ended, mailbox, before>>
    BY <1>3 DEF scenarioVars, programVars, serverVars
  <2> QED BY <2>1 DEF PlaceInv, EndOf, Script
<1>4. CASE Gather BY <1>3, <1>4 DEF Gather
<1>5. CASE WriteExchange BY <1>3, <1>5 DEF WriteExchange
<1>6. CASE DiskFails BY <1>3, <1>6 DEF DiskFails
<1>7. CASE Close BY <1>3, <1>7 DEF Close
<1>8. CASE Again BY <1>3, <1>8 DEF Again
<1>9. CASE UNCHANGED vars BY <1>3, <1>9 DEF vars, captureVars
<1> QED BY <1>1, <1>2, <1>4, <1>5, <1>6, <1>7, <1>8, <1>9 DEF Next

-----------------------------------------------------------------------------
(* What is in the mailbox. *)

Empty == mailbox["drafts"] = {} /\ mailbox["deleted"] = {}
OneOf(folder) == \A m \in mailbox[folder] : mailbox[folder] = {Message(m.id)}
AsSaved == mailbox["drafts"] \subseteq {Message(own)} /\ mailbox["deleted"] = {}
AsMoved == mailbox["drafts"] = {} /\ OneOf("deleted")

\* Of a conversation that found the mailbox empty and has a connection and a cleanup that has not failed:
\* at each step there is one message at most, and by the last there is none.
WritesLeft ==
    /\ place \in 1..3 => Empty
    /\ place = 4 /\ ended = "no" => Empty
    /\ place \in 5..9 => ended = "no" /\ AsSaved
    /\ place = 10 => Empty

ActsLeft ==
    /\ place \in 1..3 => Empty
    /\ place = 4 /\ ended = "no" => Empty
    /\ place \in 5..16 => ended = "no"
    /\ place \in 5..11 => AsSaved
    /\ place \in 12..13 => AsSaved \/ AsMoved
    /\ place = 14 => mailbox["drafts"] = {} /\ mailbox["deleted"] \subseteq {Message(found)}
    /\ place = 15 => AsSaved
    /\ place = 16 => mailbox["drafts"] \subseteq {Message(found)} /\ mailbox["deleted"] = {}
    /\ place = 17 => Empty

LeftInv ==
    /\ doing \notin {"writes", "acts"} => mailbox = before
    /\ Began /\ alive /\ swept = "fine" => /\ doing = "writes" => WritesLeft
                                           /\ doing = "acts" => ActsLeft

\* A step that loses nothing: the server does what it is asked, or refuses it and does nothing.
LEMMA Heard ==
    ASSUME PlaceInv, Talk, alive', swept' = "fine"
    PROVE  /\ ended = "no" /\ alive /\ swept = "fine" /\ doing' = doing
           /\ \/ Plain /\ Now.call \in {"ping", "connect", "logon", "read", "disconnect"}
              \/ Measure /\ Now.call = "measure"
              \/ Save /\ Now.call = "create"
              \/ Use /\ Now.call = "use"
              \/ Mark /\ Now.call = "mark"
              \/ Submitted /\ Now.call = "submit"
              \/ MoveMessage /\ Now.call = "move"
              \/ Locate /\ Now.call = "locate"
              \/ DeleteDraft /\ Now.call = "delete"
              \/ SweepFind /\ Now.call = "find"
              \/ SweepTake /\ Now.call = "take"
              \/ Refused
           /\ Now.part = "clean" => ~GiveUp
<1>1. /\ \/ Plain /\ Now.call \in {"ping", "connect", "logon", "read", "disconnect"}
         \/ Measure /\ Now.call = "measure"
         \/ Save /\ Now.call = "create"
         \/ Use /\ Now.call = "use"
         \/ Mark /\ Now.call = "mark"
         \/ Submitted /\ Now.call = "submit"
         \/ MoveMessage /\ Now.call = "move"
         \/ Locate /\ Now.call = "locate"
         \/ DeleteDraft /\ Now.call = "delete"
         \/ SweepFind /\ Now.call = "find"
         \/ SweepTake /\ Now.call = "take"
         \/ Refused
      /\ ended = "no" /\ alive /\ doing' = doing
  BY DEF Talk, Plain, Measure, Save, Use, Mark, Submitted, MoveMessage, Locate, DeleteDraft, SweepFind, SweepTake,
         Refused, Lost, Unusable, Served, Talking, ForgetNothing
<1>2. swept \in Verdicts BY DEF PlaceInv
<1>3. Now.part = "clean" => ~GiveUp BY <1>1, GiveUpIs
<1>4. doing \in Conversations /\ place \in 1..EndOf BY DEF PlaceInv
<1>5. GiveUp => swept' = swept BY <1>1, <1>3, GiveUpIs
<1>6. GoOn => swept' = swept BY <1>1, GoOnIs
<1>7. swept = "fine"
  BY <1>1, <1>5, <1>6 DEF Plain, Measure, Save, Use, Mark, Submitted, MoveMessage, Locate, DeleteDraft, SweepFind,
         SweepTake, Refused
<1> QED BY <1>1, <1>3, <1>7

LEMMA QuietKeeps == ASSUME Talk, Now.call \in Quiet PROVE mailbox' = mailbox
BY DEF Talk, Plain, Measure, Save, Use, Mark, Submitted, MoveMessage, Locate, DeleteDraft, SweepFind, SweepTake,
       Refused, Lost, Unusable, Served, Effect, Unmoved, Quiet

LEMMA RefusedKeeps ==
    ASSUME Refused
    PROVE  UNCHANGED <<mailbox, doing, own, found>> /\ (GiveUp \/ (Now.call = "submit" /\ GoOn))
BY DEF Refused, Unmoved, ForgetNothing

LEMMA WritesTalk ==
    ASSUME PlaceInv, doing = "writes", WritesLeft, Talk, alive', swept' = "fine"
    PROVE  WritesLeft'
<1>1. doing \in Conversations /\ place \in 1..EndOf /\ doing' = doing /\ ended = "no" BY Heard DEF PlaceInv
<1>2. EndOf = 10 /\ FirstOf("clean") = 9 BY <1>1, WritesCalls, CleanThere
<1>3. CASE place \in 1..3
  <2>1. Early(Now) BY <1>1, <1>3, WritesCalls
  <2>2. Plain \/ Refused BY <2>1, Heard DEF Early
  <2>3. UNCHANGED mailbox BY <2>1, QuietKeeps DEF Early, Quiet
  <2>4. Now.part = "plain" /\ Now.call # "submit" BY <2>1 DEF Early
  <2>5. GoOn \/ GiveUp BY <2>2 DEF Plain, Refused
  <2>6. place' = place \/ place' = place + 1 BY <1>1, <2>4, <2>5, GoOnIs, GiveUpIs
  <2> QED BY <1>3, <2>3, <2>6 DEF WritesLeft, Empty
<1>4. CASE place = 4
  <2>1. Now.part = "plain" /\ Now.call = "create" BY <1>1, <1>4, WritesCalls
  <2>2. Empty BY <1>1, <1>4 DEF WritesLeft
  <2>3. CASE GiveUp
    <3>1. place' = 4 /\ ended' = "failed" BY <1>1, <1>4, <2>1, <2>3, GiveUpIs
    <3> QED BY <3>1 DEF WritesLeft
  <2>4. CASE GoOn /\ Save
    <3>1. place' = 5 /\ ended' = "no" BY <1>1, <1>4, <2>1, <2>4, GoOnIs
    <3>2. /\ own' = minted + 1
          /\ mailbox' = [mailbox EXCEPT !["drafts"] = @ \cup {Message(minted + 1)}]
      BY <2>4 DEF Save, Create
    <3>3. Message(own)' = Message(minted + 1) BY <1>1, <3>2 DEF Message
    <3>4. mailbox = [f \in Folders |-> mailbox[f]] BY DEF PlaceInv
    <3>5. mailbox'["drafts"] = {Message(minted + 1)} /\ mailbox'["deleted"] = {}
      BY <2>2, <3>2, <3>4 DEF Empty, Folders
    <3> QED BY <3>1, <3>3, <3>5 DEF WritesLeft, AsSaved
  <2>5. Save \/ Refused BY <2>1, Heard
  <2> QED BY <2>1, <2>3, <2>4, <2>5, RefusedKeeps DEF Save
<1>5. CASE place \in 5..8
  <2>1. Now.part = "guarded" /\ Now.call = "use" BY <1>1, <1>5, WritesCalls
  <2>2. Use \/ Refused BY <2>1, Heard
  <2>3. (GoOn \/ GiveUp) /\ UNCHANGED <<mailbox, own>>
    BY <2>1, <2>2, RefusedKeeps DEF Use, ForgetNothing, Unmoved
  <2>4. (place' = place + 1 \/ place' = 9) /\ ended' = "no" BY <1>1, <1>2, <2>1, <2>3, GoOnIs, GiveUpIs
  <2>5. AsSaved' BY <1>1, <1>5, <2>3 DEF WritesLeft, AsSaved, Message
  <2> QED BY <1>5, <2>4, <2>5 DEF WritesLeft
<1>6. CASE place = 9
  <2>1. Now.part = "clean" /\ Now.call = "delete" BY <1>1, <1>6, WritesCalls
  <2>2. DeleteDraft BY <2>1, Heard, RefusedKeeps
  <2>3. place' = 10 /\ TakeOut("drafts", own) BY <1>6, <2>2, Heard DEF DeleteDraft
  <2>4. AsSaved /\ mailbox = [f \in Folders |-> mailbox[f]] BY <1>6 DEF WritesLeft, PlaceInv
  <2>5. mailbox' = [mailbox EXCEPT !["drafts"] = @ \ Named("drafts", own)] BY <2>3 DEF TakeOut
  <2>6. mailbox'["drafts"] = mailbox["drafts"] \ Named("drafts", own) /\ mailbox'["deleted"] = {}
    BY <2>4, <2>5 DEF AsSaved, Folders
  <2>7. Message(own).id = own BY DEF Message
  <2>8. \A m \in mailbox["drafts"] : m \in Named("drafts", own) BY <2>4, <2>7 DEF AsSaved, Named
  <2>9. Empty' BY <2>6, <2>8 DEF Empty
  <2> QED BY <2>3, <2>9 DEF WritesLeft
<1>7. CASE place = 10
  <2>1. Now.part = "last" /\ Now.call = "disconnect" BY <1>1, <1>7, WritesCalls
  <2>2. (Plain \/ Refused) /\ UNCHANGED mailbox BY <2>1, Heard, QuietKeeps DEF Quiet
  <2>3. GoOn \/ GiveUp BY <2>2 DEF Plain, Refused
  <2>4. place' = 10 BY <1>1, <1>7, <2>1, <2>3, GoOnIs, GiveUpIs
  <2> QED BY <1>7, <2>2, <2>4 DEF WritesLeft, Empty
<1> QED BY <1>1, <1>2, <1>3, <1>4, <1>5, <1>6, <1>7


\* What a listing for the conversation's subject finds where there is one message at most, and it is its own.
LEMMA ListedOne ==
    ASSUME NEW folder
    PROVE  /\ \A x : mailbox[folder] \subseteq {Message(x)} =>
                  Listed(folder) \subseteq {x} /\ (Listed(folder) = {} => mailbox[folder] = {})
           /\ OneOf(folder) =>
                  /\ \A x \in Listed(folder) : mailbox[folder] = {Message(x)}
                  /\ Listed(folder) = {} => mailbox[folder] = {}
<1>1. \A x : Message(x).id = x /\ Message(x).by = doing BY DEF Message
<1>2. ASSUME NEW x, mailbox[folder] \subseteq {Message(x)}
      PROVE  Listed(folder) \subseteq {x} /\ (Listed(folder) = {} => mailbox[folder] = {})
  BY <1>1, <1>2 DEF Listed
<1>3. ASSUME OneOf(folder)
      PROVE  /\ \A x \in Listed(folder) : mailbox[folder] = {Message(x)}
             /\ Listed(folder) = {} => mailbox[folder] = {}
  <2>1. \A m \in mailbox[folder] : m.by = doing BY <1>1, <1>3 DEF OneOf
  <2> QED BY <1>3, <2>1 DEF OneOf, Listed
<1> QED BY <1>2, <1>3

LEMMA TakenOut ==
    ASSUME NEW folder \in Folders, NEW x, TakeOut(folder, x), mailbox = [f \in Folders |-> mailbox[f]],
           mailbox[folder] \subseteq {Message(x)}
    PROVE  mailbox'[folder] = {} /\ \A f \in Folders \ {folder} : mailbox'[f] = mailbox[f]
<1>1. mailbox' = [mailbox EXCEPT ![folder] = @ \ Named(folder, x)] BY DEF TakeOut
<1>2. mailbox'[folder] = mailbox[folder] \ Named(folder, x) /\ \A f \in Folders \ {folder} : mailbox'[f] = mailbox[f]
  BY <1>1
<1>3. Message(x).id = x BY DEF Message
<1>4. \A m \in mailbox[folder] : m \in Named(folder, x) BY <1>3 DEF Named
<1> QED BY <1>2, <1>4

LEMMA MovedOne ==
    ASSUME NEW renamed \in BOOLEAN, Move(own, renamed), doing' = doing, AsSaved,
           mailbox = [f \in Folders |-> mailbox[f]]
    PROVE  AsMoved'
<1> DEFINE moved == {[m EXCEPT !.id = IF renamed THEN minted + 1 ELSE @] : m \in Named("drafts", own)}
<1>1. mailbox'["drafts"] = mailbox["drafts"] \ Named("drafts", own)
      /\ mailbox'["deleted"] = mailbox["deleted"] \cup moved
  BY DEF Move, Folders
<1>2. Message(own).id = own /\ \A x : Message(x)' = Message(x) BY DEF Message
<1>3. \A m \in mailbox["drafts"] : m \in Named("drafts", own) BY <1>2 DEF AsSaved, Named
<1>4. Named("drafts", own) \subseteq {Message(own)} BY DEF Named, AsSaved
<1>5. ASSUME NEW m \in moved PROVE moved = {Message(m.id)}
  <2>1. PICK x : [Message(own) EXCEPT !.id = x] = m /\ moved = {m} BY <1>4
  <2>2. m = Message(x) /\ m.id = x BY <2>1 DEF Message
  <2> QED BY <2>1, <2>2
<1>6. mailbox'["deleted"] = moved BY <1>1 DEF AsSaved
<1> HIDE DEF moved
<1>7. OneOf("deleted")' BY <1>2, <1>5, <1>6 DEF OneOf
<1> QED BY <1>1, <1>3, <1>7 DEF AsMoved

LEMMA ActsTalk ==
    ASSUME PlaceInv, doing = "acts", ActsLeft, Talk, alive', swept' = "fine"
    PROVE  ActsLeft'
<1>1. doing \in Conversations /\ place \in 1..EndOf /\ doing' = doing /\ ended = "no" BY Heard DEF PlaceInv
<1>2. EndOf = 17 /\ FirstOf("clean") = 13 BY <1>1, ActsCalls, CleanThere
<1>3. mailbox = [f \in Folders |-> mailbox[f]] BY DEF PlaceInv
<1>4. \A x : Message(x)' = Message(x) BY <1>1 DEF Message
<1>5. UNCHANGED <<mailbox, own>> => AsSaved' = AsSaved /\ AsMoved' = AsMoved
  BY <1>1 DEF AsSaved, AsMoved, OneOf, Message
<1>6. Now.part = "clean" /\ Now.call # "submit" => ~Refused BY Heard, RefusedKeeps
<1>7. CASE place \in 1..3
  <2>1. Early(Now) BY <1>1, <1>7, ActsCalls
  <2>2. Plain \/ Refused BY <2>1, Heard DEF Early
  <2>3. UNCHANGED mailbox BY <2>1, QuietKeeps DEF Early, Quiet
  <2>4. Now.part = "plain" /\ Now.call # "submit" BY <2>1 DEF Early
  <2>5. GoOn \/ GiveUp BY <2>2 DEF Plain, Refused
  <2>6. place' = place \/ place' = place + 1 BY <1>1, <2>4, <2>5, GoOnIs, GiveUpIs
  <2> QED BY <1>7, <2>3, <2>6 DEF ActsLeft, Empty
<1>8. CASE place = 4
  <2>1. Now.part = "plain" /\ Now.call = "create" BY <1>1, <1>8, ActsCalls
  <2>2. Empty BY <1>1, <1>8 DEF ActsLeft
  <2>3. CASE GiveUp
    <3>1. place' = 4 /\ ended' = "failed" BY <1>1, <1>8, <2>1, <2>3, GiveUpIs
    <3> QED BY <3>1 DEF ActsLeft
  <2>4. CASE GoOn /\ Save
    <3>1. place' = 5 /\ ended' = "no" BY <1>1, <1>8, <2>1, <2>4, GoOnIs
    <3>2. /\ own' = minted + 1
          /\ mailbox' = [mailbox EXCEPT !["drafts"] = @ \cup {Message(minted + 1)}]
      BY <2>4 DEF Save, Create
    <3>3. Message(own)' = Message(minted + 1) BY <1>1, <3>2 DEF Message
    <3>4. mailbox'["drafts"] = {Message(minted + 1)} /\ mailbox'["deleted"] = {}
      BY <1>3, <2>2, <3>2 DEF Empty, Folders
    <3> QED BY <3>1, <3>3, <3>4 DEF ActsLeft, AsSaved
  <2>5. Save \/ Refused BY <2>1, Heard
  <2> QED BY <2>1, <2>3, <2>4, <2>5, RefusedKeeps DEF Save
<1>9. CASE place \in 5..9
  <2>1. Now.part = "guarded" /\ Now.call \in {"use", "mark"} BY <1>1, <1>9, ActsCalls
  <2>2. Use \/ Mark \/ Refused BY <2>1, Heard
  <2>3. (GoOn \/ GiveUp) /\ UNCHANGED <<mailbox, own>>
    BY <2>1, <2>2, RefusedKeeps DEF Use, Mark, ForgetNothing, Unmoved
  <2>4. (place' = place + 1 \/ place' = 13) /\ ended' = "no" BY <1>1, <1>2, <2>1, <2>3, GoOnIs, GiveUpIs
  <2>5. AsSaved' BY <1>5, <1>9, <2>3 DEF ActsLeft
  <2> QED BY <1>9, <2>4, <2>5 DEF ActsLeft
<1>10. CASE place = 10
  <2>1. Now.part = "guarded" /\ Now.call = "submit" /\ AsSaved BY <1>1, <1>10, ActsCalls DEF ActsLeft
  <2>2. Submitted \/ Refused BY <2>1, Heard
  <2>3. CASE Refused
    <3>1. (GoOn \/ GiveUp) /\ UNCHANGED <<mailbox, own>> BY <2>3, RefusedKeeps
    <3>2. (place' = 11 \/ place' = 13) /\ ended' = "no" BY <1>1, <1>2, <1>10, <2>1, <3>1, GoOnIs, GiveUpIs
    <3>3. AsSaved' BY <1>5, <2>1, <3>1
    <3> QED BY <3>2, <3>3 DEF ActsLeft
  <2>4. CASE Submitted
    <3>1. GiveUp /\ TakeOut("drafts", own) /\ UNCHANGED own BY <2>4 DEF Submitted, ForgetNothing
    <3>2. place' = 13 /\ ended' = "no" BY <1>1, <1>2, <2>1, <3>1, GiveUpIs
    <3>3. mailbox'["drafts"] = {} /\ mailbox'["deleted"] = {}
      BY <1>3, <2>1, <3>1, TakenOut DEF AsSaved, Folders
    <3>4. AsSaved' BY <3>3 DEF AsSaved
    <3> QED BY <3>2, <3>4 DEF ActsLeft
  <2> QED BY <2>2, <2>3, <2>4
<1>11. CASE place = 11
  <2>1. Now.part = "guarded" /\ Now.call = "move" /\ AsSaved BY <1>1, <1>11, ActsCalls DEF ActsLeft
  <2>2. MoveMessage \/ Refused BY <2>1, Heard
  <2>3. GoOn \/ GiveUp BY <2>2, RefusedKeeps DEF MoveMessage
  <2>4. (place' = 12 \/ place' = 13) /\ ended' = "no" BY <1>1, <1>2, <1>11, <2>1, <2>3, GoOnIs, GiveUpIs
  <2>5. (\E renamed \in BOOLEAN : Move(own, renamed)) \/ UNCHANGED <<mailbox, own>>
    BY <2>1, <2>2, RefusedKeeps DEF MoveMessage, Unmoved, ForgetNothing
  <2>6. AsSaved' \/ AsMoved' BY <1>1, <1>3, <1>5, <2>1, <2>5, MovedOne
  <2> QED BY <2>4, <2>6 DEF ActsLeft
<1>12. CASE place = 12
  <2>1. Now.part = "guarded" /\ Now.call = "locate" BY <1>1, <1>12, ActsCalls
  <2>2. Locate \/ Refused BY <2>1, Heard
  <2>3. (GoOn \/ GiveUp) /\ UNCHANGED <<mailbox, own>> BY <2>1, <2>2, RefusedKeeps DEF Locate, Unmoved
  <2>4. place' = 13 /\ ended' = "no" BY <1>1, <1>2, <1>12, <2>1, <2>3, GoOnIs, GiveUpIs
  <2>5. AsSaved' \/ AsMoved' BY <1>5, <1>12, <2>3 DEF ActsLeft
  <2> QED BY <2>4, <2>5 DEF ActsLeft
<1>13. CASE place = 13
  <2>1. Now.part = "clean" /\ Now.call = "find" /\ Now.folder = "deleted" BY <1>1, <1>13, ActsCalls
  <2>2. SweepFind BY <1>6, <2>1, Heard
  <2>3. UNCHANGED <<mailbox, own, ended>> BY <2>2 DEF SweepFind, Unmoved
  <2>4. AsSaved \/ AsMoved BY <1>13 DEF ActsLeft
  <2>5. /\ OneOf("deleted") /\ (mailbox["deleted"] = {} => AsSaved)
        /\ (mailbox["deleted"] # {} => mailbox["drafts"] = {})
    BY <2>4 DEF AsSaved, AsMoved, OneOf
  <2>6. CASE Listed("deleted") = {} /\ place' = place + 2
    <3>1. AsSaved' BY <1>5, <2>3, <2>5, <2>6, ListedOne
    <3> QED BY <1>1, <1>13, <2>3, <2>6, <3>1 DEF ActsLeft
  <2>7. ASSUME NEW x \in Listed("deleted"), found' = x, place' = place + 1 PROVE ActsLeft'
    <3>1. mailbox["deleted"] = {Message(x)} BY <2>5, ListedOne
    <3>2. mailbox'["drafts"] = {} /\ mailbox'["deleted"] \subseteq {Message(found)'}
      BY <1>4, <2>3, <2>5, <2>7, <3>1
    <3> QED BY <1>1, <1>13, <2>3, <2>7, <3>2 DEF ActsLeft
  <2> QED BY <2>1, <2>2, <2>6, <2>7 DEF SweepFind
<1>14. CASE place = 14
  <2>1. Now.part = "clean" /\ Now.call = "take" /\ Now.folder = "deleted" BY <1>1, <1>14, ActsCalls
  <2>2. SweepTake BY <1>6, <2>1, Heard
  <2>3. place' = 15 /\ TakeOut("deleted", found) /\ UNCHANGED <<own, ended>>
    BY <1>14, <2>1, <2>2 DEF SweepTake, ForgetNothing
  <2>4. mailbox["drafts"] = {} /\ mailbox["deleted"] \subseteq {Message(found)} BY <1>14 DEF ActsLeft
  <2>5. mailbox'["drafts"] = {} /\ mailbox'["deleted"] = {} BY <1>3, <2>3, <2>4, TakenOut DEF Folders
  <2>6. AsSaved' BY <2>5 DEF AsSaved
  <2> QED BY <1>1, <2>3, <2>6 DEF ActsLeft
<1>15. CASE place = 15
  <2>1. Now.part = "clean" /\ Now.call = "find" /\ Now.folder = "drafts" BY <1>1, <1>15, ActsCalls
  <2>2. SweepFind BY <1>6, <2>1, Heard
  <2>3. UNCHANGED <<mailbox, own, ended>> BY <2>2 DEF SweepFind, Unmoved
  <2>4. AsSaved BY <1>15 DEF ActsLeft
  <2>5. CASE Listed("drafts") = {} /\ place' = place + 2
    <3>1. Empty BY <2>4, <2>5, ListedOne DEF AsSaved, Empty
    <3> QED BY <1>15, <2>3, <2>5, <3>1 DEF ActsLeft, Empty
  <2>6. ASSUME NEW x \in Listed("drafts"), found' = x, place' = place + 1 PROVE ActsLeft'
    <3>1. x = own BY <2>4, ListedOne DEF AsSaved
    <3>2. mailbox'["drafts"] \subseteq {Message(found)'} /\ mailbox'["deleted"] = {}
      BY <1>4, <2>3, <2>4, <2>6, <3>1 DEF AsSaved
    <3> QED BY <1>1, <1>15, <2>3, <2>6, <3>2 DEF ActsLeft
  <2> QED BY <2>1, <2>2, <2>5, <2>6 DEF SweepFind
<1>16. CASE place = 16
  <2>1. Now.part = "clean" /\ Now.call = "take" /\ Now.folder = "drafts" BY <1>1, <1>16, ActsCalls
  <2>2. SweepTake BY <1>6, <2>1, Heard
  <2>3. place' = 17 /\ TakeOut("drafts", found)
    BY <1>16, <2>1, <2>2 DEF SweepTake
  <2>4. mailbox["deleted"] = {} /\ mailbox["drafts"] \subseteq {Message(found)} BY <1>16 DEF ActsLeft
  <2>5. Empty' BY <1>3, <2>3, <2>4, TakenOut DEF Folders, Empty
  <2> QED BY <2>3, <2>5 DEF ActsLeft
<1>17. CASE place = 17
  <2>1. Now.part = "last" /\ Now.call = "disconnect" BY <1>1, <1>17, ActsCalls
  <2>2. (Plain \/ Refused) /\ UNCHANGED mailbox BY <2>1, Heard, QuietKeeps DEF Quiet
  <2>3. GoOn \/ GiveUp BY <2>2 DEF Plain, Refused
  <2>4. place' = 17 BY <1>1, <1>17, <2>1, <2>3, GoOnIs, GiveUpIs
  <2> QED BY <1>17, <2>2, <2>4 DEF ActsLeft, Empty
<1> QED BY <1>1, <1>2, <1>7, <1>8, <1>9, <1>10, <1>11, <1>12, <1>13, <1>14, <1>15, <1>16, <1>17

LEMMA LeftTalk == ASSUME PlaceInv, LeftInv, Talk, UNCHANGED before PROVE LeftInv'
<1>1. doing \in Conversations /\ place \in 1..EndOf /\ doing' = doing
  BY DEF PlaceInv, Talk, Plain, Measure, Save, Use, Mark, Submitted, MoveMessage, Locate, DeleteDraft, SweepFind,
         SweepTake, Refused, Lost, Unusable, ForgetNothing
<1>2. ASSUME doing \notin {"writes", "acts"} PROVE mailbox' = mailbox BY <1>1, <1>2, CallsThere, QuietKeeps
<1>3. ASSUME Began', alive', swept' = "fine" PROVE Began /\ alive /\ swept = "fine"
  BY <1>3, Heard DEF Began
<1>4. doing = "writes" /\ Began' /\ alive' /\ swept' = "fine" => WritesLeft' BY <1>3, WritesTalk DEF LeftInv
<1>5. doing = "acts" /\ Began' /\ alive' /\ swept' = "fine" => ActsLeft' BY <1>3, ActsTalk DEF LeftInv
<1> QED BY <1>1, <1>2, <1>4, <1>5 DEF LeftInv

LEMMA LeftStep == ASSUME PlaceInv, LeftInv, [Next]_vars PROVE LeftInv'
<1>1. CASE LoadRules
  <2>1. CASE UNCHANGED <<before, scenarioVars>>
    BY <2>1 DEF LeftInv, Began, WritesLeft, ActsLeft, Empty, AsSaved, AsMoved, OneOf, Message,
                scenarioVars, programVars, serverVars
  <2>2. CASE before' = mailbox /\ StartOver(doing) /\ UNCHANGED serverVars
    <3>1. doing' = doing /\ before' = mailbox' /\ place' = 1 BY <2>2 DEF StartOver, serverVars
    <3>2. Began' => Empty' BY <3>1 DEF Began, Empty, Folders
    <3>3. Began' => WritesLeft' /\ ActsLeft' BY <3>1, <3>2 DEF WritesLeft, ActsLeft
    <3> QED BY <3>1, <3>3 DEF LeftInv
  <2> QED BY <1>1, <2>1, <2>2 DEF LoadRules
<1>2. CASE Converse
  <2>1. Talk /\ UNCHANGED before BY <1>2 DEF Converse, captureVars
  <2> QED BY <2>1, LeftTalk
<1>3. ASSUME UNCHANGED <<before, scenarioVars>> PROVE LeftInv'
  BY <1>3 DEF LeftInv, Began, WritesLeft, ActsLeft, Empty, AsSaved, AsMoved, OneOf, Message,
              scenarioVars, programVars, serverVars
<1>4. CASE Gather BY <1>3, <1>4 DEF Gather
<1>5. CASE WriteExchange BY <1>3, <1>5 DEF WriteExchange
<1>6. CASE DiskFails BY <1>3, <1>6 DEF DiskFails
<1>7. CASE Close BY <1>3, <1>7 DEF Close
<1>8. CASE Again BY <1>3, <1>8 DEF Again
<1>9. CASE UNCHANGED vars BY <1>3, <1>9 DEF vars, captureVars
<1> QED BY <1>1, <1>2, <1>4, <1>5, <1>6, <1>7, <1>8, <1>9 DEF Next

LEMMA LeftIs == ASSUME PlaceInv, LeftInv PROVE LeftAsFound
<1>1. /\ doing \in Conversations /\ place \in 1..EndOf /\ swept \in Verdicts
      /\ mailbox = [f \in Folders |-> mailbox[f]] /\ before = [f \in Folders |-> before[f]]
      /\ doing \in Ordinary /\ ended = "ok" =>
             alive = TRUE /\ outcome = "fine" /\ swept = "fine" /\ place = EndOf
  BY DEF PlaceInv
<1>2. SUFFICES ASSUME ended # "no", Began
               PROVE  /\ ended = "ok" => mailbox = before
                      /\ (\E f \in Folders : Mine(f) # {}) =>
                             ~alive \/ swept = "failed" \/ Script(doing)[place].call = "create"
  BY DEF LeftAsFound
<1>3. Empty => mailbox = before /\ \A f \in Folders : Mine(f) = {} BY <1>1, <1>2 DEF Empty, Folders, Began, Mine
<1>4. CASE doing \notin {"writes", "acts"}
  <2>1. mailbox = before BY <1>4 DEF LeftInv
  <2>2. \A f \in Folders : Mine(f) = {} BY <1>2, <2>1 DEF Mine, Began
  <2> QED BY <2>1, <2>2
<1>5. CASE doing = "writes"
  <2>1. EndOf = 10 /\ (place = 4 => Now.call = "create") BY <1>1, <1>5, WritesCalls
  <2>2. ASSUME alive, swept = "fine" PROVE Empty \/ place = 4
    <3>1. WritesLeft BY <1>2, <1>5, <2>2 DEF LeftInv
    <3> QED BY <1>1, <1>2, <2>1, <3>1 DEF WritesLeft
  <2>3. ended = "ok" => Empty BY <1>1, <1>5, <2>1, <2>2 DEF Ordinary
  <2> QED BY <1>1, <1>3, <2>1, <2>2, <2>3 DEF Now, Verdicts
<1>6. CASE doing = "acts"
  <2>1. EndOf = 17 /\ (place = 4 => Now.call = "create") BY <1>1, <1>6, ActsCalls
  <2>2. ASSUME alive, swept = "fine" PROVE Empty \/ place = 4
    <3>1. ActsLeft BY <1>2, <1>6, <2>2 DEF LeftInv
    <3> QED BY <1>1, <1>2, <2>1, <3>1 DEF ActsLeft
  <2>3. ended = "ok" => Empty BY <1>1, <1>6, <2>1, <2>2 DEF Ordinary
  <2> QED BY <1>1, <1>3, <2>1, <2>2, <2>3 DEF Now, Verdicts
<1> QED BY <1>4, <1>5, <1>6

LEMMA PlaceStarts == ASSUME Init PROVE PlaceInv
<1>1. /\ doing \in Conversations /\ place = 1 /\ outcome = "fine" /\ swept = "fine" /\ ended = "no"
      /\ mailbox = [f \in Folders |-> {}] /\ before = mailbox
  BY DEF Init
<1>2. EndOf \in Nat /\ EndOf >= 1 BY <1>1, EndsThere
<1> QED BY <1>1, <1>2 DEF PlaceInv, Verdicts

\* A conversation that ends well leaves the mailbox as it found it, and one that fails leaves its message there only
\* for want of a connection, of its cleanup or of the answer to its save (writes.rs, acts.rs sweep).
THEOREM LeavesAsFound == Spec => []LeftAsFound
<1>1. Init => PlaceInv /\ LeftInv
  <2> SUFFICES ASSUME Init PROVE LeftInv BY PlaceStarts
  <2>1. place = 1 /\ mailbox = [f \in Folders |-> {}] /\ before = mailbox BY DEF Init
  <2>2. Empty BY <2>1 DEF Empty, Folders
  <2> QED BY <2>1, <2>2 DEF LeftInv, WritesLeft, ActsLeft
<1>2. PlaceInv /\ LeftInv /\ [Next]_vars => (PlaceInv /\ LeftInv)' BY PlaceStep, LeftStep
<1>3. PlaceInv /\ LeftInv => LeftAsFound BY LeftIs
<1> QED BY <1>1, <1>2, <1>3, PTL DEF Spec

-----------------------------------------------------------------------------
(* What was heard. *)

Peaceful(line) ==
    /\ line.call # "submit" /\ line.label # "submit-refused"
    /\ line.label = "properties-refused" => line.call = "read"

LEMMA SaysPeaceful ==
    ASSUME NEW line, NEW part, NEW call, NEW label, Says(line, part, call, label),
           call # "submit", label # "submit-refused", label # "properties-refused"
    PROVE  Peaceful(line)
BY DEF Says, Peaceful

LEMMA SaysRefused ==
    ASSUME NEW line, NEW part, Says(line, part, "read", "properties-refused")
    PROVE  Peaceful(line)
BY DEF Says, Peaceful

LEMMA SessionPeaceful == \A k \in 1..17 : Peaceful(SessionScript[k])
<1>1. /\ Peaceful(SessionScript[1]) /\ Peaceful(SessionScript[2]) /\ Peaceful(SessionScript[3])
      /\ Peaceful(SessionScript[4]) /\ Peaceful(SessionScript[5])
  BY SessionSteps, SaysPeaceful, SaysRefused
<1>2. /\ Peaceful(SessionScript[6]) /\ Peaceful(SessionScript[7]) /\ Peaceful(SessionScript[8])
      /\ Peaceful(SessionScript[9]) /\ Peaceful(SessionScript[10])
  BY SessionSteps, SaysPeaceful
<1>3. /\ Peaceful(SessionScript[11]) /\ Peaceful(SessionScript[12]) /\ Peaceful(SessionScript[13])
      /\ Peaceful(SessionScript[14]) /\ Peaceful(SessionScript[15])
  BY SessionSteps, SaysPeaceful
<1>4. /\ Peaceful(SessionScript[16]) /\ Peaceful(SessionScript[17])
  BY SessionSteps, SaysPeaceful
<1>5. \A k \in 1..5 : Peaceful(SessionScript[k])
  <2> SUFFICES ASSUME NEW k \in 1..5 PROVE Peaceful(SessionScript[k]) OBVIOUS
  <2>1. k = 1 \/ k = 2 \/ k = 3 \/ k = 4 \/ k = 5 OBVIOUS
  <2> QED BY <1>1, <2>1
<1>6. \A k \in 6..10 : Peaceful(SessionScript[k])
  <2> SUFFICES ASSUME NEW k \in 6..10 PROVE Peaceful(SessionScript[k]) OBVIOUS
  <2>1. k = 6 \/ k = 7 \/ k = 8 \/ k = 9 \/ k = 10 OBVIOUS
  <2> QED BY <1>2, <2>1
<1>7. \A k \in 11..15 : Peaceful(SessionScript[k])
  <2> SUFFICES ASSUME NEW k \in 11..15 PROVE Peaceful(SessionScript[k]) OBVIOUS
  <2>1. k = 11 \/ k = 12 \/ k = 13 \/ k = 14 \/ k = 15 OBVIOUS
  <2> QED BY <1>3, <2>1
<1>8. \A k \in 16..17 : Peaceful(SessionScript[k])
  <2> SUFFICES ASSUME NEW k \in 16..17 PROVE Peaceful(SessionScript[k]) OBVIOUS
  <2>1. k = 16 \/ k = 17 OBVIOUS
  <2> QED BY <1>4, <2>1
<1> QED BY <1>5, <1>6, <1>7, <1>8

LEMMA ItemsPeaceful == \A k \in 1..20 : Peaceful(ItemsScript[k])
<1>1. /\ Peaceful(ItemsScript[1]) /\ Peaceful(ItemsScript[2]) /\ Peaceful(ItemsScript[3])
      /\ Peaceful(ItemsScript[4]) /\ Peaceful(ItemsScript[5])
  BY ItemsSteps, SaysPeaceful
<1>2. /\ Peaceful(ItemsScript[6]) /\ Peaceful(ItemsScript[7]) /\ Peaceful(ItemsScript[8])
      /\ Peaceful(ItemsScript[9]) /\ Peaceful(ItemsScript[10])
  BY ItemsSteps, SaysPeaceful
<1>3. /\ Peaceful(ItemsScript[11]) /\ Peaceful(ItemsScript[12]) /\ Peaceful(ItemsScript[13])
      /\ Peaceful(ItemsScript[14]) /\ Peaceful(ItemsScript[15])
  BY ItemsSteps, SaysPeaceful
<1>4. /\ Peaceful(ItemsScript[16]) /\ Peaceful(ItemsScript[17]) /\ Peaceful(ItemsScript[18])
      /\ Peaceful(ItemsScript[19]) /\ Peaceful(ItemsScript[20])
  BY ItemsSteps, SaysPeaceful
<1>5. \A k \in 1..5 : Peaceful(ItemsScript[k])
  <2> SUFFICES ASSUME NEW k \in 1..5 PROVE Peaceful(ItemsScript[k]) OBVIOUS
  <2>1. k = 1 \/ k = 2 \/ k = 3 \/ k = 4 \/ k = 5 OBVIOUS
  <2> QED BY <1>1, <2>1
<1>6. \A k \in 6..10 : Peaceful(ItemsScript[k])
  <2> SUFFICES ASSUME NEW k \in 6..10 PROVE Peaceful(ItemsScript[k]) OBVIOUS
  <2>1. k = 6 \/ k = 7 \/ k = 8 \/ k = 9 \/ k = 10 OBVIOUS
  <2> QED BY <1>2, <2>1
<1>7. \A k \in 11..15 : Peaceful(ItemsScript[k])
  <2> SUFFICES ASSUME NEW k \in 11..15 PROVE Peaceful(ItemsScript[k]) OBVIOUS
  <2>1. k = 11 \/ k = 12 \/ k = 13 \/ k = 14 \/ k = 15 OBVIOUS
  <2> QED BY <1>3, <2>1
<1>8. \A k \in 16..20 : Peaceful(ItemsScript[k])
  <2> SUFFICES ASSUME NEW k \in 16..20 PROVE Peaceful(ItemsScript[k]) OBVIOUS
  <2>1. k = 16 \/ k = 17 \/ k = 18 \/ k = 19 \/ k = 20 OBVIOUS
  <2> QED BY <1>4, <2>1
<1> QED BY <1>5, <1>6, <1>7, <1>8

LEMMA WritesPeaceful == \A k \in 1..10 : Peaceful(WritesScript[k])
<1>1. /\ Peaceful(WritesScript[1]) /\ Peaceful(WritesScript[2]) /\ Peaceful(WritesScript[3])
      /\ Peaceful(WritesScript[4]) /\ Peaceful(WritesScript[5])
  BY WritesSteps, SaysPeaceful
<1>2. /\ Peaceful(WritesScript[6]) /\ Peaceful(WritesScript[7]) /\ Peaceful(WritesScript[8])
      /\ Peaceful(WritesScript[9]) /\ Peaceful(WritesScript[10])
  BY WritesSteps, SaysPeaceful
<1>3. \A k \in 1..5 : Peaceful(WritesScript[k])
  <2> SUFFICES ASSUME NEW k \in 1..5 PROVE Peaceful(WritesScript[k]) OBVIOUS
  <2>1. k = 1 \/ k = 2 \/ k = 3 \/ k = 4 \/ k = 5 OBVIOUS
  <2> QED BY <1>1, <2>1
<1>4. \A k \in 6..10 : Peaceful(WritesScript[k])
  <2> SUFFICES ASSUME NEW k \in 6..10 PROVE Peaceful(WritesScript[k]) OBVIOUS
  <2>1. k = 6 \/ k = 7 \/ k = 8 \/ k = 9 \/ k = 10 OBVIOUS
  <2> QED BY <1>2, <2>1
<1> QED BY <1>3, <1>4

LEMMA ActsPeaceful == \A k \in 1..17 \ {10} : Peaceful(ActsScript[k])
<1>1. /\ Peaceful(ActsScript[1]) /\ Peaceful(ActsScript[2]) /\ Peaceful(ActsScript[3])
      /\ Peaceful(ActsScript[4]) /\ Peaceful(ActsScript[5])
  BY ActsSteps, SaysPeaceful
<1>2. /\ Peaceful(ActsScript[6]) /\ Peaceful(ActsScript[7]) /\ Peaceful(ActsScript[8])
      /\ Peaceful(ActsScript[9])
  BY ActsSteps, SaysPeaceful
<1>3. /\ Peaceful(ActsScript[11]) /\ Peaceful(ActsScript[12]) /\ Peaceful(ActsScript[13])
      /\ Peaceful(ActsScript[14]) /\ Peaceful(ActsScript[15])
  BY ActsSteps, SaysPeaceful
<1>4. /\ Peaceful(ActsScript[16]) /\ Peaceful(ActsScript[17])
  BY ActsSteps, SaysPeaceful
<1>5. \A k \in 1..5 : Peaceful(ActsScript[k])
  <2> SUFFICES ASSUME NEW k \in 1..5 PROVE Peaceful(ActsScript[k]) OBVIOUS
  <2>1. k = 1 \/ k = 2 \/ k = 3 \/ k = 4 \/ k = 5 OBVIOUS
  <2> QED BY <1>1, <2>1
<1>6. \A k \in 6..10 \ {10} : Peaceful(ActsScript[k])
  <2> SUFFICES ASSUME NEW k \in 6..10 \ {10} PROVE Peaceful(ActsScript[k]) OBVIOUS
  <2>1. k = 6 \/ k = 7 \/ k = 8 \/ k = 9 OBVIOUS
  <2> QED BY <1>2, <2>1
<1>7. \A k \in 11..15 : Peaceful(ActsScript[k])
  <2> SUFFICES ASSUME NEW k \in 11..15 PROVE Peaceful(ActsScript[k]) OBVIOUS
  <2>1. k = 11 \/ k = 12 \/ k = 13 \/ k = 14 \/ k = 15 OBVIOUS
  <2> QED BY <1>3, <2>1
<1>8. \A k \in 16..17 : Peaceful(ActsScript[k])
  <2> SUFFICES ASSUME NEW k \in 16..17 PROVE Peaceful(ActsScript[k]) OBVIOUS
  <2>1. k = 16 \/ k = 17 OBVIOUS
  <2> QED BY <1>4, <2>1
<1> QED BY <1>5, <1>6, <1>7, <1>8

LEMMA SubmitLabelled ==
    ASSUME doing \in Ordinary, place \in 1..EndOf
    PROVE  /\ Now.label = "submit-refused" <=> Now.call = "submit"
           /\ Now.label = "properties-refused" => Now.call = "read"
<1>1. CASE doing = "session"
  <2>1. EndOf = 17 BY <1>1, ScriptOf, SessionParts DEF EndOf, Ends
  <2> QED BY <1>1, <2>1, ScriptOf, SessionPeaceful DEF Now, Peaceful
<1>2. CASE doing = "items"
  <2>1. EndOf = 20 BY <1>2, ScriptOf, ItemsParts DEF EndOf, Ends
  <2> QED BY <1>2, <2>1, ScriptOf, ItemsPeaceful DEF Now, Peaceful
<1>3. CASE doing = "writes"
  <2>1. EndOf = 10 BY <1>3, ScriptOf, WritesParts DEF EndOf, Ends
  <2> QED BY <1>3, <2>1, ScriptOf, WritesPeaceful DEF Now, Peaceful
<1>4. CASE doing = "acts"
  <2>1. EndOf = 17 BY <1>4, ScriptOf, ActsParts DEF EndOf, Ends
  <2>2. place # 10 => Peaceful(Now) BY <1>4, <2>1, ScriptOf, ActsPeaceful DEF Now
  <2>3. ActsScript[10].call = "submit" /\ ActsScript[10].label = "submit-refused" BY ActsSteps DEF Says
  <2> QED BY <1>4, <2>2, <2>3, ScriptOf DEF Now, Peaceful
<1> QED BY <1>1, <1>2, <1>3, <1>4 DEF Ordinary

LEMMA SweepLabels ==
    /\ ActsScript[13].label = ActsScript[14].label
    /\ ActsScript[15].label = ActsScript[16].label
BY ActsSteps DEF Says

LEMMA InOrder ==
    ASSUME NEW S, IsFiniteSet(S)
    PROVE  SetToSeq(S) \in Seq(S)
<1>1. Cardinality(S) \in Nat /\ ExistsBijection(1..Cardinality(S), S) BY FS_CardinalityType
<1>2. \E f \in [1..Cardinality(S) -> S] : IsInjective(f)
  BY <1>1 DEF ExistsBijection, Bijection, Injection
<1>3. SetToSeq(S) \in [1..Cardinality(S) -> S] BY <1>2 DEF SetToSeq
<1> QED BY <1>1, <1>3


LEMMA FiniteImage ==
    ASSUME NEW g, IsFiniteSet(DOMAIN g), g = [x \in DOMAIN g |-> g[x]]
    PROVE  IsFiniteSet({g[x] : x \in DOMAIN g})
<1> DEFINE T == {g[x] : x \in DOMAIN g}
<1>1. g \in Surjection(DOMAIN g, T) BY DEF Surjection
<1> QED BY <1>1, FS_Surjection

Tidy(s) == Listing(s) /\ \A k \in DOMAIN s : Listing(s[k].tells)

\* There are only so many messages, and what was heard is a sequence of exchanges that tell sequences.
ToldInv ==
    /\ \A f \in Folders : IsFiniteSet(mailbox[f])
    /\ Tidy(told)

LEMMA ListedFinite == ASSUME NEW folder, IsFiniteSet(mailbox[folder]) PROVE Listing(SetToSeq(Listed(folder)))
<1> DEFINE S == {n \in mailbox[folder] : n.by = doing}
           g == [m \in S |-> m.id]
<1>1. IsFiniteSet(S) BY FS_Subset
<1>2. DOMAIN g = S /\ g = [m \in DOMAIN g |-> g[m]] /\ \A m \in S : g[m] = m.id OBVIOUS
<1>3. Listed(folder) = {g[m] : m \in DOMAIN g} BY <1>2 DEF Listed
<1> HIDE DEF g, S
<1>4. IsFiniteSet(Listed(folder)) BY <1>1, <1>2, <1>3, FiniteImage
<1> QED BY <1>4, InOrder, SeqOfRange DEF Listing

LEMMA ServerFinite ==
    ASSUME mailbox = [f \in Folders |-> mailbox[f]], \A f \in Folders : IsFiniteSet(mailbox[f]),
           NEW i, NEW folder,
           Create \/ (\E renamed \in BOOLEAN : Move(i, renamed)) \/ TakeOut(folder, i) \/ UNCHANGED mailbox
    PROVE  \A f \in Folders : IsFiniteSet(mailbox'[f])
<1>1. CASE Create
  <2>1. mailbox' = [mailbox EXCEPT !["drafts"] = @ \cup {Message(minted + 1)}] BY <1>1 DEF Create
  <2>2. \A f \in Folders : mailbox'[f] = mailbox[f] \/ mailbox'[f] = mailbox[f] \cup {Message(minted + 1)} BY <2>1
  <2> QED BY <2>2, FS_AddElement
<1>2. CASE \E renamed \in BOOLEAN : Move(i, renamed)
  <2>1. PICK renamed \in BOOLEAN : Move(i, renamed) BY <1>2
  <2> DEFINE g == [m \in Named("drafts", i) |-> [m EXCEPT !.id = IF renamed THEN minted + 1 ELSE @]]
             moved == {[m EXCEPT !.id = IF renamed THEN minted + 1 ELSE @] : m \in Named("drafts", i)}
  <2>2. /\ mailbox'["drafts"] = mailbox["drafts"] \ Named("drafts", i)
        /\ mailbox'["deleted"] = mailbox["deleted"] \cup moved
    BY <2>1 DEF Move, Folders
  <2>3. IsFiniteSet(Named("drafts", i)) BY FS_Subset DEF Named, Folders
  <2>4. DOMAIN g = Named("drafts", i) /\ g = [m \in DOMAIN g |-> g[m]] OBVIOUS
  <2>5. moved = {g[m] : m \in DOMAIN g} BY <2>4
  <2>6. IsFiniteSet(moved)
    <3> HIDE DEF g, moved
    <3> QED BY <2>3, <2>4, <2>5, FiniteImage
  <2>7. IsFiniteSet(mailbox'["deleted"])
    <3> HIDE DEF moved
    <3>1. IsFiniteSet(mailbox["deleted"]) BY DEF Folders
    <3>2. IsFiniteSet(mailbox["deleted"] \cup moved) BY <2>6, <3>1, FS_Union
    <3> QED BY <2>2, <3>2
  <2>8. IsFiniteSet(mailbox'["drafts"]) BY <2>2, FS_Subset DEF Folders
  <2> QED BY <2>7, <2>8 DEF Folders
<1>3. CASE TakeOut(folder, i)
  <2>1. mailbox' = [mailbox EXCEPT ![folder] = @ \ Named(folder, i)] BY <1>3 DEF TakeOut
  <2>2. \A f \in Folders : mailbox'[f] \in SUBSET mailbox[f] BY <2>1
  <2> QED BY <2>2, FS_Subset
<1>4. CASE UNCHANGED mailbox BY <1>4
<1> QED BY <1>1, <1>2, <1>3, <1>4

LEMMA Exchanged ==
    ASSUME NEW call, NEW asks, NEW tells, NEW refused
    PROVE  LET exchange == Exchange(call, asks, tells, refused)
           IN  exchange.call = call /\ exchange.label = Now.label /\ exchange.asks = asks /\ exchange.tells = tells
BY DEF Exchange

LEMMA TidyAppend ==
    ASSUME NEW s, Tidy(s), NEW e, Listing(e.tells)
    PROVE  Tidy(Append(s, e))
<1>1. s \in Seq(Range(s)) BY DEF Tidy, Listing
<1> QED BY <1>1, AppendTo DEF Tidy, Listing

LEMMA ToldTalk == ASSUME PlaceInv, ToldInv, Talk PROVE ToldInv'
<1>1. mailbox = [f \in Folders |-> mailbox[f]] BY DEF PlaceInv
<1>2. \A f \in Folders : IsFiniteSet(mailbox'[f])
  <2>1. \/ Create
        \/ \E i : (\E renamed \in BOOLEAN : Move(i, renamed)) \/ TakeOut("drafts", i) \/ TakeOut(Now.folder, i)
        \/ UNCHANGED mailbox
    BY DEF Talk, Plain, Measure, Save, Use, Mark, Submitted, MoveMessage, Locate, DeleteDraft, SweepFind, SweepTake,
           Refused, Lost, Unusable, Effect, Unmoved
  <2> QED BY <1>1, <2>1, ServerFinite DEF ToldInv
<1>3. Listing(<<>>) /\ \A x : Listing(<<x>>)
  <2>1. <<>> \in Seq(Range(<<>>)) OBVIOUS
  <2> QED BY <2>1, Listing1 DEF Listing
<1>4. \/ \E tells, call, asks, refused : Listing(tells) /\ told' = Append(told, Exchange(call, asks, tells, refused))
      \/ UNCHANGED told
      \/ Refused
  <2>1. Listing(SetToSeq(Listed("deleted"))) BY ListedFinite DEF ToldInv, Folders
  <2>2. CASE SweepFind
    <3>1. Now.folder \in Folders
      <4>1. doing \in Conversations /\ place \in 1..EndOf /\ Now.call = "find" BY <2>2 DEF PlaceInv, SweepFind, Served
      <4>2. doing = "writes" \/ doing = "acts" BY <4>1, CallsThere DEF Quiet
      <4>3. CASE doing = "writes"
        <5>1. place \in 1..3 \/ place = 4 \/ place \in 5..8 \/ place = 9 \/ place = 10 BY <4>1, <4>3, WritesCalls
        <5> QED BY <4>1, <4>3, <5>1, WritesCalls DEF Early
      <4>4. CASE doing = "acts"
        <5>1. \/ place \in 1..3 \/ place = 4 \/ place \in 5..9 \/ place = 10 \/ place = 11 \/ place = 12
              \/ place \in {13, 15} \/ place \in {14, 16} \/ place = 17
          BY <4>1, <4>4, ActsCalls
        <5> QED BY <4>1, <4>4, <5>1, ActsCalls DEF Early, Folders
      <4> QED BY <4>2, <4>3, <4>4
    <3>2. Listing(SetToSeq(Listed(Now.folder))) BY <3>1, ListedFinite DEF ToldInv
    <3> QED BY <2>2, <3>2 DEF SweepFind, Observe, Observed
  <2>3. CASE Locate BY <2>1, <2>3 DEF Locate, Observe, Observed
  <2>4. CASE Plain BY <1>3, <2>4 DEF Plain, Observe, Observed
  <2>5. CASE Measure BY <1>3, <2>5 DEF Measure, Observe, Observed
  <2>6. CASE Save BY <1>3, <2>6 DEF Save, Observe, Observed
  <2>7. CASE Use BY <1>3, <2>7 DEF Use, Observe, Observed
  <2>8. CASE Mark BY <1>3, <2>8 DEF Mark, Observe, Observed
  <2>9. CASE Submitted BY <1>3, <2>9 DEF Submitted, Observe, Observed
  <2>10. CASE MoveMessage BY <1>3, <2>10 DEF MoveMessage, Observe, Observed
  <2>11. CASE DeleteDraft BY <1>3, <2>11 DEF DeleteDraft, Observe, Observed
  <2>12. CASE SweepTake BY <1>3, <2>12 DEF SweepTake, Observe, Observed
  <2>13. CASE Lost \/ Unusable BY <2>13 DEF Lost, Unusable
  <2> QED BY <2>2, <2>3, <2>4, <2>5, <2>6, <2>7, <2>8, <2>9, <2>10, <2>11, <2>12, <2>13 DEF Talk
<1>5. CASE \E tells, call, asks, refused : Listing(tells) /\ told' = Append(told, Exchange(call, asks, tells, refused))
  <2>1. PICK tells, call, asks, refused : Listing(tells) /\ told' = Append(told, Exchange(call, asks, tells, refused))
    BY <1>5
  <2>2. Listing(Exchange(call, asks, tells, refused).tells) BY <2>1, Exchanged
  <2>3. Tidy(told') BY <2>1, <2>2, TidyAppend DEF ToldInv
  <2> QED BY <1>2, <2>3 DEF ToldInv, Tidy, Listing
<1>6. CASE UNCHANGED told BY <1>2, <1>6 DEF ToldInv, Tidy, Listing
<1>7. CASE Refused
  <2> DEFINE one == Exchange(Now.call,
                             IF Now.call \in {"use", "mark", "submit", "move", "delete"} THEN <<own>> ELSE <<>>,
                             <<>>, "call")
             two == Exchange("disconnect", <<>>, <<>>, "nothing")
  <2>1. told' = told \o <<one>> \o (IF Now.call = "logon" THEN <<two>> ELSE <<>>) BY <1>7 DEF Refused
  <2>2. Listing(one.tells) /\ Listing(two.tells)
    <3>1. one.tells = <<>> /\ two.tells = <<>> BY DEF Exchange
    <3> QED BY <1>3, <3>1
  <2> HIDE DEF one, two
  <2>3. told \in Seq(Range(told)) /\ Tidy(told) BY DEF ToldInv, Tidy, Listing
  <2>4. Append(told, one) = told \o <<one>> /\ Tidy(Append(told, one)) BY <2>2, <2>3, AppendIsConcat, TidyAppend
  <2>5. LET s == Append(told, one) IN Append(s, two) = s \o <<two>> /\ s \o <<>> = s /\ Tidy(Append(s, two))
    <3> DEFINE s == Append(told, one)
    <3>1. s \in Seq(Range(s)) BY <2>4 DEF Tidy, Listing
    <3> HIDE DEF s
    <3>2. Append(s, two) = s \o <<two>> /\ s \o <<>> = s BY <3>1, AppendIsConcat, ConcatEmptySeq
    <3> QED BY <2>2, <2>4, <3>2, TidyAppend DEF s
  <2>6. Tidy(told') BY <2>1, <2>4, <2>5
  <2> QED BY <1>2, <2>6 DEF ToldInv, Tidy, Listing
<1> QED BY <1>4, <1>5, <1>6, <1>7


\* How far a conversation has come.
Reached == IF ended = "ok" THEN place ELSE place - 1
Labels == {Script(doing)[k].label : k \in 1..Reached}

\* A conversation that is to succeed and still may.
Fit == doing \in Ordinary /\ alive /\ outcome = "fine" /\ swept = "fine" /\ ended \in {"no", "ok"}

\* What may be refused of an exchange by its label, or "nothing".
Fair(label) == IF MustRefuse(label) = {} THEN MayRefuse(label) \cup {"nothing"} ELSE MustRefuse(label)
Meant(exchange) == exchange.refused \in Fair(exchange.label)

\* It has heard an answer at every label up to here, and was refused what it was meant to be.
HeardInv ==
    Fit => /\ \A k \in DOMAIN told : Meant(told[k])
           /\ {told[k].label : k \in DOMAIN told} = Labels

LEMMA FairIs ==
    /\ \A line : line.label # "submit-refused" => Accepted(line) = Fair(line.label)
    /\ Fair("submit-refused") = {"call"}
    /\ \A label : label \notin {"submit-refused", "properties-refused"} => "nothing" \in Fair(label)
<1>1. \A label : label \notin {"submit-refused", "properties-refused"} =>
        /\ MustRefuse(label) = {}
        /\ MayRefuse(label) = (IF label \in CreateSteps THEN {"property"} ELSE {})
                              \cup (IF label \in FolderSteps THEN {"others"} ELSE {})
  BY DEF MustRefuse, MayRefuse
<1>2. MustRefuse("submit-refused") = {"call"} /\ MustRefuse("properties-refused") = {"property"} BY DEF MustRefuse
<1>3. \A label : label \notin {"submit-refused", "properties-refused"} => Fair(label) = MayRefuse(label) \cup {"nothing"}
  BY <1>1 DEF Fair
<1>4. Fair("submit-refused") = {"call"} /\ Fair("properties-refused") = {"property"} BY <1>2 DEF Fair
<1>5. ASSUME NEW line, line.label # "submit-refused" PROVE Accepted(line) = Fair(line.label)
  <2>1. CASE line.label = "properties-refused" BY <1>4, <2>1 DEF Accepted
  <2>2. CASE line.label # "properties-refused"
    <3>1. Accepted(line) = {"nothing"} \cup (IF line.label \in FolderSteps THEN {"others"} ELSE {})
                                      \cup (IF line.label \in CreateSteps THEN {"property"} ELSE {})
      BY <2>2 DEF Accepted, PartRefused
    <3> QED BY <1>1, <1>3, <1>5, <2>2, <3>1
  <2> QED BY <2>1, <2>2
<1> QED BY <1>3, <1>4, <1>5

LEMMA FitStep ==
    ASSUME PlaceInv, ToldInv, Talk, Fit'
    PROVE  /\ Fit /\ ended = "no" /\ doing' = doing
           /\ \E asks, tells, refused :
                 /\ told' = Append(told, Exchange(Now.call, asks, tells, refused))
                 /\ Meant(Exchange(Now.call, asks, tells, refused))
           /\ GoOn \/ SweepFind \/ (Now.part = "clean" /\ place' = place + 1 /\ ended' = ended)
<1>1. /\ doing \in Conversations /\ place \in 1..EndOf /\ outcome \in Verdicts BY DEF PlaceInv
<1>2. alive' /\ swept' = "fine" /\ outcome' = "fine" /\ ended' # "failed" /\ doing' \in Ordinary BY DEF Fit
<1>3. ended = "no" /\ alive /\ swept = "fine" /\ doing' = doing /\ doing \in Ordinary BY <1>2, Heard
<1>4. ~GiveUp
  <2> SUFFICES ASSUME GiveUp PROVE FALSE OBVIOUS
  <2>1. Now.part \in {"plain", "guarded", "clean", "last"} BY <1>1, <1>3, CallsThere
  <2> QED BY <1>2, <1>3, <2>1, GiveUpIs
<1>5. outcome = "fine"
  <2>1. GoOn => outcome' = outcome
    <3>1. Now.part # "refusal" BY <1>1, <1>3, CallsThere
    <3> QED BY <1>3, <3>1, GoOnIs
  <2> QED BY <1>2, <1>3, <1>4, <2>1, Heard DEF Plain, Measure, Save, Use, Mark, Submitted, MoveMessage, Locate,
          DeleteDraft, SweepFind, SweepTake, Refused
<1>6. Fit BY <1>3, <1>5 DEF Fit
<1>7. /\ Now.label = "submit-refused" <=> Now.call = "submit"
      /\ Now.label = "properties-refused" => Now.call = "read"
  BY <1>1, <1>3, SubmitLabelled
<1>8. ASSUME NEW asks, NEW tells, NEW refused, refused \in Fair(Now.label)
      PROVE  Meant(Exchange(Now.call, asks, tells, refused))
  <2>1. Exchange(Now.call, asks, tells, refused).refused = refused BY DEF Exchange
  <2>2. Exchange(Now.call, asks, tells, refused).label = Now.label BY DEF Exchange
  <2> QED BY <1>8, <2>1, <2>2 DEF Meant
<1>9. ASSUME NEW asks, NEW tells, Now.call = "submit" PROVE Meant(Exchange(Now.call, asks, tells, "call"))
  BY <1>7, <1>8, <1>9, FairIs
<1>10. CASE Refused
  <2>1. Now.call = "submit" /\ GoOn BY <1>4, <1>10, RefusedKeeps
  <2>2. told' = told \o <<Exchange(Now.call, <<own>>, <<>>, "call")>> \o <<>> BY <1>10, <2>1 DEF Refused
  <2> DEFINE e == Exchange(Now.call, <<own>>, <<>>, "call")
  <2>3. told' = Append(told, e)
    <3> HIDE DEF e
    <3>1. told \in Seq(Range(told)) BY DEF ToldInv, Tidy, Listing
    <3>2. told \o <<e>> = Append(told, e) /\ Append(told, e) \in Seq(Range(Append(told, e)))
      BY <3>1, AppendIsConcat, AppendTo
    <3>3. Append(told, e) \o <<>> = Append(told, e) BY <3>2, ConcatEmptySeq
    <3> QED BY <2>2, <3>2, <3>3 DEF e
  <2> QED BY <1>3, <1>6, <1>9, <2>1, <2>3
<1>11. ASSUME NEW asks, NEW tells, Observe(asks, tells), Now.call \notin {"submit", "read"}
       PROVE  \E a, t, refused : told' = Append(told, Exchange(Now.call, a, t, refused))
                                 /\ Meant(Exchange(Now.call, a, t, refused))
  <2>1. told' = Append(told, Exchange(Now.call, asks, tells, "nothing")) BY <1>11 DEF Observe, Observed
  <2>2. "nothing" \in Fair(Now.label) BY <1>7, <1>11, FairIs
  <2> QED BY <1>8, <2>1, <2>2
<1>24. ASSUME NEW asks, NEW tells, NEW refused \in Accepted(Now), Observed(asks, tells, refused), Now.call # "submit"
       PROVE  \E a, t, x : told' = Append(told, Exchange(Now.call, a, t, x)) /\ Meant(Exchange(Now.call, a, t, x))
  <2>1. told' = Append(told, Exchange(Now.call, asks, tells, refused)) BY <1>24 DEF Observed
  <2>2. refused \in Fair(Now.label) BY <1>7, <1>24, FairIs
  <2> QED BY <1>8, <2>1, <2>2
<1>12. Now.call \in {"delete", "take"} => Now.part = "clean"
  <2> SUFFICES ASSUME Now.call \in {"delete", "take"} PROVE Now.part = "clean" OBVIOUS
  <2>1. doing = "writes" \/ doing = "acts" BY <1>1, CallsThere DEF Quiet
  <2>2. CASE doing = "writes"
    <3>1. place \in 1..3 \/ place = 4 \/ place \in 5..8 \/ place = 9 \/ place = 10 BY <1>1, <2>2, WritesCalls
    <3> QED BY <1>1, <2>2, <3>1, WritesCalls DEF Early
  <2>3. CASE doing = "acts"
    <3>1. \/ place \in 1..3 \/ place = 4 \/ place \in 5..9 \/ place = 10 \/ place = 11 \/ place = 12
          \/ place \in {13, 15} \/ place \in {14, 16} \/ place = 17
      BY <1>1, <2>3, ActsCalls
    <3> QED BY <1>1, <2>3, <3>1, ActsCalls DEF Early
  <2> QED BY <2>1, <2>2, <2>3
<1>13. CASE Plain BY <1>3, <1>4, <1>6, <1>13, <1>24 DEF Plain
<1>14. CASE Measure BY <1>3, <1>4, <1>6, <1>11, <1>14 DEF Measure, Served
<1>15. CASE Save BY <1>3, <1>4, <1>6, <1>15, <1>24 DEF Save, Served
<1>16. CASE Use BY <1>3, <1>4, <1>6, <1>11, <1>16 DEF Use, Served
<1>17. CASE Mark BY <1>3, <1>4, <1>6, <1>11, <1>17 DEF Mark, Served
<1>18. CASE Submitted BY <1>4, <1>18 DEF Submitted
<1>19. CASE MoveMessage BY <1>3, <1>4, <1>6, <1>11, <1>19 DEF MoveMessage, Served
<1>20. CASE Locate BY <1>3, <1>4, <1>6, <1>11, <1>20 DEF Locate, Served
<1>21. CASE DeleteDraft BY <1>3, <1>6, <1>11, <1>12, <1>21 DEF DeleteDraft, Served
<1>22. CASE SweepFind BY <1>3, <1>6, <1>11, <1>22 DEF SweepFind, Served
<1>23. CASE SweepTake BY <1>3, <1>6, <1>11, <1>12, <1>23 DEF SweepTake, Served
<1> QED BY <1>2, <1>10, <1>13, <1>14, <1>15, <1>16, <1>17, <1>18, <1>19, <1>20, <1>21, <1>22, <1>23, Heard

LEMMA HeardTalk == ASSUME PlaceInv, ToldInv, HeardInv, Talk PROVE HeardInv'
<1> SUFFICES ASSUME Fit'
             PROVE  /\ \A k \in DOMAIN told' : Meant(told'[k])
                    /\ {told'[k].label : k \in DOMAIN told'} = Labels'
  BY DEF HeardInv, Meant
<1>1. doing \in Conversations /\ place \in 1..EndOf /\ EndOf \in Nat BY EndsThere DEF PlaceInv
<1>2. Fit /\ ended = "no" /\ doing' = doing BY FitStep
<1>3. doing \in Ordinary BY <1>2 DEF Fit
<1>4. PICK asks, tells, refused :
         /\ told' = Append(told, Exchange(Now.call, asks, tells, refused))
         /\ Meant(Exchange(Now.call, asks, tells, refused))
  BY FitStep
<1> DEFINE e == Exchange(Now.call, asks, tells, refused)
<1>5. e.label = Now.label BY DEF Exchange
<1> HIDE DEF e
<1>6. told' = Append(told, e) /\ Meant(e) BY <1>4 DEF e
<1>7. /\ told \in Seq(Range(told)) /\ Len(told) \in Nat /\ DOMAIN told = 1..Len(told)
      /\ DOMAIN told' = 1..(Len(told) + 1) /\ told'[Len(told) + 1] = e
      /\ \A k \in 1..Len(told) : told'[k] = told[k]
  BY <1>6, AppendTo DEF ToldInv, Tidy, Listing
<1>8. \A k \in DOMAIN told' : Meant(told'[k]) BY <1>2, <1>6, <1>7 DEF HeardInv
<1>9. {told'[k].label : k \in DOMAIN told'} = {told[k].label : k \in DOMAIN told} \cup {Now.label}
  <2>1. \A k \in DOMAIN told' : k = Len(told) + 1 \/ k \in DOMAIN told BY <1>7
  <2>2. Len(told) + 1 \in DOMAIN told' /\ \A k \in DOMAIN told : k \in DOMAIN told' BY <1>7
  <2> QED BY <1>5, <1>7, <2>1, <2>2
<1>10. Labels = {Script(doing)[k].label : k \in 1..(place - 1)} BY <1>2 DEF Labels, Reached
<1>11. \/ Reached' = place
       \/ Reached' = place + 1 /\ Script(doing)[place + 1].label = Now.label
  <2>1. CASE GoOn
    <3>1. CASE Now.part = "last"
      <4>1. place' = place BY <1>2, <2>1, <3>1, GoOnIs
      <4>2. ended' # "no" BY <2>1, <3>1 DEF GoOn, End
      <4> QED BY <4>1, <4>2 DEF Fit, Reached
    <3>2. CASE Now.part # "last"
      <4>1. Now.part # "refusal" BY <1>1, <1>3, CallsThere
      <4>2. place' = place + 1 /\ ended' = "no" BY <1>2, <2>1, <3>2, <4>1, GoOnIs
      <4> QED BY <1>1, <4>2 DEF Reached
    <3> QED BY <3>1, <3>2
  <2>2. CASE SweepFind
    <3>1. (place' = place + 1 \/ place' = place + 2) /\ ended' = "no" /\ Now.call = "find"
      BY <1>2, <2>2 DEF SweepFind, Served
    <3>2. doing = "writes" \/ doing = "acts" BY <1>1, <3>1, CallsThere DEF Quiet
    <3>3. doing # "writes"
      <4> SUFFICES ASSUME doing = "writes" PROVE FALSE OBVIOUS
      <4>1. place \in 1..3 \/ place = 4 \/ place \in 5..8 \/ place = 9 \/ place = 10 BY <1>1, WritesCalls
      <4> QED BY <1>1, <3>1, <4>1, WritesCalls DEF Early
    <3>4. doing = "acts" BY <3>2, <3>3
    <3>5. place = 13 \/ place = 15
      <4>1. \/ place \in 1..3 \/ place = 4 \/ place \in 5..9 \/ place = 10 \/ place = 11 \/ place = 12
            \/ place \in {13, 15} \/ place \in {14, 16} \/ place = 17
        BY <1>1, <3>4, ActsCalls
      <4> QED BY <1>1, <3>1, <3>4, <4>1, ActsCalls DEF Early
    <3>6. Script(doing)[place + 1].label = Now.label BY <3>4, <3>5, ScriptOf, SweepLabels DEF Now
    <3> QED BY <1>1, <3>1, <3>6 DEF Reached
  <2>3. CASE place' = place + 1 /\ ended' = ended BY <1>1, <1>2, <2>3 DEF Reached
  <2> QED BY <2>1, <2>2, <2>3, FitStep
<1>12. Labels' = {Script(doing)[k].label : k \in 1..Reached'}
  <2>1. Script(doing)' = Script(doing) BY <1>2 DEF Script
  <2> QED BY <2>1 DEF Labels
<1>13. Labels' = Labels \cup {Now.label}
  <2>1. \A k \in 1..(place - 1) : k \in 1..Reached' BY <1>1, <1>11
  <2>2. place \in 1..Reached' BY <1>1, <1>11
  <2>3. \A k \in 1..Reached' : k \in 1..(place - 1) \/ Script(doing)[k].label = Now.label BY <1>1, <1>11 DEF Now
  <2>4. Now.label = Script(doing)[place].label BY DEF Now
  <2> HIDE DEF Labels
  <2> QED BY <1>10, <1>12, <2>1, <2>2, <2>3, <2>4
<1> QED BY <1>2, <1>8, <1>9, <1>13 DEF HeardInv

-----------------------------------------------------------------------------
(* What is written of it. *)

LEMMA FromZero ==
    ASSUME NEW S, 0 \in S, \A n \in S \cap Nat : n + 1 \in S
    PROVE  \A n \in Nat : n \in S
<1>1. S \cap Nat = Nat
  <2>1. S \cap Nat \subseteq Nat /\ 0 \in S \cap Nat /\ \A n \in S \cap Nat : n + 1 \in S \cap Nat OBVIOUS
  <2> QED BY <2>1, SetInduction
<1> QED BY <1>1

\* One rule put to what the ones before it left.
Ruled(done, rule) ==
    LET count == Cardinality(Occurrences(done.content, rule.needle))
    IN  IF count = 0 THEN done
        ELSE [content |-> Replaced(done.content, rule),
              hits |-> Append(done.hits, <<rule.replacement, count>>)]

RuledUpTo(g, rs, content, n) ==
    g = [k \in 0..n |-> IF k = 0 THEN [content |-> content, hits |-> <<>>] ELSE Ruled(g[k - 1], rs[k])]

LEMMA ApplyIs ==
    ASSUME NEW rs, Len(rs) \in Nat, NEW content
    PROVE  \E g : RuledUpTo(g, rs, content, Len(rs)) /\ Apply(rs, content) = g[Len(rs)]
<1> DEFINE start == [content |-> content, hits |-> <<>>]
           S == {n \in Nat : \E g : RuledUpTo(g, rs, content, n)}
<1>1. 0 \in S
  <2> DEFINE g == [k \in 0..0 |-> start]
  <2>1. \A k \in 0..0 : k = 0 OBVIOUS
  <2>2. g = [k \in 0..0 |-> IF k = 0 THEN start ELSE Ruled(g[k - 1], rs[k])] BY <2>1
  <2> QED BY <2>2 DEF RuledUpTo
<1>2. ASSUME NEW n \in S \cap Nat PROVE n + 1 \in S
  <2>1. PICK g : RuledUpTo(g, rs, content, n) BY <1>2
  <2> DEFINE h == [k \in 0..(n + 1) |-> IF k = n + 1 THEN Ruled(g[n], rs[n + 1]) ELSE g[k]]
  <2>2. ASSUME NEW k \in 0..(n + 1) PROVE h[k] = IF k = 0 THEN start ELSE Ruled(h[k - 1], rs[k])
    <3>1. CASE k = n + 1
      <4>1. h[k] = Ruled(g[n], rs[n + 1]) BY <3>1
      <4>2. k # 0 /\ k - 1 = n /\ n \in 0..(n + 1) /\ n # n + 1 BY <3>1
      <4>3. h[n] = g[n] BY <4>2
      <4> QED BY <3>1, <4>1, <4>2, <4>3
    <3>2. CASE k # n + 1
      <4>1. k \in 0..n BY <3>2
      <4>2. g[k] = IF k = 0 THEN start ELSE Ruled(g[k - 1], rs[k]) BY <2>1, <4>1 DEF RuledUpTo
      <4>3. h[k] = g[k] BY <3>2
      <4>4. k # 0 => k - 1 \in 0..(n + 1) /\ k - 1 # n + 1 BY <4>1
      <4>5. k # 0 => h[k - 1] = g[k - 1] BY <4>4
      <4> QED BY <4>2, <4>3, <4>5
    <3> QED BY <3>1, <3>2
  <2>3. h = [k \in 0..(n + 1) |-> h[k]] OBVIOUS
  <2>4. RuledUpTo(h, rs, content, n + 1)
    <3> HIDE DEF h
    <3> QED BY <2>2, <2>3 DEF RuledUpTo
  <2> HIDE DEF h
  <2> QED BY <2>4
<1>3. Len(rs) \in S
  <2> HIDE DEF S
  <2> QED BY <1>1, <1>2, FromZero
<1>4. Apply(rs, content) = (CHOOSE g : RuledUpTo(g, rs, content, Len(rs)))[Len(rs)]
  BY DEF Apply, RuledUpTo, Ruled
<1> QED BY <1>3, <1>4

\* Two contents that have this in the same places.
Alike(one, other, atom) ==
    DOMAIN one = DOMAIN other /\ \A i \in DOMAIN other : one[i] = atom <=> other[i] = atom

\* What no rule is about stays where it is, and is put nowhere else.
LEMMA ApplyKeeps ==
    ASSUME NEW rs, Len(rs) \in Nat, NEW content, NEW atom,
           \A k \in 1..Len(rs) : rs[k].needle # atom /\ rs[k].replacement # atom
    PROVE  Alike(Apply(rs, content).content, content, atom)
<1>1. PICK g : RuledUpTo(g, rs, content, Len(rs)) /\ Apply(rs, content) = g[Len(rs)] BY ApplyIs
<1> DEFINE S == {n \in Nat : n <= Len(rs) => Alike(g[n].content, content, atom)}
<1>2. \A k \in 0..Len(rs) : g[k] = IF k = 0 THEN [content |-> content, hits |-> <<>>] ELSE Ruled(g[k - 1], rs[k])
  BY <1>1 DEF RuledUpTo
<1>3. 0 \in S
  <2>1. g[0].content = content BY <1>2
  <2> QED BY <2>1 DEF Alike
<1>4. ASSUME NEW n \in S \cap Nat PROVE n + 1 \in S
  <2> SUFFICES ASSUME n + 1 <= Len(rs) PROVE Alike(g[n + 1].content, content, atom) OBVIOUS
  <2>1. Alike(g[n].content, content, atom) BY <1>4
  <2>2. g[n + 1] = Ruled(g[n], rs[n + 1])
    <3>1. n + 1 \in 0..Len(rs) /\ n + 1 # 0 /\ n + 1 - 1 = n OBVIOUS
    <3> QED BY <1>2, <3>1
  <2>3. n + 1 \in 1..Len(rs) OBVIOUS
  <2>4. rs[n + 1].needle # atom /\ rs[n + 1].replacement # atom BY <2>3
  <2>5. Alike(Replaced(g[n].content, rs[n + 1]), content, atom) BY <2>1, <2>4 DEF Replaced, Alike
  <2>6. g[n + 1] = g[n] \/ g[n + 1].content = Replaced(g[n].content, rs[n + 1]) BY <2>2 DEF Ruled
  <2> QED BY <2>1, <2>5, <2>6
<1>5. Len(rs) \in S
  <2> HIDE DEF S
  <2> QED BY <1>3, <1>4, FromZero
<1> QED BY <1>1, <1>5

\* The response's content is only read on the way to where it is searched.
LEMMA ResponseKeeps ==
    ASSUME NEW type, NEW payload, "content" \in DOMAIN payload
    PROVE  LET after == Response(type, payload).payload
           IN  "content" \in DOMAIN after /\ after.content = payload.content
<1> DEFINE Same(p) == "content" \in DOMAIN p /\ p.content = payload.content
<1>1. Same(payload) OBVIOUS
<1>2. ASSUME NEW p, Same(p) PROVE Same(Preamble(p).payload) BY <1>2 DEF Preamble
<1>3. ASSUME NEW p, NEW anchored, Same(p) PROVE Same(Cleared(p, "retryDelay", anchored).payload)
  BY <1>3 DEF Cleared
<1>4. ASSUME NEW p, NEW anchored, Same(p) PROVE Same(Cleared(p, "times", anchored).payload)
  BY <1>4 DEF Cleared
<1>5. ASSUME NEW p, NEW anchored, Same(p) PROVE Same(Auxiliary(p, anchored).payload)
  BY <1>5 DEF Auxiliary
<1> DEFINE preamble == Preamble(payload)
           cleared == CASE type = "Connect" -> RetryDelay(preamble.payload)
                        [] type = "Execute" -> LogonTimes(preamble.payload)
                        [] OTHER -> [payload |-> preamble.payload, changes |-> <<>>]
           emptied == CASE type = "Connect" -> Auxiliary(cleared.payload, ConnectAnchored(payload))
                        [] type = "Execute" -> Auxiliary(cleared.payload, ExecuteAnchored(payload))
                        [] OTHER -> [payload |-> cleared.payload, changes |-> <<>>]
<1> HIDE DEF Same
<1>6. Same(preamble.payload) BY <1>1, <1>2
<1> HIDE DEF preamble
<1>7. Same(cleared.payload) BY <1>3, <1>4, <1>6 DEF RetryDelay, LogonTimes
<1> HIDE DEF cleared
<1>8. Same(emptied.payload) BY <1>5, <1>7
<1> USE DEF cleared, preamble
<1>9. Response(type, payload).payload = IF HasPreamble(payload) THEN emptied.payload ELSE payload BY DEF Response
<1> HIDE DEF emptied
<1>10. Same(Response(type, payload).payload) BY <1>1, <1>8, <1>9
<1> QED BY <1>10 DEF Same


LEMMA FixtureIs ==
    ASSUME NEW i
    PROVE  /\ Fixture(i).stem = Stem(i, told[i])
           /\ Fixture(i).response.content =
                  Apply(rules, ZeroAssigned(ResponseBody(told[i], i, moment).content, assigned).content).content
<1>1. Fixture(i).stem = Stem(i, told[i]) BY DEF Fixture, FixtureOf
<1> DEFINE body == ResponseBody(told[i], i, moment)
           plain == Response(RequestType(told[i]), body)
           answered == ZeroAssigned(plain.payload.content, assigned)
           aux == Apply(rules, plain.payload.aux)
<1>2. "content" \in DOMAIN body BY DEF ResponseBody
<1> HIDE DEF body
<1>3. "content" \in DOMAIN plain.payload /\ plain.payload.content = body.content BY <1>2, ResponseKeeps
<1>4. Fixture(i).response =
          [plain.payload EXCEPT !.content = Apply(rules, answered.content).content, !.aux = aux.content]
  BY DEF Fixture, FixtureOf, body
<1> HIDE DEF plain, aux
<1>5. Fixture(i).response.content = Apply(rules, answered.content).content BY <1>3, <1>4
<1> QED BY <1>1, <1>3, <1>5 DEF body

\* A label is the last part of a file's name, and the third.
Stemmed(stem, label) ==
    /\ MustRefuse(Last(stem)) = MustRefuse(label)
    /\ MayRefuse(Last(stem)) = MayRefuse(label)
    /\ Len(stem) = 3 <=> label # ""
    /\ label # "" => stem[3] = label

LEMMA StemIs == ASSUME NEW i, NEW exchange PROVE Stemmed(Stem(i, exchange), exchange.label)
<1>1. RequestType(exchange) \in {"PING", "Connect", "Disconnect", "Execute"} BY DEF RequestType
<1>4. ASSUME NEW x \in {"", "PING", "Connect", "Disconnect", "Execute"} PROVE MustRefuse(x) = {} /\ MayRefuse(x) = {}
  BY DEF MustRefuse, MayRefuse, CreateSteps, FolderSteps
<1> DEFINE t == RequestType(exchange)
           l == exchange.label
<1> HIDE DEF t, l
<1>2. CASE l = ""
  <2>1. Stem(i, exchange) = <<i, t>> \o <<>> BY <1>2 DEF Stem, t, l
  <2>2. <<i, t>> \o <<>> = <<i, t>>
    <3>1. <<i, t>> \in Seq({i, t}) OBVIOUS
    <3> QED BY <3>1, ConcatEmptySeq
  <2>3. Len(<<i, t>>) = 2 /\ Last(<<i, t>>) = t BY DEF Last
  <2>4. MustRefuse(t) = MustRefuse(l) /\ MayRefuse(t) = MayRefuse(l) BY <1>1, <1>2, <1>4 DEF t
  <2>5. Len(<<i, t>>) # 3 BY <2>3
  <2>6. Stemmed(<<i, t>>, l) BY <1>2, <2>3, <2>4, <2>5 DEF Stemmed
  <2> QED BY <2>1, <2>2, <2>6 DEF l
<1>3. CASE l # ""
  <2>1. Stem(i, exchange) = <<i, t>> \o <<l>> BY <1>3 DEF Stem, t, l
  <2>2. Len(<<i, t>> \o <<l>>) = 3 OBVIOUS
  <2>3. (<<i, t>> \o <<l>>)[3] = l OBVIOUS
  <2>4. Last(<<i, t>> \o <<l>>) = l BY <2>2, <2>3 DEF Last
  <2> QED BY <1>3, <2>1, <2>2, <2>3, <2>4 DEF l, Stemmed
<1> QED BY <1>2, <1>3

LEMMA RuleNames ==
    ASSUME PrivateInv, step = "write"
    PROVE  /\ Len(rules) \in Nat
           /\ \A k \in 1..Len(rules) : \E e, c, n, m :
                  rules[k].needle = Spelled(e, c, n) /\ rules[k].replacement = Spelled(e, c, m)
<1>1. rules = RulesRead /\ file \in RuleFiles BY DEF PrivateInv
<1>2. file.lines \in Seq(Range(file.lines)) BY <1>1, RuleFilesAssumption
<1>3. CASE ~file.given
  <2>1. rules = <<>> BY <1>1, <1>3 DEF RulesRead
  <2> QED BY <2>1
<1>4. CASE file.given
  <2>1. Lists(rules, AllRules(file.lines)) BY <1>1, <1>2, <1>4, RulesList DEF RulesRead
  <2>2. Len(rules) \in Nat /\ \A k \in 1..Len(rules) : rules[k] \in AllRules(file.lines)
    BY <2>1, LenProperties, ElementOfSeq DEF Lists
  <2>3. ASSUME NEW rule \in AllRules(file.lines)
        PROVE  \E e, c, n, m : rule.needle = Spelled(e, c, n) /\ rule.replacement = Spelled(e, c, m)
    <3>1. PICK l \in DOMAIN file.lines : rule \in RulesOf(file.lines[l]) BY <2>3 DEF AllRules
    <3>2. \E e, c : rule = Rule(e, c, file.lines[l]) BY <3>1 DEF RulesOf, ExpandText
    <3> QED BY <3>2 DEF Rule
  <2> QED BY <2>2, <2>3
<1> QED BY <1>3, <1>4

LEMMA RefusalIs ==
    /\ \A what : /\ \A e, c, n : Spelled(e, c, n) # Refusal(what)
                 /\ \A n : Identifier(n) # Refusal(what)
                 /\ Zero # Refusal(what)
    /\ \A what, why : Refusal(what) = Refusal(why) => what = why
<1>1. \A what : Refusal(what)[1] = "refused" /\ Refusal(what)[2] = what BY DEF Refusal
<1>2. \A e, c, n : Spelled(e, c, n)[1] = "name" BY DEF Spelled
<1>3. \A n : Identifier(n)[1] = "id" BY DEF Identifier
<1>4. Zero[1] = "zero" BY DEF Zero
<1>5. \A what : (\A e, c, n : Spelled(e, c, n) # Refusal(what)) /\ Zero # Refusal(what) BY <1>1, <1>2, <1>4
<1>6. \A what, n : Identifier(n) # Refusal(what) BY <1>1, <1>3
<1>7. \A what, why : Refusal(what) = Refusal(why) => what = why BY <1>1
<1> QED BY <1>5, <1>6, <1>7

LEMMA ZeroKeeps ==
    ASSUME NEW content, NEW declared, NEW what
    PROVE  Alike(ZeroAssigned(content, declared).content, content, Refusal(what))
<1> DEFINE values == {Identifier(declared[i].value) : i \in DOMAIN declared}
<1>1. ZeroAssigned(content, declared).content =
          [i \in DOMAIN content |-> IF content[i] \in values THEN Zero ELSE content[i]]
  BY DEF ZeroAssigned
<1>2. Refusal(what) \notin values BY RefusalIs
<1>3. Zero # Refusal(what) BY RefusalIs
<1> DEFINE atom == Refusal(what)
<1> HIDE DEF values, atom
<1>4. atom \notin values /\ Zero # atom BY <1>2, <1>3 DEF atom
<1>5. Alike(ZeroAssigned(content, declared).content, content, atom) BY <1>1, <1>4 DEF Alike
<1> QED BY <1>5 DEF atom

LEMMA RefusedTold ==
    ASSUME NEW exchange, NEW number, NEW when, NEW what, what # "nothing", Listing(exchange.tells)
    PROVE  LET body == ResponseBody(exchange, number, when).content
           IN  (\E i \in DOMAIN body : body[i] = Refusal(what)) <=> exchange.refused = what
<1> DEFINE names == Told(exchange)
           ids == Identifiers(exchange.tells)
           atom == Refusal(what)
           end == IF exchange.refused = "nothing" THEN <<>> ELSE <<Refusal(exchange.refused)>>
<1>1. Listing(names) /\ \A i \in DOMAIN names : names[i] # atom
  <2>1. names = <<>> \/ \E e, c, n : names = <<Spelled(e, c, n)>> BY DEF Told
  <2>2. Listing(<<>>) BY DEF Listing
  <2> HIDE DEF names
  <2>3. CASE names = <<>> BY <2>2, <2>3
  <2>4. ASSUME NEW e, NEW c, NEW n, names = <<Spelled(e, c, n)>>
        PROVE  Listing(names) /\ \A i \in DOMAIN names : names[i] # atom
    <3> DEFINE s == Spelled(e, c, n)
    <3>1. s # atom BY RefusalIs
    <3> HIDE DEF s
    <3>2. Listing(<<s>>) /\ DOMAIN <<s>> = {1} /\ <<s>>[1] = s BY Listing1
    <3> QED BY <2>4, <3>1, <3>2 DEF s
  <2> QED BY <2>1, <2>3, <2>4
<1>2. Listing(ids) /\ \A i \in DOMAIN ids : ids[i] # atom
  <2>1. exchange.tells \in Seq(Range(exchange.tells)) /\ DOMAIN exchange.tells = 1..Len(exchange.tells)
        /\ Len(exchange.tells) \in Nat
    BY LenProperties DEF Listing
  <2>2. \A i \in DOMAIN ids : ids[i] # atom BY RefusalIs DEF Identifiers
  <2>3. ids \in Seq({Identifier(exchange.tells[i]) : i \in 1..Len(exchange.tells)}) BY <2>1 DEF Identifiers
  <2> HIDE DEF ids
  <2> QED BY <2>2, <2>3, SeqOfRange DEF Listing
<1>3. /\ Listing(end) /\ (exchange.refused = what => 1 \in DOMAIN end /\ end[1] = atom)
      /\ (exchange.refused # what => \A i \in DOMAIN end : end[i] # atom)
  <2>1. CASE exchange.refused # "nothing"
    <3> DEFINE r == Refusal(exchange.refused)
    <3>1. end = <<r>> BY <2>1
    <3>2. r = atom <=> exchange.refused = what BY RefusalIs
    <3> HIDE DEF r, atom, end
    <3>3. Listing(<<r>>) /\ DOMAIN <<r>> = {1} /\ <<r>>[1] = r BY Listing1
    <3> QED BY <3>1, <3>2, <3>3
  <2>2. CASE exchange.refused = "nothing"
    <3>1. end = <<>> /\ exchange.refused # what BY <2>2
    <3>2. Listing(<<>>) /\ DOMAIN <<>> = {} BY DEF Listing
    <3> HIDE DEF atom, end
    <3> QED BY <3>1, <3>2
  <2> QED BY <2>1, <2>2
<1>4. ResponseBody(exchange, number, when).content = names \o ids \o end BY DEF ResponseBody
<1> HIDE DEF names, ids, end, atom
<1>5. /\ Listing(names \o ids) /\ Len(names \o ids) = Len(names) + Len(ids) /\ Len(names) \in Nat /\ Len(ids) \in Nat
      /\ \A i \in 1..Len(names) : (names \o ids)[i] = names[i]
      /\ \A i \in (Len(names) + 1)..(Len(names) + Len(ids)) : (names \o ids)[i] = ids[i - Len(names)]
  BY <1>1, <1>2, Joined
<1> DEFINE first == names \o ids
<1>6. /\ DOMAIN names = 1..Len(names) /\ DOMAIN ids = 1..Len(ids)
      /\ DOMAIN end = 1..Len(end) /\ DOMAIN first = 1..Len(first)
  BY <1>1, <1>2, <1>3, <1>5, LenProperties DEF Listing
<1>7. \A i \in DOMAIN first : first[i] # atom
  <2> SUFFICES ASSUME NEW i \in DOMAIN first PROVE first[i] # atom OBVIOUS
  <2>1. CASE i <= Len(names) BY <1>1, <1>5, <1>6, <2>1
  <2>2. CASE ~(i <= Len(names))
    <3>1. i \in (Len(names) + 1)..(Len(names) + Len(ids)) /\ i - Len(names) \in 1..Len(ids) BY <1>5, <1>6, <2>2
    <3> QED BY <1>2, <1>5, <1>6, <3>1
  <2> QED BY <2>1, <2>2
<1>8. Listing(first) BY <1>5
<1> HIDE DEF first
<1>9. /\ Listing(first \o end) /\ Len(first \o end) = Len(first) + Len(end) /\ Len(first) \in Nat /\ Len(end) \in Nat
      /\ \A i \in 1..Len(first) : (first \o end)[i] = first[i]
      /\ \A i \in (Len(first) + 1)..(Len(first) + Len(end)) : (first \o end)[i] = end[i - Len(first)]
  BY <1>3, <1>8, Joined
<1>10. DOMAIN (first \o end) = 1..(Len(first) + Len(end)) BY <1>9, LenProperties DEF Listing
<1>11. CASE exchange.refused = what
  <2>1. 1 \in DOMAIN end /\ end[1] = atom BY <1>3, <1>11
  <2>2. Len(first) + 1 \in (Len(first) + 1)..(Len(first) + Len(end)) /\ Len(first) + 1 - Len(first) = 1
    BY <1>6, <1>9, <2>1
  <2>3. (first \o end)[Len(first) + 1] = atom BY <1>9, <2>1, <2>2
  <2>4. Len(first) + 1 \in DOMAIN (first \o end) BY <1>9, <1>10, <2>2
  <2> QED BY <1>4, <1>11, <2>3, <2>4 DEF first, atom
<1>12. CASE exchange.refused # what
  <2>1. \A i \in DOMAIN (first \o end) : (first \o end)[i] # atom
    <3> SUFFICES ASSUME NEW i \in DOMAIN (first \o end) PROVE (first \o end)[i] # atom OBVIOUS
    <3>1. CASE i <= Len(first) BY <1>6, <1>7, <1>9, <1>10, <3>1 DEF first
    <3>2. CASE ~(i <= Len(first))
      <4>1. i \in (Len(first) + 1)..(Len(first) + Len(end)) /\ i - Len(first) \in DOMAIN end
        BY <1>6, <1>9, <1>10, <3>2
      <4> QED BY <1>3, <1>9, <1>12, <4>1
    <3> QED BY <3>1, <3>2
  <2> QED BY <1>4, <1>12, <2>1 DEF first, atom
<1> QED BY <1>11, <1>12

LEMMA RefusedShown ==
    ASSUME PrivateInv, step = "write", NEW i, Listing(told[i].tells), NEW what, what # "nothing"
    PROVE  Refusal(what) \in Range(Fixture(i).response.content) <=> told[i].refused = what
<1> DEFINE body == ResponseBody(told[i], i, moment).content
           zeroed == ZeroAssigned(body, assigned).content
           atom == Refusal(what)
<1>1. \A k \in 1..Len(rules) : rules[k].needle # atom /\ rules[k].replacement # atom
  BY RuleNames, RefusalIs
<1>2. Len(rules) \in Nat BY RuleNames
<1>3. Fixture(i).response.content = Apply(rules, zeroed).content BY FixtureIs
<1>4. Alike(zeroed, body, atom) BY ZeroKeeps
<1>5. (\E j \in DOMAIN body : body[j] = atom) <=> told[i].refused = what BY RefusedTold
<1> HIDE DEF body, zeroed, atom
<1>6. Alike(Apply(rules, zeroed).content, zeroed, atom) BY <1>1, <1>2, ApplyKeeps
<1>7. atom \in Range(Fixture(i).response.content) <=> told[i].refused = what
  BY <1>3, <1>4, <1>5, <1>6 DEF Alike, Range
<1> QED BY <1>7 DEF atom

\* What was refused as it may be is shown as it should be.
LEMMA FairShown ==
    ASSUME NEW label, NEW refused \in Fair(label)
    PROVE  LET shown == {what \in Refusals : refused = what}
           IN  MustRefuse(label) \subseteq shown /\ shown \subseteq MayRefuse(label)
<1>1. MustRefuse(label) = {} \/ MustRefuse(label) = {"call"} \/ MustRefuse(label) = {"property"} BY DEF MustRefuse
<1>2. MustRefuse(label) \subseteq MayRefuse(label) BY DEF MayRefuse
<1>3. "nothing" \notin Refusals /\ "call" \in Refusals /\ "property" \in Refusals BY DEF Refusals
<1>4. refused \in IF MustRefuse(label) = {} THEN MayRefuse(label) \cup {"nothing"} ELSE MustRefuse(label) BY DEF Fair
<1> QED BY <1>1, <1>2, <1>3, <1>4

Sound(fixture) ==
    /\ MustRefuse(LabelOf(fixture)) \subseteq RefusedIn(fixture)
    /\ RefusedIn(fixture) \subseteq MayRefuse(LabelOf(fixture))
LabelsOf(files) == {files[k].stem[3] : k \in {n \in DOMAIN files : Len(files[n].stem) = 3}}
AllLabels == {Script(doing)[k].label : k \in DOMAIN Script(doing)} \ {""}

\* What is on the disk is of the exchanges that were heard, one by one, of a conversation that ended well; and of one
\* that is to succeed, no more of it was refused than should be.
EarnedInv ==
    /\ step = "write" =>
          /\ ended = "ok" /\ Len(directory) <= Len(told)
          /\ \A i \in DOMAIN directory : directory[i].stem = Stem(i, told[i])
    /\ Listing(captures)
    /\ doing \in Ordinary =>
          /\ \A i \in DOMAIN directory : Sound(directory[i])
          /\ \A i \in DOMAIN captures : LabelsOf(captures[i].files) = AllLabels

LEMMA Whole ==
    ASSUME PlaceInv, ToldInv, HeardInv, ended = "ok", doing \in Ordinary
    PROVE  /\ \A k \in DOMAIN told : Meant(told[k])
           /\ {told[k].label : k \in DOMAIN told} \ {""} = AllLabels
<1>1. doing \in Conversations /\ alive = TRUE /\ outcome = "fine" /\ swept = "fine" /\ place = EndOf BY DEF PlaceInv
<1>2. Fit BY <1>1 DEF Fit
<1>3. /\ \A k \in DOMAIN told : Meant(told[k])
      /\ {told[k].label : k \in DOMAIN told} = Labels
  BY <1>2 DEF HeardInv
<1>4. Reached = EndOf BY <1>1 DEF Reached
<1>5. DOMAIN Script(doing) = 1..EndOf BY <1>1, EndsThere DEF Ends
<1> QED BY <1>3, <1>4, <1>5 DEF Labels, AllLabels

LEMMA FilesLabelled ==
    ASSUME NEW files, DOMAIN files = DOMAIN told, \A k \in DOMAIN told : files[k].stem = Stem(k, told[k])
    PROVE  LabelsOf(files) = {told[k].label : k \in DOMAIN told} \ {""}
<1>1. \A k \in DOMAIN told : Stemmed(files[k].stem, told[k].label) BY StemIs
<1>2. \A k \in DOMAIN told : Len(files[k].stem) = 3 <=> told[k].label # "" BY <1>1 DEF Stemmed
<1>3. \A k \in DOMAIN told : told[k].label # "" => files[k].stem[3] = told[k].label BY <1>1 DEF Stemmed
<1>4. {n \in DOMAIN files : Len(files[n].stem) = 3} = {n \in DOMAIN told : told[n].label # ""} BY <1>2
<1> DEFINE third(k) == files[k].stem[3]
           label(k) == told[k].label
<1>5. LabelsOf(files) = {third(k) : k \in {n \in DOMAIN told : label(n) # ""}} BY <1>4 DEF LabelsOf
<1>6. \A k \in DOMAIN told : label(k) # "" => third(k) = label(k) BY <1>3
<1>7. {told[k].label : k \in DOMAIN told} = {label(k) : k \in DOMAIN told} OBVIOUS
<1> HIDE DEF third, label
<1> QED BY <1>5, <1>6, <1>7

LEMMA SameScript == ASSUME doing' = doing PROVE Script(doing)' = Script(doing) /\ AllLabels' = AllLabels
<1>1. Script(doing)' = Script(doing) BY DEF Script
<1> QED BY <1>1 DEF AllLabels

LEMMA SameFiles ==
    /\ captures' = captures => \A i : LabelsOf(captures[i].files)' = LabelsOf(captures[i].files)
    /\ directory' = directory => \A i : Sound(directory[i])' = Sound(directory[i])
    /\ told' = told => \A i : Stem(i, told[i])' = Stem(i, told[i])
BY DEF LabelsOf, Sound, Stem, RequestType

LEMMA EarnedStep ==
    ASSUME PrivateInv, PlaceInv, ToldInv, HeardInv, EarnedInv, [Next]_vars
    PROVE  EarnedInv'
<1>1. ASSUME UNCHANGED <<doing, directory, captures>>, step' # "write" PROVE EarnedInv'
  BY <1>1, SameScript, SameFiles DEF EarnedInv, Listing
<1>2. ASSUME UNCHANGED <<doing, directory, captures, told, ended, step>> PROVE EarnedInv'
  BY <1>2, SameScript, SameFiles DEF EarnedInv, Listing
<1>3. CASE LoadRules
  <2>1. UNCHANGED <<doing, directory, captures>> /\ step' # "write"
    BY <1>3 DEF LoadRules, Finish, StartOver, scenarioVars, programVars
  <2> QED BY <1>1, <2>1
<1>4. CASE Converse
  <2>1. UNCHANGED <<directory, captures, step>> /\ step = "talk" BY <1>4 DEF Converse, captureVars
  <2>2. doing' = doing
    BY <1>4 DEF Converse, Talk, Plain, Measure, Save, Use, Mark, Submitted, MoveMessage, Locate, DeleteDraft,
                SweepFind, SweepTake, Refused, Lost, Unusable, ForgetNothing
  <2> QED BY <1>1, <2>1, <2>2
<1>5. CASE Gather
  <2>1. UNCHANGED <<doing, captures, told, ended>> BY <1>5 DEF Gather, scenarioVars, programVars
  <2>2. \/ step' = "write" /\ directory' = <<>> /\ ended = "ok"
        \/ step' = "over" /\ UNCHANGED directory
    BY <1>5 DEF Gather, Finish
  <2>3. CASE step' = "write" /\ directory' = <<>> /\ ended = "ok"
    <3>1. DOMAIN directory' = {} /\ Len(directory') = 0 BY <2>3
    <3>2. Len(told) \in Nat BY LenProperties DEF ToldInv, Tidy, Listing
    <3>3. Len(directory') <= Len(told)' BY <2>1, <3>1, <3>2
    <3> QED BY <2>1, <2>3, <3>1, <3>3, SameScript, SameFiles DEF EarnedInv, Listing
  <2>4. CASE step' = "over" /\ UNCHANGED directory BY <1>1, <2>1, <2>4
  <2> QED BY <2>2, <2>3, <2>4
<1>6. CASE WriteExchange
  <2>1. UNCHANGED <<doing, captures, told, ended>> /\ step = "write" /\ Len(directory) < Len(told)
    BY <1>6 DEF WriteExchange, scenarioVars, programVars
  <2>2. \/ step' = "over" /\ UNCHANGED directory
        \/ step' = step /\ directory' = Append(directory, Fixture(Len(directory) + 1))
    BY <1>6 DEF WriteExchange, Finish
  <2>3. CASE step' = "over" /\ UNCHANGED directory BY <1>1, <2>1, <2>3
  <2>4. CASE step' = step /\ directory' = Append(directory, Fixture(Len(directory) + 1))
    <3> DEFINE n == Len(directory) + 1
               fixture == Fixture(n)
    <3>1. /\ DOMAIN directory = 1..Len(directory) /\ Len(directory) \in Nat
          /\ DOMAIN directory' = 1..n /\ Len(directory') = n /\ directory'[n] = fixture
          /\ \A i \in 1..Len(directory) : directory'[i] = directory[i]
      <4> HIDE DEF fixture
      <4>1. directory' = Append(directory, fixture) BY <2>4 DEF fixture
      <4>2. directory \in Seq(Range(directory)) BY DEF PrivateInv
      <4> QED BY <4>1, <4>2, AppendTo
    <3>2. Len(told) \in Nat /\ DOMAIN told = 1..Len(told) BY LenProperties DEF ToldInv, Tidy, Listing
    <3>3. n \in DOMAIN told /\ Len(directory') <= Len(told) BY <2>1, <3>1, <3>2
    <3>4. fixture.stem = Stem(n, told[n]) BY FixtureIs
    <3>5. doing \in Ordinary => Sound(fixture)
      <4> SUFFICES ASSUME doing \in Ordinary PROVE Sound(fixture) OBVIOUS
      <4>1. ended = "ok" BY <2>1 DEF EarnedInv
      <4>2. Meant(told[n]) BY <3>3, <4>1, Whole
      <4>3. \A what : what # "nothing" =>
                (Refusal(what) \in Range(fixture.response.content) <=> told[n].refused = what)
        BY <2>1, <3>3, RefusedShown DEF ToldInv, Tidy
      <4> HIDE DEF fixture
      <4>4. RefusedIn(fixture) = {what \in Refusals : told[n].refused = what} BY <4>3 DEF RefusedIn, Refusals
      <4>5. /\ MustRefuse(told[n].label) \subseteq RefusedIn(fixture)
            /\ RefusedIn(fixture) \subseteq MayRefuse(told[n].label)
        BY <4>2, <4>4, FairShown DEF Meant
      <4>6. Stemmed(fixture.stem, told[n].label) BY <3>4, StemIs
      <4> QED BY <4>5, <4>6 DEF Sound, LabelOf, Stemmed
    <3> HIDE DEF fixture
    <3>6. \A i \in DOMAIN directory' : i = n \/ i \in DOMAIN directory BY <3>1
    <3>7. \A i \in DOMAIN directory' : directory'[i].stem = Stem(i, told[i])
      BY <2>1, <3>1, <3>4, <3>6 DEF EarnedInv
    <3>8. doing \in Ordinary => \A i \in DOMAIN directory' : Sound(directory'[i])
      BY <3>1, <3>5, <3>6 DEF EarnedInv
    <3>9. \A i : Stem(i, told[i])' = Stem(i, told[i]) BY <2>1 DEF Stem, RequestType
    <3>10. ended' = "ok" /\ Len(directory)' <= Len(told)' BY <2>1, <3>3 DEF EarnedInv
    <3>11. \A i : Sound(directory[i])' = Sound(directory'[i]) BY DEF Sound
    <3>12. /\ Listing(captures)'
           /\ doing \in Ordinary => \A i \in DOMAIN captures' : LabelsOf(captures[i].files)' = AllLabels'
      BY <2>1, SameScript, SameFiles DEF EarnedInv, Listing
    <3> QED BY <2>1, <3>7, <3>8, <3>9, <3>10, <3>12 DEF EarnedInv, Sound
  <2> QED BY <2>2, <2>3, <2>4
<1>7. CASE DiskFails
  <2>1. UNCHANGED <<doing, directory, captures>> /\ step' = "over"
    BY <1>7 DEF DiskFails, Finish, scenarioVars, programVars
  <2> QED BY <1>1, <2>1
<1>8. CASE Close
  <2>1. UNCHANGED <<doing, directory, told>> /\ step' = "over" /\ step = "write" /\ Len(directory) = Len(told)
    BY <1>8 DEF Close, Finish, scenarioVars, programVars
  <2>2. CASE UNCHANGED captures BY <1>1, <2>1, <2>2
  <2>3. ASSUME NEW capture, capture.files = directory, captures' = Append(captures, capture) PROVE EarnedInv'
    <3>1. DOMAIN directory = DOMAIN told
      <4>1. DOMAIN directory = 1..Len(directory) BY LenProperties DEF PrivateInv
      <4>2. DOMAIN told = 1..Len(told) BY LenProperties DEF ToldInv, Tidy, Listing
      <4> QED BY <2>1, <4>1, <4>2
    <3>2. LabelsOf(capture.files) = {told[k].label : k \in DOMAIN told} \ {""}
      BY <2>1, <2>3, <3>1, FilesLabelled DEF EarnedInv
    <3>3. doing \in Ordinary => LabelsOf(capture.files) = AllLabels BY <2>1, <3>2, Whole DEF EarnedInv
    <3>4. /\ Listing(captures') /\ DOMAIN captures' = 1..(Len(captures) + 1)
          /\ captures'[Len(captures) + 1] = capture
          /\ DOMAIN captures = 1..Len(captures) /\ \A i \in 1..Len(captures) : captures'[i] = captures[i]
          /\ Len(captures) \in Nat
      BY <2>3, AppendTo DEF EarnedInv, Listing
    <3>5. \A i \in DOMAIN captures' : captures'[i] = capture \/ (i \in DOMAIN captures /\ captures'[i] = captures[i])
      BY <3>4
    <3>6. doing \in Ordinary => \A i \in DOMAIN captures' : LabelsOf(captures'[i].files) = AllLabels
      BY <3>3, <3>5 DEF EarnedInv
    <3>7. AllLabels' = AllLabels BY <2>1 DEF AllLabels, Script
    <3> QED BY <2>1, <3>4, <3>6, <3>7 DEF EarnedInv, Listing, Sound, LabelsOf
  <2> QED BY <1>8, <2>2, <2>3 DEF Close
<1>9. CASE Again
  <2>1. UNCHANGED <<doing, directory, captures>> /\ step' = "rules" BY <1>9 DEF Again, scenarioVars, programVars
  <2> QED BY <1>1, <2>1
<1>10. CASE UNCHANGED vars BY <1>2, <1>10 DEF vars, captureVars, scenarioVars, programVars
<1> QED BY <1>3, <1>4, <1>5, <1>6, <1>7, <1>8, <1>9, <1>10 DEF Next

LEMMA ToldStep == ASSUME PlaceInv, ToldInv, [Next]_vars PROVE ToldInv'
<1>1. ASSUME UNCHANGED scenarioVars PROVE ToldInv'
  BY <1>1 DEF ToldInv, Tidy, Listing, scenarioVars, serverVars
<1>2. CASE LoadRules
  <2>1. CASE UNCHANGED scenarioVars BY <1>1, <2>1
  <2>2. CASE told' = <<>> /\ UNCHANGED mailbox
    <3>1. <<>> \in Seq(Range(<<>>)) /\ DOMAIN <<>> = {} OBVIOUS
    <3> QED BY <2>2, <3>1 DEF ToldInv, Tidy, Listing
  <2> QED BY <1>2, <2>1, <2>2 DEF LoadRules, StartOver, serverVars
<1>3. CASE Converse BY <1>3, ToldTalk DEF Converse
<1>4. CASE Gather \/ WriteExchange \/ DiskFails \/ Close \/ Again
  BY <1>1, <1>4 DEF Gather, WriteExchange, DiskFails, Close, Again
<1>5. CASE UNCHANGED vars BY <1>1, <1>5 DEF vars
<1> QED BY <1>2, <1>3, <1>4, <1>5 DEF Next

LEMMA HeardStep == ASSUME PlaceInv, ToldInv, HeardInv, [Next]_vars PROVE HeardInv'
<1>1. ASSUME UNCHANGED scenarioVars PROVE HeardInv'
  <2>1. UNCHANGED <<doing, place, told, ended, outcome, swept, alive>> BY <1>1 DEF scenarioVars, programVars
  <2>2. Script(doing)' = Script(doing) BY <2>1, SameScript
  <2>3. Labels' = Labels BY <2>1, <2>2 DEF Labels, Reached
  <2> QED BY <2>1, <2>3 DEF HeardInv, Fit, Meant
<1>2. CASE LoadRules
  <2>1. CASE UNCHANGED scenarioVars BY <1>1, <2>1
  <2>2. CASE StartOver(doing)
    <3>1. told' = <<>> /\ place' = 1 /\ ended' = "no" BY <2>2 DEF StartOver
    <3>2. DOMAIN <<>> = {} OBVIOUS
    <3>3. Labels' = {} BY <3>1 DEF Labels, Reached
    <3>4. {told'[k].label : k \in DOMAIN told'} = {} BY <3>1, <3>2
    <3> QED BY <3>1, <3>2, <3>3, <3>4 DEF HeardInv
  <2> QED BY <1>2, <2>1, <2>2 DEF LoadRules
<1>3. CASE Converse BY <1>3, HeardTalk DEF Converse
<1>4. CASE Gather \/ WriteExchange \/ DiskFails \/ Close \/ Again
  BY <1>1, <1>4 DEF Gather, WriteExchange, DiskFails, Close, Again
<1>5. CASE UNCHANGED vars BY <1>1, <1>5 DEF vars
<1> QED BY <1>2, <1>3, <1>4, <1>5 DEF Next

\* What a conversation that is to succeed leaves on the disk is whole, and what the server refused in it is what it
\* was meant to refuse, or may: the one submit and no other call, the one property and otherwise none but a draft's,
\* and the conversions of special folders the step can do without. A failure, however early, outlives a cleanup that
\* goes well (scenario.rs, session.rs, acts.rs, writes.rs, logon.rs convert).
THEOREM FixturesEarned == Spec => []FixturesAreEarned
<1> DEFINE Inv == PrivateInv /\ PlaceInv /\ ToldInv /\ HeardInv /\ EarnedInv
<1>1. Init => Inv
  <2> SUFFICES ASSUME Init PROVE Inv OBVIOUS
  <2>1. <<>> \in Seq(Range(<<>>)) /\ DOMAIN <<>> = {} OBVIOUS
  <2>2. /\ told = <<>> /\ directory = <<>> /\ captures = <<>> /\ step = "rules" /\ file \in RuleFiles
        /\ mailbox = [f \in Folders |-> {}] /\ place = 1 /\ ended = "no"
    BY DEF Init
  <2>3. PrivateInv BY <2>1, <2>2 DEF PrivateInv
  <2>4. ToldInv BY <2>1, <2>2, FS_EmptySet DEF ToldInv, Tidy, Listing
  <2>5. HeardInv BY <2>1, <2>2 DEF HeardInv, Labels, Reached
  <2>6. EarnedInv BY <2>1, <2>2 DEF EarnedInv, Listing
  <2> QED BY <2>3, <2>4, <2>5, <2>6, PlaceStarts
<1>2. Inv /\ [Next]_vars => Inv' BY PrivateStep, PlaceStep, ToldStep, HeardStep, EarnedStep
<1>3. Inv => FixturesAreEarned BY DEF EarnedInv, FixturesAreEarned, Ordinary, Sound, LabelsOf, AllLabels
<1> QED BY <1>1, <1>2, <1>3, PTL DEF Spec

-----------------------------------------------------------------------------
(* Two captures of what the server answers alike. *)

\* No rule is about any of this.
Bland(content, rs) == \A k \in 1..Len(rs) : \A i \in DOMAIN content : content[i] # rs[k].needle

\* So none of them changes it.
LEMMA ApplyNone ==
    ASSUME NEW rs, Len(rs) \in Nat, NEW content, Bland(content, rs)
    PROVE  Apply(rs, content) = [content |-> content, hits |-> <<>>]
<1> DEFINE start == [content |-> content, hits |-> <<>>]
<1>1. PICK g : RuledUpTo(g, rs, content, Len(rs)) /\ Apply(rs, content) = g[Len(rs)] BY ApplyIs
<1> DEFINE S == {n \in Nat : n <= Len(rs) => g[n] = start}
<1>2. \A k \in 0..Len(rs) : g[k] = IF k = 0 THEN start ELSE Ruled(g[k - 1], rs[k]) BY <1>1 DEF RuledUpTo
<1>3. \A k \in 1..Len(rs) : Ruled(start, rs[k]) = start
  <2> SUFFICES ASSUME NEW k \in 1..Len(rs) PROVE Ruled(start, rs[k]) = start OBVIOUS
  <2>1. start.content = content OBVIOUS
  <2>2. Occurrences(start.content, rs[k].needle) = {} BY <2>1 DEF Occurrences, Bland
  <2>3. Cardinality(Occurrences(start.content, rs[k].needle)) = 0 BY <2>2, FS_EmptySet
  <2> HIDE DEF start
  <2> QED BY <2>3 DEF Ruled
<1> HIDE DEF start
<1>4. 0 \in S BY <1>2
<1>5. ASSUME NEW n \in S \cap Nat PROVE n + 1 \in S
  <2> SUFFICES ASSUME n + 1 <= Len(rs) PROVE g[n + 1] = start OBVIOUS
  <2>1. n + 1 \in 0..Len(rs) /\ n + 1 # 0 /\ n + 1 - 1 = n /\ n + 1 \in 1..Len(rs) OBVIOUS
  <2>2. g[n + 1] = Ruled(g[n], rs[n + 1]) BY <1>2, <2>1
  <2> QED BY <1>3, <1>5, <2>1, <2>2
<1>6. Len(rs) \in S
  <2> HIDE DEF S
  <2> QED BY <1>4, <1>5, FromZero
<1> QED BY <1>1, <1>6 DEF start

\* A header that comes out the same: its value is the same, or nothing of it is left that is not.
SameHeader(one, other, rs) ==
    /\ one[1] = other[1]
    /\ \/ one[2] = other[2]
       \/ /\ Bland(one[2], rs) /\ Bland(other[2], rs) /\ one[1] \in VolatileHeaders
          /\ Replacement(one[1], one[2]) = Replacement(other[1], other[2])

\* What becomes of one header, after those before it.
HeaderDone(done, header, rs) ==
    LET scrubbed == ScrubText(header[2], rs, done.tally)
    IN  IF header[1] \in VolatileHeaders
          THEN [headers |-> Append(done.headers, <<header[1], Replacement(header[1], scrubbed.content)>>),
                changes |-> Append(done.changes, <<"header", header[1]>>),
                tally |-> scrubbed.tally]
          ELSE [headers |-> Append(done.headers, <<header[1], scrubbed.content>>),
                changes |-> done.changes,
                tally |-> scrubbed.tally]

LEMMA HeaderAgrees ==
    ASSUME NEW rs, Len(rs) \in Nat, NEW one, NEW other, SameHeader(one, other, rs), NEW done
    PROVE  HeaderDone(done, one, rs) = HeaderDone(done, other, rs)
<1>1. one[1] = other[1] BY DEF SameHeader
<1>2. CASE one[2] = other[2] BY <1>1, <1>2 DEF HeaderDone
<1>3. CASE /\ Bland(one[2], rs) /\ Bland(other[2], rs) /\ one[1] \in VolatileHeaders
           /\ Replacement(one[1], one[2]) = Replacement(other[1], other[2])
  <2> DEFINE s == ScrubText(one[2], rs, done.tally)
             t == ScrubText(other[2], rs, done.tally)
  <2>1. s.content = one[2] /\ s.tally = Merge(done.tally, <<>>) BY <1>3, ApplyNone DEF ScrubText
  <2>2. t.content = other[2] /\ t.tally = Merge(done.tally, <<>>) BY <1>3, ApplyNone DEF ScrubText
  <2>3. HeaderDone(done, one, rs) =
            [headers |-> Append(done.headers, <<one[1], Replacement(one[1], s.content)>>),
             changes |-> Append(done.changes, <<"header", one[1]>>),
             tally |-> s.tally]
    BY <1>3 DEF HeaderDone
  <2>4. HeaderDone(done, other, rs) =
            [headers |-> Append(done.headers, <<other[1], Replacement(other[1], t.content)>>),
             changes |-> Append(done.changes, <<"header", other[1]>>),
             tally |-> t.tally]
    BY <1>1, <1>3 DEF HeaderDone
  <2> HIDE DEF s, t
  <2> QED BY <1>1, <1>3, <2>1, <2>2, <2>3, <2>4
<1> QED BY <1>2, <1>3 DEF SameHeader

LEMMA HeadersAgree ==
    ASSUME NEW rs, Len(rs) \in Nat, NEW ones, NEW others, DOMAIN ones = DOMAIN others,
           \A k \in DOMAIN ones : SameHeader(ones[k], others[k], rs), NEW tally,
           \A S \in SUBSET DOMAIN ones : S # {} => Max(S) \in S
    PROVE  NormaliseHeaders(ones, rs, tally) = NormaliseHeaders(others, rs, tally)
<1> DEFINE start == [headers |-> <<>>, changes |-> <<>>, tally |-> tally]
           D == DOMAIN ones
           of(g, S, hs) == IF S = {} THEN start ELSE HeaderDone(g[S \ {Max(S)}], hs[Max(S)], rs)
           folds(g, hs) == g = [S \in SUBSET D |-> of(g, S, hs)]
<1>1. NormaliseHeaders(ones, rs, tally) = (CHOOSE g : folds(g, ones))[D]
  BY DEF NormaliseHeaders, FoldLeft, MapThenFoldSet, HeaderDone
<1>2. NormaliseHeaders(others, rs, tally) = (CHOOSE g : folds(g, others))[D]
  BY DEF NormaliseHeaders, FoldLeft, MapThenFoldSet, HeaderDone
<1>3. ASSUME NEW g, NEW S \in SUBSET D PROVE of(g, S, ones) = of(g, S, others)
  BY HeaderAgrees
<1> HIDE DEF of, start
<1>4. \A g : folds(g, ones) <=> folds(g, others) BY <1>3
<1> HIDE DEF folds
<1> QED BY <1>1, <1>2, <1>4

\* Every rule is about a name, and what goes on the wire besides names is of other kinds.
NameRules(rs) == Len(rs) \in Nat /\ \A k \in 1..Len(rs) : rs[k].needle[1] = "name"

LEMMA BlandIs ==
    ASSUME NEW rs, NameRules(rs), NEW content, \A i \in DOMAIN content : content[i][1] # "name"
    PROVE  Bland(content, rs)
BY DEF NameRules, Bland

\* The headers whose values are the moment's: an identifier of the request, a date, a cookie.
LEMMA RequestIdAgrees ==
    ASSUME NEW rs, NameRules(rs), NEW i, NEW one, NEW other
    PROVE  SameHeader(<<"X-RequestId", <<<<"guid", one>>, <<"counter", i>>>>>>,
                      <<"X-RequestId", <<<<"guid", other>>, <<"counter", i>>>>>>, rs)
<1> DEFINE value(when) == <<<<"guid", when>>, <<"counter", i>>>>
<1>1. ASSUME NEW when
      PROVE  /\ Bland(value(when), rs)
             /\ Replacement("X-RequestId", value(when)) = <<ZeroGuid, <<"counter", i>>>>
  <2> DEFINE g == <<"guid", when>>
             c == <<"counter", i>>
  <2>1. g[1] # "name" /\ c[1] # "name" OBVIOUS
  <2> HIDE DEF g, c
  <2>2. /\ DOMAIN <<g, c>> = {1, 2} /\ <<g, c>>[1] = g /\ <<g, c>>[2] = c /\ Len(<<g, c>>) = 2
    OBVIOUS
  <2>3. Bland(<<g, c>>, rs) BY <2>1, <2>2, BlandIs
  <2>4. Last(<<g, c>>) = c BY <2>2 DEF Last
  <2>5. KeepCounter(<<g, c>>) = <<ZeroGuid, c>> BY <2>2, <2>4 DEF KeepCounter
  <2>6. Replacement("X-RequestId", <<g, c>>) = <<ZeroGuid, c>> BY <2>5 DEF Replacement
  <2> QED BY <2>3, <2>6 DEF g, c
<1>2. "X-RequestId" \in VolatileHeaders BY DEF VolatileHeaders
<1> HIDE DEF value
<1>3. SameHeader(<<"X-RequestId", value(one)>>, <<"X-RequestId", value(other)>>, rs)
  BY <1>1, <1>2 DEF SameHeader
<1> QED BY <1>3 DEF value

LEMMA DateAgrees ==
    ASSUME NEW rs, NameRules(rs), NEW one, NEW other
    PROVE  SameHeader(<<"Date", <<<<"clock", one>>>>>>, <<"Date", <<<<"clock", other>>>>>>, rs)
<1> DEFINE value(when) == <<<<"clock", when>>>>
<1>1. ASSUME NEW when
      PROVE  Bland(value(when), rs) /\ Replacement("Date", value(when)) = <<Normalised>>
  <2> DEFINE c == <<"clock", when>>
  <2>1. c[1] # "name" OBVIOUS
  <2> HIDE DEF c
  <2>2. DOMAIN <<c>> = {1} /\ <<c>>[1] = c OBVIOUS
  <2>3. Bland(<<c>>, rs) BY <2>1, <2>2, BlandIs
  <2> QED BY <2>3 DEF c, Replacement
<1>2. "Date" \in VolatileHeaders BY DEF VolatileHeaders
<1> HIDE DEF value
<1>3. SameHeader(<<"Date", value(one)>>, <<"Date", value(other)>>, rs) BY <1>1, <1>2 DEF SameHeader
<1> QED BY <1>3 DEF value

LEMMA CookieAgrees ==
    ASSUME NEW rs, NameRules(rs), NEW one, NEW other
    PROVE  /\ SameHeader(<<"Cookie", <<Cookie(one)>>>>, <<"Cookie", <<Cookie(other)>>>>, rs)
           /\ SameHeader(<<"Set-Cookie", <<Cookie(one), <<"path", "mapi">>>>>>,
                         <<"Set-Cookie", <<Cookie(other), <<"path", "mapi">>>>>>, rs)
<1> DEFINE p == <<"path", "mapi">>
           end == <<"MapiContext", Normalised>>
<1>1. p[1] = "path" /\ "path" \in FixedPairs /\ "MapiContext" \notin FixedPairs BY DEF FixedPairs
<1>2. \A when : Cookie(when)[1] = "MapiContext" BY DEF Cookie
<1>3. "Cookie" \in VolatileHeaders /\ "Set-Cookie" \in VolatileHeaders BY DEF VolatileHeaders
<1> HIDE DEF p
<1>4. ASSUME NEW when
      PROVE  /\ Bland(<<Cookie(when)>>, rs) /\ RedactCookie(<<Cookie(when)>>) = [i \in {1} |-> end]
             /\ Bland(<<Cookie(when), p>>, rs)
             /\ RedactCookie(<<Cookie(when), p>>) = [i \in {1, 2} |-> IF i = 1 THEN end ELSE p]
  <2> DEFINE c == Cookie(when)
  <2>1. c[1] = "MapiContext" BY <1>2
  <2> HIDE DEF c
  <2>2. DOMAIN <<c>> = {1} /\ <<c>>[1] = c OBVIOUS
  <2>3. DOMAIN <<c, p>> = {1, 2} /\ <<c, p>>[1] = c /\ <<c, p>>[2] = p OBVIOUS
  <2>4. Bland(<<c>>, rs) /\ Bland(<<c, p>>, rs) BY <1>1, <2>1, <2>2, <2>3, BlandIs
  <2>5. RedactCookie(<<c>>) = [i \in {1} |-> end] BY <1>1, <2>1, <2>2 DEF RedactCookie
  <2>6. RedactCookie(<<c, p>>) = [i \in {1, 2} |-> IF i = 1 THEN end ELSE p]
    BY <1>1, <2>1, <2>3 DEF RedactCookie
  <2> QED BY <2>4, <2>5, <2>6 DEF c
<1>5. \A value : /\ Replacement("Cookie", value) = RedactCookie(value)
                 /\ Replacement("Set-Cookie", value) = RedactCookie(value)
  BY DEF Replacement
<1> HIDE DEF end
<1> DEFINE a(when) == <<Cookie(when)>>
           b(when) == <<Cookie(when), p>>
<1>6. Replacement("Cookie", a(one)) = Replacement("Cookie", a(other)) BY <1>4, <1>5
<1>7. Replacement("Set-Cookie", b(one)) = Replacement("Set-Cookie", b(other)) BY <1>4, <1>5
<1>8. Bland(a(one), rs) /\ Bland(a(other), rs) /\ Bland(b(one), rs) /\ Bland(b(other), rs) BY <1>4
<1> HIDE DEF a, b
<1>9. SameHeader(<<"Cookie", a(one)>>, <<"Cookie", a(other)>>, rs) BY <1>3, <1>6, <1>8 DEF SameHeader
<1>10. SameHeader(<<"Set-Cookie", b(one)>>, <<"Set-Cookie", b(other)>>, rs)
  BY <1>3, <1>7, <1>8 DEF SameHeader
<1> QED BY <1>9, <1>10 DEF a, b, p

\* Of two or three headers, the same one by one.
LEMMA PairAgrees ==
    ASSUME NEW rs, Len(rs) \in Nat, NEW a, NEW b, NEW c, NEW d, NEW tally,
           SameHeader(a, c, rs), SameHeader(b, d, rs)
    PROVE  NormaliseHeaders(<<a, b>> \o <<>>, rs, tally) = NormaliseHeaders(<<c, d>> \o <<>>, rs, tally)
<1>1. <<a, b>> \o <<>> = <<a, b>> /\ <<c, d>> \o <<>> = <<c, d>>
  <2>1. <<a, b>> \in Seq({a, b}) /\ <<c, d>> \in Seq({c, d}) OBVIOUS
  <2> QED BY <2>1, ConcatEmptySeq
<1>2. DOMAIN <<a, b>> = {1, 2} /\ DOMAIN <<c, d>> = {1, 2} OBVIOUS
<1>3. \A S \in SUBSET {1, 2} : S # {} => Max(S) \in S
  <2>1. \A S \in SUBSET {1, 2} : S # {} => \E x \in S : \A y \in S : x >= y
    <3> SUFFICES ASSUME NEW S \in SUBSET {1, 2}, S # {} PROVE \E x \in S : \A y \in S : x >= y OBVIOUS
    <3>1. CASE 2 \in S BY <3>1
    <3>2. CASE 2 \notin S
      <4>1. S = {1} BY <3>2
      <4> QED BY <4>1
    <3> QED BY <3>1, <3>2
  <2> QED BY <2>1 DEF Max
<1>4. <<a, b>>[1] = a /\ <<a, b>>[2] = b /\ <<c, d>>[1] = c /\ <<c, d>>[2] = d OBVIOUS
<1> DEFINE s == <<a, b>>
           t == <<c, d>>
<1>5. /\ DOMAIN s = DOMAIN t
      /\ \A k \in DOMAIN s : SameHeader(s[k], t[k], rs)
      /\ \A S \in SUBSET DOMAIN s : S # {} => Max(S) \in S
  BY <1>2, <1>3, <1>4
<1> HIDE DEF s, t
<1>6. NormaliseHeaders(s, rs, tally) = NormaliseHeaders(t, rs, tally) BY <1>5, HeadersAgree
<1> QED BY <1>1, <1>6 DEF s, t

LEMMA TripleAgrees ==
    ASSUME NEW rs, Len(rs) \in Nat, NEW a, NEW b, NEW c, NEW d, NEW e, NEW f, NEW tally,
           SameHeader(a, d, rs), SameHeader(b, e, rs), SameHeader(c, f, rs)
    PROVE  NormaliseHeaders(<<a, b>> \o <<c>>, rs, tally) = NormaliseHeaders(<<d, e>> \o <<f>>, rs, tally)
<1> DEFINE s == <<a, b>> \o <<c>>
           t == <<d, e>> \o <<f>>
<1>1. /\ DOMAIN s = {1, 2, 3} /\ s[1] = a /\ s[2] = b /\ s[3] = c
      /\ DOMAIN t = {1, 2, 3} /\ t[1] = d /\ t[2] = e /\ t[3] = f
  OBVIOUS
<1>2. \A S \in SUBSET {1, 2, 3} : S # {} => Max(S) \in S
  <2>1. \A S \in SUBSET {1, 2, 3} : S # {} => \E x \in S : \A y \in S : x >= y
    <3> SUFFICES ASSUME NEW S \in SUBSET {1, 2, 3}, S # {} PROVE \E x \in S : \A y \in S : x >= y OBVIOUS
    <3>1. CASE 3 \in S BY <3>1
    <3>2. CASE 3 \notin S /\ 2 \in S BY <3>2
    <3>3. CASE 3 \notin S /\ 2 \notin S
      <4>1. S = {1} BY <3>3
      <4> QED BY <4>1
    <3> QED BY <3>1, <3>2, <3>3
  <2> QED BY <2>1 DEF Max
<1> HIDE DEF s, t
<1>3. /\ DOMAIN s = DOMAIN t
      /\ \A k \in DOMAIN s : SameHeader(s[k], t[k], rs)
      /\ \A S \in SUBSET DOMAIN s : S # {} => Max(S) \in S
  BY <1>1, <1>2
<1>4. NormaliseHeaders(s, rs, tally) = NormaliseHeaders(t, rs, tally) BY <1>3, HeadersAgree
<1> QED BY <1>4 DEF s, t

LEMMA RequestHeadersAgree ==
    ASSUME NEW rs, NameRules(rs), NEW one, NEW other, one.call = other.call, NEW i,
           NEW when, NEW later, NEW tally
    PROVE  NormaliseHeaders(RequestHeaders(one, i, when), rs, tally)
               = NormaliseHeaders(RequestHeaders(other, i, later), rs, tally)
<1> DEFINE id(m) == <<"X-RequestId", <<<<"guid", m.clock>>, <<"counter", i>>>>>>
           type(e) == <<"X-RequestType", <<<<"is", RequestType(e)>>>>>>
           cookie(m) == <<"Cookie", <<Cookie(m)>>>>
<1>1. type(one) = type(other) BY DEF RequestType
<1>2. SameHeader(id(when), id(later), rs) BY RequestIdAgrees
<1>3. SameHeader(cookie(when), cookie(later), rs) BY CookieAgrees
<1>4. SameHeader(type(one), type(other), rs) BY <1>1 DEF SameHeader
<1>5. ASSUME NEW e, NEW m
      PROVE  RequestHeaders(e, i, m) = <<id(m), type(e)>>
                 \o IF e.call \in {"ping", "connect"} THEN <<>> ELSE <<cookie(m)>>
  BY DEF RequestHeaders
<1>6. Len(rs) \in Nat BY DEF NameRules
<1> HIDE DEF id, type, cookie
<1>7. CASE one.call \in {"ping", "connect"}
  <2>1. RequestHeaders(one, i, when) = <<id(when), type(one)>> \o <<>> BY <1>5, <1>7
  <2>2. RequestHeaders(other, i, later) = <<id(later), type(other)>> \o <<>> BY <1>5, <1>7
  <2>3. NormaliseHeaders(<<id(when), type(one)>> \o <<>>, rs, tally)
            = NormaliseHeaders(<<id(later), type(other)>> \o <<>>, rs, tally)
    BY <1>2, <1>4, <1>6, PairAgrees
  <2> QED BY <2>1, <2>2, <2>3
<1>8. CASE one.call \notin {"ping", "connect"}
  <2>1. RequestHeaders(one, i, when) = <<id(when), type(one)>> \o <<cookie(when)>> BY <1>5, <1>8
  <2>2. RequestHeaders(other, i, later) = <<id(later), type(other)>> \o <<cookie(later)>> BY <1>5, <1>8
  <2>3. NormaliseHeaders(<<id(when), type(one)>> \o <<cookie(when)>>, rs, tally)
            = NormaliseHeaders(<<id(later), type(other)>> \o <<cookie(later)>>, rs, tally)
    BY <1>2, <1>3, <1>4, <1>6, TripleAgrees
  <2> QED BY <2>1, <2>2, <2>3
<1> QED BY <1>7, <1>8

LEMMA ResponseHeadersAgree ==
    ASSUME NEW rs, NameRules(rs), NEW one, NEW other, one.call = other.call,
           NEW when, NEW later, NEW tally
    PROVE  NormaliseHeaders(ResponseHeaders(one, when), rs, tally)
               = NormaliseHeaders(ResponseHeaders(other, later), rs, tally)
<1> DEFINE name == <<"X-FEServer", <<Spelled("text", "upper", "host")>>>>
           date(m) == <<"Date", <<<<"clock", m.clock>>>>>>
           cookie(m) == <<"Set-Cookie", <<Cookie(m), <<"path", "mapi">>>>>>
<1>1. SameHeader(name, name, rs) BY DEF SameHeader
<1>2. SameHeader(date(when), date(later), rs) BY DateAgrees
<1>3. SameHeader(cookie(when), cookie(later), rs) BY CookieAgrees
<1>4. ASSUME NEW e, NEW m
      PROVE  ResponseHeaders(e, m) = <<name, date(m)>>
                 \o IF e.call = "connect" THEN <<cookie(m)>> ELSE <<>>
  BY DEF ResponseHeaders
<1>5. Len(rs) \in Nat BY DEF NameRules
<1> HIDE DEF name, date, cookie
<1>6. CASE one.call # "connect"
  <2>1. ResponseHeaders(one, when) = <<name, date(when)>> \o <<>> BY <1>4, <1>6
  <2>2. ResponseHeaders(other, later) = <<name, date(later)>> \o <<>> BY <1>4, <1>6
  <2>3. NormaliseHeaders(<<name, date(when)>> \o <<>>, rs, tally)
            = NormaliseHeaders(<<name, date(later)>> \o <<>>, rs, tally)
    BY <1>1, <1>2, <1>5, PairAgrees
  <2> QED BY <2>1, <2>2, <2>3
<1>7. CASE one.call = "connect"
  <2>1. ResponseHeaders(one, when) = <<name, date(when)>> \o <<cookie(when)>> BY <1>4, <1>7
  <2>2. ResponseHeaders(other, later) = <<name, date(later)>> \o <<cookie(later)>> BY <1>4, <1>7
  <2>3. NormaliseHeaders(<<name, date(when)>> \o <<cookie(when)>>, rs, tally)
            = NormaliseHeaders(<<name, date(later)>> \o <<cookie(later)>>, rs, tally)
    BY <1>1, <1>2, <1>3, <1>5, TripleAgrees
  <2> QED BY <2>1, <2>2, <2>3
<1> QED BY <1>6, <1>7

\* A response, field by field; and its preamble once it is normalised.
Answer(preamble, error, delay, logon, times, content, size, aux) ==
    [preamble |-> preamble, status |-> 0, error |-> error, retryDelay |-> delay, logon |-> logon,
     times |-> times, content |-> content, declared |-> size, aux |-> aux]

Tags == <<"X-ElapsedTime", "X-StartTime">>
Lines(elapsed, start) == <<<<"X-ElapsedTime", elapsed>>, <<"X-StartTime", start>>>>
Still == [i \in {1, 2} |-> <<Tags[i], Canonical>>]

\* What is listed of it: a reading that was not 0 already.
Noted(kind, what, value) == IF value = 0 THEN <<>> ELSE <<<<kind, what>>>>
Stilled(elapsed, start) ==
    FlattenSeq([i \in {1, 2} |-> Noted("preamble", Tags[i], IF i = 1 THEN elapsed ELSE start)])

LEMMA PreambleIs ==
    ASSUME NEW elapsed \in Nat, NEW start \in Nat, NEW error, NEW delay, NEW logon, NEW times, NEW content,
           NEW size, NEW aux
    PROVE  LET answer(lines) == Answer(lines, error, delay, logon, times, content, size, aux)
           IN  /\ Preamble(answer(Lines(elapsed, start))) =
                      [payload |-> answer(Still), changes |-> Stilled(elapsed, start)]
               /\ HasPreamble(answer(Lines(elapsed, start)))
<1> DEFINE answer(lines) == Answer(lines, error, delay, logon, times, content, size, aux)
           lines == Lines(elapsed, start)
           value(i) == IF i = 1 THEN elapsed ELSE start
           moved(line) == line[1] \in VolatileMetaTags /\ line[2] # Canonical
           noted(i) == Noted("preamble", Tags[i], value(i))
<1>1. DOMAIN lines = {1, 2} /\ \A i \in {1, 2} : lines[i] = <<Tags[i], value(i)>> BY DEF Lines, Tags
<1>2. lines # <<>> BY DEF Lines
<1>3. \A i \in {1, 2} : Tags[i] \in VolatileMetaTags BY DEF Tags, VolatileMetaTags
<1>4. \A i \in {1, 2} : lines[i][1] = Tags[i] /\ lines[i][2] = value(i) BY <1>1
<1> HIDE DEF lines, value
<1>5. \A i \in {1, 2} : lines[i][1] \in VolatileMetaTags BY <1>3, <1>4
<1>6. [i \in DOMAIN lines |-> IF lines[i][1] \in VolatileMetaTags THEN <<lines[i][1], Canonical>> ELSE lines[i]]
          = Still
  BY <1>1, <1>4, <1>5 DEF Still
<1>11. \A i \in {1, 2} : (IF moved(lines[i]) THEN <<<<"preamble", lines[i][1]>>>> ELSE <<>>) = noted(i)
  BY <1>4, <1>5 DEF Noted, Canonical
<1>7. [i \in DOMAIN lines |-> IF moved(lines[i]) THEN <<<<"preamble", lines[i][1]>>>> ELSE <<>>]
          = [i \in {1, 2} |-> noted(i)]
  BY <1>1, <1>11
<1>8. answer(lines).preamble = lines BY DEF Answer
<1>9. [answer(lines) EXCEPT !.preamble = Still] = answer(Still) BY DEF Answer
<1>12. Stilled(elapsed, start) = FlattenSeq([i \in {1, 2} |-> noted(i)]) BY DEF Stilled, value
<1> HIDE DEF noted
<1>10. Preamble(answer(lines)) =
           [payload |-> [answer(lines) EXCEPT !.preamble = Still], changes |-> Stilled(elapsed, start)]
  BY <1>6, <1>7, <1>8, <1>12 DEF Preamble
<1> QED BY <1>2, <1>8, <1>9, <1>10 DEF HasPreamble, lines

LEMMA AnswerIs ==
    ASSUME NEW preamble, NEW error, NEW delay, NEW logon, NEW times, NEW content, NEW size, NEW aux, NEW answer,
           answer = Answer(preamble, error, delay, logon, times, content, size, aux)
    PROVE  /\ answer.status = 0 /\ answer.error = error
           /\ answer["retryDelay"] = delay /\ answer["times"] = times
           /\ answer.logon = logon /\ answer.content = content
           /\ answer.declared = size /\ answer.aux = aux
BY DEF Answer

\* The server's own name blanked, and the length that declared it.
Emptied(answer, none) == [answer EXCEPT !.declared = 0, !.aux = none]

LEMMA AnswerEmptied ==
    ASSUME NEW preamble, NEW error, NEW logon, NEW times, NEW content, NEW size, NEW aux, NEW none
    PROVE  Emptied(Answer(preamble, error, 0, logon, times, content, size, aux), none) =
               Answer(preamble, error, 0, logon, times, content, 0, none)
<1> DEFINE answer == Answer(preamble, error, 0, logon, times, content, size, aux)
           done == [answer EXCEPT !.declared = 0, !.aux = none]
           emptied == Answer(preamble, error, 0, logon, times, content, 0, none)
           Fields == {"preamble", "status", "error", "retryDelay", "logon", "times", "content", "declared", "aux"}
<1>1. DOMAIN answer = Fields /\ DOMAIN done = Fields /\ DOMAIN emptied = Fields BY DEF Answer
<1>2. /\ done.preamble = preamble /\ done.status = 0 /\ done.error = error /\ done.retryDelay = 0
      /\ done.logon = logon /\ done.times = times /\ done.content = content
      /\ done.declared = 0 /\ done.aux = none
  BY DEF Answer
<1>3. done = [f \in Fields |-> done[f]] BY <1>1
<1>4. emptied = [f \in Fields |-> emptied[f]] BY <1>1 DEF Answer
<1>5. /\ emptied.preamble = preamble /\ emptied.status = 0 /\ emptied.error = error /\ emptied.retryDelay = 0
      /\ emptied.logon = logon /\ emptied.times = times /\ emptied.content = content
      /\ emptied.declared = 0 /\ emptied.aux = none
  BY DEF Answer
<1> HIDE DEF done, emptied, answer
<1>6. \A f \in Fields : done[f] = emptied[f] BY <1>2, <1>5
<1> HIDE DEF Fields
<1>7. done = emptied BY <1>3, <1>4, <1>6
<1> QED BY <1>7 DEF done, emptied, answer, Emptied

LEMMA ResponseIs ==
    ASSUME NEW type, NEW payload, HasPreamble(payload)
    PROVE  LET preamble == Preamble(payload)
               delayed == RetryDelay(preamble.payload)
               timed == LogonTimes(preamble.payload)
               connected == Auxiliary(delayed.payload, ConnectAnchored(payload))
               executed == Auxiliary(timed.payload, ExecuteAnchored(payload))
           IN  /\ type = "Connect" => Response(type, payload) =
                      [payload |-> connected.payload,
                       changes |-> preamble.changes \o delayed.changes \o connected.changes]
               /\ type = "Execute" => Response(type, payload) =
                      [payload |-> executed.payload,
                       changes |-> preamble.changes \o timed.changes \o executed.changes]
               /\ type \notin {"Connect", "Execute"} => Response(type, payload) =
                      [payload |-> preamble.payload, changes |-> preamble.changes \o <<>> \o <<>>]
<1>1. CASE type = "Connect" BY <1>1 DEF Response
<1>2. CASE type = "Execute" BY <1>2 DEF Response
<1>3. CASE type \notin {"Connect", "Execute"}
  <2> DEFINE done == [payload |-> Preamble(payload).payload, changes |-> <<>>]
  <2>1. Response(type, payload) = [payload |-> done.payload,
                                   changes |-> Preamble(payload).changes \o done.changes \o done.changes]
    BY <1>3 DEF Response
  <2> QED BY <1>3, <2>1
<1> QED BY <1>1, <1>2, <1>3

\* The three kinds of answers, normalised: of the moment no more is left than which of its readings were 0.
Cleaned(error, logon, content, changes) ==
    [payload |-> Answer(Still, error, 0, logon, 0, content, 0, <<>>), changes |-> changes]

LEMMA ConnectAnswered ==
    ASSUME NEW elapsed \in Nat, NEW start \in Nat, NEW delay \in Nat, NEW size \in Nat,
           NEW error, NEW logon, NEW content, NEW aux, Len(aux) = size, size = 0 => aux = <<>>
    PROVE  Response("Connect", Answer(Lines(elapsed, start), error, delay, logon, 0, content, size, aux)) =
               Cleaned(error, logon, content,
                       Stilled(elapsed, start) \o Noted("body", "retryDelay", delay) \o Noted("body", "auxiliary", size))
<1> DEFINE body == Answer(Lines(elapsed, start), error, delay, logon, 0, content, size, aux)
           first == Answer(Still, error, delay, logon, 0, content, size, aux)
           second == Answer(Still, error, 0, logon, 0, content, size, aux)
           third == Answer(Still, error, 0, logon, 0, content, 0, <<>>)
           a == Stilled(elapsed, start)
           b == Noted("body", "retryDelay", delay)
           c == Noted("body", "auxiliary", size)
<1>1. Preamble(body) = [payload |-> first, changes |-> a] /\ HasPreamble(body) BY PreambleIs
<1>2. body.status = 0 BY AnswerIs
<1>3. /\ first.status = 0 /\ first["retryDelay"] = delay /\ second.declared = size /\ second.aux = aux
  BY AnswerIs
<1>31. [first EXCEPT !["retryDelay"] = 0] = second BY DEF Answer
<1>32. Emptied(second, <<>>) = third BY AnswerEmptied
<1>33. delay = 0 => first = second OBVIOUS
<1>34. size = 0 => second = third OBVIOUS
<1> HIDE DEF body, first, second, third, a
<1>4. RetryDelay(first) = [payload |-> second, changes |-> b]
  <2>1. CASE delay = 0 BY <1>3, <1>33, <2>1 DEF RetryDelay, Cleared, Canonical, Noted
  <2>2. CASE delay # 0 BY <1>3, <1>31, <2>2 DEF RetryDelay, Cleared, Canonical, Noted
  <2> QED BY <2>1, <2>2
<1>5. ConnectAnchored(body) BY <1>2 DEF ConnectAnchored
<1>6. Auxiliary(second, ConnectAnchored(body)) = [payload |-> third, changes |-> c]
  <2>1. CASE size = 0 BY <1>3, <1>34, <2>1 DEF Auxiliary, Noted
  <2>2. CASE size # 0 BY <1>3, <1>32, <1>5, <2>2 DEF Auxiliary, Emptied, Noted
  <2> QED BY <2>1, <2>2
<1> HIDE DEF b, c
<1>7. Response("Connect", body) = [payload |-> third, changes |-> a \o b \o c]
  <2>1. /\ Preamble(body).payload = first /\ Preamble(body).changes = a
        /\ RetryDelay(first).payload = second /\ RetryDelay(first).changes = b
        /\ Auxiliary(second, ConnectAnchored(body)).payload = third
        /\ Auxiliary(second, ConnectAnchored(body)).changes = c
    BY <1>1, <1>4, <1>6
  <2> QED BY <1>1, <2>1, ResponseIs
<1> QED BY <1>7 DEF body, third, Cleaned, a, b, c

\* Only a logon has times.
Timed(logon, times) == times = 0 \/ logon

LEMMA ExecuteAnswered ==
    ASSUME NEW elapsed \in Nat, NEW start \in Nat, NEW times \in Nat, NEW logon, Timed(logon, times), NEW content
    PROVE  Response("Execute", Answer(Lines(elapsed, start), 0, 0, logon, times, content, 0, <<>>)) =
               Cleaned(0, logon, content, Stilled(elapsed, start) \o Noted("body", "times", times) \o <<>>)
<1> DEFINE body == Answer(Lines(elapsed, start), 0, 0, logon, times, content, 0, <<>>)
           first == Answer(Still, 0, 0, logon, times, content, 0, <<>>)
           second == Answer(Still, 0, 0, logon, 0, content, 0, <<>>)
           a == Stilled(elapsed, start)
           b == Noted("body", "times", times)
           c == <<>>
<1>1. Preamble(body) = [payload |-> first, changes |-> a] /\ HasPreamble(body) BY PreambleIs
<1>2. /\ first.status = 0 /\ first.error = 0 /\ first.logon = logon /\ first["times"] = times
      /\ second.declared = 0
  BY AnswerIs
<1>31. [first EXCEPT !["times"] = 0] = second BY DEF Answer
<1>33. times = 0 => first = second OBVIOUS
<1> HIDE DEF body, first, second, a
<1>3. times # 0 => first.logon BY <1>2 DEF Timed
<1>4. LogonTimes(first) = [payload |-> second, changes |-> b]
  <2>1. CASE times = 0 BY <1>2, <1>33, <2>1 DEF LogonTimes, Cleared, Canonical, Noted
  <2>2. CASE times # 0 BY <1>2, <1>3, <1>31, <2>2 DEF LogonTimes, Cleared, Canonical, Succeeded, Noted
  <2> QED BY <2>1, <2>2
<1>5. Auxiliary(second, ExecuteAnchored(body)) = [payload |-> second, changes |-> <<>>]
  BY <1>2 DEF Auxiliary
<1>6. Response("Execute", body) = [payload |-> second, changes |-> a \o b \o c]
  <2> HIDE DEF b, c
  <2>1. /\ Preamble(body).payload = first /\ Preamble(body).changes = a
        /\ LogonTimes(first).payload = second /\ LogonTimes(first).changes = b
        /\ Auxiliary(second, ExecuteAnchored(body)).payload = second
        /\ Auxiliary(second, ExecuteAnchored(body)).changes = c
    BY <1>1, <1>4, <1>5 DEF c
  <2> QED BY <1>1, <2>1, ResponseIs
<1> QED BY <1>6 DEF body, second, Cleaned, a

LEMMA OtherAnswered ==
    ASSUME NEW elapsed \in Nat, NEW start \in Nat, NEW logon, NEW content, NEW type, type \in {"PING", "Disconnect"}
    PROVE  Response(type, Answer(Lines(elapsed, start), 0, 0, logon, 0, content, 0, <<>>)) =
               Cleaned(0, logon, content, Stilled(elapsed, start) \o <<>> \o <<>>)
<1> DEFINE body == Answer(Lines(elapsed, start), 0, 0, logon, 0, content, 0, <<>>)
           first == Answer(Still, 0, 0, logon, 0, content, 0, <<>>)
           a == Stilled(elapsed, start)
<1>1. Preamble(body) = [payload |-> first, changes |-> a] /\ HasPreamble(body) BY PreambleIs
<1> HIDE DEF body, first, a
<1>2. Preamble(body).payload = first /\ Preamble(body).changes = a BY <1>1
<1>3. Response(type, body) = [payload |-> first, changes |-> a \o <<>> \o <<>>] BY <1>1, <1>2, ResponseIs
<1> QED BY <1>3 DEF body, first, Cleaned, a

LEMMA NothingLong == ASSUME NEW atom PROVE [k \in 1..0 |-> atom] = <<>>
<1>1. 1..0 = {} OBVIOUS
<1>2. [k \in {} |-> atom] = <<>> OBVIOUS
<1> QED BY <1>1, <1>2

\* The readings of an exchange are numbers, and those that are 0 are those that are still.
LEMMA ReadingIs ==
    ASSUME NEW when, when.clock \in Nat \ {0}, NEW i, NEW what \in Readings
    PROVE  Reading(when, i, what) \in Nat /\ (Reading(when, i, what) = 0 <=> what \in StillAt(when, i))
BY DEF Reading, StillAt

ListedAlike(i, one, other, changes, more) == StillAt(one, i) = StillAt(other, i) => changes = more

\* The same answer but for the identifiers in it, whenever it was given, and listed the same if the same of it was 0.
LEMMA Answered ==
    ASSUME NEW one, NEW other, one.call = other.call, one.refused = other.refused, NEW i,
           NEW when, when.clock \in Nat \ {0}, NEW later, later.clock \in Nat \ {0}
    PROVE  \E error, logon, changes, more :
               /\ Response(RequestType(one), ResponseBody(one, i, when)) =
                      Cleaned(error, logon, ResponseBody(one, i, when).content, changes)
               /\ Response(RequestType(other), ResponseBody(other, i, later)) =
                      Cleaned(error, logon, ResponseBody(other, i, later).content, more)
               /\ ListedAlike(i, when, later, changes, more)
<1> DEFINE connecting(e) == e.call = "connect"
           logon(e) == e.call = "logon" /\ e.refused = "nothing"
           error(e) == IF connecting(e) /\ e.refused = "call" THEN 1 ELSE 0
           at(m, what) == Reading(m, i, what)
           delay(e, m) == IF connecting(e) THEN at(m, "delay") ELSE 0
           size(e, m) == IF connecting(e) THEN at(m, "aux") ELSE 0
           times(e, m) == IF logon(e) THEN at(m, "times") ELSE 0
           content(e) == Told(e) \o Identifiers(e.tells)
                         \o (IF e.refused = "nothing" THEN <<>> ELSE <<Refusal(e.refused)>>)
           atom == Spelled("text", "upper", "host")
           aux(e, m) == [k \in 1..size(e, m) |-> atom]
           lines(m) == Lines(at(m, "elapsed"), at(m, "start"))
           body(e, m) == Answer(lines(m), error(e), delay(e, m), logon(e), times(e, m), content(e),
                                size(e, m), aux(e, m))
           stilled(m) == Stilled(at(m, "elapsed"), at(m, "start"))
           OK(m) == m.clock \in Nat \ {0}
<1>1. \A e, m : ResponseBody(e, i, m) = body(e, m) BY DEF ResponseBody, Answer, Lines
<1>2. error(one) = error(other) /\ logon(one) = logon(other) OBVIOUS
<1>3. one.call # "connect" => error(one) = 0 OBVIOUS
<1>4. logon(one) => one.call = "logon" OBVIOUS
<1>5. \A m : OK(m) => \A what \in Readings : at(m, what) \in Nat BY ReadingIs
<1>6. \A what : at(when, what) \in Nat /\ at(later, what) \in Nat BY DEF Reading
<1>7. RequestType(one) = RequestType(other) BY DEF RequestType
<1>8. \A e, m : ResponseBody(e, i, m).content = content(e)
  <2> HIDE DEF error, logon, delay, size, times, content, aux, lines
  <2> QED BY <1>1, AnswerIs
<1>12. ASSUME StillAt(when, i) = StillAt(later, i), NEW what \in Readings
       PROVE  at(when, what) = 0 <=> at(later, what) = 0
  BY <1>12, ReadingIs
<1> HIDE DEF at, content, error, atom
<1>13. ASSUME StillAt(when, i) = StillAt(later, i), NEW kind, NEW name, NEW what \in Readings
       PROVE  Noted(kind, name, at(when, what)) = Noted(kind, name, at(later, what))
  BY <1>12, <1>13 DEF Noted
<1>14. ASSUME StillAt(when, i) = StillAt(later, i) PROVE stilled(when) = stilled(later)
  <2> DEFINE noted(m, k) == Noted("preamble", Tags[k], IF k = 1 THEN at(m, "elapsed") ELSE at(m, "start"))
  <2>1. "elapsed" \in Readings /\ "start" \in Readings BY DEF Readings
  <2>2. noted(when, 1) = noted(later, 1) /\ noted(when, 2) = noted(later, 2) BY <1>13, <1>14, <2>1
  <2> HIDE DEF noted
  <2>3. [k \in {1, 2} |-> noted(when, k)] = [k \in {1, 2} |-> noted(later, k)] BY <2>2
  <2>4. \A m : stilled(m) = FlattenSeq([k \in {1, 2} |-> noted(m, k)]) BY DEF Stilled, noted
  <2> QED BY <2>3, <2>4
<1> HIDE DEF stilled
<1>9. CASE one.call = "connect"
  <2>1. ~logon(one) /\ ~logon(other) BY <1>9
  <2>2. RequestType(one) = "Connect" BY <1>9 DEF RequestType
  <2> HIDE DEF logon
  <2> DEFINE changes(m) == stilled(m) \o Noted("body", "retryDelay", at(m, "delay"))
                           \o Noted("body", "auxiliary", at(m, "aux"))
  <2>3. ASSUME NEW e, NEW m, \A what : at(m, what) \in Nat, e.call = "connect", ~logon(e)
        PROVE  Response("Connect", body(e, m)) = Cleaned(error(e), logon(e), content(e), changes(m))
    <3>1. delay(e, m) = at(m, "delay") /\ size(e, m) = at(m, "aux") /\ times(e, m) = 0 BY <2>3
    <3> DEFINE n == at(m, "aux")
               a == [k \in 1..n |-> atom]
    <3>2. n \in Nat BY <2>3
    <3>3. Len(a) = n BY <3>2
    <3>4. n = 0 => a = <<>> BY NothingLong
    <3> HIDE DEF a
    <3>5. body(e, m) = Answer(lines(m), error(e), at(m, "delay"), logon(e), 0, content(e), n, a) BY <3>1 DEF a
    <3>6. Response("Connect", Answer(lines(m), error(e), at(m, "delay"), logon(e), 0, content(e), n, a))
              = Cleaned(error(e), logon(e), content(e), changes(m))
      BY <2>3, <3>3, <3>4, ConnectAnswered DEF stilled
    <3> QED BY <3>5, <3>6
  <2>6. ListedAlike(i, when, later, changes(when), changes(later))
    <3>1. "delay" \in Readings /\ "aux" \in Readings BY DEF Readings
    <3> QED BY <1>13, <1>14, <3>1 DEF ListedAlike
  <2> HIDE DEF changes, body
  <2>4. Response("Connect", body(one, when)) = Cleaned(error(one), logon(one), content(one), changes(when))
    BY <1>6, <1>9, <2>1, <2>3
  <2>5. Response("Connect", body(other, later)) = Cleaned(error(one), logon(one), content(other), changes(later))
    BY <1>2, <1>6, <1>9, <2>1, <2>3
  <2> WITNESS error(one), logon(one), changes(when), changes(later)
  <2> QED BY <1>1, <1>7, <1>8, <2>2, <2>4, <2>5, <2>6
<1>10. CASE RequestType(one) = "Execute"
  <2>1. one.call # "connect" /\ other.call # "connect" BY <1>10 DEF RequestType
  <2>2. error(one) = 0 BY <1>3, <2>1
  <2> DEFINE changes(m) == stilled(m) \o Noted("body", "times", times(one, m)) \o <<>>
  <2>3. \A m : times(other, m) = times(one, m) OBVIOUS
  <2>4. ASSUME NEW e, NEW m, \A what : at(m, what) \in Nat, e.call # "connect", error(e) = 0,
               times(e, m) = times(one, m)
        PROVE  Response("Execute", body(e, m)) = Cleaned(error(e), logon(e), content(e), changes(m))
    <3>1. delay(e, m) = 0 /\ size(e, m) = 0 BY <2>4
    <3>2. aux(e, m) = <<>> BY <3>1, NothingLong
    <3>3. Timed(logon(e), times(e, m)) BY DEF Timed
    <3>4. times(e, m) \in Nat BY <2>4
    <3> HIDE DEF logon, times, delay, size, aux
    <3>5. body(e, m) = Answer(lines(m), 0, 0, logon(e), times(e, m), content(e), 0, <<>>) BY <2>4, <3>1, <3>2
    <3>6. Response("Execute", Answer(lines(m), 0, 0, logon(e), times(e, m), content(e), 0, <<>>))
              = Cleaned(0, logon(e), content(e), changes(m))
      <4> DEFINE x == at(m, "elapsed")
                 y == at(m, "start")
                 n == times(e, m)
                 l == logon(e)
                 c == content(e)
      <4>1. x \in Nat /\ y \in Nat /\ n \in Nat /\ Timed(l, n) BY <2>4, <3>3, <3>4
      <4>2. changes(m) = Stilled(x, y) \o Noted("body", "times", n) \o <<>> BY <2>4 DEF stilled
      <4> HIDE DEF x, y, n, l, c
      <4>3. Response("Execute", Answer(Lines(x, y), 0, 0, l, n, c, 0, <<>>))
                = Cleaned(0, l, c, Stilled(x, y) \o Noted("body", "times", n) \o <<>>)
        BY <4>1, ExecuteAnswered
      <4> QED BY <4>2, <4>3 DEF x, y, n, l, c
    <3> QED BY <2>4, <3>5, <3>6
  <2>5. ListedAlike(i, when, later, changes(when), changes(later))
    <3>1. "times" \in Readings BY DEF Readings
    <3>2. CASE logon(one)
      <4>1. times(one, when) = at(when, "times") /\ times(one, later) = at(later, "times") BY <3>2
      <4> HIDE DEF times
      <4> QED BY <1>13, <1>14, <3>1, <4>1 DEF ListedAlike
    <3>3. CASE ~logon(one)
      <4>1. times(one, when) = 0 /\ times(one, later) = 0 BY <3>3
      <4> HIDE DEF times
      <4> QED BY <1>14, <4>1 DEF ListedAlike
    <3> QED BY <3>2, <3>3
  <2> HIDE DEF changes, body, logon, times
  <2>6. Response("Execute", body(one, when)) = Cleaned(error(one), logon(one), content(one), changes(when))
    BY <1>6, <2>1, <2>2, <2>4
  <2>7. Response("Execute", body(other, later)) = Cleaned(error(one), logon(one), content(other), changes(later))
    BY <1>2, <1>6, <2>1, <2>2, <2>3, <2>4
  <2> WITNESS error(one), logon(one), changes(when), changes(later)
  <2> QED BY <1>1, <1>7, <1>8, <1>10, <2>5, <2>6, <2>7
<1>11. CASE RequestType(one) \in {"PING", "Disconnect"}
  <2>1. one.call \in {"ping", "disconnect"} /\ other.call = one.call BY <1>11 DEF RequestType
  <2>2. error(one) = 0 BY <1>3, <2>1
  <2> DEFINE type == RequestType(one)
             changes(m) == stilled(m) \o <<>> \o <<>>
  <2>4. ASSUME NEW e, NEW m, \A what : at(m, what) \in Nat, e.call \in {"ping", "disconnect"}, error(e) = 0
        PROVE  Response(type, body(e, m)) = Cleaned(error(e), logon(e), content(e), changes(m))
    <3>1. delay(e, m) = 0 /\ size(e, m) = 0 /\ times(e, m) = 0 BY <2>4
    <3>2. aux(e, m) = <<>> BY <3>1, NothingLong
    <3> HIDE DEF logon, times, delay, size, aux, type
    <3>5. body(e, m) = Answer(lines(m), 0, 0, logon(e), 0, content(e), 0, <<>>) BY <2>4, <3>1, <3>2
    <3>6. Response(type, Answer(lines(m), 0, 0, logon(e), 0, content(e), 0, <<>>))
              = Cleaned(0, logon(e), content(e), changes(m))
      BY <1>11, <2>4, OtherAnswered DEF stilled, type
    <3> QED BY <2>4, <3>5, <3>6
  <2>5. ListedAlike(i, when, later, changes(when), changes(later)) BY <1>14 DEF ListedAlike
  <2> HIDE DEF changes, body, logon, type
  <2>6. Response(type, body(one, when)) = Cleaned(error(one), logon(one), content(one), changes(when))
    BY <1>6, <2>1, <2>2, <2>4
  <2>7. Response(type, body(other, later)) = Cleaned(error(one), logon(one), content(other), changes(later))
    BY <1>2, <1>6, <2>1, <2>2, <2>4
  <2> WITNESS error(one), logon(one), changes(when), changes(later)
  <2> QED BY <1>1, <1>7, <1>8, <2>5, <2>6, <2>7 DEF type
<1>15. one.call = "connect" \/ RequestType(one) \in {"Execute", "PING", "Disconnect"} BY DEF RequestType
<1> HIDE DEF logon, body
<1> QED BY <1>9, <1>10, <1>11, <1>15

-----------------------------------------------------------------------------
(* What a conversation says, of all that the server gave out. *)

\* Which of the identifiers that are declared an exchange may name: the second is what the message
\* is called once it was moved.
Spot(exchange) == IF exchange.call \in {"locate", "find", "take"} THEN 2 ELSE 1

\* Identifiers, each of them the k-th that is declared.
AllOf(ids, declared, k) == Listing(ids) /\ \A i \in DOMAIN ids : k \in DOMAIN declared /\ ids[i] = declared[k].value
Known(exchange, declared) ==
    AllOf(exchange.asks, declared, Spot(exchange)) /\ AllOf(exchange.tells, declared, Spot(exchange))

\* Two contents that differ in the values of what is declared, and two declarations of the same things.
Matching(one, declared, other, redeclared) ==
    /\ DOMAIN one = DOMAIN other
    /\ \A i \in DOMAIN one :
          \/ one[i] = other[i] /\ \A n : one[i] # Identifier(n)
          \/ \E k \in DOMAIN declared :
                one[i] = Identifier(declared[k].value) /\ other[i] = Identifier(redeclared[k].value)

Distinct(declared) == \A j, k \in DOMAIN declared : declared[j].value = declared[k].value => j = k

Paired(declared, redeclared) ==
    /\ DOMAIN declared = DOMAIN redeclared
    /\ \A k \in DOMAIN declared : declared[k].what = redeclared[k].what
    /\ Distinct(declared) /\ Distinct(redeclared)

LEMMA SameIdentifier == ASSUME NEW m, NEW n, Identifier(m) = Identifier(n) PROVE m = n
<1>1. Identifier(m)[2] = m /\ Identifier(n)[2] = n BY DEF Identifier
<1> QED BY <1>1

LEMMA ZeroAgrees ==
    ASSUME NEW one, NEW declared, NEW other, NEW redeclared,
           Paired(declared, redeclared), Matching(one, declared, other, redeclared)
    PROVE  ZeroAssigned(one, declared) = ZeroAssigned(other, redeclared)
<1> DEFINE D == DOMAIN declared
           values == {Identifier(declared[i].value) : i \in DOMAIN declared}
           revalues == {Identifier(redeclared[i].value) : i \in DOMAIN redeclared}
           zeroed(c, vs) == [i \in DOMAIN c |-> IF c[i] \in vs THEN Zero ELSE c[i]]
           changes(c, d) == [i \in DOMAIN d |->
                                <<"assigned", d[i].what, Cardinality(Occurrences(c, Identifier(d[i].value)))>>]
<1>1. DOMAIN redeclared = D /\ DOMAIN one = DOMAIN other BY DEF Paired, Matching
<1>2. zeroed(one, values) = zeroed(other, revalues)
  <2>1. ASSUME NEW i \in DOMAIN one
        PROVE  (IF one[i] \in values THEN Zero ELSE one[i]) = (IF other[i] \in revalues THEN Zero ELSE other[i])
    <3>1. CASE one[i] = other[i] /\ \A n : one[i] # Identifier(n) BY <3>1
    <3>2. ASSUME NEW k \in D, one[i] = Identifier(declared[k].value), other[i] = Identifier(redeclared[k].value)
          PROVE  one[i] \in values /\ other[i] \in revalues
      BY <1>1, <3>2
    <3> HIDE DEF values, revalues
    <3> QED BY <3>1, <3>2 DEF Matching
  <2> HIDE DEF values, revalues
  <2> QED BY <1>1, <2>1
<1>3. ASSUME NEW k \in D
      PROVE  Occurrences(one, Identifier(declared[k].value)) = Occurrences(other, Identifier(redeclared[k].value))
  <2>1. ASSUME NEW i \in DOMAIN one
        PROVE  one[i] = Identifier(declared[k].value) <=> other[i] = Identifier(redeclared[k].value)
    <3>1. CASE one[i] = other[i] /\ \A n : one[i] # Identifier(n) BY <3>1
    <3>2. ASSUME NEW j \in D, one[i] = Identifier(declared[j].value), other[i] = Identifier(redeclared[j].value)
          PROVE  one[i] = Identifier(declared[k].value) <=> other[i] = Identifier(redeclared[k].value)
      <4>1. one[i] = Identifier(declared[k].value) => j = k BY <3>2, SameIdentifier DEF Paired, Distinct
      <4>2. other[i] = Identifier(redeclared[k].value) => j = k BY <1>1, <3>2, SameIdentifier DEF Paired, Distinct
      <4> QED BY <3>2, <4>1, <4>2
    <3> QED BY <3>1, <3>2 DEF Matching
  <2> QED BY <1>1, <2>1 DEF Occurrences
<1>4. \A k \in D : <<"assigned", declared[k].what, Cardinality(Occurrences(one, Identifier(declared[k].value)))>>
          = <<"assigned", redeclared[k].what, Cardinality(Occurrences(other, Identifier(redeclared[k].value)))>>
  BY <1>3 DEF Paired
<1>5. changes(one, declared) = changes(other, redeclared) BY <1>1, <1>4
<1>6. ZeroAssigned(one, declared) =
          [content |-> zeroed(one, values),
           changes |-> SelectSeq(changes(one, declared), LAMBDA change : change[3] > 0)]
  BY DEF ZeroAssigned
<1>7. ZeroAssigned(other, redeclared) =
          [content |-> zeroed(other, revalues),
           changes |-> SelectSeq(changes(other, redeclared), LAMBDA change : change[3] > 0)]
  BY DEF ZeroAssigned
<1> HIDE DEF zeroed, changes, values, revalues
<1> QED BY <1>2, <1>5, <1>6, <1>7

LEMMA JoinMatches ==
    ASSUME NEW s, NEW t, NEW r, NEW q, NEW d, NEW e, Listing(s), Listing(t), Listing(r), Listing(q),
           Matching(s, d, r, e), Matching(t, d, q, e)
    PROVE  Matching(s \o t, d, r \o q, e) /\ Listing(s \o t) /\ Listing(r \o q)
<1>1. /\ DOMAIN s = 1..Len(s) /\ DOMAIN t = 1..Len(t) /\ DOMAIN r = 1..Len(r) /\ DOMAIN q = 1..Len(q)
      /\ Len(s) \in Nat /\ Len(t) \in Nat /\ Len(r) \in Nat /\ Len(q) \in Nat
  BY LenProperties DEF Listing
<1>2. Len(s) = Len(r) /\ Len(t) = Len(q)
  <2>1. \A m, n \in Nat : 1..m = 1..n => m = n
    <3> SUFFICES ASSUME NEW m \in Nat, NEW n \in Nat, 1..m = 1..n PROVE m = n OBVIOUS
    <3>1. m \in 1..m => m <= n OBVIOUS
    <3>2. n \in 1..n => n <= m OBVIOUS
    <3> QED BY <3>1, <3>2
  <2> QED BY <1>1, <2>1 DEF Matching
<1>3. /\ Listing(s \o t) /\ Len(s \o t) = Len(s) + Len(t)
      /\ \A i \in 1..Len(s) : (s \o t)[i] = s[i]
      /\ \A i \in (Len(s) + 1)..(Len(s) + Len(t)) : (s \o t)[i] = t[i - Len(s)]
  BY Joined
<1>4. /\ Listing(r \o q) /\ Len(r \o q) = Len(r) + Len(q)
      /\ \A i \in 1..Len(r) : (r \o q)[i] = r[i]
      /\ \A i \in (Len(r) + 1)..(Len(r) + Len(q)) : (r \o q)[i] = q[i - Len(r)]
  BY Joined
<1> DEFINE a == s \o t
           b == r \o q
<1>5. DOMAIN a = 1..(Len(s) + Len(t)) /\ DOMAIN b = 1..(Len(s) + Len(t))
  BY <1>2, <1>3, <1>4, LenProperties DEF Listing
<1>6. ASSUME NEW i \in DOMAIN a
      PROVE  \/ a[i] = b[i] /\ \A n : a[i] # Identifier(n)
             \/ \E k \in DOMAIN d : a[i] = Identifier(d[k].value) /\ b[i] = Identifier(e[k].value)
  <2>1. CASE i <= Len(s)
    <3>1. i \in DOMAIN s /\ a[i] = s[i] /\ b[i] = r[i] BY <1>1, <1>2, <1>3, <1>4, <1>5, <2>1
    <3> HIDE DEF a, b
    <3> QED BY <3>1 DEF Matching
  <2>2. CASE ~(i <= Len(s))
    <3>1. i - Len(s) \in DOMAIN t /\ a[i] = t[i - Len(s)] /\ b[i] = q[i - Len(s)]
      BY <1>1, <1>2, <1>3, <1>4, <1>5, <2>2
    <3> HIDE DEF a, b
    <3> QED BY <3>1 DEF Matching
  <2> QED BY <2>1, <2>2
<1> HIDE DEF a, b
<1>7. Matching(a, d, b, e) BY <1>5, <1>6 DEF Matching
<1> QED BY <1>3, <1>4, <1>7 DEF a, b

LEMMA IdentifiersMatch ==
    ASSUME NEW ids, NEW others, NEW d, NEW e, NEW k, Paired(d, e), AllOf(ids, d, k), AllOf(others, e, k),
           Len(ids) = Len(others)
    PROVE  Matching(Identifiers(ids), d, Identifiers(others), e)
           /\ Listing(Identifiers(ids)) /\ Listing(Identifiers(others))
<1>1. DOMAIN ids = 1..Len(ids) /\ DOMAIN others = 1..Len(ids) /\ Len(ids) \in Nat
  BY LenProperties DEF AllOf, Listing
<1>2. ASSUME NEW s, DOMAIN s = 1..Len(ids) PROVE Listing(Identifiers(s))
  <2> DEFINE g == Identifiers(s)
  <2>1. g \in Seq({Identifier(s[i]) : i \in 1..Len(ids)}) BY <1>1, <1>2 DEF Identifiers
  <2> HIDE DEF g
  <2>2. Listing(g) BY <2>1, SeqOfRange DEF Listing
  <2> QED BY <2>2 DEF g
<1> DEFINE a == Identifiers(ids)
           b == Identifiers(others)
<1>3. /\ DOMAIN a = 1..Len(ids) /\ DOMAIN b = 1..Len(ids)
      /\ \A i \in 1..Len(ids) : a[i] = Identifier(ids[i]) /\ b[i] = Identifier(others[i])
  BY <1>1 DEF Identifiers
<1> HIDE DEF a, b
<1>4. ASSUME NEW i \in DOMAIN a
      PROVE  \E j \in DOMAIN d : a[i] = Identifier(d[j].value) /\ b[i] = Identifier(e[j].value)
  BY <1>1, <1>3 DEF AllOf
<1>5. Matching(a, d, b, e) BY <1>3, <1>4 DEF Matching
<1> QED BY <1>1, <1>2, <1>5 DEF a, b

\* What is neither declared nor about anything that is.
LEMMA OneMatches ==
    ASSUME NEW atom, \A n : atom # Identifier(n), NEW d, NEW e
    PROVE  Matching(<<atom>>, d, <<atom>>, e) /\ Listing(<<atom>>)
<1>1. Listing(<<atom>>) /\ DOMAIN <<atom>> = {1} /\ <<atom>>[1] = atom BY Listing1
<1> QED BY <1>1 DEF Matching

LEMMA NoneMatches == ASSUME NEW d, NEW e PROVE Matching(<<>>, d, <<>>, e) /\ Listing(<<>>)
BY DEF Matching, Listing

\* Two exchanges of the same call, with as many identifiers in each direction.
SameShape(one, other) ==
    /\ one.call = other.call /\ one.label = other.label /\ one.refused = other.refused
    /\ Len(one.asks) = Len(other.asks) /\ Len(one.tells) = Len(other.tells)

LEMMA SpelledIs == \A e, c, n, m : Spelled(e, c, n) # Identifier(m)
<1>1. \A e, c, n : Spelled(e, c, n)[1] = "name" BY DEF Spelled
<1>2. \A n : Identifier(n)[1] = "id" BY DEF Identifier
<1> QED BY <1>1, <1>2

\* What the two ask, and what they are told, differ in identifiers alone.
LEMMA AsksMatch ==
    ASSUME NEW one, NEW other, SameShape(one, other), NEW d, NEW e, Paired(d, e), Known(one, d), Known(other, e)
    PROVE  Matching(RequestBody(one), d, RequestBody(other), e)
<1> DEFINE names(x) == IF x.call \in {"connect", "logon"} THEN <<Spelled("text", "written", "dn")>> ELSE <<>>
<1>1. names(one) = names(other) BY DEF SameShape
<1>2. Matching(names(one), d, names(one), e) /\ Listing(names(one))
  <2> DEFINE atom == Spelled("text", "written", "dn")
  <2>1. \A n : atom # Identifier(n) BY SpelledIs
  <2> HIDE DEF atom
  <2>2. Matching(<<atom>>, d, <<atom>>, e) /\ Listing(<<atom>>) BY <2>1, OneMatches
  <2>3. names(one) = <<>> \/ names(one) = <<atom>> BY DEF atom
  <2> HIDE DEF names
  <2> QED BY <2>2, <2>3, NoneMatches
<1>3. Spot(one) = Spot(other) BY DEF SameShape, Spot
<1>4. /\ Matching(Identifiers(one.asks), d, Identifiers(other.asks), e)
      /\ Listing(Identifiers(one.asks)) /\ Listing(Identifiers(other.asks))
  BY <1>3, IdentifiersMatch DEF Known, SameShape
<1>5. /\ RequestBody(one) = names(one) \o Identifiers(one.asks)
      /\ RequestBody(other) = names(other) \o Identifiers(other.asks)
  BY DEF RequestBody
<1> HIDE DEF names
<1>6. Matching(names(one) \o Identifiers(one.asks), d, names(one) \o Identifiers(other.asks), e)
  BY <1>2, <1>4, JoinMatches
<1> QED BY <1>1, <1>5, <1>6

LEMMA TellsMatch ==
    ASSUME NEW one, NEW other, SameShape(one, other), NEW d, NEW e, Paired(d, e), Known(one, d), Known(other, e),
           NEW i, NEW when, NEW later
    PROVE  Matching(ResponseBody(one, i, when).content, d, ResponseBody(other, i, later).content, e)
<1> DEFINE end(x) == IF x.refused = "nothing" THEN <<>> ELSE <<Refusal(x.refused)>>
<1>1. Told(one) = Told(other) /\ end(one) = end(other) BY DEF SameShape, Told
<1>2. Matching(Told(one), d, Told(one), e) /\ Listing(Told(one))
  <2>1. Told(one) = <<>> \/ \E c, a, n : Told(one) = <<Spelled(c, a, n)>> BY DEF Told
  <2>2. ASSUME NEW c, NEW a, NEW n, Told(one) = <<Spelled(c, a, n)>>
        PROVE  Matching(Told(one), d, Told(one), e) /\ Listing(Told(one))
    <3> DEFINE atom == Spelled(c, a, n)
    <3>1. \A m : atom # Identifier(m) BY SpelledIs
    <3> HIDE DEF atom
    <3>2. Matching(<<atom>>, d, <<atom>>, e) /\ Listing(<<atom>>) BY <3>1, OneMatches
    <3> QED BY <2>2, <3>2 DEF atom
  <2> QED BY <2>1, <2>2, NoneMatches
<1>3. Matching(end(one), d, end(one), e) /\ Listing(end(one))
  <2> DEFINE atom == Refusal(one.refused)
  <2>1. \A n : atom # Identifier(n) BY RefusalIs
  <2> HIDE DEF atom
  <2>2. Matching(<<atom>>, d, <<atom>>, e) /\ Listing(<<atom>>) BY <2>1, OneMatches
  <2>3. end(one) = <<>> \/ end(one) = <<atom>> BY DEF atom
  <2> HIDE DEF end
  <2> QED BY <2>2, <2>3, NoneMatches
<1>4. Spot(one) = Spot(other) BY DEF SameShape, Spot
<1>5. /\ Matching(Identifiers(one.tells), d, Identifiers(other.tells), e)
      /\ Listing(Identifiers(one.tells)) /\ Listing(Identifiers(other.tells))
  BY <1>4, IdentifiersMatch DEF Known, SameShape
<1>6. /\ ResponseBody(one, i, when).content = Told(one) \o Identifiers(one.tells) \o end(one)
      /\ ResponseBody(other, i, later).content = Told(other) \o Identifiers(other.tells) \o end(other)
  BY DEF ResponseBody
<1> HIDE DEF end
<1> DEFINE a == Told(one) \o Identifiers(one.tells)
           b == Told(one) \o Identifiers(other.tells)
<1>7. Matching(a, d, b, e) /\ Listing(a) /\ Listing(b) BY <1>2, <1>5, JoinMatches
<1> HIDE DEF a, b
<1>8. Matching(a \o end(one), d, b \o end(one), e) BY <1>3, <1>7, JoinMatches
<1> QED BY <1>1, <1>6, <1>8 DEF a, b

\* A response once its content and its auxiliary buffer are scrubbed.
Filled(answer, content, aux) == [answer EXCEPT !.content = content, !.aux = aux]

LEMMA FilledAgrees ==
    ASSUME NEW preamble, NEW error, NEW logon, NEW times, NEW one, NEW other, NEW size, NEW aux, NEW content, NEW more
    PROVE  Filled(Answer(preamble, error, 0, logon, times, one, size, aux), content, more)
               = Filled(Answer(preamble, error, 0, logon, times, other, size, aux), content, more)
<1> DEFINE Fields == {"preamble", "status", "error", "retryDelay", "logon", "times", "content", "declared", "aux"}
           filled(c) == Filled(Answer(preamble, error, 0, logon, times, c, size, aux), content, more)
<1>1. ASSUME NEW c
      PROVE  /\ DOMAIN filled(c) = Fields
             /\ filled(c).preamble = preamble /\ filled(c).status = 0 /\ filled(c).error = error
             /\ filled(c).retryDelay = 0 /\ filled(c).logon = logon /\ filled(c).times = times
             /\ filled(c).content = content /\ filled(c).declared = size /\ filled(c).aux = more
  BY DEF Filled, Answer
<1>2. ASSUME NEW c PROVE filled(c) = [f \in Fields |-> filled(c)[f]]
  BY DEF Filled, Answer
<1> HIDE DEF filled
<1>3. \A f \in Fields : filled(one)[f] = filled(other)[f] BY <1>1
<1> HIDE DEF Fields
<1>4. filled(one) = filled(other) BY <1>2, <1>3
<1> QED BY <1>4 DEF filled

\* A fixture, field by field.
Fields(stem, request, response, url, sent, got, changes, redactions) ==
    [stem |-> stem, request |-> request, response |-> response, url |-> url, sent |-> sent, got |-> got,
     changes |-> changes, redactions |-> redactions]

LEMMA UnlistedIs ==
    ASSUME NEW stem, NEW request, NEW response, NEW url, NEW sent, NEW got, NEW changes, NEW redactions
    PROVE  Unlisted(Fields(stem, request, response, url, sent, got, changes, redactions))
               = Fields(stem, request, response, url, sent, got, <<>>, redactions)
BY DEF Fields, Unlisted

\* The same fixture, whatever the identifiers and whenever, but for its list.
LEMMA FixtureAgrees ==
    ASSUME NEW rs, NameRules(rs), NEW i, NEW one, NEW other, SameShape(one, other),
           NEW d, NEW e, Paired(d, e), Known(one, d), Known(other, e),
           NEW when, when.clock \in Nat \ {0}, NEW later, later.clock \in Nat \ {0}
    PROVE  /\ Unlisted(FixtureOf(i, one, d, rs, when)) = Unlisted(FixtureOf(i, other, e, rs, later))
           /\ StillAt(when, i) = StillAt(later, i) =>
                  FixtureOf(i, one, d, rs, when) = FixtureOf(i, other, e, rs, later)
<1> DEFINE plain(x, m) == Response(RequestType(x), ResponseBody(x, i, m))
           asked(x, y) == ZeroAssigned(RequestBody(x), y)
           answered(x, y, m) == ZeroAssigned(plain(x, m).payload.content, y)
           request(x, y) == Apply(rs, asked(x, y).content)
           content(x, y, m) == Apply(rs, answered(x, y, m).content)
           aux(x, m) == Apply(rs, plain(x, m).payload.aux)
           url(x, y, m) == ScrubText(Endpoint, rs,
                               Merge(request(x, y).hits, Merge(content(x, y, m).hits, aux(x, m).hits)))
           sent(x, y, m) == NormaliseHeaders(RequestHeaders(x, i, m), rs, url(x, y, m).tally)
           got(x, y, m) == NormaliseHeaders(ResponseHeaders(x, m), rs, sent(x, y, m).tally)
           listed(x, y, m) == plain(x, m).changes \o asked(x, y).changes \o answered(x, y, m).changes
                              \o sent(x, y, m).changes \o got(x, y, m).changes
           made(x, y, m, c) ==
               Fields(Stem(i, x), request(x, y).content,
                      Filled(plain(x, m).payload, content(x, y, m).content, aux(x, m).content),
                      url(x, y, m).content, sent(x, y, m).headers, got(x, y, m).headers, c, got(x, y, m).tally)
<1>1. FixtureOf(i, one, d, rs, when) = made(one, d, when, listed(one, d, when)) BY DEF FixtureOf, Filled, Fields
<1>2. FixtureOf(i, other, e, rs, later) = made(other, e, later, listed(other, e, later)) BY DEF FixtureOf, Filled, Fields
<1>3. one.call = other.call /\ one.refused = other.refused /\ one.label = other.label BY DEF SameShape
<1>4. Stem(i, one) = Stem(i, other) BY <1>3 DEF Stem, RequestType
<1>5. PICK error, logon, changes, more :
         /\ plain(one, when) = Cleaned(error, logon, ResponseBody(one, i, when).content, changes)
         /\ plain(other, later) = Cleaned(error, logon, ResponseBody(other, i, later).content, more)
         /\ ListedAlike(i, when, later, changes, more)
  BY <1>3, Answered
<1> HIDE DEF plain
<1>6. ASSUME NEW c, NEW l, NEW p, p = Cleaned(error, logon, c, l)
      PROVE  p.payload = Answer(Still, error, 0, logon, 0, c, 0, <<>>) /\ p.changes = l
             /\ p.payload.content = c /\ p.payload.aux = <<>>
  BY <1>6, AnswerIs DEF Cleaned
<1>7. StillAt(when, i) = StillAt(later, i) => plain(one, when).changes = plain(other, later).changes
  BY <1>5, <1>6 DEF ListedAlike
<1>8. /\ plain(one, when).payload.content = ResponseBody(one, i, when).content
      /\ plain(other, later).payload.content = ResponseBody(other, i, later).content
  BY <1>5, <1>6
<1>9. asked(one, d) = asked(other, e) BY AsksMatch, ZeroAgrees
<1>10. answered(one, d, when) = answered(other, e, later) BY <1>8, TellsMatch, ZeroAgrees
<1> HIDE DEF asked, answered
<1>11. request(one, d) = request(other, e) /\ content(one, d, when) = content(other, e, later) BY <1>9, <1>10
<1>12. aux(one, when) = aux(other, later) BY <1>5, <1>6
<1> HIDE DEF request, content, aux
<1>13. \A c, x : Filled(plain(one, when).payload, c, x) = Filled(plain(other, later).payload, c, x)
  BY <1>5, <1>6, FilledAgrees
<1>14. url(one, d, when) = url(other, e, later) BY <1>11, <1>12
<1> HIDE DEF url
<1>15. sent(one, d, when) = sent(other, e, later) BY <1>3, <1>14, RequestHeadersAgree
<1> HIDE DEF sent
<1>16. got(one, d, when) = got(other, e, later) BY <1>3, <1>15, ResponseHeadersAgree
<1> HIDE DEF got
<1>17. \A c : made(one, d, when, c) = made(other, e, later, c)
  BY <1>4, <1>11, <1>12, <1>13, <1>14, <1>15, <1>16
<1>18. StillAt(when, i) = StillAt(later, i) => listed(one, d, when) = listed(other, e, later)
  BY <1>7, <1>9, <1>10, <1>15, <1>16
<1>19. \A c : /\ Unlisted(made(one, d, when, c)) = made(one, d, when, <<>>)
              /\ Unlisted(made(other, e, later, c)) = made(other, e, later, <<>>)
  BY UnlistedIs
<1> HIDE DEF made, listed
<1> QED BY <1>1, <1>2, <1>17, <1>18, <1>19

-----------------------------------------------------------------------------
(* What is declared, and what has been said, at each step of a conversation. *)

\* The size of a mailbox; the message that was saved; and what it is called once it was moved.
Sized(v) == <<[what |-> "size", value |-> v]>>
SavedAs(v) == <<[what |-> "saved", value |-> v]>>
MovedTo(v, w) == <<[what |-> "saved", value |-> v], [what |-> "moved", value |-> w]>>

AllKnown == \A k \in DOMAIN told : Known(told[k], assigned)

\* A conversation that writes nothing is given a mailbox's size at most, and then it was told one.
QuietSaid ==
    /\ AllKnown
    /\ doing # "session" \/ place <= 4 => assigned = <<>>
    /\ assigned # <<>> => (\E v : assigned = Sized(v)) /\ \E k \in DOMAIN told : Len(told[k].tells) # 0

\* One that saves is given its message's identifier, and one that moves is given another.
WritesSaid ==
    /\ AllKnown
    /\ place <= 4 => assigned = <<>>
    /\ place >= 5 => assigned = SavedAs(own)

HasMoved == \E moved : moved # own /\ assigned = MovedTo(own, moved)
GoesTo(x) == mailbox["drafts"] = {} /\ mailbox["deleted"] = {Message(x)}

ActsSaid ==
    /\ AllKnown
    /\ place <= 4 => assigned = <<>>
    /\ place \in 5..12 => assigned = SavedAs(own)
    /\ place = 12 => AsMoved
    /\ place >= 13 => HasMoved
    /\ place \in 13..14 => GoesTo(assigned[2].value)
    /\ place = 14 => found = assigned[2].value
    /\ place = 15 => Empty
    /\ place # 16

\* Nothing is said that is not declared: of what writes, if nothing was in its way and nothing failed.
SaidInv ==
    /\ doing \notin {"writes", "acts"} => QuietSaid
    /\ Began /\ Fit => (doing = "writes" => WritesSaid) /\ (doing = "acts" => ActsSaid)

LEMMA SizedIs ==
    ASSUME NEW v
    PROVE  /\ DOMAIN Sized(v) = {1} /\ Sized(v)[1].value = v /\ Sized(v)[1].what = "size"
           /\ Append(<<>>, [what |-> "size", value |-> v]) = Sized(v)
<1> DEFINE a == [what |-> "size", value |-> v]
<1>1. a.value = v /\ a.what = "size" /\ Sized(v) = <<a>> BY DEF Sized
<1> HIDE DEF a
<1>2. DOMAIN <<a>> = {1} /\ <<a>>[1] = a OBVIOUS
<1>3. Append(<<>>, a) = <<a>> OBVIOUS
<1>4. DOMAIN Sized(v) = {1} /\ Sized(v)[1].value = v /\ Sized(v)[1].what = "size" BY <1>1, <1>2
<1>5. Append(<<>>, a) = Sized(v) BY <1>1, <1>3
<1> QED BY <1>4, <1>5 DEF a

LEMMA SavedIs ==
    ASSUME NEW v
    PROVE  /\ DOMAIN SavedAs(v) = {1} /\ SavedAs(v)[1].value = v /\ SavedAs(v)[1].what = "saved"
           /\ Append(<<>>, [what |-> "saved", value |-> v]) = SavedAs(v)
<1> DEFINE a == [what |-> "saved", value |-> v]
<1>1. a.value = v /\ a.what = "saved" /\ SavedAs(v) = <<a>> BY DEF SavedAs
<1> HIDE DEF a
<1>2. DOMAIN <<a>> = {1} /\ <<a>>[1] = a OBVIOUS
<1>3. Append(<<>>, a) = <<a>> OBVIOUS
<1>4. DOMAIN SavedAs(v) = {1} /\ SavedAs(v)[1].value = v /\ SavedAs(v)[1].what = "saved" BY <1>1, <1>2
<1>5. Append(<<>>, a) = SavedAs(v) BY <1>1, <1>3
<1> QED BY <1>4, <1>5 DEF a

LEMMA MovedIs ==
    ASSUME NEW v, NEW w
    PROVE  DOMAIN MovedTo(v, w) = {1, 2} /\ MovedTo(v, w)[1].value = v /\ MovedTo(v, w)[2].value = w
<1> DEFINE a == [what |-> "saved", value |-> v]
           b == [what |-> "moved", value |-> w]
<1>1. a.value = v /\ b.value = w OBVIOUS
<1>2. MovedTo(v, w) = <<a, b>> BY DEF MovedTo
<1> HIDE DEF a, b
<1>3. DOMAIN <<a, b>> = {1, 2} /\ <<a, b>>[1] = a /\ <<a, b>>[2] = b OBVIOUS
<1> QED BY <1>1, <1>2, <1>3

LEMMA MovedNamed ==
    ASSUME NEW v, NEW w
    PROVE  MovedTo(v, w)[1].what = "saved" /\ MovedTo(v, w)[2].what = "moved"
<1> DEFINE a == [what |-> "saved", value |-> v]
           b == [what |-> "moved", value |-> w]
<1>1. a.what = "saved" /\ b.what = "moved" OBVIOUS
<1>2. MovedTo(v, w) = <<a, b>> BY DEF MovedTo
<1> HIDE DEF a, b
<1>3. <<a, b>>[1] = a /\ <<a, b>>[2] = b OBVIOUS
<1> QED BY <1>1, <1>2, <1>3

LEMMA MovedAdded ==
    ASSUME NEW v, NEW w
    PROVE  Append(SavedAs(v), [what |-> "moved", value |-> w]) = MovedTo(v, w)
<1> DEFINE a == [what |-> "saved", value |-> v]
           b == [what |-> "moved", value |-> w]
<1>2. SavedAs(v) = <<a>> /\ MovedTo(v, w) = <<a, b>> BY DEF SavedAs, MovedTo
<1> HIDE DEF a, b
<1>4. Append(<<a>>, b) = <<a, b>>
  <2> DEFINE s == <<a>>
             t == <<a, b>>
             S == {a, b}
  <2>1. Len(s) = 1 /\ s[1] = a OBVIOUS
  <2>2. t \in Seq(S) /\ Len(t) = 2 /\ t[1] = a /\ t[2] = b OBVIOUS
  <2>3. s \in Seq(S) /\ b \in S OBVIOUS
  <2> HIDE DEF s, t, S
  <2>4. /\ Append(s, b) \in Seq(S) /\ Len(Append(s, b)) = Len(s) + 1
        /\ \A i \in 1..Len(s) : Append(s, b)[i] = s[i]
        /\ Append(s, b)[Len(s) + 1] = b
    BY <2>3, AppendProperties
  <2>5. \A i \in 1..2 : i = 1 \/ i = 2 OBVIOUS
  <2>6. Append(s, b) = t BY <2>1, <2>2, <2>4, <2>5, SeqEqual
  <2> QED BY <2>6 DEF s, t
<1>6. Append(SavedAs(v), b) = MovedTo(v, w) BY <1>2, <1>4
<1> QED BY <1>6 DEF b

\* What is known stays known when more is declared.
LEMMA KnownGrows ==
    ASSUME NEW exchange, NEW d, NEW e, Known(exchange, d), \A k \in DOMAIN d : k \in DOMAIN e /\ e[k].value = d[k].value
    PROVE  Known(exchange, e)
BY DEF Known, AllOf

LEMMA AllOfNone == ASSUME NEW d, NEW k PROVE AllOf(<<>>, d, k)
BY DEF AllOf, Listing

LEMMA AllOfOne == ASSUME NEW d, NEW k \in DOMAIN d, NEW v, d[k].value = v PROVE AllOf(<<v>>, d, k)
<1>1. Listing(<<v>>) /\ DOMAIN <<v>> = {1} /\ <<v>>[1] = v BY Listing1
<1> QED BY <1>1 DEF AllOf

\* A folder that lists one message lists the one that is declared.
LEMMA AllOfListed ==
    ASSUME NEW d, NEW k \in DOMAIN d, NEW folder \in Folders, ToldInv, Listed(folder) \subseteq {d[k].value}
    PROVE  AllOf(SetToSeq(Listed(folder)), d, k)
<1> DEFINE s == SetToSeq(Listed(folder))
<1>1. Listing(s) BY ListedFinite DEF ToldInv
<1>2. IsFiniteSet(Listed(folder)) => \A i \in DOMAIN s : s[i] \in Listed(folder)
  BY InOrder, ElementOfSeq, LenProperties
<1>3. IsFiniteSet(Listed(folder))
  <2>1. Listed(folder) = {} \/ Listed(folder) = {d[k].value} OBVIOUS
  <2>2. IsFiniteSet({}) /\ IsFiniteSet({d[k].value}) BY FS_EmptySet, FS_Singleton
  <2> QED BY <2>1, <2>2
<1> HIDE DEF s
<1>4. \A i \in DOMAIN s : s[i] = d[k].value BY <1>2, <1>3
<1>5. AllOf(s, d, k) BY <1>1, <1>4 DEF AllOf
<1> QED BY <1>5 DEF s

\* One more exchange, of which all is known.
LEMMA KnownAppend ==
    ASSUME NEW s, Tidy(s), NEW d, \A k \in DOMAIN s : Known(s[k], d), NEW x, Known(x, d)
    PROVE  /\ Tidy(Append(s, x))
           /\ \A k \in DOMAIN Append(s, x) : Known(Append(s, x)[k], d)
           /\ (\E k \in DOMAIN s : Len(s[k].tells) # 0) \/ Len(x.tells) # 0 =>
                  \E k \in DOMAIN Append(s, x) : Len(Append(s, x)[k].tells) # 0
<1> DEFINE t == Append(s, x)
<1>1. s \in Seq(Range(s)) BY DEF Tidy, Listing
<1>2. /\ DOMAIN s = 1..Len(s) /\ Len(s) \in Nat /\ DOMAIN t = 1..(Len(s) + 1) /\ t[Len(s) + 1] = x
      /\ \A i \in 1..Len(s) : t[i] = s[i]
  BY <1>1, AppendTo
<1>3. Tidy(t) BY TidyAppend DEF Known, AllOf
<1> HIDE DEF t
<1>4. \A k \in DOMAIN t : k = Len(s) + 1 \/ k \in DOMAIN s BY <1>2
<1>5. \A k \in DOMAIN t : Known(t[k], d) BY <1>2, <1>4
<1>6. Len(s) + 1 \in DOMAIN t /\ \A k \in DOMAIN s : k \in DOMAIN t BY <1>2
<1>7. (\E k \in DOMAIN s : Len(s[k].tells) # 0) \/ Len(x.tells) # 0 => \E k \in DOMAIN t : Len(t[k].tells) # 0
  BY <1>2, <1>6
<1> QED BY <1>3, <1>5, <1>7 DEF t

\* What is heard of a call that is refused: the teardown too, of a logon.
LEMMA RefusedHeard ==
    ASSUME ToldInv, Refused
    PROVE  LET asks == IF Now.call \in {"use", "mark", "submit", "move", "delete"} THEN <<own>> ELSE <<>>
               one == Exchange(Now.call, asks, <<>>, "call")
               two == Exchange("disconnect", <<>>, <<>>, "nothing")
           IN  told' = IF Now.call = "logon" THEN Append(Append(told, one), two) ELSE Append(told, one)
<1> DEFINE one == Exchange(Now.call, IF Now.call \in {"use", "mark", "submit", "move", "delete"} THEN <<own>> ELSE <<>>,
                           <<>>, "call")
           two == Exchange("disconnect", <<>>, <<>>, "nothing")
<1>1. told' = told \o <<one>> \o (IF Now.call = "logon" THEN <<two>> ELSE <<>>) BY DEF Refused
<1> HIDE DEF one, two
<1>2. told \in Seq(Range(told)) BY DEF ToldInv, Tidy, Listing
<1>3. Append(told, one) = told \o <<one>> /\ Append(told, one) \in Seq(Range(Append(told, one)))
  BY <1>2, AppendIsConcat, AppendTo
<1> DEFINE s == Append(told, one)
<1>4. s \in Seq(Range(s)) /\ told \o <<one>> = s BY <1>3
<1> HIDE DEF s
<1>5. Append(s, two) = s \o <<two>> /\ s \o <<>> = s BY <1>4, AppendIsConcat, ConcatEmptySeq
<1>6. told' = IF Now.call = "logon" THEN Append(s, two) ELSE s BY <1>1, <1>4, <1>5
<1> QED BY <1>6 DEF s, one, two

\* The one size that is asked for.
LEMMA MeasureThere ==
    ASSUME doing \in Conversations \ {"writes", "acts"}, place \in 1..EndOf, Now.call = "measure"
    PROVE  doing = "session" /\ place = 4
<1>1. CASE doing = "session"
  <2>1. EndOf = 17 /\ Now = SessionScript[place] BY <1>1, ScriptOf, SessionSteps DEF EndOf, Now
  <2>2. \A k \in 1..17 : SessionScript[k].call = "measure" => k = 4
    <3> SUFFICES ASSUME NEW k \in 1..17, SessionScript[k].call = "measure" PROVE k = 4 OBVIOUS
    <3>1. k \in {1, 2, 3} \/ k = 4 \/ k \in 5..16 \/ k = 17 OBVIOUS
    <3>2. SessionScript[1].call = "ping" /\ SessionScript[2].call = "connect" /\ SessionScript[3].call = "logon"
          /\ SessionScript[17].call = "disconnect"
      BY SessionSteps DEF Says
    <3>3. /\ SessionScript[5].call = "read" /\ SessionScript[6].call = "read" /\ SessionScript[7].call = "read"
          /\ SessionScript[8].call = "read" /\ SessionScript[9].call = "read" /\ SessionScript[10].call = "read"
          /\ SessionScript[11].call = "read" /\ SessionScript[12].call = "read" /\ SessionScript[13].call = "read"
          /\ SessionScript[14].call = "read" /\ SessionScript[15].call = "read" /\ SessionScript[16].call = "read"
      BY SessionSteps DEF Says
    <3>4. k \in 5..16 => SessionScript[k].call = "read"
      <4>1. k \in 5..16 => \/ k = 5 \/ k = 6 \/ k = 7 \/ k = 8 \/ k = 9 \/ k = 10 \/ k = 11 \/ k = 12 \/ k = 13
                           \/ k = 14 \/ k = 15 \/ k = 16
        OBVIOUS
      <4> QED BY <3>3, <4>1
    <3> QED BY <3>1, <3>2, <3>4
  <2> QED BY <1>1, <2>1, <2>2
<1>2. CASE doing = "items"
  <2>1. EndOf = 20 /\ Now = ItemsScript[place] BY <1>2, ScriptOf, ItemsSteps DEF EndOf, Now
  <2>2. \A k \in 1..20 : ItemsScript[k].call # "measure"
    <3>1. ItemsScript[1].call = "connect" /\ ItemsScript[2].call = "logon" /\ ItemsScript[20].call = "disconnect"
      BY ItemsSteps DEF Says
    <3>2. /\ ItemsScript[3].call = "read" /\ ItemsScript[4].call = "read" /\ ItemsScript[5].call = "read"
          /\ ItemsScript[6].call = "read" /\ ItemsScript[7].call = "read" /\ ItemsScript[8].call = "read"
          /\ ItemsScript[9].call = "read" /\ ItemsScript[10].call = "read" /\ ItemsScript[11].call = "read"
          /\ ItemsScript[12].call = "read" /\ ItemsScript[13].call = "read" /\ ItemsScript[14].call = "read"
          /\ ItemsScript[15].call = "read" /\ ItemsScript[16].call = "read" /\ ItemsScript[17].call = "read"
          /\ ItemsScript[18].call = "read" /\ ItemsScript[19].call = "read"
      BY ItemsSteps DEF Says
    <3>3. \A k \in 1..20 : \/ k = 1 \/ k = 2 \/ k = 3 \/ k = 4 \/ k = 5 \/ k = 6 \/ k = 7 \/ k = 8 \/ k = 9 \/ k = 10
                           \/ k = 11 \/ k = 12 \/ k = 13 \/ k = 14 \/ k = 15 \/ k = 16 \/ k = 17 \/ k = 18 \/ k = 19
                           \/ k = 20
      OBVIOUS
    <3> QED BY <3>1, <3>2, <3>3
  <2> QED BY <2>1, <2>2
<1>3. CASE doing = "connect-refused"
  <2>1. EndOf = 2 /\ Now = RefusedScript[place] BY <1>3, ScriptOf, RefusedParts DEF EndOf, Now, Ends
  <2>2. place = 1 \/ place = 2 BY <2>1
  <2> QED BY <2>1, <2>2, RefusedParts
<1>4. CASE doing = "wrong-server"
  <2>1. EndOf = 3 /\ Now = WrongServerScript[place] BY <1>4, ScriptOf, WrongServerParts DEF EndOf, Now, Ends
  <2>2. place = 1 \/ place = 2 \/ place = 3 BY <2>1
  <2> QED BY <2>1, <2>2, WrongServerParts
<1> QED BY <1>1, <1>2, <1>3, <1>4 DEF Conversations

\* An exchange about nothing that was minted.
LEMMA Unnamed ==
    ASSUME NEW exchange, NEW d, exchange.asks = <<>>, exchange.tells = <<>>
    PROVE  Known(exchange, d)
BY AllOfNone DEF Known

LEMMA Silent == ASSUME NEW call, NEW refused, NEW d PROVE Known(Exchange(call, <<>>, <<>>, refused), d)
<1> DEFINE x == Exchange(call, <<>>, <<>>, refused)
<1>1. x.asks = <<>> /\ x.tells = <<>> BY DEF Exchange
<1> HIDE DEF x
<1>2. Known(x, d) BY <1>1, Unnamed
<1> QED BY <1>2 DEF x

LEMMA QuietTalk ==
    ASSUME PlaceInv, ToldInv, doing \notin {"writes", "acts"}, QuietSaid, Talk
    PROVE  QuietSaid'
<1>1. doing \in Conversations \ {"writes", "acts"} /\ place \in 1..EndOf /\ EndOf \in Nat
  BY EndsThere DEF PlaceInv
<1>2. Now.call \in Quiet BY <1>1, CallsThere
<1>3. ended = "no" /\ doing' = doing
  BY DEF Talk, Plain, Measure, Save, Use, Mark, Submitted, MoveMessage, Locate, DeleteDraft, SweepFind, SweepTake,
         Refused, Lost, Unusable, Served, Talking, ForgetNothing
<1>4. Plain \/ Measure \/ Refused \/ ((Lost \/ Unusable) /\ UNCHANGED <<told, assigned>> /\ GiveUp)
  BY <1>2 DEF Talk, Plain, Measure, Save, Use, Mark, Submitted, MoveMessage, Locate, DeleteDraft, SweepFind, SweepTake,
         Served, Quiet, Lost, Unusable
<1>5. Tidy(told) /\ \A k \in DOMAIN told : Known(told[k], assigned) BY DEF ToldInv, QuietSaid, AllKnown
<1>6. Now.call # "submit" /\ Now.call \notin {"use", "mark", "submit", "move", "delete"} BY <1>2 DEF Quiet
<1>7. doing = "session" => Now.part \in {"plain", "last"}
  <2> SUFFICES ASSUME doing = "session" PROVE Now.part \in {"plain", "last"} OBVIOUS
  <2>1. Now.part \notin {"guarded", "refusal"} BY <1>1, CallsThere DEF Ordinary
  <2>2. Now = SessionScript[place] /\ EndOf = 17 BY ScriptOf, SessionSteps DEF Now, EndOf
  <2>3. place \in 1..16 \/ place = 17 BY <1>1, <2>2
  <2> QED BY <2>2, <2>3, SessionParts DEF Hushed, Ends
<1>8. doing = "session" /\ (GoOn \/ GiveUp) => place' = place \/ place' = place + 1
  BY <1>1, <1>3, <1>7, GoOnIs, GiveUpIs
<1>9. ASSUME NEW s, s = told', Tidy(s), \A k \in DOMAIN s : Known(s[k], assigned),
             (\E k \in DOMAIN told : Len(told[k].tells) # 0) => \E k \in DOMAIN s : Len(s[k].tells) # 0,
             assigned' = assigned, GoOn \/ GiveUp
      PROVE  QuietSaid'
  <2>1. doing' # "session" \/ place' <= 4 => assigned' = <<>>
    BY <1>1, <1>3, <1>8, <1>9 DEF QuietSaid
  <2>2. assigned' # <<>> => (\E v : assigned' = Sized(v)) /\ \E k \in DOMAIN told' : Len(told'[k].tells) # 0
    BY <1>9 DEF QuietSaid
  <2>3. \A k \in DOMAIN told' : Known(told'[k], assigned') BY <1>9
  <2> QED BY <2>1, <2>2, <2>3 DEF QuietSaid, AllKnown, Known, AllOf, Spot, Sized, Listing
<1>10. CASE Plain
  <2>11. PICK refused : Observed(<<>>, <<>>, refused) BY <1>10 DEF Plain
  <2> DEFINE x == Exchange(Now.call, <<>>, <<>>, refused)
  <2>1. told' = Append(told, x) /\ assigned' = assigned /\ (GoOn \/ GiveUp) BY <1>10, <2>11 DEF Plain, Observed
  <2>2. Known(x, assigned) BY Silent
  <2> HIDE DEF x
  <2> QED BY <1>5, <1>9, <2>1, <2>2, KnownAppend
<1>11. CASE Refused
  <2> DEFINE x == Exchange(Now.call, <<>>, <<>>, "call")
             y == Exchange("disconnect", <<>>, <<>>, "nothing")
  <2>1. told' = IF Now.call = "logon" THEN Append(Append(told, x), y) ELSE Append(told, x)
    BY <1>6, <1>11, RefusedHeard
  <2>2. assigned' = assigned /\ (GoOn \/ GiveUp) BY <1>6, <1>11 DEF Refused
  <2>3. Known(x, assigned) /\ Known(y, assigned) BY Silent
  <2> HIDE DEF x, y
  <2> DEFINE s == Append(told, x)
  <2>4. /\ Tidy(s) /\ \A k \in DOMAIN s : Known(s[k], assigned)
        /\ (\E k \in DOMAIN told : Len(told[k].tells) # 0) => \E k \in DOMAIN s : Len(s[k].tells) # 0
    BY <1>5, <2>3, KnownAppend
  <2> HIDE DEF s
  <2>5. told' = (IF Now.call = "logon" THEN Append(s, y) ELSE s) BY <2>1 DEF s
  <2> DEFINE t == Append(s, y)
  <2>6. /\ Tidy(t) /\ \A k \in DOMAIN t : Known(t[k], assigned)
        /\ (\E k \in DOMAIN s : Len(s[k].tells) # 0) => \E k \in DOMAIN t : Len(t[k].tells) # 0
    BY <2>3, <2>4, KnownAppend
  <2> HIDE DEF t
  <2>7. told' = s \/ told' = t BY <2>5 DEF t
  <2> QED BY <1>9, <2>2, <2>4, <2>6, <2>7
<1>12. CASE Measure
  <2>1. doing = "session" /\ place = 4 BY <1>1, <1>12, MeasureThere DEF Measure, Served
  <2>2. assigned = <<>> BY <2>1 DEF QuietSaid
  <2>3. GoOn BY <1>12 DEF Measure
  <2>4. place' = 5
    <3>1. Now = SessionScript[4] BY <2>1, ScriptOf DEF Now
    <3>2. Now.part = "plain" BY <3>1, SessionSteps DEF Says
    <3> QED BY <1>1, <1>3, <2>1, <2>3, <3>2, GoOnIs
  <2>5. CASE Observe(<<>>, <<>>) /\ UNCHANGED assigned
    <3> DEFINE x == Exchange(Now.call, <<>>, <<>>, "nothing")
    <3>1. told' = Append(told, x) BY <2>5 DEF Observe, Observed
    <3>2. Known(x, assigned) BY Silent
    <3> HIDE DEF x
    <3> QED BY <1>5, <1>9, <2>3, <2>5, <3>1, <3>2, KnownAppend
  <2>6. CASE Observe(<<>>, <<minted + 1>>) /\ Declare("size", minted + 1)
    <3> DEFINE v == minted + 1
               x == Exchange(Now.call, <<>>, <<v>>, "nothing")
    <3>1. told' = Append(told, x) BY <2>6 DEF Observe, Observed
    <3>2. assigned' = Sized(v) BY <2>2, <2>6, SizedIs DEF Declare
    <3>3. x.asks = <<>> /\ x.tells = <<v>> /\ x.call = "measure"
      <4>1. Now.call = "measure" BY <1>12 DEF Measure, Served
      <4> QED BY <4>1 DEF Exchange
    <3> HIDE DEF x, v
    <3>4. Spot(x) = 1 BY <3>3 DEF Spot
    <3>5. AllOf(<<v>>, Sized(v), 1) /\ AllOf(<<>>, Sized(v), 1)
      <4>1. 1 \in DOMAIN Sized(v) /\ Sized(v)[1].value = v BY SizedIs
      <4> QED BY <4>1, AllOfOne, AllOfNone
    <3>6. Known(x, Sized(v)) BY <3>3, <3>4, <3>5 DEF Known
    <3>7. DOMAIN assigned = {} BY <2>2
    <3>8. \A k \in DOMAIN told : Known(told[k], Sized(v)) BY <1>5, <3>7, KnownGrows
    <3>9. Len(x.tells) # 0 BY <3>3, Listing1
    <3> DEFINE s == Append(told, x)
    <3>10. Tidy(s) /\ (\A k \in DOMAIN s : Known(s[k], Sized(v))) /\ \E k \in DOMAIN s : Len(s[k].tells) # 0
      BY <1>5, <3>6, <3>8, <3>9, KnownAppend
    <3>11. told' = s BY <3>1
    <3> HIDE DEF s
    <3>12. \A k \in DOMAIN told' : Known(told'[k], assigned') BY <3>2, <3>10, <3>11
    <3>13. (\E w : assigned' = Sized(w)) /\ \E k \in DOMAIN told' : Len(told'[k].tells) # 0
      BY <3>2, <3>10, <3>11
    <3>14. ~(doing' # "session" \/ place' <= 4) BY <1>3, <2>1, <2>4
    <3> QED BY <3>12, <3>13, <3>14 DEF QuietSaid, AllKnown, Known, AllOf, Spot, Sized, Listing
  <2> QED BY <1>12, <2>5, <2>6 DEF Measure
<1>13. CASE UNCHANGED <<told, assigned>> /\ GiveUp BY <1>5, <1>9, <1>13
<1> QED BY <1>4, <1>10, <1>11, <1>12, <1>13

\* A conversation that still may succeed has given nothing up.
LEMMA FitNever ==
    ASSUME PlaceInv, ToldInv, Talk, Fit'
    PROVE  ~GiveUp /\ alive' /\ swept' = "fine" /\ Fit /\ ended = "no" /\ doing' = doing
<1>1. /\ doing \in Conversations /\ place \in 1..EndOf BY DEF PlaceInv
<1>2. alive' /\ swept' = "fine" /\ outcome' = "fine" /\ ended' # "failed" BY DEF Fit
<1>3. Fit /\ ended = "no" /\ doing' = doing BY FitStep
<1>4. doing \in Ordinary BY <1>3 DEF Fit
<1>5. ~GiveUp
  <2> SUFFICES ASSUME GiveUp PROVE FALSE OBVIOUS
  <2>1. Now.part \in {"plain", "guarded", "clean", "last"} BY <1>1, <1>4, CallsThere
  <2> QED BY <1>2, <1>3, <1>4, <2>1, GiveUpIs
<1> QED BY <1>2, <1>3, <1>5

LEMMA HeardOne ==
    ASSUME ToldInv, NEW d, \A k \in DOMAIN told : Known(told[k], d), NEW x, Known(x, d),
           told' = Append(told, x), assigned' = d
    PROVE  AllKnown'
<1>1. \A k \in DOMAIN told' : Known(told'[k], assigned') BY KnownAppend DEF ToldInv
<1> QED BY <1>1 DEF AllKnown, Known, AllOf, Spot, Listing

LEMMA OneTold ==
    ASSUME NEW call, NEW asks, NEW tells, NEW refused, NEW d, NEW k,
           k = (IF call \in {"locate", "find", "take"} THEN 2 ELSE 1), AllOf(asks, d, k), AllOf(tells, d, k)
    PROVE  Known(Exchange(call, asks, tells, refused), d)
<1> DEFINE x == Exchange(call, asks, tells, refused)
<1>1. x.asks = asks /\ x.tells = tells /\ x.call = call BY DEF Exchange
<1> HIDE DEF x
<1>2. Known(x, d) BY <1>1 DEF Known, Spot
<1> QED BY <1>2 DEF x

\* A call about the message that was saved.
LEMMA SavedKnown ==
    ASSUME NEW call, call \notin {"locate", "find", "take"}, NEW tells, tells \in {<<>>, <<own>>}, NEW refused
    PROVE  Known(Exchange(call, <<own>>, tells, refused), SavedAs(own))
<1>1. 1 \in DOMAIN SavedAs(own) /\ SavedAs(own)[1].value = own BY SavedIs
<1>2. AllOf(<<own>>, SavedAs(own), 1) /\ AllOf(tells, SavedAs(own), 1) BY <1>1, AllOfOne, AllOfNone
<1> QED BY <1>2, OneTold

\* The first steps, and the save: the same of both conversations that write.
LEMMA SaidFirst ==
    ASSUME PlaceInv, ToldInv, doing \in {"writes", "acts"}, place \in 1..4, AllKnown, assigned = <<>>, Talk, Fit'
    PROVE  /\ AllKnown' /\ place' = place + 1
           /\ place < 4 => assigned' = <<>>
           /\ place = 4 => assigned' = SavedAs(own')
<1>1. ~GiveUp /\ alive' /\ swept' = "fine" /\ ended = "no" /\ doing' = doing BY FitNever
<1>2. place \in 1..EndOf BY DEF PlaceInv
<1>3. place # 4 => Early(Now) BY <1>2, WritesCalls, ActsCalls
<1>4. place = 4 => Now.part = "plain" /\ Now.call = "create" BY <1>2, WritesCalls, ActsCalls
<1>5. Now.part = "plain" BY <1>3, <1>4 DEF Early
<1>6. GoOn => place' = place + 1 BY <1>1, <1>5, GoOnIs
<1>7. CASE place # 4
  <2>1. Now.call \in {"connect", "logon", "read"} BY <1>3, <1>7 DEF Early
  <2>2. Plain BY <1>1, <2>1, Heard, RefusedKeeps
  <2>11. PICK refused : Observed(<<>>, <<>>, refused) BY <2>2 DEF Plain
  <2> DEFINE x == Exchange(Now.call, <<>>, <<>>, refused)
  <2>3. told' = Append(told, x) /\ assigned' = assigned /\ GoOn BY <1>1, <2>2, <2>11 DEF Plain, Observed
  <2>4. Known(x, assigned) BY Silent
  <2> HIDE DEF x
  <2>5. AllKnown' BY <2>3, <2>4, HeardOne DEF AllKnown
  <2> QED BY <1>6, <1>7, <2>3, <2>5
<1>8. CASE place = 4
  <2>1. Save BY <1>1, <1>4, <1>8, Heard, RefusedKeeps
  <2>11. PICK refused : Observed(<<>>, <<minted + 1>>, refused) BY <2>1 DEF Save
  <2> DEFINE v == minted + 1
             x == Exchange(Now.call, <<>>, <<v>>, refused)
  <2>2. told' = Append(told, x) /\ GoOn /\ own' = v BY <1>1, <2>1, <2>11 DEF Save, Observed
  <2>3. assigned' = SavedAs(v) BY <2>1, SavedIs DEF Save, Declare
  <2>4. Known(x, SavedAs(v))
    <3>1. 1 \in DOMAIN SavedAs(v) /\ SavedAs(v)[1].value = v BY SavedIs
    <3>2. AllOf(<<>>, SavedAs(v), 1) /\ AllOf(<<v>>, SavedAs(v), 1) BY <3>1, AllOfOne, AllOfNone
    <3> HIDE DEF v
    <3>3. Now.call \notin {"locate", "find", "take"} BY <1>4, <1>8
    <3> QED BY <3>2, <3>3, OneTold
  <2>5. DOMAIN assigned = {} OBVIOUS
  <2> HIDE DEF x, v
  <2>6. \A k \in DOMAIN told : Known(told[k], SavedAs(v)) BY <2>5, KnownGrows DEF AllKnown
  <2>7. AllKnown' BY <2>2, <2>3, <2>4, <2>6, HeardOne
  <2> QED BY <1>6, <1>8, <2>2, <2>3, <2>7
<1> QED BY <1>7, <1>8

LEMMA WritesSaidTalk ==
    ASSUME PlaceInv, ToldInv, doing = "writes", WritesSaid, Talk, Fit'
    PROVE  WritesSaid'
<1>1. ~GiveUp /\ alive' /\ swept' = "fine" /\ ended = "no" /\ doing' = doing BY FitNever
<1>2. place \in 1..EndOf /\ EndOf = 10 BY WritesCalls DEF PlaceInv
<1>3. AllKnown BY DEF WritesSaid
<1>4. CASE place \in 1..4
  <2>1. assigned = <<>> BY <1>4 DEF WritesSaid
  <2>2. /\ AllKnown' /\ place' = place + 1
        /\ place < 4 => assigned' = <<>>
        /\ place = 4 => assigned' = SavedAs(own')
    BY <1>3, <1>4, <2>1, SaidFirst
  <2> QED BY <1>4, <2>2 DEF WritesSaid, SavedAs
<1>5. ASSUME place \in 5..10, NEW x, told' = Append(told, x), Known(x, SavedAs(own)),
             UNCHANGED <<own, assigned>>, place' = place \/ place' = place + 1
      PROVE  WritesSaid'
  <2>1. assigned = SavedAs(own) BY <1>5 DEF WritesSaid
  <2>2. AllKnown' BY <1>3, <1>5, <2>1, HeardOne DEF AllKnown
  <2> QED BY <1>5, <2>1, <2>2 DEF WritesSaid, SavedAs
<1>6. CASE place \in 5..8
  <2>1. Now.part = "guarded" /\ Now.call = "use" BY <1>2, <1>6, WritesCalls
  <2>2. Use BY <1>1, <2>1, Heard, RefusedKeeps
  <2> DEFINE x == Exchange(Now.call, <<own>>, <<own>>, "nothing")
  <2>3. told' = Append(told, x) /\ UNCHANGED <<own, assigned>> /\ GoOn
    BY <1>1, <2>2 DEF Use, Observe, Observed, ForgetNothing
  <2>4. place' = place + 1 BY <1>1, <2>1, <2>3, GoOnIs
  <2>5. Known(x, SavedAs(own)) BY <2>1, SavedKnown
  <2> HIDE DEF x
  <2> QED BY <1>5, <1>6, <2>3, <2>4, <2>5
<1>7. CASE place = 9
  <2>1. Now.part = "clean" /\ Now.call = "delete" BY <1>2, <1>7, WritesCalls
  <2>2. DeleteDraft BY <1>1, <2>1, Heard, RefusedKeeps
  <2> DEFINE x == Exchange(Now.call, <<own>>, <<>>, "nothing")
  <2>3. told' = Append(told, x) /\ UNCHANGED <<own, assigned>> /\ place' = place + 1
    BY <2>2 DEF DeleteDraft, Observe, Observed, ForgetNothing
  <2>4. Known(x, SavedAs(own)) BY <2>1, SavedKnown
  <2> HIDE DEF x
  <2> QED BY <1>5, <1>7, <2>3, <2>4
<1>8. CASE place = 10
  <2>1. Now.part = "last" /\ Now.call = "disconnect" BY <1>2, <1>8, WritesCalls
  <2>2. Plain BY <1>1, <2>1, Heard, RefusedKeeps
  <2>11. PICK refused : Observed(<<>>, <<>>, refused) BY <2>2 DEF Plain
  <2> DEFINE x == Exchange(Now.call, <<>>, <<>>, refused)
  <2>3. told' = Append(told, x) /\ UNCHANGED <<own, assigned>> /\ GoOn
    BY <1>1, <2>2, <2>11 DEF Plain, Observed, ForgetNothing
  <2>4. place' = place BY <1>1, <2>1, <2>3, GoOnIs
  <2>5. Known(x, SavedAs(own)) BY Silent
  <2> HIDE DEF x
  <2> QED BY <1>5, <1>8, <2>3, <2>4, <2>5
<1> QED BY <1>2, <1>4, <1>6, <1>7, <1>8

\* The acts, step by step: saved, used and submitted, moved, found again under another identifier, and swept.
LEMMA ActsSaidTalk ==
    ASSUME PlaceInv, ToldInv, doing = "acts", ActsLeft, ActsSaid, Talk, Fit'
    PROVE  ActsSaid'
<1>1. ~GiveUp /\ alive' /\ swept' = "fine" /\ ended = "no" /\ doing' = doing BY FitNever
<1>2. place \in 1..EndOf /\ EndOf = 17 BY ActsCalls DEF PlaceInv
<1>3. AllKnown /\ place # 16 BY DEF ActsSaid
<1>4. mailbox = [f \in Folders |-> mailbox[f]] BY DEF PlaceInv
<1>5. \A x : Message(x)' = Message(x) BY <1>1 DEF Message
<1>6. CASE place \in 1..4
  <2>1. assigned = <<>> BY <1>6 DEF ActsSaid
  <2>2. /\ AllKnown' /\ place' = place + 1
        /\ place < 4 => assigned' = <<>>
        /\ place = 4 => assigned' = SavedAs(own')
    BY <1>3, <1>6, <2>1, SaidFirst
  <2> QED BY <1>6, <2>2 DEF ActsSaid, SavedAs
<1>7. CASE place \in 5..11
  <2>1. assigned = SavedAs(own) BY <1>7 DEF ActsSaid
  <2>2. Now.part = "guarded" /\ Now.call \in {"use", "mark", "submit", "move"} BY <1>2, <1>7, ActsCalls
  <2>3. ASSUME NEW x, told' = Append(told, x), Known(x, SavedAs(own)), UNCHANGED <<own, assigned>>, GoOn,
               place = 11 => AsMoved'
        PROVE  ActsSaid'
    <3>1. AllKnown' BY <1>3, <2>1, <2>3, HeardOne DEF AllKnown
    <3>2. place' = place + 1 BY <1>1, <2>2, <2>3, GoOnIs
    <3> QED BY <1>7, <2>1, <2>3, <3>1, <3>2 DEF ActsSaid, SavedAs
  <2>4. CASE Now.call = "use"
    <3>1. Use BY <1>1, <2>4, Heard, RefusedKeeps
    <3> DEFINE x == Exchange(Now.call, <<own>>, <<own>>, "nothing")
    <3>2. told' = Append(told, x) /\ UNCHANGED <<own, assigned>> /\ GoOn
      BY <1>1, <3>1 DEF Use, Observe, Observed, ForgetNothing
    <3>3. Known(x, SavedAs(own)) BY <2>4, SavedKnown
    <3>4. place # 11 BY <1>2, <2>4, ActsCalls
    <3> HIDE DEF x
    <3> QED BY <2>3, <3>2, <3>3, <3>4
  <2>5. CASE Now.call = "mark"
    <3>1. Mark BY <1>1, <2>5, Heard, RefusedKeeps
    <3> DEFINE x == Exchange(Now.call, <<own>>, <<>>, "nothing")
    <3>2. told' = Append(told, x) /\ UNCHANGED <<own, assigned>> /\ GoOn
      BY <1>1, <3>1 DEF Mark, Observe, Observed, ForgetNothing
    <3>3. Known(x, SavedAs(own)) BY <2>5, SavedKnown
    <3>4. place # 11 BY <1>2, <2>5, ActsCalls
    <3> HIDE DEF x
    <3> QED BY <2>3, <3>2, <3>3, <3>4
  <2>6. CASE Now.call = "submit"
    <3>1. Refused /\ GoOn BY <1>1, <2>6, Heard, RefusedKeeps DEF Submitted
    <3> DEFINE x == Exchange(Now.call, <<own>>, <<>>, "call")
    <3>2. told' = Append(told, x) BY <2>6, <3>1, RefusedHeard
    <3>3. UNCHANGED <<own, assigned>> BY <3>1 DEF Refused, ForgetNothing
    <3>4. Known(x, SavedAs(own)) BY <2>6, SavedKnown
    <3>5. place # 11 BY <1>2, <2>6, ActsCalls
    <3> HIDE DEF x
    <3> QED BY <2>3, <3>1, <3>2, <3>3, <3>4, <3>5
  <2>7. CASE Now.call = "move"
    <3>1. MoveMessage BY <1>1, <2>7, Heard, RefusedKeeps
    <3> DEFINE x == Exchange(Now.call, <<own>>, <<>>, "nothing")
    <3>2. told' = Append(told, x) /\ UNCHANGED <<own, assigned>> /\ GoOn
      BY <1>1, <3>1 DEF MoveMessage, Observe, Observed, ForgetNothing
    <3>3. \E renamed \in BOOLEAN : Move(own, renamed) BY <1>1, <3>1 DEF MoveMessage
    <3>4. AsSaved BY <1>7 DEF ActsLeft
    <3>5. AsMoved' BY <1>1, <1>4, <3>3, <3>4, MovedOne
    <3>6. Known(x, SavedAs(own)) BY <2>7, SavedKnown
    <3> HIDE DEF x
    <3> QED BY <2>3, <3>2, <3>5, <3>6
  <2> QED BY <2>2, <2>4, <2>5, <2>6, <2>7
<1>8. CASE place = 12
  <2>1. Now.part = "guarded" /\ Now.call = "locate" BY <1>2, <1>8, ActsCalls
  <2>2. assigned = SavedAs(own) /\ AsMoved BY <1>8 DEF ActsSaid
  <2>3. Locate BY <1>1, <2>1, Heard, RefusedKeeps
  <2>4. PICK identifier \in Listed("deleted") : Declare("moved", identifier) /\ identifier # own /\ GoOn
    BY <1>1, <2>3 DEF Locate
  <2>5. mailbox["deleted"] = {Message(identifier)} BY <2>2, <2>4, ListedOne DEF AsMoved
  <2>6. Listed("deleted") \subseteq {identifier} BY <2>5, ListedOne
  <2>7. assigned' = MovedTo(own, identifier) BY <2>2, <2>4, MovedAdded DEF Declare
  <2>8. place' = 13 BY <1>1, <1>8, <2>1, <2>4, GoOnIs
  <2>9. UNCHANGED <<mailbox, own>> BY <2>3 DEF Locate, Unmoved
  <2> DEFINE x == Exchange(Now.call, <<>>, SetToSeq(Listed("deleted")), "nothing")
             d == MovedTo(own, identifier)
  <2>10. told' = Append(told, x) BY <2>3 DEF Locate, Observe, Observed
  <2>11. 1 \in DOMAIN d /\ 2 \in DOMAIN d /\ d[1].value = own /\ d[2].value = identifier
    <3>1. /\ DOMAIN MovedTo(own, identifier) = {1, 2} /\ MovedTo(own, identifier)[1].value = own
          /\ MovedTo(own, identifier)[2].value = identifier
      BY MovedIs
    <3> QED BY <3>1
  <2>12. Known(x, d)
    <3> HIDE DEF d
    <3>1. AllOf(SetToSeq(Listed("deleted")), d, 2) BY <2>6, <2>11, AllOfListed DEF Folders
    <3>2. AllOf(<<>>, d, 2) BY AllOfNone
    <3> QED BY <2>1, <3>1, <3>2, OneTold
  <2>13. \A k \in DOMAIN told : Known(told[k], d)
    <3>1. DOMAIN SavedAs(own) = {1} /\ SavedAs(own)[1].value = own BY SavedIs
    <3> HIDE DEF d
    <3> QED BY <1>3, <2>2, <2>11, <3>1, KnownGrows DEF AllKnown
  <2>14. assigned' = d BY <2>7
  <2>15. assigned'[2].value = identifier BY <2>11, <2>14
  <2> HIDE DEF x, d
  <2>16. AllKnown' BY <2>10, <2>12, <2>13, <2>14, HeardOne
  <2>17. GoesTo(assigned[2].value)'
    <3>1. mailbox["drafts"] = {} /\ mailbox["deleted"] = {Message(identifier)} BY <2>2, <2>5 DEF AsMoved
    <3> QED BY <1>1, <2>9, <2>15, <3>1 DEF GoesTo, Message
  <2>18. HasMoved' BY <2>4, <2>7, <2>9 DEF HasMoved
  <2> QED BY <2>8, <2>16, <2>17, <2>18 DEF ActsSaid
<1>9. ASSUME place \in 13..17, NEW x, told' = Append(told, x), Known(x, assigned), UNCHANGED <<own, assigned>>
      PROVE  AllKnown' /\ HasMoved'
  <2>1. AllKnown' BY <1>3, <1>9, HeardOne DEF AllKnown
  <2>2. HasMoved BY <1>9 DEF ActsSaid
  <2> QED BY <1>9, <2>1, <2>2 DEF HasMoved
<1>10. place \in 13..17 => 2 \in DOMAIN assigned
  <2> SUFFICES ASSUME place \in 13..17 PROVE 2 \in DOMAIN assigned OBVIOUS
  <2>1. PICK moved : assigned = MovedTo(own, moved) BY DEF ActsSaid, HasMoved
  <2>2. DOMAIN MovedTo(own, moved) = {1, 2} BY MovedIs
  <2> QED BY <2>1, <2>2
<1>11. CASE place = 13
  <2>1. Now.part = "clean" /\ Now.call = "find" /\ Now.folder = "deleted" BY <1>2, <1>11, ActsCalls
  <2>2. SweepFind BY <1>1, <2>1, Heard, RefusedKeeps
  <2> DEFINE v == assigned[2].value
             x == Exchange(Now.call, <<>>, SetToSeq(Listed("deleted")), "nothing")
  <2>3. mailbox["drafts"] = {} /\ mailbox["deleted"] = {Message(v)} BY <1>11 DEF ActsSaid, GoesTo
  <2>4. told' = Append(told, x) /\ UNCHANGED <<own, assigned, mailbox>>
    BY <2>1, <2>2 DEF SweepFind, Observe, Observed, Unmoved
  <2> HIDE DEF v
  <2>5. Listed("deleted") \subseteq {v} /\ Listed("deleted") # {} BY <2>3, ListedOne
  <2>6. found' = v /\ place' = 14 BY <1>11, <2>1, <2>2, <2>5 DEF SweepFind
  <2>7. Known(x, assigned)
    <3>1. AllOf(SetToSeq(Listed("deleted")), assigned, 2) BY <1>10, <1>11, <2>5, AllOfListed DEF Folders, v
    <3>2. AllOf(<<>>, assigned, 2) BY AllOfNone
    <3> QED BY <2>1, <3>1, <3>2, OneTold
  <2> HIDE DEF x
  <2>8. AllKnown' /\ HasMoved' BY <1>9, <1>11, <2>4, <2>7
  <2>9. found' = assigned'[2].value BY <2>4, <2>6 DEF v
  <2>10. GoesTo(assigned[2].value)' BY <1>1, <2>3, <2>4 DEF v, Message, GoesTo
  <2> QED BY <2>6, <2>8, <2>9, <2>10 DEF ActsSaid
<1>12. CASE place = 14
  <2>1. Now.part = "clean" /\ Now.call = "take" /\ Now.folder = "deleted" BY <1>2, <1>12, ActsCalls
  <2>2. SweepTake BY <1>1, <2>1, Heard, RefusedKeeps
  <2> DEFINE x == Exchange(Now.call, <<found>>, <<>>, "nothing")
  <2>3. /\ found = assigned[2].value /\ mailbox["drafts"] = {}
        /\ mailbox["deleted"] = {Message(found)}
    BY <1>12 DEF ActsSaid, GoesTo
  <2>4. told' = Append(told, x) /\ UNCHANGED <<own, assigned>> /\ place' = 15
    BY <1>12, <2>2 DEF SweepTake, Observe, Observed, ForgetNothing
  <2>5. TakeOut("deleted", found) BY <1>1, <2>1, <2>2 DEF SweepTake
  <2>6. mailbox'["drafts"] = {} /\ mailbox'["deleted"] = {} BY <1>4, <2>3, <2>5, TakenOut DEF Folders
  <2>7. Known(x, assigned)
    <3>1. AllOf(<<found>>, assigned, 2) BY <1>10, <1>12, <2>3, AllOfOne
    <3>2. AllOf(<<>>, assigned, 2) BY AllOfNone
    <3> QED BY <2>1, <3>1, <3>2, OneTold
  <2> HIDE DEF x
  <2>8. AllKnown' /\ HasMoved' BY <1>9, <1>12, <2>4, <2>7
  <2>9. Empty' BY <2>6 DEF Empty
  <2> QED BY <2>4, <2>8, <2>9 DEF ActsSaid
<1>13. CASE place = 15
  <2>1. Now.part = "clean" /\ Now.call = "find" /\ Now.folder = "drafts" BY <1>2, <1>13, ActsCalls
  <2>2. SweepFind BY <1>1, <2>1, Heard, RefusedKeeps
  <2> DEFINE x == Exchange(Now.call, <<>>, SetToSeq(Listed("drafts")), "nothing")
  <2>3. Empty BY <1>13 DEF ActsSaid
  <2>4. told' = Append(told, x) /\ UNCHANGED <<own, assigned, mailbox>>
    BY <2>1, <2>2 DEF SweepFind, Observe, Observed, Unmoved
  <2>5. Listed("drafts") = {} BY <2>3 DEF Listed, Empty
  <2>6. place' = 17 BY <1>13, <2>1, <2>2, <2>5 DEF SweepFind
  <2>7. Known(x, assigned)
    <3>1. AllOf(SetToSeq(Listed("drafts")), assigned, 2) BY <1>10, <1>13, <2>5, AllOfListed DEF Folders
    <3>2. AllOf(<<>>, assigned, 2) BY AllOfNone
    <3> QED BY <2>1, <3>1, <3>2, OneTold
  <2> HIDE DEF x
  <2>8. AllKnown' /\ HasMoved' BY <1>9, <1>13, <2>4, <2>7
  <2> QED BY <2>6, <2>8 DEF ActsSaid
<1>14. CASE place = 17
  <2>1. Now.part = "last" /\ Now.call = "disconnect" BY <1>2, <1>14, ActsCalls
  <2>2. Plain BY <1>1, <2>1, Heard, RefusedKeeps
  <2>11. PICK refused : Observed(<<>>, <<>>, refused) BY <2>2 DEF Plain
  <2> DEFINE x == Exchange(Now.call, <<>>, <<>>, refused)
  <2>3. told' = Append(told, x) /\ UNCHANGED <<own, assigned>> /\ GoOn
    BY <1>1, <2>2, <2>11 DEF Plain, Observed, ForgetNothing
  <2>4. place' = place BY <1>1, <2>1, <2>3, GoOnIs
  <2>5. Known(x, assigned) BY Silent
  <2> HIDE DEF x
  <2>6. AllKnown' /\ HasMoved' BY <1>9, <1>14, <2>3, <2>5
  <2> QED BY <1>14, <2>4, <2>6 DEF ActsSaid
<1>15. \/ place \in 1..4 \/ place \in 5..11 \/ place = 12 \/ place = 13 \/ place = 14 \/ place = 15 \/ place = 17
  BY <1>2, <1>3
<1> QED BY <1>6, <1>7, <1>8, <1>11, <1>12, <1>13, <1>14, <1>15

LEMMA SaidTalk == ASSUME PlaceInv, ToldInv, LeftInv, SaidInv, Talk, UNCHANGED before PROVE SaidInv'
<1>1. doing' = doing
  BY DEF Talk, Plain, Measure, Save, Use, Mark, Submitted, MoveMessage, Locate, DeleteDraft, SweepFind,
         SweepTake, Refused, Lost, Unusable, ForgetNothing
<1>2. doing \notin {"writes", "acts"} => QuietSaid' BY QuietTalk DEF SaidInv
<1>3. ASSUME Began', Fit' PROVE Began /\ Fit /\ alive /\ swept = "fine"
  BY <1>3, FitNever DEF Began, Fit
<1>4. doing = "writes" /\ Began' /\ Fit' => WritesSaid' BY <1>3, WritesSaidTalk DEF SaidInv
<1>5. doing = "acts" /\ Began' /\ Fit' => ActsSaid' BY <1>3, ActsSaidTalk DEF SaidInv, LeftInv
<1> QED BY <1>1, <1>2, <1>4, <1>5 DEF SaidInv

LEMMA SaidStep == ASSUME PlaceInv, ToldInv, LeftInv, SaidInv, [Next]_vars PROVE SaidInv'
<1>1. ASSUME UNCHANGED <<before, scenarioVars>> PROVE SaidInv'
  BY <1>1 DEF SaidInv, Began, Fit, QuietSaid, WritesSaid, ActsSaid, AllKnown, Known, AllOf, Spot, Listing, Sized,
              SavedAs, MovedTo, HasMoved, GoesTo, Empty, AsMoved, OneOf, Message, scenarioVars, programVars, serverVars
<1>2. CASE LoadRules
  <2>1. CASE UNCHANGED <<before, scenarioVars>> BY <1>1, <2>1
  <2>2. CASE StartOver(doing)
    <3>1. told' = <<>> /\ place' = 1 /\ assigned' = <<>> BY <2>2 DEF StartOver
    <3>2. DOMAIN <<>> = {} OBVIOUS
    <3>3. AllKnown' BY <3>1, <3>2 DEF AllKnown
    <3> QED BY <3>1, <3>3 DEF SaidInv, QuietSaid, WritesSaid, ActsSaid
  <2> QED BY <1>2, <2>1, <2>2 DEF LoadRules
<1>3. CASE Converse
  <2>1. Talk /\ UNCHANGED before BY <1>3 DEF Converse, captureVars
  <2> QED BY <2>1, SaidTalk
<1>4. CASE Gather \/ WriteExchange \/ DiskFails \/ Close \/ Again
  BY <1>1, <1>4 DEF Gather, WriteExchange, DiskFails, Close, Again
<1>5. CASE UNCHANGED vars BY <1>1, <1>5 DEF vars, captureVars
<1> QED BY <1>2, <1>3, <1>4, <1>5 DEF Next

-----------------------------------------------------------------------------
(* What a capture is made of. *)

\* All that a conversation that ended well has said, and all that it was given.
Good(by, t, d) ==
    /\ \A k \in DOMAIN t : Known(t[k], d)
    /\ by \notin {"writes", "acts"} =>
           d = <<>> \/ ((\E v : d = Sized(v)) /\ \E k \in DOMAIN t : Len(t[k].tells) # 0)
    /\ by = "writes" => \E v : d = SavedAs(v)
    /\ by = "acts" => \E v, w : v # w /\ d = MovedTo(v, w)

Shapes(t) == [k \in DOMAIN t |-> Shape(t[k])]
FilesOf(rs, t, d, when) == [k \in DOMAIN t |-> FixtureOf(k, t[k], d, rs, when)]

\* Files, a shape, and what was 0, that some such conversation has at some moment.
MadeOf(by, rs, shape, still, files) ==
    \E t, d : \E when \in Moments :
        /\ Good(by, t, d) /\ shape = Shapes(t)
        /\ still = [k \in DOMAIN t |-> StillAt(when, k)] /\ files = FilesOf(rs, t, d, when)

MadeFrom(capture) == MadeOf(doing, RulesRead, capture.shape, capture.still, capture.files)

\* Every capture of a clean mailbox is made of some such conversation, at some moment, by the rules that were read.
MadeInv ==
    /\ step = "write" =>
           /\ moment \in Moments
           /\ \A i \in DOMAIN directory : directory[i] = FixtureOf(i, told[i], assigned, RulesRead, moment)
    /\ \A i \in DOMAIN captures : captures[i].clean => MadeFrom(captures[i])

\* The rules that were read are about names.
LEMMA ReadNames == ASSUME PrivateInv PROVE NameRules(RulesRead)
<1>1. file \in RuleFiles BY DEF PrivateInv
<1>2. file.lines \in Seq(Range(file.lines)) BY <1>1, RuleFilesAssumption
<1>3. CASE ~file.given
  <2>1. RulesRead = <<>> BY <1>3 DEF RulesRead
  <2> QED BY <2>1 DEF NameRules
<1>4. CASE file.given
  <2>1. Lists(RulesRead, AllRules(file.lines)) BY <1>2, <1>4, RulesList DEF RulesRead
  <2>2. \A rule \in AllRules(file.lines) : rule.needle[1] = "name"
    BY DEF AllRules, RulesOf, ExpandText, Rule, Spelled
  <2>3. Len(RulesRead) \in Nat BY <2>1, LenProperties DEF Lists
  <2> QED BY <2>1, <2>2, <2>3 DEF Lists, NameRules
<1> QED BY <1>3, <1>4

\* Equal shapes, exchange by exchange.
LEMMA ShapesSame ==
    ASSUME NEW t, NEW r, Shapes(t) = Shapes(r)
    PROVE  DOMAIN t = DOMAIN r /\ \A k \in DOMAIN t : SameShape(t[k], r[k])
<1>1. DOMAIN t = DOMAIN r BY DEF Shapes
<1>2. ASSUME NEW k \in DOMAIN t PROVE SameShape(t[k], r[k])
  <2>1. Shape(t[k]) = Shape(r[k])
    <3>1. Shapes(t)[k] = Shape(t[k]) /\ Shapes(r)[k] = Shape(r[k]) BY <1>1 DEF Shapes
    <3> QED BY <3>1
  <2> DEFINE one == t[k]
             other == r[k]
  <2>2. Shape(one) = Shape(other) BY <2>1
  <2> HIDE DEF one, other
  <2>3. SameShape(one, other) BY <2>2 DEF Shape, SameShape
  <2> QED BY <2>3 DEF one, other
<1> QED BY <1>1, <1>2

\* Two such conversations were given as much as each other, and of the same kinds.
LEMMA GoodPairs ==
    ASSUME doing \in Conversations, NEW t, NEW d, Good(doing, t, d), NEW r, NEW e, Good(doing, r, e),
           DOMAIN t = DOMAIN r, \A k \in DOMAIN t : SameShape(t[k], r[k])
    PROVE  Paired(d, e)
<1>1. ASSUME NEW s, NEW k \in DOMAIN s, Known(s[k], <<>>) PROVE Len(s[k].tells) = 0
  <2> DEFINE ids == s[k].tells
  <2>1. Listing(ids) /\ DOMAIN ids = {} BY <1>1 DEF Known, AllOf
  <2> HIDE DEF ids
  <2>2. DOMAIN ids = 1..Len(ids) /\ Len(ids) \in Nat BY <2>1, LenProperties DEF Listing
  <2>3. Len(ids) = 0 BY <2>1, <2>2
  <2> QED BY <2>3 DEF ids
<1>2. \A k \in DOMAIN t : Len(t[k].tells) = Len(r[k].tells) BY DEF SameShape
<1>3. CASE doing \notin {"writes", "acts"}
  <2>1. d = <<>> <=> e = <<>>
    <3>1. ASSUME d = <<>>, e # <<>> PROVE FALSE
      <4>1. PICK k \in DOMAIN r : Len(r[k].tells) # 0 BY <1>3, <3>1 DEF Good
      <4> QED BY <1>1, <1>2, <3>1, <4>1 DEF Good
    <3>2. ASSUME d # <<>>, e = <<>> PROVE FALSE
      <4>1. PICK k \in DOMAIN t : Len(t[k].tells) # 0 BY <1>3, <3>2 DEF Good
      <4> QED BY <1>1, <1>2, <3>2, <4>1 DEF Good
    <3> QED BY <3>1, <3>2
  <2>2. CASE d = <<>> /\ e = <<>> BY <2>2 DEF Paired, Distinct
  <2>3. CASE d # <<>> /\ e # <<>>
    <3>1. PICK v, w : d = Sized(v) /\ e = Sized(w) BY <1>3, <2>3 DEF Good
    <3>2. DOMAIN d = {1} /\ DOMAIN e = {1} /\ d[1].what = "size" /\ e[1].what = "size" BY <3>1, SizedIs
    <3> QED BY <3>2 DEF Paired, Distinct
  <2> QED BY <2>1, <2>2, <2>3
<1>4. CASE doing = "writes"
  <2>1. PICK v, w : d = SavedAs(v) /\ e = SavedAs(w) BY <1>4 DEF Good
  <2>2. DOMAIN d = {1} /\ DOMAIN e = {1} /\ d[1].what = "saved" /\ e[1].what = "saved" BY <2>1, SavedIs
  <2> QED BY <2>2 DEF Paired, Distinct
<1>5. CASE doing = "acts"
  <2>1. ASSUME NEW a, NEW v, NEW w, v # w, a = MovedTo(v, w)
        PROVE  DOMAIN a = {1, 2} /\ a[1].what = "saved" /\ a[2].what = "moved" /\ Distinct(a)
    <3>1. DOMAIN a = {1, 2} /\ a[1].value = v /\ a[2].value = w BY <2>1, MovedIs
    <3>2. a[1].what = "saved" /\ a[2].what = "moved" BY <2>1, MovedNamed
    <3> QED BY <2>1, <3>1, <3>2 DEF Distinct
  <2>2. \E v, w : v # w /\ d = MovedTo(v, w) BY <1>5 DEF Good
  <2>3. \E v, w : v # w /\ e = MovedTo(v, w) BY <1>5 DEF Good
  <2>4. DOMAIN d = {1, 2} /\ d[1].what = "saved" /\ d[2].what = "moved" /\ Distinct(d) BY <2>1, <2>2
  <2>5. DOMAIN e = {1, 2} /\ e[1].what = "saved" /\ e[2].what = "moved" /\ Distinct(e) BY <2>1, <2>3
  <2> QED BY <2>4, <2>5 DEF Paired
<1> QED BY <1>3, <1>4, <1>5

\* What is made of two conversations of one shape is the same, but for the lists where not the same was 0.
LEMMA MadeAlike ==
    ASSUME PrivateInv, PlaceInv, NEW shape, NEW still, NEW hushed, NEW files, NEW others,
           MadeOf(doing, RulesRead, shape, still, files), MadeOf(doing, RulesRead, shape, hushed, others)
    PROVE  /\ DOMAIN files = DOMAIN others
           /\ \A k \in DOMAIN files :
                 /\ Unlisted(files[k]) = Unlisted(others[k])
                 /\ still[k] = hushed[k] => files[k] = others[k]
<1>1. PICK t, d : \E m \in Moments :
          /\ Good(doing, t, d) /\ shape = Shapes(t)
          /\ still = [k \in DOMAIN t |-> StillAt(m, k)] /\ files = FilesOf(RulesRead, t, d, m)
  BY DEF MadeOf
<1>2. PICK m \in Moments :
          /\ Good(doing, t, d) /\ shape = Shapes(t)
          /\ still = [k \in DOMAIN t |-> StillAt(m, k)] /\ files = FilesOf(RulesRead, t, d, m)
  BY <1>1
<1>3. PICK r, e : \E n \in Moments :
          /\ Good(doing, r, e) /\ shape = Shapes(r)
          /\ hushed = [k \in DOMAIN r |-> StillAt(n, k)] /\ others = FilesOf(RulesRead, r, e, n)
  BY DEF MadeOf
<1>4. PICK n \in Moments :
          /\ Good(doing, r, e) /\ shape = Shapes(r)
          /\ hushed = [k \in DOMAIN r |-> StillAt(n, k)] /\ others = FilesOf(RulesRead, r, e, n)
  BY <1>3
<1>5. DOMAIN t = DOMAIN r /\ \A k \in DOMAIN t : SameShape(t[k], r[k]) BY <1>2, <1>4, ShapesSame
<1>6. Paired(d, e) BY <1>2, <1>4, <1>5, GoodPairs DEF PlaceInv
<1>7. NameRules(RulesRead) BY ReadNames
<1>8. m.clock \in Nat \ {0} /\ n.clock \in Nat \ {0} BY MomentsAssumption
<1>9. /\ DOMAIN files = DOMAIN t /\ \A k \in DOMAIN t : files[k] = FixtureOf(k, t[k], d, RulesRead, m)
      /\ DOMAIN others = DOMAIN t /\ \A k \in DOMAIN t : others[k] = FixtureOf(k, r[k], e, RulesRead, n)
  BY <1>2, <1>4, <1>5 DEF FilesOf
<1>10. \A k \in DOMAIN t : still[k] = StillAt(m, k) /\ hushed[k] = StillAt(n, k) BY <1>2, <1>4, <1>5
<1>11. ASSUME NEW k \in DOMAIN t
       PROVE  /\ Unlisted(FixtureOf(k, t[k], d, RulesRead, m)) = Unlisted(FixtureOf(k, r[k], e, RulesRead, n))
              /\ StillAt(m, k) = StillAt(n, k) =>
                     FixtureOf(k, t[k], d, RulesRead, m) = FixtureOf(k, r[k], e, RulesRead, n)
  <2>1. Known(t[k], d) /\ Known(r[k], e) BY <1>2, <1>4, <1>5 DEF Good
  <2>2. SameShape(t[k], r[k]) BY <1>5
  <2> QED BY <1>6, <1>7, <1>8, <2>1, <2>2, FixtureAgrees
<1> QED BY <1>9, <1>10, <1>11

LEMMA AgreeIs == ASSUME PrivateInv, PlaceInv, MadeInv PROVE CapturesAgree
<1> SUFFICES ASSUME NEW i \in DOMAIN captures, NEW j \in DOMAIN captures, Comparable(captures[i], captures[j])
             PROVE  /\ DOMAIN captures[i].files = DOMAIN captures[j].files
                    /\ \A k \in DOMAIN captures[i].files :
                          /\ Unlisted(captures[i].files[k]) = Unlisted(captures[j].files[k])
                          /\ captures[i].still[k] = captures[j].still[k] =>
                                 captures[i].files[k] = captures[j].files[k]
  BY DEF CapturesAgree
<1>1. captures[i].clean /\ captures[j].clean /\ captures[i].shape = captures[j].shape BY DEF Comparable
<1>2. MadeOf(doing, RulesRead, captures[i].shape, captures[i].still, captures[i].files) BY <1>1 DEF MadeInv, MadeFrom
<1>3. MadeOf(doing, RulesRead, captures[i].shape, captures[j].still, captures[j].files) BY <1>1 DEF MadeInv, MadeFrom
<1> QED BY <1>2, <1>3, MadeAlike

\* A conversation that ended well, begun with nothing in the mailbox, has said what it should.
LEMMA SaidWell ==
    ASSUME PlaceInv, SaidInv, ended = "ok", Began
    PROVE  Good(doing, told, assigned)
<1>1. CASE doing \notin {"writes", "acts"}
  <2>1. QuietSaid BY <1>1 DEF SaidInv
  <2> QED BY <1>1, <2>1 DEF QuietSaid, AllKnown, Good
<1>2. ASSUME doing \in {"writes", "acts"} PROVE Fit /\ place = EndOf /\ place \in 1..EndOf
  BY <1>2 DEF Fit, PlaceInv, Ordinary
<1>3. CASE doing = "writes"
  <2>1. Fit /\ place = 10 BY <1>2, <1>3, WritesCalls
  <2>2. WritesSaid BY <1>3, <2>1 DEF SaidInv
  <2> QED BY <1>3, <2>1, <2>2 DEF WritesSaid, AllKnown, Good
<1>4. CASE doing = "acts"
  <2>1. Fit /\ place = 17 BY <1>2, <1>4, ActsCalls
  <2>2. ActsSaid BY <1>4, <2>1 DEF SaidInv
  <2>3. PICK moved : moved # own /\ assigned = MovedTo(own, moved) BY <2>1, <2>2 DEF ActsSaid, HasMoved
  <2> QED BY <1>4, <2>2, <2>3 DEF ActsSaid, AllKnown, Good
<1> QED BY <1>1, <1>3, <1>4

LEMMA MadeStep ==
    ASSUME PrivateInv, PlaceInv, ToldInv, EarnedInv, SaidInv, MadeInv, [Next]_vars
    PROVE  MadeInv'
<1>1. UNCHANGED <<doing, file>>
  <2>1. CASE Converse
    BY <2>1 DEF Converse, captureVars, Talk, Plain, Measure, Save, Use, Mark, Submitted, MoveMessage, Locate,
                DeleteDraft, SweepFind, SweepTake, Refused, Lost, Unusable, ForgetNothing
  <2>2. CASE LoadRules BY <2>2 DEF LoadRules, StartOver, scenarioVars, programVars
  <2>3. CASE Gather \/ WriteExchange \/ DiskFails \/ Close \/ Again
    BY <2>3 DEF Gather, WriteExchange, DiskFails, Close, Again, scenarioVars, programVars
  <2>4. CASE UNCHANGED vars BY <2>4 DEF vars, captureVars, scenarioVars, programVars
  <2> QED BY <2>1, <2>2, <2>3, <2>4 DEF Next
<1>2. RulesRead' = RulesRead BY <1>1 DEF RulesRead
<1>3. MadeInv' =
          /\ step' = "write" =>
                 /\ moment' \in Moments
                 /\ \A i \in DOMAIN directory' :
                        directory'[i] = FixtureOf(i, told'[i], assigned', RulesRead, moment')
          /\ \A i \in DOMAIN captures' : captures'[i].clean => MadeFrom(captures'[i])
  BY <1>1, <1>2 DEF MadeInv, MadeFrom
<1>4. ASSUME captures' = captures
      PROVE  \A i \in DOMAIN captures' : captures'[i].clean => MadeFrom(captures'[i])
  BY <1>4 DEF MadeInv
<1>5. ASSUME captures' = captures, step' # "write" PROVE MadeInv'
  BY <1>3, <1>4, <1>5
<1>6. CASE LoadRules BY <1>5, <1>6 DEF LoadRules, Finish, MadeInv
<1>7. CASE Converse
  <2>1. UNCHANGED <<moment, captures, step>> /\ step = "talk" BY <1>7 DEF Converse, captureVars
  <2> QED BY <1>5, <2>1 DEF MadeInv
<1>8. CASE Gather
  <2>1. UNCHANGED captures BY <1>8 DEF Gather
  <2>2. step' # "write" \/ (directory' = <<>> /\ moment' \in Moments) BY <1>8 DEF Gather, Finish
  <2>3. DOMAIN <<>> = {} OBVIOUS
  <2> QED BY <1>3, <1>4, <1>5, <2>1, <2>2, <2>3
<1>9. CASE WriteExchange
  <2>1. UNCHANGED <<moment, captures, told, assigned>> /\ step = "write"
    BY <1>9 DEF WriteExchange, scenarioVars, programVars
  <2>2. \/ step' = "over"
        \/ step' = step /\ directory' = Append(directory, Fixture(Len(directory) + 1))
    BY <1>9 DEF WriteExchange, Finish
  <2>3. CASE step' = "over" BY <1>5, <2>1, <2>3 DEF MadeInv
  <2>4. CASE step' = step /\ directory' = Append(directory, Fixture(Len(directory) + 1))
    <3> DEFINE n == Len(directory) + 1
               fixture == Fixture(n)
    <3>1. fixture = FixtureOf(n, told[n], assigned, RulesRead, moment) BY <2>1 DEF Fixture, PrivateInv
    <3> HIDE DEF fixture
    <3>2. /\ DOMAIN directory = 1..Len(directory) /\ Len(directory) \in Nat
          /\ DOMAIN directory' = 1..n /\ directory'[n] = fixture
          /\ \A i \in 1..Len(directory) : directory'[i] = directory[i]
      <4>1. directory' = Append(directory, fixture) BY <2>4 DEF fixture
      <4>2. directory \in Seq(Range(directory)) BY DEF PrivateInv
      <4> QED BY <4>1, <4>2, AppendTo
    <3>3. \A i \in DOMAIN directory' : i = n \/ i \in DOMAIN directory BY <3>2
    <3>4. \A i \in DOMAIN directory' : directory'[i] = FixtureOf(i, told[i], assigned, RulesRead, moment)
      BY <2>1, <3>1, <3>2, <3>3 DEF MadeInv
    <3>5. \A i \in DOMAIN directory' : directory'[i] = FixtureOf(i, told'[i], assigned', RulesRead, moment')
      BY <2>1, <3>4
    <3>6. moment' \in Moments BY <2>1 DEF MadeInv
    <3> QED BY <1>3, <1>4, <2>1, <3>5, <3>6
  <2> QED BY <2>2, <2>3, <2>4
<1>10. CASE DiskFails BY <1>5, <1>10 DEF DiskFails, Finish, MadeInv
<1>11. CASE Close
  <2>1. step' = "over" /\ step = "write" /\ Len(directory) = Len(told)
    BY <1>11 DEF Close, Finish
  <2>2. CASE captures' = captures BY <1>5, <2>1, <2>2 DEF MadeInv
  <2>3. ASSUME NEW capture, capture.files = directory, capture.shape = Shapes(told), capture.clean => Began,
               capture.still = [k \in DOMAIN told |-> StillAt(moment, k)],
               captures' = Append(captures, capture)
        PROVE  MadeInv'
    <3>1. DOMAIN directory = DOMAIN told
      <4>1. DOMAIN directory = 1..Len(directory) BY LenProperties DEF PrivateInv
      <4>2. DOMAIN told = 1..Len(told) BY LenProperties DEF ToldInv, Tidy, Listing
      <4> QED BY <2>1, <4>1, <4>2
    <3>2. directory = FilesOf(RulesRead, told, assigned, moment)
      <4>1. directory = [i \in DOMAIN directory |-> directory[i]] BY DEF PrivateInv
      <4>2. \A i \in DOMAIN directory : directory[i] = FixtureOf(i, told[i], assigned, RulesRead, moment)
        BY <2>1 DEF MadeInv
      <4> QED BY <3>1, <4>1, <4>2 DEF FilesOf
    <3>3. Began => Good(doing, told, assigned) BY <2>1, SaidWell DEF EarnedInv
    <3>4. capture.clean => MadeFrom(capture)
      <4>1. moment \in Moments BY <2>1 DEF MadeInv
      <4> QED BY <2>3, <3>2, <3>3, <4>1 DEF MadeFrom, MadeOf
    <3>5. /\ DOMAIN captures' = 1..(Len(captures) + 1)
          /\ captures'[Len(captures) + 1] = capture
          /\ DOMAIN captures = 1..Len(captures) /\ \A i \in 1..Len(captures) : captures'[i] = captures[i]
          /\ Len(captures) \in Nat
      BY <2>3, AppendTo DEF EarnedInv, Listing
    <3>6. \A i \in DOMAIN captures' : captures'[i] = capture \/ (i \in DOMAIN captures /\ captures'[i] = captures[i])
      BY <3>5
    <3>7. \A i \in DOMAIN captures' : captures'[i].clean => MadeFrom(captures'[i])
      BY <3>4, <3>6 DEF MadeInv
    <3> QED BY <1>3, <2>1, <3>7
  <2> DEFINE clean == \A f \in Folders : before[f] = {}
             still == [k \in DOMAIN told |-> StillAt(moment, k)]
             capture == [files |-> directory, shape |-> Shapes(told), still |-> still, clean |-> clean]
  <2>4. captures' = captures \/ captures' = Append(captures, capture) BY <1>11 DEF Close, Shapes
  <2>5. capture.files = directory /\ capture.shape = Shapes(told) /\ capture.still = still OBVIOUS
  <2>6. capture.clean => Began BY Zenon DEF Began
  <2> HIDE DEF capture
  <2> QED BY <2>2, <2>3, <2>4, <2>5, <2>6
<1>12. CASE Again
  <2>1. captures' = captures /\ step' = "rules" BY <1>12 DEF Again
  <2> QED BY <1>5, <2>1
<1>13. CASE UNCHANGED vars
  <2>1. UNCHANGED <<moment, captures, step, directory, told, assigned>>
    BY <1>13 DEF vars, captureVars, scenarioVars, programVars
  <2>2. step = "write" =>
            /\ moment \in Moments
            /\ \A i \in DOMAIN directory : directory[i] = FixtureOf(i, told[i], assigned, RulesRead, moment)
    BY DEF MadeInv
  <2> QED BY <1>3, <1>4, <2>1, <2>2
<1> QED BY <1>6, <1>7, <1>8, <1>9, <1>10, <1>11, <1>12, <1>13 DEF Next

\* Two captures of one shape, each begun with nothing in the mailbox, are the same files but for the lists of what was
\* normalised, and the same lists too wherever the same readings were 0: whatever the moments of each, the clocks,
\* cookies, GUIDs and identifiers the server gave, and whatever the rules (normalise.rs, capture.rs zero_assigned).
THEOREM CapturesAgreed == Spec => []CapturesAgree
<1> DEFINE Inv == /\ PrivateInv /\ PlaceInv /\ ToldInv /\ HeardInv /\ EarnedInv /\ LeftInv
                  /\ SaidInv /\ MadeInv
<1>1. Init => Inv
  <2> SUFFICES ASSUME Init PROVE Inv OBVIOUS
  <2>1. <<>> \in Seq(Range(<<>>)) /\ DOMAIN <<>> = {} OBVIOUS
  <2>2. /\ told = <<>> /\ directory = <<>> /\ captures = <<>> /\ step = "rules" /\ file \in RuleFiles
        /\ mailbox = [f \in Folders |-> {}] /\ before = mailbox /\ place = 1 /\ ended = "no"
        /\ assigned = <<>>
    BY DEF Init
  <2>3. PrivateInv BY <2>1, <2>2 DEF PrivateInv
  <2>4. ToldInv BY <2>1, <2>2, FS_EmptySet DEF ToldInv, Tidy, Listing
  <2>5. HeardInv BY <2>1, <2>2 DEF HeardInv, Labels, Reached
  <2>6. EarnedInv BY <2>1, <2>2 DEF EarnedInv, Listing
  <2>7. Empty BY <2>2 DEF Empty, Folders
  <2>8. LeftInv BY <2>2, <2>7 DEF LeftInv, WritesLeft, ActsLeft
  <2>9. AllKnown BY <2>1, <2>2 DEF AllKnown
  <2>10. SaidInv BY <2>2, <2>9 DEF SaidInv, QuietSaid, WritesSaid, ActsSaid
  <2>11. MadeInv BY <2>1, <2>2 DEF MadeInv
  <2> QED BY <2>3, <2>4, <2>5, <2>6, <2>8, <2>10, <2>11, PlaceStarts
<1>2. Inv /\ [Next]_vars => Inv'
  BY PrivateStep, PlaceStep, ToldStep, HeardStep, EarnedStep, LeftStep, SaidStep, MadeStep
<1>3. Inv => CapturesAgree BY AgreeIs
<1> QED BY <1>1, <1>2, <1>3, PTL DEF Spec

=============================================================================
