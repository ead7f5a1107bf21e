-------------------------------- MODULE Scrub --------------------------------
(***************************************************************************)
(* Taking a deployment's identity out of a capture:                        *)
(* crates/mapi-cli/src/scrub.rs, and the tally of meta.rs.                 *)
(*                                                                         *)
(* What a rule looks for is a NAME in one SPELLING: a triple of the        *)
(* encoding it is in, its casing and the name itself.  A file is a         *)
(* sequence of such names and of whatever else it holds, each of a width   *)
(* that no replacement changes; names that overlap are left out.           *)
(***************************************************************************)
EXTENDS Naturals, Sequences, SequencesExt, FiniteSetsExt

CONSTANTS
    Width,      \* how many bytes each name has
    Ascii,      \* the names that are ASCII throughout
    Hex         \* the names that are an even run of hexadecimal digits

Encodings == {"bytes", "text", "utf16"}
Casings == {"upper", "written", "lower"}

Spelled(encoding, casing, name) == <<"name", encoding, casing, name>>

-----------------------------------------------------------------------------
(* Rules::parse.  A line is blank (or a comment), malformed, or a kind of   *)
(* rule with a needle and a replacement.                                   *)

Nothing == ""       \* a field with nothing in it

NotAscii(line) == ~({line.needle, line.replacement} \subseteq Ascii)
NotHex(line) == ~({line.needle, line.replacement} \subseteq Hex)
LengthMismatch(line) == Width[line.needle] # Width[line.replacement]

\* What is wrong with a line, in the order the code looks.
RuleError(line) ==
    CASE line.kind = "blank" -> "none"
      [] line.kind = "malformed" -> "Malformed"
      [] line.kind \notin {"blank", "malformed"} /\ line.needle = Nothing -> "Empty"
      [] line.kind = "text" /\ line.needle # Nothing ->
            IF NotAscii(line) THEN "NotAscii" ELSE IF LengthMismatch(line) THEN "LengthMismatch" ELSE "none"
      [] line.kind = "bytes" /\ line.needle # Nothing ->
            IF NotHex(line) THEN "NotHex" ELSE IF LengthMismatch(line) THEN "LengthMismatch" ELSE "none"
      [] OTHER -> "UnknownKind"

Rule(encoding, casing, line) ==
    [needle |-> Spelled(encoding, casing, line.needle),
     replacement |-> Spelled(encoding, casing, line.replacement)]

ExpandTextAsWritten(line) ==        \* mutant: UTF-16 only as the rule is written
    {Rule("text", casing, line) : casing \in Casings} \cup {Rule("utf16", "written", line)}

\* One text rule is six: three casings in two encodings.
ExpandText(line) == {Rule(encoding, casing, line) : encoding \in {"text", "utf16"}, casing \in Casings}

RulesOf(line) ==
    CASE line.kind = "text" -> ExpandText(line)
      [] line.kind = "bytes" -> {Rule("bytes", "written", line)}
      [] OTHER -> {}

\* The order of the rules is that of what they place: capitals before small letters.
Placed(rule) == Tail(rule.replacement)
Found(rule) == Tail(rule.needle)

Rank(spelling, names) ==
    LET place(seq, v) == CHOOSE i \in DOMAIN seq : seq[i] = v
    IN  <<place(<<"bytes", "text", "utf16">>, spelling[1]),
          IF spelling[2] = "lower" THEN 1 ELSE 0,
          place(names, spelling[3]),
          IF spelling[2] = "upper" THEN 0 ELSE 1>>

\* The dictionary order of two sequences of numbers of one length.
Precedes(s, t) ==
    \E i \in DOMAIN s : s[i] < t[i] /\ \A j \in 1..(i - 1) : s[j] = t[j]

\* The rules of a file whose lines are all right, in order; names gives the names' own order.
Rules(lines, names) ==
    LET all == UNION {RulesOf(lines[i]) : i \in DOMAIN lines}
        key(rule) == Rank(Placed(rule), names) \o Rank(Found(rule), names)
        after(done, rule) == Cardinality({i \in DOMAIN done : Precedes(key(done[i]), key(rule))})
    IN  FoldSet(LAMBDA rule, done : InsertAt(done, after(done, rule) + 1, rule), <<>>, all)

\* The first line that is wrong makes the whole file an error.
Parse(lines, names) ==
    LET wrong == {i \in DOMAIN lines : RuleError(lines[i]) # "none"}
    IN  IF wrong = {} THEN [error |-> "none", rules |-> Rules(lines, names)]
                      ELSE [error |-> RuleError(lines[Min(wrong)]), rules |-> <<>>]

-----------------------------------------------------------------------------
(* Rules::apply, Rules::find and the tally *)

Occurrences(content, atom) == {i \in DOMAIN content : content[i] = atom}

Replaced(content, rule) ==
    [i \in DOMAIN content |-> IF content[i] = rule.needle THEN rule.replacement ELSE content[i]]

\* Each rule in turn over what the ones before it left, and each placeholder with how often it was
\* put: never what it stands for.
Apply(rules, content) ==
    LET after[k \in 0..Len(rules)] ==
            IF k = 0 THEN [content |-> content, hits |-> <<>>]
            ELSE LET done == after[k - 1]
                     count == Cardinality(Occurrences(done.content, rules[k].needle))
                 IN  IF count = 0 THEN done
                     ELSE [content |-> Replaced(done.content, rules[k]),
                           hits |-> Append(done.hits, <<rules[k].replacement, count>>)]
    IN  after[Len(rules)]

\* What should not be there and still is.
Find(rules, content) == {i \in DOMAIN rules : Occurrences(content, rules[i].needle) # {}}

\* One tally added to another: a placeholder already in it counts on, a new one goes to the end.
Merge(into, more) ==
    FoldLeft(LAMBDA tally, hit :
        LET at == {i \in DOMAIN tally : tally[i][1] = hit[1]}
        IN  IF at = {} THEN Append(tally, hit)
                       ELSE [tally EXCEPT ![Min(at)] = <<hit[1], @[2] + hit[2]>>],
        into, more)

\* scrub_text: the same over a URL or a header's value, its hits added to the tally.
ScrubText(text, rules, tally) ==
    LET done == Apply(rules, text)
    IN  [content |-> done.content, tally |-> Merge(tally, done.hits)]

=============================================================================
