-------------------------- MODULE MCFixtureCapture --------------------------
(***************************************************************************)
(* The six conversations, captured twice.  Three names and what stands for *)
(* them; "short" is of another width and "umlaut" not ASCII.               *)
(***************************************************************************)
EXTENDS FixtureCapture

MCNames == <<"dn", "dn0", "guid", "guid0", "host", "host0", "nowhere", "short", "umlaut">>
MCWidth == [n \in Range(MCNames) |-> IF n = "short" THEN 5 ELSE 8]
MCAscii == Range(MCNames) \ {"umlaut"}
MCHex == {"guid", "guid0"}

Line(kind, needle, replacement) == [kind |-> kind, needle |-> needle, replacement |-> replacement]
File(lines) == [given |-> TRUE, noScrub |-> FALSE, lines |-> lines]
NoFile(noScrub) == [given |-> FALSE, noScrub |-> noScrub, lines |-> <<>>]

Plain0 == <<Line("blank", "", ""), Line("text", "host", "host0"), Line("text", "dn", "dn0"),
            Line("text", "guid", "guid0"), Line("bytes", "guid", "guid0")>>

MCRuleFiles ==
    {File(Plain0),
     \* one rule puts what another takes out, in either order
     File(<<Line("text", "host", "host0"), Line("text", "host0", "nowhere")>>),
     File(<<Line("text", "host", "dn"), Line("text", "dn", "host")>>),
     \* nothing in the capture is of this name
     File(<<Line("text", "nowhere", "host0")>>),
     NoFile(TRUE), NoFile(FALSE)}
    \cup {File(Append(Plain0, line)) : line \in
        {Line("malformed", "", ""), Line("text", "", "host0"), Line("text", "umlaut", "host0"),
         Line("text", "host", "short"), Line("bytes", "host", "guid0"), Line("other", "host", "host0")}}


\* Two moments whose clocks differ, and what of the second reads 0.  A session's Connect and logon are
\* its second and third exchange and those of the others the first and the second, so that of each
\* there is one captured with other readings and one with readings that are 0.
Moment(clock, still) == [clock |-> clock, still |-> still]
MCMoments ==
    {Moment(1, {}),
     Moment(2, {<<1, "elapsed">>, <<1, "delay">>, <<1, "aux">>, <<3, "times">>, <<3, "start">>})}

=============================================================================
