---------------------------- MODULE WebConsoleMC ----------------------------
(***************************************************************************)
(* The web server and the console on a small instance: one browser asks    *)
(* for the console and one for something else; one session plays a file of *)
(* two lines, two sessions play one of a line each at the same time, and   *)
(* another host has no file and a shell that may close.                    *)
(***************************************************************************)
EXTENDS WebConsole, TLC

CONSTANTS b1, b2

MCRequests == {b1 :> "console" @@ b2 :> t : t \in {"bare", "missing"}}

F(name, of, value) == [name |-> name, of |-> of, value |-> value]
MCSessions == {"0", "1"}
MCQueries == {
    <<F("h", "0", "np1"), F("f", "0", "t1"), F("h", "1", ""),
      F("s", "h", "socks"), F("s", "p", "1080")>>,
    <<F("h", "0", "np1"), F("f", "0", "t2"), F("h", "1", "np2"), F("f", "1", "t2")>>,
    <<F("h", "1", "np2"), F("f", "1", "")>>}
MCLines == "t1" :> 2 @@ "t2" :> 1
MCFrail == {"1"}
MCAlphabet == {"&", "<", "'", "l", "t", ";", "\r"}
MCOutputs == {<<>>, <<"other", "percent", "space">>}
=============================================================================
