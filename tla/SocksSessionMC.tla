--------------------------- MODULE SocksSessionMC ---------------------------
(* Instances of SocksSession for TLC: rule files and requests. *)
EXTENDS SocksSession

\* A line of socks.conf, from the tokens of its words.
FileLine(words) ==
    [i \in DOMAIN words |-> [text |-> words[i], begins |-> i = 1]]
Permit(mode, pattern) == <<<<"permit">>, <<mode>>, pattern>>
Comment(words) == [i \in DOMAIN words |-> <<words[i]>>]
All == <<"*", "*", "*", "*">>
NCTU == <<"140", "113", "*", "*">>
NTHU == <<"140", "114", "*", "*">>

\* The example in section 3 of the specification.
Example ==
    FileLine(Permit("c", NTHU)
        \o Comment(<<"#", "permit", "NTHU", "IP", "for", "Connect", "operation">>))
    \o FileLine(Permit("c", NCTU)
        \o Comment(<<"#", "permit", "NCTU", "IP", "for", "Connect", "operation">>))
    \o FileLine(Permit("b", All)
        \o Comment(<<"#", "permit", "all", "IP", "for", "Bind", "operation">>))

\* The example; rules without a comment, one of them with a number behind its
\* "*"; a rule without a "*", whose comment happens to have three words, and
\* another behind it; and no rule.
RuleFiles ==
    {Example,
     FileLine(Permit("c", NTHU)) \o FileLine(Permit("b", <<"8", "114", "*", "9">>)),
     FileLine(Permit("c", <<"8", "114", "8", "8">>) \o Comment(<<"#", "one", "host">>))
         \o FileLine(Permit("c", NCTU)),
     <<>>}
OneFile == {FileLine(Permit("c", All))}
ExampleFile == {Example}

Hosts == {<<"140", "113", "1", "2">>, <<"8", "114", "8", "8">>}
NoName == <<"no.such.name">>
Requests == [cd : {1, 2}, ip : Hosts \cup {NoName}]
Connects == [cd : {1}, ip : Hosts]
=============================================================================
