---------------------------- MODULE MCDetection ----------------------------
(* Words of one to three characters; texts of up to MaxLength, with        *)
(* carriage returns of up to MaxReturns.  Every rule has one allow list at *)
(* most, except in MCTwoLists (AllowLists.cfg).                            *)
EXTENDS Detection

CONSTANTS MaxLength, MaxReturns

MCPaths == {"a.go", "b.bb", "c.png"}

List(and, target, paths, regexes, stops) ==
    [and |-> and, target |-> target, paths |-> paths, regexes |-> regexes, stops |-> stops]

Rule(id, name, tags, word, prefix, keywords, lists) ==
    [id |-> id, name |-> name, tags |-> tags, deprecated |-> FALSE, valid |-> TRUE,
     word |-> word, prefix |-> prefix, keywords |-> keywords, entropy |-> 0,
     paths |-> MCPaths, lists |-> lists]

MCTexts == UNION ({[1..n -> {"a", "b", "n"}] : n \in 1..MaxLength}
                  \cup {[1..n -> {"a", "b", "n", "r"}] : n \in 1..MaxReturns})
MCGlobalLists == <<List(FALSE, "secret", {"c.png"}, {}, {})>>
MCSignature == <<"b", "b", "b">>

generic == Rule("generic", "Generic", {"key"}, <<"a">>, 0, {},
                <<List(FALSE, "match", {}, {<<"b">>}, {})>>)
aws == Rule("aws", "AWS", {"cloud"}, <<"b", "a">>, 0, {<<"a", "b">>},
            <<List(FALSE, "line", {}, {<<"b", "b">>}, {})>>)
pem == Rule("pem", "PEM", {"key"}, <<"b", "n", "a">>, 1, {<<"b">>},
            <<List(TRUE, "secret", {"b.bb"}, {<<"a">>}, {<<"n">>})>>)
old == [Rule("old", "Old", {"key"}, <<"b">>, 0, {}, <<>>) EXCEPT !.deprecated = TRUE]
password == Rule("password", "Password", {}, <<"b">>, 0, {<<"b">>}, <<>>)
own == [Rule("aws", Unnamed, {}, <<"a", "a">>, 1, {}, <<List(TRUE, "", {"b.bb"}, {}, {})>>)
        EXCEPT !.paths = {"a.go", "b.bb"}]
new == [Rule("generic-mine", Unnamed, {"key"}, <<"n", "b", "a">>, 1, {}, <<>>) EXCEPT !.entropy = 1]
twice == Rule("twice", "Twice", {}, <<"n", "n", "a">>, 0, {}, <<>>)
dos == Rule("dos", "Dos", {}, <<"b", "r", "a">>, 1, {}, <<>>)
crlf == Rule("crlf", "CRLF", {}, <<"r", "n", "a">>, 1, {}, <<>>)
secret == Rule("password", "Secret", {}, <<"a">>, 0, {}, <<>>)
tagged == [own EXCEPT !.tags = {"own"}]
gone == [own EXCEPT !.deprecated = TRUE]
bad == [new EXCEPT !.valid = FALSE]
regex == Rule("custom-regex-1", "custom-regex-1", {}, <<"a", "a">>, 1, {}, <<>>)

MCAllRules == {generic, aws, pem, old}
MCSpecialRules == {password}

Config(selected, ignored, special, additional, customs, patterns) ==
    [selected |-> selected, ignored |-> ignored, special |-> special, additional |-> additional,
     customs |-> customs, patterns |-> patterns]

MCConfigs ==
    {Config({}, {}, {}, {}, <<>>, {}),
     Config({"key"}, {"PEM"}, {"Password"}, {}, <<own, new>>, {}),
     Config({}, {"AWS"}, {}, {}, <<own>>, {}),
     Config({}, {"own", "PEM"}, {}, {}, <<tagged>>, {}),
     Config({}, {}, {}, {"generic", "key"}, <<own, gone, new, own, twice, dos, crlf>>,
            {regex}),
     Config({"password"}, {}, {"Password"}, {}, <<secret>>, {}),
     Config({"password"}, {}, {"Password"}, {"Password"}, <<secret>>, {}),
     Config({"AWS"}, {}, {}, {}, <<gone>>, {}),
     Config({"aws", "generic-mine"}, {}, {}, {"AWS"}, <<new>>, {[regex EXCEPT !.valid = FALSE]}),
     Config({"generic-mine"}, {}, {}, {}, <<bad>>, {}),
     Config({"generic-mine"}, {}, {}, {}, <<>>, {regex})}

\* the second list, about the line, inherits what the first says of the match
MCTwoLists ==
    {[generic EXCEPT !.word = <<"a", "a">>,
                     !.lists = <<List(FALSE, "match", {}, {<<"b">>}, {}),
                                 List(FALSE, "line", {}, {<<"b", "b">>}, {})>>]}
MCDefaults == {Config({}, {}, {}, {}, <<>>, {})}
=============================================================================
