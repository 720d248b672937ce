------------------------------ MODULE MCPlugins ------------------------------
(* Two guilds; a channel with a thread, one with an old message and one the *)
(* account may not read.  A folder within a folder and another one, a       *)
(* component in each.  Three commits; a file diff of two chunks, one with     *)
(* added and removed lines, and a binary one.                               *)
EXTENDS Plugins, TLC

CONSTANTS c1, c2, c3, t1, g1, g2, f1, f2, f3, d1, d2, d3,
          m1, m2, m3, bin, n1, n2, n3, n4, n5

msg(age, text, thread) == [age |-> age, text |-> text, thread |-> thread]

ChannelGuild == (c1 :> g1) @@ (c2 :> g1) @@ (c3 :> g2)

Messages3 ==
    (c1 :> <<msg(1, TRUE, None), msg(1, FALSE, t1), msg(2, TRUE, None)>>)
        @@ (c2 :> <<msg(1, TRUE, None), msg(3, TRUE, None)>>)
        @@ (c3 :> <<>>)
        @@ (t1 :> <<msg(1, TRUE, None), msg(2, TRUE, None)>>)

Tree == (f1 :> <<d1, f2>>) @@ (f2 :> <<d3>>) @@ (f3 :> <<d2>>)

FirstFolders == <<f1, f3>>

ThreeCommits == <<<<m1, bin>>, <<m2>>, <<m3>>>>
DiffContents == (m1 :> <<n1, n2>>) @@ (m2 :> <<n3>>) @@ (bin :> <<n4>>) @@ (m3 :> <<n5>>)
=============================================================================
