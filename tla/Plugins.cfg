SPECIFICATION Spec
CONSTANTS
    c1 = c1
    c2 = c2
    c3 = c3
    t1 = t1
    g1 = g1
    g2 = g2
    f1 = f1
    f2 = f2
    f3 = f3
    d1 = d1
    d2 = d2
    d3 = d3
    m1 = m1
    m2 = m2
    bin = bin
    n1 = n1
    n2 = n2
    n3 = n3
    n4 = n4
    n5 = n5
    m3 = m3
    Channels = {c1, c2, c3}
    Threads = {t1}
    GuildOf <- ChannelGuild
    History <- Messages3
    Selections = {{}, {c1}}
    Readable = {c1, c2}
    Ages = {0, 2}
    Counts = {0, 2}
    PageSize = 2
    Folders = {f1, f2, f3}
    Components = {d1, d2, d3}
    Children <- Tree
    Roots <- FirstFolders
    MaxLimited = 1
    Commits <- ThreeCommits
    Contents = {n1, n2, n3, n4, n5}
    ContentsOf <- DiffContents
    SkippedDiffs = {bin}
INVARIANTS WaitGroupCounts OnlyWanted AllWanted
PROPERTIES PluginEnds
CHECK_DEADLOCK FALSE
