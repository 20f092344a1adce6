------------------------------ MODULE MCInject ------------------------------
(* Two calls: the first on any of the sources, the second on one of two.  *)
EXTENDS Inject
CONSTANTS a, b, d1, d2

Names == {"project1", "local", "geo", "midi", "x", BRIDGE_NAME, ONSTART_NAME, LEGACY_BRIDGE_NAME, BOOT_NAME}

MCLower ==
    [n \in Names \cup {"TDMCP_Bridge", "TDMCP_Boot", "Project1", "Geo"} |->
        CASE n = "TDMCP_Bridge" -> BRIDGE_NAME [] n = "TDMCP_Boot" -> BOOT_NAME
          [] n = "Project1" -> "project1" [] n = "Geo" -> "geo" [] OTHER -> n]

Tree(toc, build, start) ==
    [files |-> ToSet(toc), toc |-> toc, build |-> build, start |-> start]

Own == <<File(P1, "geo", "n"), File(<<"project1", "geo">>, "tdmcp_bridge", "n"), File(Local, "midi", "n")>>
Bridge == <<File(P1, BRIDGE_NAME, "n"), File(InBridge, ONSTART_NAME, "n")>>

MCKit == Tree(Bridge \o <<File(P1, "geo", "n")>>, "2025", <<3, 7>>)
MCPart == {File(P1, BRIDGE_NAME, "n")}

Source(extra) == Tree(Own \o extra, "2023", <<2, 9>>)

Sources ==
    {Source(x) : x \in
        {<<>>, Bridge, <<File(P1, BRIDGE_NAME, "n")>>, <<File(Local, BOOT_NAME, "text")>>, bootPaths,
         <<File(P1, LEGACY_BRIDGE_NAME, "n")>>,
         <<File(P1, ONSTART_NAME, "n"), File(P1, LEGACY_BRIDGE_NAME, "n")>>,
         <<File(P1, "TDMCP_Bridge", "n"), File(<<"project1", "TDMCP_Bridge">>, "x", "n")>>,
         <<File(P1, "Geo", "n")>>, <<File(P1, "geo", "n")>>,
         \* under the bridge's names, but not quite the bridge's
         <<File(P1, ONSTART_NAME, "n"), File(<<"project1", ONSTART_NAME>>, "x", "n")>>,
         <<File(<<"local", BOOT_NAME>>, "x", "n")>>, <<File(Local, BOOT_NAME, "table")>>,
         <<File(Local, "TDMCP_Boot", "n")>>, <<File(<<"Project1">>, BRIDGE_NAME, "n")>>}}
    \cup {Tree(<<File(Local, "midi", "n")>>, "2023", NoStart)}

Jobs(src, valid, dests, options) ==
    [src : src, valid : valid, dest : dests, onConflict : options]

Options == {"abort", "skip", "replace"}

MCJobsOf ==
    [c \in Calls |->
        IF c = a THEN Jobs(Sources, {TRUE}, {d1}, Options)
        ELSE Jobs({Source(<<>>), Source(Bridge)}, {TRUE}, Dests, {"abort", "replace"})
              \cup Jobs({Source(<<>>)}, {FALSE}, {d1}, {"abort"})]
==============================================================================
