-------------------------- MODULE MCWindowsPlatform --------------------------
(* Two items and two changes of the Core; two scans of a folder and of      *)
(* roots that lie in it; two extensions that want the same route, one of     *)
(* them in two versions.                                                     *)
EXTENDS WindowsPlatform

CONSTANTS i1, i2, s1, s2, x1, x2, c1, c2

MCPaths    == {"music", "album", "song"}
MCChildren == [p \in MCPaths |->
                 CASE p = "music" -> {"album"} [] p = "album" -> {"song"} [] OTHER -> {}]
MCRoots    == {<<"music", "album">>, <<"song", "music">>}

Manifest(x, enabled, command, routes) ==
  [extension |-> x, valid |-> TRUE, enabled |-> enabled,
   actions |-> [a \in {"act"} |-> command], routes |-> routes]

MCManifests ==
  {Manifest(x1, TRUE, "one", {"page"}), Manifest(x1, FALSE, "two", {}),
   Manifest(x2, TRUE, "one", {"page", "other"}),
   [Manifest(x2, TRUE, "two", {}) EXCEPT !.valid = FALSE]}
=============================================================================
