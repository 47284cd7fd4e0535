-------------------------- MODULE MCLibraryCatalog --------------------------
(* Two processes with an old, a new and an edited binary; two scans that may *)
(* start in either order or at one time, over two assets, each in a directory *)
(* of its own; two plays of one medium.                                      *)
EXTENDS LibraryCatalog, TLC

CONSTANTS p1, p2, a1, a2, f1, f2, m1

v1     == [version |-> 1, text |-> "local_catalog"]
v1x    == [version |-> 1, text |-> "local_catalog, edited"]
v2     == [version |-> 2, text |-> "play_stats"]

MCMigrations == {v1, v1x, v2}
MCBinaries   == {{v1}, {v1x, v2}, {v1, v2}, {v1, v1x}}
MCCreates    == [m \in MCMigrations |->
                   IF m.version = 1 THEN {"local_catalog_scan", "local_catalog_asset"}
                   ELSE {"play_stats", "play_stats_applied_facts"}]
MCFacts      == {[id |-> f1, media |-> m1, ms |-> 1, at |-> 2],
                 [id |-> f2, media |-> m1, ms |-> 2, at |-> 1]}
MCPrint      == [a \in {a1, a2} |-> "old"]
MCDirectories == {{a1}, {a2}}
Symmetry     == Permutations({p1, p2}) \cup Permutations({a1, a2})
MCContents   == {NewCatalog}

\* Bound: a file is used for play statistics or for scans, which share no row.
\* The binaries that differ meet over the statistics; scans are those of one.
OneConcern ==
  \/ \A s \in Scans : content.scans[s].state = "none"
  \/ content.marks = {} /\ \A p \in Processes : binary[p] \in {{}, {v1}}

\* Bound: once both scans have begun, what they look at is one directory.
OneDirectory ==
  (\A s \in Scans : content.scans[s].state # "none") =>
     \E d \in Directories :
       \A s \in Scans : plan[s] # NoPlan => DOMAIN plan[s].events \subseteq d
=============================================================================
