--------------------------- MODULE LibraryCatalog ----------------------------
(* Scans and play facts written to the local database by several processes: *)
(* the helpers of Catalog inside the transactions of LocalDatabase, with    *)
(* what ScanRun::build makes of each scan (src/core/aurorix-library and      *)
(* src/core/aurorix-storage).  The caller of these crates is not in the      *)
(* repository; it is taken to do what the comments ask of it: to build one  *)
(* run from the rows it reads, to mark every asset it found and then those  *)
(* it did not, and to end a scan as failed when a transaction is lost.      *)
(* Nothing keeps scans apart: they overlap, and the clock that gives each   *)
(* its start may stand still or go back.                                    *)
EXTENDS LocalDatabase, Catalog, ScanOrchestration

CONSTANTS
  Prints,          \* fingerprints
  StoredPrint,     \* the stored fingerprint of each asset
  Gone,            \* the file is not there
  Directories,     \* the scopes a scan may be given, sets of assets
  Results,         \* what a probe may find
  NoPlan

Events == [kind : {"Missing", "Unchanged", "Changed"}, to : States]
Runs   == UNION {[scope -> Events] : scope \in SUBSET Assets}
Plans  == [events : Runs, swept : SUBSET Assets, todo : SUBSET Assets]

ASSUME LibraryAssumption ==
  /\ EmptyContent = NewCatalog
  /\ Directories \subseteq SUBSET Assets
  /\ Gone \notin Prints
  /\ NoPlan \notin Plans

VARIABLES
  owner,           \* the process that works on a scan
  plan             \* the run it built, what it has not marked yet and what it swept

scanVars    == <<owner, plan>>
libraryVars == <<dbVars, scanVars>>

LibraryInit ==
  /\ DatabaseInit
  /\ owner = [s \in Scans |-> NoProcess]
  /\ plan  = [s \in Scans |-> NoPlan]

-----------------------------------------------------------------------------
\* A binary writes the tables it knows of.
HasTable(p, t) == \E m \in binary[p] : t \in Creates[m]

CatalogTable == "local_catalog_scan"
StatsTable   == "play_stats"

\* A scan that is over, and every scan of a process that lost its transaction.
Release(over) ==
  /\ owner' = [s \in Scans |-> IF s \in over THEN NoProcess ELSE owner[s]]
  /\ plan'  = [s \in Scans |-> IF s \in over THEN NoPlan ELSE plan[s]]

Owned(p) == {s \in Scans : owner[s] = p}

BeginScan(p, s, at) ==
  /\ HasTable(p, CatalogTable) /\ content.scans[s].state = "none"
  /\ WriteAtOnce(p, StartScan(content, s, at))
  /\ owner' = [owner EXCEPT ![s] = p]
  /\ UNCHANGED plan

\* A run of some of the directories: the rows are read, and used later.
BuildRun(p, s, scope, observed) ==
  LET state  == [a \in scope |-> content.assets[a].state]
      events == Build(scope, state, StoredPrint, observed, Gone)
  IN  /\ place[p] = "ready" /\ owner[s] = p /\ plan[s] = NoPlan
      /\ Running(content, s) /\ IsRun(events)
      /\ plan' = [plan EXCEPT ![s] =
           [events |-> events, swept |-> {},
            todo |-> {a \in scope : events[a].kind # "Missing"}]]
      /\ UNCHANGED <<dbVars, owner>>

Planned(p, s) == owner[s] = p /\ plan[s] # NoPlan

SeeAs(c, s, a, state) == Heard(MarkAssetSeen(c, s, a, state), s, [b \in {a} |-> state])

SeeAsset(p, s, a) ==
  /\ Planned(p, s) /\ a \in plan[s].todo
  /\ Write(p, SeeAs(work.content, s, a, plan[s].events[a].to))
  /\ plan' = [plan EXCEPT ![s].todo = @ \ {a}]
  /\ UNCHANGED owner

\* What the probe of a file found.
ProbeAsset(p, s, a, result) ==
  LET to == Observe(work.content.assets[a].state, result)
  IN  /\ Planned(p, s) /\ a \in DOMAIN plan[s].events \ plan[s].todo
      /\ plan[s].events[a].kind # "Missing" /\ to # Invalid
      /\ Write(p, SeeAs(work.content, s, a, to))
      /\ UNCHANGED scanVars

\* What the run did not find, and says so while it sweeps.
Absent(s, scope) == [a \in {b \in scope : plan[s].events[b].kind = "Missing"} |-> "absent"]

Sweep(c, s, scope) == Heard(MarkMissingAssets(c, s, scope), s, Absent(s, scope))

SweepMissing(p, s, scope) ==
  /\ Planned(p, s) /\ plan[s].todo = {} /\ scope \subseteq DOMAIN plan[s].events
  /\ Write(p, Sweep(work.content, s, scope))
  /\ plan' = [plan EXCEPT ![s].swept = @ \cup scope]
  /\ UNCHANGED owner

Complete(p, s) ==
  /\ Planned(p, s) /\ plan[s].todo = {} /\ plan[s].swept = DOMAIN plan[s].events
  /\ Write(p, FinishScan(work.content, s, "completed"))
  /\ UNCHANGED scanVars

\* A scan without a run is ended so, and so is one that another gave up on: its
\* owner does not know and goes on.
Fail(p, s) ==
  /\ HasTable(p, CatalogTable) /\ content.scans[s].state # "none"
  /\ WriteAtOnce(p, FinishScan(content, s, "failed"))
  /\ Release({s} \cap Owned(p))

StatsWrite(p, c) ==
  /\ HasTable(p, StatsTable)
  /\ WriteAtOnce(p, c)
  /\ UNCHANGED scanVars

AddFact(p, f) == StatsWrite(p, ApplyPlayFact(content, f))

\* The projection is rebuilt: everything is cleared and every known fact replayed.
Rebuilt(c) ==
  LET d == FoldSet(LAMBDA f, e : ApplyPlayFact(e, f), ResetPlayStats(c), c.marks)
  IN  Rows(c.scans, c.assets, d.marks, d.plays, d.counted)
Rebuild(p) == StatsWrite(p, Rebuilt(content))

ClearStats(p) == StatsWrite(p, ClearPlayStats(content))

-----------------------------------------------------------------------------
Commit(p) ==
  /\ CommitWrite(p)
  /\ Release({s \in Owned(p) : ~Running(work.content, s)})

Abandon(p) == (RollBack(p) \/ Panic(p) \/ Crash(p)) /\ Release(Owned(p))

Scanning(p) ==
  \E s \in Scans :
    \/ \E at \in Times : BeginScan(p, s, at)
    \/ \E some \in SUBSET Directories \ {{}} :
         \E observed \in [UNION some -> Prints \cup {Gone}] : BuildRun(p, s, UNION some, observed)
    \/ \E a \in Assets : SeeAsset(p, s, a) \/ \E r \in Results : ProbeAsset(p, s, a, r)
    \/ \E scope \in Directories : SweepMissing(p, s, scope)
    \/ Complete(p, s) \/ Fail(p, s)

LibraryNext ==
  \E p \in Processes :
    \/ (\/ \E b \in Binaries : Open(p, b)
        \/ Migrate(p)
        \/ BeginWrite(p)) /\ UNCHANGED scanVars
    \/ Scanning(p)
    \/ \E f \in Facts : AddFact(p, f)
    \/ Rebuild(p) \/ ClearStats(p)
    \/ Commit(p) \/ Abandon(p)

LibrarySpec == LibraryInit /\ [][LibraryNext]_libraryVars

-----------------------------------------------------------------------------
\* Whatever is committed, the aggregate is that of the facts counted since it
\* was last cleared, each once, in any order, and none without its marker
\* (stats_aggregator.rs: retries are idempotent, markers and aggregate move
\* together).
StatsAreTheFacts ==
  content.counted \subseteq content.marks /\ content.plays = StatsOf(content.counted)

\* A row follows what a scan said of its asset.
Follows(row, s) ==
  IF row.said[s] = "absent" THEN row.state \in {"missing", "tombstoned"}
  ELSE row.state = row.said[s]

\* Of the scans that spoke of an asset, however they overlapped, the newest by
\* (started_at, id) is the one its row follows: what it found is as it marked or
\* probed it, what it did not find is missing or was retired, and no sweep of an
\* older scan undoes that, whatever was rolled back, failed or crashed meanwhile
\* (scan_observation.rs, mark_missing_assets: "an older scan finishing late cannot
\* erase a newer observation", and what a scan that is over says does not count).
\* It is no promise where a mark itself came late, from a scan older than one that
\* had spoken: mark_asset_seen does not look (row.late).
NewestScanCounts ==
  \A a \in Assets :
    LET row == content.assets[a]
    IN  ~row.late => \A s \in Scans : IsNewest(content.scans, row, s) => Follows(row, s)
=============================================================================
