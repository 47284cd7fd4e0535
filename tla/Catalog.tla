------------------------------- MODULE Catalog -------------------------------
(* What the writes of the local catalog do to its rows                      *)
(* (src/core/aurorix-storage/src/scan_observation.rs, stats_aggregator.rs    *)
(* and stats_schema.rs): operators from rows to rows, one for each helper a  *)
(* caller runs inside its transaction.  Facts carry a length and a time;    *)
(* the sum of lengths past 63 bits is left out.  A fact is known by its id.  *)
(* "counted", "said" and "late" are history: the facts since the aggregate   *)
(* was last cleared, what each scan last said of an asset while it was       *)
(* running, and whether the asset's last mark came from a scan although a    *)
(* newer one had spoken of it.                                               *)
EXTENDS Naturals, FiniteSets, FiniteSetsExt

CONSTANTS
  Scans,           \* ids of scans, numbers for their order as text
  Times,           \* what the caller's clock may show when a scan starts
  Assets,
  Facts,           \* [id, media, ms, at] records
  Media,
  NoScan           \* last_seen_scan_id is NULL

ASSUME CatalogAssumption ==
  /\ Scans \subseteq Nat /\ Times \subseteq Nat
  /\ NoScan \notin Scans
  /\ \A f, g \in Facts : f.id = g.id => f = g
  /\ \A f \in Facts : f.media \in Media /\ f.ms \in Nat /\ f.at \in Nat \ {0}

Rows(s, a, m, p, c) ==
  [scans |-> s, assets |-> a, marks |-> m, plays |-> p, counted |-> c]

NoPlays == [m \in Media |-> [count |-> 0, ms |-> 0, last |-> 0]]

\* The rows of the assets themselves come from imports outside these helpers.
NewCatalog ==
  Rows([s \in Scans |-> [state |-> "none", started |-> 0]],
       [a \in Assets |-> [state |-> "active", seen |-> NoScan,
                          said |-> [s \in Scans |-> "nothing"], late |-> FALSE]],
       {}, NoPlays, {})

-----------------------------------------------------------------------------
Running(c, s) == c.scans[s].state = "running"

StartScan(c, s, at) == [c EXCEPT !.scans[s] = [state |-> "running", started |-> at]]

FinishScan(c, s, result) ==
  IF Running(c, s) THEN [c EXCEPT !.scans[s].state = result] ELSE c

MarkAssetSeen(c, s, a, state) ==
  IF Running(c, s)
  THEN [c EXCEPT !.assets[a] = [@ EXCEPT !.state = state, !.seen = s]]
  ELSE c

\* Mutant: what this scan did not see is missing, whoever else saw it.
MutantUnseen(c, s, row) == row.seen # s

\* Seen by none, or by a scan that comes before this one by (started_at, id).
Unseen(c, s, row) ==
  \/ row.seen = NoScan
  \/ c.scans[row.seen].started < c.scans[s].started
  \/ c.scans[row.seen].started = c.scans[s].started /\ row.seen < s

MarkMissingAssets(c, s, scope) ==
  IF Running(c, s)
  THEN [c EXCEPT !.assets = [a \in Assets |->
          IF a \in scope /\ @[a].state # "tombstoned" /\ Unseen(c, s, @[a])
          THEN [@[a] EXCEPT !.state = "missing"] ELSE @[a]]]
  ELSE c

-----------------------------------------------------------------------------
(* The history of an asset: which scans spoke of it, and which of them is    *)
(* the newest.                                                               *)

Older(scans, s, t) ==
  \/ scans[s].started < scans[t].started
  \/ scans[s].started = scans[t].started /\ s < t

Spoke(row, s) == row.said[s] # "nothing"

IsNewest(scans, row, s) ==
  Spoke(row, s) /\ \A t \in Scans \ {s} : Spoke(row, t) => Older(scans, t, s)

\* What a running scan says of some assets: the state it saw each in, or "absent".
RowHeard(scans, s, row, word) ==
  LET isLate == \E t \in Scans : Spoke(row, t) /\ Older(scans, s, t)
  IN  [row EXCEPT !.said[s] = word, !.late = IF word = "absent" THEN @ ELSE isLate]

Heard(c, s, words) ==
  IF Running(c, s)
  THEN [c EXCEPT !.assets = [a \in Assets |->
          IF a \in DOMAIN words THEN RowHeard(c.scans, s, @[a], words[a]) ELSE @[a]]]
  ELSE c

-----------------------------------------------------------------------------
Later(x, y) == IF x > y THEN x ELSE y

Counted(play, f) ==
  [count |-> play.count + 1, ms |-> play.ms + f.ms, last |-> Later(f.at, play.last)]

\* Mutant: the aggregate is updated whether the fact is new or not.
MutantApplyPlayFact(c, f) ==
  [c EXCEPT !.marks = @ \cup {f}, !.plays[f.media] = Counted(@, f), !.counted = @ \cup {f}]

\* A fact that has its marker contributes nothing more.
ApplyPlayFact(c, f) ==
  IF f \in c.marks THEN c
  ELSE [c EXCEPT !.marks = @ \cup {f}, !.plays[f.media] = Counted(@, f),
                 !.counted = @ \cup {f}]

\* The markers stay: what was counted before is not counted again.
ClearPlayStats(c) == [c EXCEPT !.plays = NoPlays, !.counted = {}]

ResetPlayStats(c) == [c EXCEPT !.plays = NoPlays, !.marks = {}, !.counted = {}]

\* The aggregate computed from the facts themselves.
StatsOf(facts) ==
  [m \in Media |->
     LET mine == {f \in facts : f.media = m}
     IN  [count |-> Cardinality(mine), ms |-> MapThenSumSet(LAMBDA f : f.ms, mine),
          last |-> IF mine = {} THEN 0 ELSE Max({f.at : f \in mine})]]
=============================================================================
