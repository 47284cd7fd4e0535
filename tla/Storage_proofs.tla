--------------------------- MODULE Storage_proofs ----------------------------
(* What a device keeps, and what its servers keep of it.                     *)
(*                                                                           *)
(* The local database, for any processes, migrations, binaries and contents, *)
(* with the library's transactions on it: its tables are those of its        *)
(* ledger, and who is through its migrations has them all.  Of its catalog,  *)
(* for scans that overlap in any way and clocks that show anything: the row  *)
(* of an asset follows the newest scan that spoke of it.  Of its statistics: *)
(* they are the aggregate of the facts that were counted.                    *)
(*                                                                           *)
(* The store of a device, for any number of devices, operations, bodies,     *)
(* epochs and revisions, and for a network that does to messages whatever it *)
(* likes: what it says of its operations is true.  Of the servers: their     *)
(* state is the replay of what they accepted.  Of snapshots: nothing passes  *)
(* for one but the snapshot.                                                 *)
EXTENDS LibraryCatalog, SyncLoop, SyncSnapshot, TLAPS, FiniteSetTheorems,
        WellFoundedInduction

\* A step of the database, whatever it writes into its rows.
DatabaseStep(p) ==
  \/ \E b \in Binaries : Open(p, b)
  \/ Migrate(p)
  \/ BeginWrite(p)
  \/ \E c : WriteAtOnce(p, c) \/ Write(p, c)
  \/ CommitWrite(p) \/ RollBack(p) \/ Panic(p)
  \/ Crash(p)

DatabaseTypeOK ==
  /\ place \in [Processes -> Places]
  /\ binary \in [Processes -> SUBSET Migrations]
  /\ DOMAIN applied = Processes
  /\ ledger \subseteq Migrations
  /\ writer \in Processes \cup {NoProcess}

\* The process with a transaction is the writer.
OneWriter == \A p \in Processes : place[p] \in Busy <=> writer = p

\* A process that has the file open was built with different versions, and
\* what it need not apply of them is in the ledger.
Current ==
  \A p \in Processes : place[p] # "closed" =>
    /\ ValidateDefinitions(binary[p])
    /\ \A m \in binary[p] : m.version \in applied[p] => m \in ledger

\* Who is through the loop has nothing left to apply.
AllApplied ==
  \A p \in Processes :
    place[p] \in {"ready", "writing", "poisoned"} =>
      Versions(binary[p]) \subseteq applied[p]

TablesOf(rows) == UNION {Creates[m] : m \in rows}

\* What a transaction will publish: a migration adds its tables and then its
\* row, a write neither.
Transaction ==
  \A p \in Processes :
    /\ place[p] = "migrated" =>
         /\ work.ledger = ledger
         /\ \E m \in binary[p] : IsNext(p, m) /\ work.tables = tables \cup Creates[m]
    /\ place[p] = "recorded" =>
         \E m \in binary[p] :
           /\ IsNext(p, m)
           /\ work.ledger = ledger \cup {m} /\ work.tables = tables \cup Creates[m]
    /\ place[p] = "writing" => work.ledger = ledger /\ work.tables = tables

DatabaseIInv ==
  DatabaseTypeOK /\ OneWriter /\ Current /\ AllApplied /\ Transaction /\ SchemaIsTheLedger
-----------------------------------------------------------------------------
\* The next migration of a binary is one.
LEMMA NextIsOne ==
  ASSUME DatabaseTypeOK, NEW p \in Processes, ValidateDefinitions(binary[p]),
         NEW m \in binary[p], NEW n \in binary[p], IsNext(p, m), IsNext(p, n)
  PROVE  m = n
  <1>1. m.version \in Nat /\ n.version \in Nat
    BY DatabaseAssumption DEF DatabaseTypeOK
  <1>2. m.version <= n.version /\ n.version <= m.version
    BY DEF IsNext
  <1>3. m.version = n.version
    BY <1>1, <1>2
  <1> QED
    BY <1>3 DEF ValidateDefinitions

\* A ledger with one more row has the tables of that migration too.
LEMMA TablesOfMore ==
  ASSUME NEW rows, NEW m PROVE TablesOf(rows \cup {m}) = TablesOf(rows) \cup Creates[m]
  BY DEF TablesOf

\* A new file has no rows and no tables.
LEMMA InitIInv == DatabaseInit => DatabaseIInv
  <1> SUFFICES ASSUME DatabaseInit PROVE DatabaseIInv
    OBVIOUS
  <1>1. DatabaseTypeOK
    BY DEF DatabaseInit, DatabaseTypeOK, Places
  <1>2. OneWriter
    BY DatabaseAssumption DEF DatabaseInit, OneWriter, Busy
  <1>3. Current /\ AllApplied /\ Transaction
    BY DEF DatabaseInit, Current, AllApplied, Transaction
  <1>4. SchemaIsTheLedger
    BY DEF DatabaseInit, SchemaIsTheLedger
  <1> QED
    BY <1>1, <1>2, <1>3, <1>4 DEF DatabaseIInv
-----------------------------------------------------------------------------
\* Each step of the database keeps the invariant, action by action.
LEMMA OpenKeeps ==
  ASSUME DatabaseIInv, NEW p \in Processes, NEW b \in Binaries, Open(p, b)
  PROVE  DatabaseIInv'
  <1>1. DatabaseTypeOK'
    BY DatabaseAssumption DEF DatabaseIInv, DatabaseTypeOK, Places, Open, OnDisk, Move
  <1>2. OneWriter'
    BY DatabaseAssumption DEF DatabaseIInv, DatabaseTypeOK, OneWriter, Busy, Open, OnDisk, Move
  <1>3. Current'
    <2>1. \A m \in b : m.version \in Versions(ledger) => m \in ledger
      BY DEF Open, Knows, Versions, ValidateDefinitions
    <2>2. /\ place' = [place EXCEPT ![p] = "applying"]
          /\ binary' = [binary EXCEPT ![p] = b]
          /\ applied' = [applied EXCEPT ![p] = Versions(ledger)]
          /\ ledger' = ledger
          /\ ValidateDefinitions(b)
      BY DEF Open, Move, OnDisk
    <2>3. ASSUME NEW q \in Processes, place'[q] # "closed"
          PROVE  /\ ValidateDefinitions(binary'[q])
                 /\ \A m \in binary'[q] : m.version \in applied'[q] => m \in ledger'
      <3>1. CASE q = p
        <4>1. binary'[q] = b /\ applied'[q] = Versions(ledger)
          BY <2>2, <3>1 DEF DatabaseIInv, DatabaseTypeOK
        <4> QED
          BY <2>1, <2>2, <4>1
      <3>2. CASE q # p
        <4>1. binary'[q] = binary[q] /\ applied'[q] = applied[q] /\ place'[q] = place[q]
          BY <2>2, <3>2 DEF DatabaseIInv, DatabaseTypeOK
        <4> QED
          BY <2>2, <2>3, <4>1 DEF DatabaseIInv, Current
      <3> QED
        BY <3>1, <3>2
    <2> QED
      BY <2>3 DEF Current, ValidateDefinitions
  <1>4. AllApplied'
    BY DatabaseAssumption DEF DatabaseIInv, DatabaseTypeOK, AllApplied, Open, OnDisk, Move
  <1>5. Transaction'
    BY DatabaseAssumption DEF DatabaseIInv, DatabaseTypeOK, OneWriter, Busy, Transaction, IsNext, Open, OnDisk, Move
  <1>6. SchemaIsTheLedger'
    BY DatabaseAssumption DEF DatabaseIInv, SchemaIsTheLedger, Open, OnDisk, Move
  <1> QED
    BY <1>1, <1>2, <1>3, <1>4, <1>5, <1>6 DEF DatabaseIInv

LEMMA RunSqlKeeps ==
  ASSUME DatabaseIInv, NEW p \in Processes, NEW m \in binary[p], RunSql(p, m)
  PROVE  DatabaseIInv'
  <1>1. DatabaseTypeOK'
    BY DatabaseAssumption DEF DatabaseIInv, DatabaseTypeOK, Places, RunSql, OnDisk, Move, Close, View
  <1>2. OneWriter'
    BY DatabaseAssumption DEF DatabaseIInv, DatabaseTypeOK, OneWriter, Busy, RunSql, OnDisk, Move, Close, View
  <1>3. Current'
    BY DatabaseAssumption DEF DatabaseIInv, DatabaseTypeOK, Current, RunSql, OnDisk, Move, Close, View
  <1>4. AllApplied'
    BY DatabaseAssumption DEF DatabaseIInv, DatabaseTypeOK, AllApplied, RunSql, OnDisk, Move, Close, View
  <1>5. Transaction'
    BY DatabaseAssumption DEF DatabaseIInv, DatabaseTypeOK, OneWriter, Busy, Transaction, IsNext, RunSql, OnDisk, Move, Close, View
  <1>6. SchemaIsTheLedger'
    BY DatabaseAssumption DEF DatabaseIInv, SchemaIsTheLedger, RunSql, OnDisk, Move, Close, View
  <1> QED
    BY <1>1, <1>2, <1>3, <1>4, <1>5, <1>6 DEF DatabaseIInv

LEMMA RecordMigrationKeeps ==
  ASSUME DatabaseIInv, NEW p \in Processes, NEW m \in binary[p], RecordMigration(p, m)
  PROVE  DatabaseIInv'
  <1>1. DatabaseTypeOK'
    BY DatabaseAssumption DEF DatabaseIInv, DatabaseTypeOK, Places, RecordMigration, OnDisk, Move, Close, Idle, View, NoWork
  <1>2. OneWriter'
    BY DatabaseAssumption DEF DatabaseIInv, DatabaseTypeOK, OneWriter, Busy, RecordMigration, OnDisk, Move, Close, Idle, View, NoWork
  <1>3. Current'
    BY DatabaseAssumption DEF DatabaseIInv, DatabaseTypeOK, Current, RecordMigration, OnDisk, Move, Close, Idle, View, NoWork
  <1>4. AllApplied'
    BY DatabaseAssumption DEF DatabaseIInv, DatabaseTypeOK, AllApplied, RecordMigration, OnDisk, Move, Close, Idle, View, NoWork
  <1>5. Transaction'
    <2>1. CASE m.version \in Versions(work.ledger)
      BY <2>1 DEF DatabaseIInv, DatabaseTypeOK, OneWriter, Busy, Transaction, IsNext, RecordMigration,
         OnDisk, Move, Close, Idle, View, NoWork
    <2>2. CASE m.version \notin Versions(work.ledger)
      <3>1. PICK n \in binary[p] : IsNext(p, n) /\ work.tables = tables \cup Creates[n]
        BY DEF DatabaseIInv, Transaction, RecordMigration
      <3>2. n = m
        BY <3>1, NextIsOne DEF DatabaseIInv, Current, RecordMigration
      <3>3. /\ place' = [place EXCEPT ![p] = "recorded"]
            /\ work'.ledger = ledger \cup {m} /\ work'.tables = tables \cup Creates[m]
            /\ UNCHANGED <<ledger, tables, binary, applied>>
            /\ IsNext(p, m) /\ place[p] = "migrated"
        BY <2>2, <3>1, <3>2 DEF DatabaseIInv, Transaction, RecordMigration, OnDisk, Move, View
      <3>4. \A q \in Processes \ {p} : place[q] \notin Busy /\ place'[q] = place[q]
        BY <3>3 DEF DatabaseIInv, DatabaseTypeOK, OneWriter, Busy
      <3> QED
        BY <3>3, <3>4 DEF DatabaseIInv, DatabaseTypeOK, Transaction, Busy, IsNext
    <2> QED
      BY <2>1, <2>2
  <1>6. SchemaIsTheLedger'
    BY DatabaseAssumption DEF DatabaseIInv, SchemaIsTheLedger, RecordMigration, OnDisk, Move, Close, Idle, View, NoWork
  <1> QED
    BY <1>1, <1>2, <1>3, <1>4, <1>5, <1>6 DEF DatabaseIInv

LEMMA CommitMigrationKeeps ==
  ASSUME DatabaseIInv, NEW p \in Processes, NEW m \in binary[p], CommitMigration(p, m)
  PROVE  DatabaseIInv'
  <1>a. /\ place[p] = "recorded" /\ place' = [place EXCEPT ![p] = "applying"]
        /\ applied' = [applied EXCEPT ![p] = @ \cup {m.version}]
        /\ ledger' = ledger \cup {m} /\ tables' = tables \cup Creates[m]
        /\ UNCHANGED binary /\ writer' = NoProcess
        /\ ValidateDefinitions(binary[p])
    <2>1. PICK n \in binary[p] : /\ IsNext(p, n)
                                 /\ work.ledger = ledger \cup {n}
                                 /\ work.tables = tables \cup Creates[n]
      BY DEF DatabaseIInv, Transaction, CommitMigration
    <2>2. ValidateDefinitions(binary[p])
      BY DEF DatabaseIInv, Current, CommitMigration
    <2>3. n = m
      BY <2>1, <2>2, NextIsOne DEF DatabaseIInv, CommitMigration
    <2> QED
      BY <2>1, <2>2, <2>3 DEF CommitMigration, Publish, Idle, Move
  <1>1. DatabaseTypeOK'
    <2>1. ledger' \subseteq Migrations
      BY <1>a DEF DatabaseIInv, DatabaseTypeOK
    <2> QED
      BY <1>a, <2>1 DEF DatabaseIInv, DatabaseTypeOK, Places
  <1>2. OneWriter'
    BY DatabaseAssumption DEF DatabaseIInv, DatabaseTypeOK, OneWriter, Busy, CommitMigration, Publish, Idle, Move, View, NoWork
  <1>3. Current'
    <2>1. ASSUME NEW q \in Processes, place'[q] # "closed",
                 NEW n \in binary[q], n.version \in applied'[q]
          PROVE  n \in ledger'
      <3>1. CASE n.version \in applied[q]
        BY <1>a, <2>1, <3>1 DEF DatabaseIInv, DatabaseTypeOK, Current
      <3>2. CASE n.version \notin applied[q]
        <4>1. q = p /\ n.version = m.version
          BY <1>a, <2>1, <3>2 DEF DatabaseIInv, DatabaseTypeOK
        <4>2. n = m
          BY <1>a, <4>1 DEF DatabaseIInv, Current, ValidateDefinitions
        <4> QED
          BY <1>a, <4>2
      <3> QED
        BY <3>1, <3>2
    <2> QED
      BY <1>a, <2>1 DEF DatabaseIInv, DatabaseTypeOK, Current
  <1>4. AllApplied'
    BY DatabaseAssumption DEF DatabaseIInv, DatabaseTypeOK, AllApplied, CommitMigration, Publish, Idle, Move, View, NoWork
  <1>5. Transaction'
    BY DatabaseAssumption DEF DatabaseIInv, DatabaseTypeOK, OneWriter, Busy, Transaction, IsNext, CommitMigration, Publish, Idle, Move, View, NoWork
  <1>6. SchemaIsTheLedger'
    <2>1. ledger' = ledger \cup {m} /\ tables' = TablesOf(ledger) \cup Creates[m]
      BY <1>a DEF DatabaseIInv, SchemaIsTheLedger, TablesOf
    <2>2. tables' = TablesOf(ledger')
      BY <2>1, TablesOfMore
    <2> QED
      BY <2>2 DEF SchemaIsTheLedger, TablesOf
  <1> QED
    BY <1>1, <1>2, <1>3, <1>4, <1>5, <1>6 DEF DatabaseIInv

LEMMA MigrationsAppliedKeeps ==
  ASSUME DatabaseIInv, NEW p \in Processes, MigrationsApplied(p)
  PROVE  DatabaseIInv'
  <1>1. DatabaseTypeOK'
    BY DatabaseAssumption DEF DatabaseIInv, DatabaseTypeOK, Places, MigrationsApplied, Move
  <1>2. OneWriter'
    BY DatabaseAssumption DEF DatabaseIInv, DatabaseTypeOK, OneWriter, Busy, MigrationsApplied, Move
  <1>3. Current'
    BY DatabaseAssumption DEF DatabaseIInv, DatabaseTypeOK, Current, MigrationsApplied, Move
  <1>4. AllApplied'
    BY DatabaseAssumption DEF DatabaseIInv, DatabaseTypeOK, AllApplied, MigrationsApplied, Move
  <1>5. Transaction'
    BY DatabaseAssumption DEF DatabaseIInv, DatabaseTypeOK, OneWriter, Busy, Transaction, IsNext, MigrationsApplied, Move
  <1>6. SchemaIsTheLedger'
    BY DatabaseAssumption DEF DatabaseIInv, SchemaIsTheLedger, MigrationsApplied, Move
  <1> QED
    BY <1>1, <1>2, <1>3, <1>4, <1>5, <1>6 DEF DatabaseIInv

LEMMA GiveUpKeeps ==
  ASSUME DatabaseIInv, NEW p \in Processes, GiveUp(p)
  PROVE  DatabaseIInv'
  <1>1. DatabaseTypeOK'
    BY DatabaseAssumption DEF DatabaseIInv, DatabaseTypeOK, Places, GiveUp, OnDisk, Close, Move
  <1>2. OneWriter'
    BY DatabaseAssumption DEF DatabaseIInv, DatabaseTypeOK, OneWriter, Busy, GiveUp, OnDisk, Close, Move
  <1>3. Current'
    BY DatabaseAssumption DEF DatabaseIInv, DatabaseTypeOK, Current, GiveUp, OnDisk, Close, Move
  <1>4. AllApplied'
    BY DatabaseAssumption DEF DatabaseIInv, DatabaseTypeOK, AllApplied, GiveUp, OnDisk, Close, Move
  <1>5. Transaction'
    BY DatabaseAssumption DEF DatabaseIInv, DatabaseTypeOK, OneWriter, Busy, Transaction, IsNext, GiveUp, OnDisk, Close, Move
  <1>6. SchemaIsTheLedger'
    BY DatabaseAssumption DEF DatabaseIInv, SchemaIsTheLedger, GiveUp, OnDisk, Close, Move
  <1> QED
    BY <1>1, <1>2, <1>3, <1>4, <1>5, <1>6 DEF DatabaseIInv

LEMMA BeginWriteKeeps ==
  ASSUME DatabaseIInv, NEW p \in Processes, BeginWrite(p)
  PROVE  DatabaseIInv'
  <1>1. DatabaseTypeOK'
    BY DatabaseAssumption DEF DatabaseIInv, DatabaseTypeOK, Places, BeginWrite, OnDisk, Move, CommittedRows
  <1>2. OneWriter'
    BY DatabaseAssumption DEF DatabaseIInv, DatabaseTypeOK, OneWriter, Busy, BeginWrite, OnDisk, Move, CommittedRows
  <1>3. Current'
    BY DatabaseAssumption DEF DatabaseIInv, DatabaseTypeOK, Current, BeginWrite, OnDisk, Move, CommittedRows
  <1>4. AllApplied'
    BY DatabaseAssumption DEF DatabaseIInv, DatabaseTypeOK, AllApplied, BeginWrite, OnDisk, Move, CommittedRows
  <1>5. Transaction'
    BY DatabaseAssumption DEF DatabaseIInv, DatabaseTypeOK, OneWriter, Busy, Transaction, IsNext, BeginWrite, OnDisk, Move, CommittedRows
  <1>6. SchemaIsTheLedger'
    BY DatabaseAssumption DEF DatabaseIInv, SchemaIsTheLedger, BeginWrite, OnDisk, Move, CommittedRows
  <1> QED
    BY <1>1, <1>2, <1>3, <1>4, <1>5, <1>6 DEF DatabaseIInv

LEMMA WriteAtOnceKeeps ==
  ASSUME DatabaseIInv, NEW p \in Processes, NEW c, WriteAtOnce(p, c)
  PROVE  DatabaseIInv'
  <1>1. DatabaseTypeOK'
    BY DatabaseAssumption DEF DatabaseIInv, DatabaseTypeOK, Places, WriteAtOnce
  <1>2. OneWriter'
    BY DatabaseAssumption DEF DatabaseIInv, DatabaseTypeOK, OneWriter, Busy, WriteAtOnce
  <1>3. Current'
    BY DatabaseAssumption DEF DatabaseIInv, DatabaseTypeOK, Current, WriteAtOnce
  <1>4. AllApplied'
    BY DatabaseAssumption DEF DatabaseIInv, DatabaseTypeOK, AllApplied, WriteAtOnce
  <1>5. Transaction'
    BY DatabaseAssumption DEF DatabaseIInv, DatabaseTypeOK, OneWriter, Busy, Transaction, IsNext, WriteAtOnce
  <1>6. SchemaIsTheLedger'
    BY DatabaseAssumption DEF DatabaseIInv, SchemaIsTheLedger, WriteAtOnce
  <1> QED
    BY <1>1, <1>2, <1>3, <1>4, <1>5, <1>6 DEF DatabaseIInv

LEMMA WriteKeeps ==
  ASSUME DatabaseIInv, NEW p \in Processes, NEW c, Write(p, c)
  PROVE  DatabaseIInv'
  <1>1. DatabaseTypeOK'
    BY DatabaseAssumption DEF DatabaseIInv, DatabaseTypeOK, Places, Write, OnDisk, View
  <1>2. OneWriter'
    BY DatabaseAssumption DEF DatabaseIInv, DatabaseTypeOK, OneWriter, Busy, Write, OnDisk, View
  <1>3. Current'
    BY DatabaseAssumption DEF DatabaseIInv, DatabaseTypeOK, Current, Write, OnDisk, View
  <1>4. AllApplied'
    BY DatabaseAssumption DEF DatabaseIInv, DatabaseTypeOK, AllApplied, Write, OnDisk, View
  <1>5. Transaction'
    BY DatabaseAssumption DEF DatabaseIInv, DatabaseTypeOK, OneWriter, Busy, Transaction, IsNext, Write, OnDisk, View
  <1>6. SchemaIsTheLedger'
    BY DatabaseAssumption DEF DatabaseIInv, SchemaIsTheLedger, Write, OnDisk, View
  <1> QED
    BY <1>1, <1>2, <1>3, <1>4, <1>5, <1>6 DEF DatabaseIInv

LEMMA CommitWriteKeeps ==
  ASSUME DatabaseIInv, NEW p \in Processes, CommitWrite(p)
  PROVE  DatabaseIInv'
  <1>a. /\ place[p] = "writing" /\ place' = [place EXCEPT ![p] = "ready"]
        /\ UNCHANGED <<ledger, tables, binary, applied>> /\ writer' = NoProcess
    BY DEF DatabaseIInv, Transaction, CommitWrite, Publish, Idle, Move
  <1>1. DatabaseTypeOK'
    BY <1>a DEF DatabaseIInv, DatabaseTypeOK, Places
  <1>2. OneWriter'
    BY DatabaseAssumption DEF DatabaseIInv, DatabaseTypeOK, OneWriter, Busy, CommitWrite, Publish, Idle, Move, View, NoWork
  <1>3. Current'
    BY <1>a DEF DatabaseIInv, DatabaseTypeOK, Current
  <1>4. AllApplied'
    BY DatabaseAssumption DEF DatabaseIInv, DatabaseTypeOK, AllApplied, CommitWrite, Publish, Idle, Move, View, NoWork
  <1>5. Transaction'
    BY DatabaseAssumption DEF DatabaseIInv, DatabaseTypeOK, OneWriter, Busy, Transaction, IsNext, CommitWrite, Publish, Idle, Move, View, NoWork
  <1>6. SchemaIsTheLedger'
    BY <1>a DEF DatabaseIInv, SchemaIsTheLedger
  <1> QED
    BY <1>1, <1>2, <1>3, <1>4, <1>5, <1>6 DEF DatabaseIInv

LEMMA RollBackKeeps ==
  ASSUME DatabaseIInv, NEW p \in Processes, RollBack(p)
  PROVE  DatabaseIInv'
  <1>1. DatabaseTypeOK'
    BY DatabaseAssumption DEF DatabaseIInv, DatabaseTypeOK, Places, RollBack, OnDisk, Idle, Move, View, NoWork
  <1>2. OneWriter'
    BY DatabaseAssumption DEF DatabaseIInv, DatabaseTypeOK, OneWriter, Busy, RollBack, OnDisk, Idle, Move, View, NoWork
  <1>3. Current'
    BY DatabaseAssumption DEF DatabaseIInv, DatabaseTypeOK, Current, RollBack, OnDisk, Idle, Move, View, NoWork
  <1>4. AllApplied'
    BY DatabaseAssumption DEF DatabaseIInv, DatabaseTypeOK, AllApplied, RollBack, OnDisk, Idle, Move, View, NoWork
  <1>5. Transaction'
    BY DatabaseAssumption DEF DatabaseIInv, DatabaseTypeOK, OneWriter, Busy, Transaction, IsNext, RollBack, OnDisk, Idle, Move, View, NoWork
  <1>6. SchemaIsTheLedger'
    BY DatabaseAssumption DEF DatabaseIInv, SchemaIsTheLedger, RollBack, OnDisk, Idle, Move, View, NoWork
  <1> QED
    BY <1>1, <1>2, <1>3, <1>4, <1>5, <1>6 DEF DatabaseIInv

LEMMA PanicKeeps ==
  ASSUME DatabaseIInv, NEW p \in Processes, Panic(p)
  PROVE  DatabaseIInv'
  <1>1. DatabaseTypeOK'
    BY DatabaseAssumption DEF DatabaseIInv, DatabaseTypeOK, Places, Panic, OnDisk, Idle, Move, View, NoWork
  <1>2. OneWriter'
    BY DatabaseAssumption DEF DatabaseIInv, DatabaseTypeOK, OneWriter, Busy, Panic, OnDisk, Idle, Move, View, NoWork
  <1>3. Current'
    BY DatabaseAssumption DEF DatabaseIInv, DatabaseTypeOK, Current, Panic, OnDisk, Idle, Move, View, NoWork
  <1>4. AllApplied'
    BY DatabaseAssumption DEF DatabaseIInv, DatabaseTypeOK, AllApplied, Panic, OnDisk, Idle, Move, View, NoWork
  <1>5. Transaction'
    BY DatabaseAssumption DEF DatabaseIInv, DatabaseTypeOK, OneWriter, Busy, Transaction, IsNext, Panic, OnDisk, Idle, Move, View, NoWork
  <1>6. SchemaIsTheLedger'
    BY DatabaseAssumption DEF DatabaseIInv, SchemaIsTheLedger, Panic, OnDisk, Idle, Move, View, NoWork
  <1> QED
    BY <1>1, <1>2, <1>3, <1>4, <1>5, <1>6 DEF DatabaseIInv

LEMMA CrashKeeps ==
  ASSUME DatabaseIInv, NEW p \in Processes, Crash(p)
  PROVE  DatabaseIInv'
  <1>1. DatabaseTypeOK'
    BY DatabaseAssumption DEF DatabaseIInv, DatabaseTypeOK, Places, Crash, OnDisk, Idle, Close, Move, View, NoWork
  <1>2. OneWriter'
    BY DatabaseAssumption DEF DatabaseIInv, DatabaseTypeOK, OneWriter, Busy, Crash, OnDisk, Idle, Close, Move, View, NoWork
  <1>3. Current'
    BY DatabaseAssumption DEF DatabaseIInv, DatabaseTypeOK, Current, Crash, OnDisk, Idle, Close, Move, View, NoWork
  <1>4. AllApplied'
    BY DatabaseAssumption DEF DatabaseIInv, DatabaseTypeOK, AllApplied, Crash, OnDisk, Idle, Close, Move, View, NoWork
  <1>5. Transaction'
    BY DatabaseAssumption DEF DatabaseIInv, DatabaseTypeOK, OneWriter, Busy, Transaction, IsNext, Crash, OnDisk, Idle, Close, Move, View, NoWork
  <1>6. SchemaIsTheLedger'
    BY DatabaseAssumption DEF DatabaseIInv, SchemaIsTheLedger, Crash, OnDisk, Idle, Close, Move, View, NoWork
  <1> QED
    BY <1>1, <1>2, <1>3, <1>4, <1>5, <1>6 DEF DatabaseIInv
-----------------------------------------------------------------------------
\* So does any step of the database, and one that leaves it alone.
LEMMA DatabaseKeeps ==
  ASSUME DatabaseIInv, NEW p \in Processes, DatabaseStep(p) PROVE DatabaseIInv'
  <1>1. ASSUME Migrate(p) PROVE DatabaseIInv'
    BY <1>1, RunSqlKeeps, RecordMigrationKeeps, CommitMigrationKeeps,
       MigrationsAppliedKeeps, GiveUpKeeps DEF Migrate
  <1>2. ASSUME NEW c, WriteAtOnce(p, c) \/ Write(p, c) PROVE DatabaseIInv'
    BY <1>2, WriteAtOnceKeeps, WriteKeeps
  <1> QED
    BY <1>1, <1>2, OpenKeeps, BeginWriteKeeps, CommitWriteKeeps, RollBackKeeps,
       PanicKeeps, CrashKeeps DEF DatabaseStep

LEMMA StutterKeeps == DatabaseIInv /\ UNCHANGED dbVars => DatabaseIInv'
  BY DEF dbVars, DatabaseIInv, DatabaseTypeOK, OneWriter, Current, AllApplied, Transaction,
     SchemaIsTheLedger, IsNext, ValidateDefinitions, Versions

\* A step of the library is one of the database, or leaves it alone.
LEMMA ScanIsDatabaseStep ==
  ASSUME NEW p \in Processes, Scanning(p) PROVE DatabaseStep(p) \/ UNCHANGED dbVars
  <1> SUFFICES ASSUME ~UNCHANGED dbVars PROVE DatabaseStep(p)
    OBVIOUS
  <1>1. PICK s \in Scans :
          \/ \E at \in Times : BeginScan(p, s, at)
          \/ \E some \in SUBSET Directories \ {{}} :
               \E observed \in [UNION some -> Prints \cup {Gone}] : BuildRun(p, s, UNION some, observed)
          \/ \E a \in Assets : SeeAsset(p, s, a) \/ \E r \in Results : ProbeAsset(p, s, a, r)
          \/ \E scope \in Directories : SweepMissing(p, s, scope)
          \/ Complete(p, s) \/ Fail(p, s)
    BY DEF Scanning
  <1>2. CASE (\E at \in Times : BeginScan(p, s, at)) \/ Complete(p, s) \/ Fail(p, s)
    BY <1>2 DEF BeginScan, Complete, Fail, DatabaseStep
  <1>3. CASE \E some \in SUBSET Directories \ {{}} :
               \E observed \in [UNION some -> Prints \cup {Gone}] : BuildRun(p, s, UNION some, observed)
    BY <1>3 DEF BuildRun
  <1>4. CASE \E a \in Assets : SeeAsset(p, s, a) \/ \E r \in Results : ProbeAsset(p, s, a, r)
    BY <1>4 DEF SeeAsset, ProbeAsset, DatabaseStep
  <1>5. CASE \E scope \in Directories : SweepMissing(p, s, scope)
    BY <1>5 DEF SweepMissing, DatabaseStep
  <1> QED
    BY <1>1, <1>2, <1>3, <1>4, <1>5

LEMMA LibraryIsDatabase ==
  LibraryNext => UNCHANGED dbVars \/ \E p \in Processes : DatabaseStep(p)
  <1> SUFFICES ASSUME NEW p \in Processes,
                      \/ (\/ \E b \in Binaries : Open(p, b)
                          \/ Migrate(p)
                          \/ BeginWrite(p)) /\ UNCHANGED scanVars
                      \/ Scanning(p)
                      \/ \E f \in Facts : AddFact(p, f)
                      \/ Rebuild(p) \/ ClearStats(p)
                      \/ Commit(p) \/ Abandon(p)
               PROVE  DatabaseStep(p) \/ UNCHANGED dbVars
    BY DEF LibraryNext
  <1>1. CASE (\/ \E b \in Binaries : Open(p, b)
             \/ Migrate(p)
             \/ BeginWrite(p)) /\ UNCHANGED scanVars
    BY <1>1 DEF DatabaseStep
  <1>2. CASE Scanning(p)
    BY <1>2, ScanIsDatabaseStep
  <1>3. ASSUME NEW c, StatsWrite(p, c) PROVE DatabaseStep(p)
    BY <1>3 DEF StatsWrite, DatabaseStep
  <1>4. CASE (\E f \in Facts : AddFact(p, f)) \/ Rebuild(p) \/ ClearStats(p)
    BY <1>3, <1>4 DEF AddFact, Rebuild, ClearStats
  <1>5. CASE Commit(p) \/ Abandon(p)
    BY <1>5 DEF Commit, Abandon, DatabaseStep
  <1> QED
    BY <1>1, <1>2, <1>4, <1>5

LEMMA IInvHolds == LibrarySpec => []DatabaseIInv
  <1>1. LibraryInit => DatabaseIInv
    BY InitIInv DEF LibraryInit
  <1>2. DatabaseIInv /\ [LibraryNext]_libraryVars => DatabaseIInv'
    BY DatabaseKeeps, StutterKeeps, LibraryIsDatabase DEF libraryVars
  <1> QED
    BY <1>1, <1>2, PTL DEF LibrarySpec

\* No crash, error or second process leaves a migration half applied, for any
\* processes, binaries and migrations (migration.rs:134).
THEOREM SchemaStaysTheLedger == LibrarySpec => []SchemaIsTheLedger
  BY IInvHolds, PTL DEF DatabaseIInv

\* Whoever is through apply_migrations has every migration of its binary in the
\* file, with its own text, whatever other binaries do meanwhile.
THEOREM ReadyStaysCurrent == LibrarySpec => []ReadyIsCurrent
  <1>1. DatabaseIInv => ReadyIsCurrent
    <2> SUFFICES ASSUME DatabaseIInv, NEW p \in Processes,
                        place[p] \in {"ready", "writing", "poisoned"},
                        NEW m \in binary[p]
                 PROVE  m \in ledger
      BY DEF ReadyIsCurrent
    <2>1. m.version \in applied[p]
      BY DEF DatabaseIInv, AllApplied, Versions
    <2> QED
      BY <2>1 DEF DatabaseIInv, Current
  <1> QED
    BY IInvHolds, <1>1, PTL

-----------------------------------------------------------------------------
(* The row of an asset follows the newest scan that spoke of it. *)

\* What the next reader will find if the transaction that is open commits.
Latest == IF writer = NoProcess THEN content ELSE work.content

ScanRows  == [Scans -> [state : {"none", "running", "completed", "failed"}, started : Nat]]
Words     == States \cup {"nothing", "absent"}
AssetRow  == [state : States, seen : Scans \cup {NoScan}, said : [Scans -> Words],
              late : BOOLEAN]
AssetRows == [Assets -> AssetRow]

\* Rows of the catalog; those of the statistics are of no concern here.
CatalogWith(m, p, k) ==
  [scans : ScanRows, assets : AssetRows, marks : {m}, plays : {p}, counted : {k}]

IsCatalog(c) == c \in CatalogWith(c.marks, c.plays, c.counted)

Found(row, s) == row.said[s] \in States

\* Only scans that were started have spoken.  Unless a mark came late, the scan
\* that the row was last seen by is the newest of those that found the asset, and
\* the row follows the newest of those that spoke.
SeenByNewest(scans, row) ==
  /\ row.seen = NoScan => \A t \in Scans : ~Found(row, t)
  /\ row.seen # NoScan => Found(row, row.seen)
  /\ \A t \in Scans : Found(row, t) /\ t # row.seen => Older(scans, t, row.seen)

FollowsNewest(scans, row) == \A s \in Scans : IsNewest(scans, row, s) => Follows(row, s)

RowInv(scans, row) ==
  /\ \A s \in Scans : scans[s].state = "none" => ~Spoke(row, s)
  /\ ~row.late => SeenByNewest(scans, row) /\ FollowsNewest(scans, row)

HistoryInv(c) == \A a \in Assets : RowInv(c.scans, c.assets[a])

RowsInv ==
  /\ IsCatalog(content) /\ HistoryInv(content)
  /\ IsCatalog(Latest) /\ HistoryInv(Latest)

OwnersInv ==
  /\ owner \in [Scans -> Processes \cup {NoProcess}]
  /\ plan \in [Scans -> Plans \cup {NoPlan}]
  /\ \A s \in Scans :
       /\ owner[s] = NoProcess => plan[s] = NoPlan
       /\ owner[s] # NoProcess => place[owner[s]] \in {"ready", "writing"}

\* An open transaction changes what is said by the scans of its own process only.
SameWords(c, d, s) ==
  d.scans[s] = c.scans[s] /\ \A a \in Assets : d.assets[a].said[s] = c.assets[a].said[s]

WorkInv == \A s \in Scans : owner[s] # writer => SameWords(content, Latest, s)

\* A scan that is at work has marked what it found, but for what it has to do, and
\* none of what it did not find.
Kept(c, s, r) ==
  /\ c.scans[s].state # "none"
  /\ r = NoPlan => \A a \in Assets : ~Found(c.assets[a], s)
  /\ r # NoPlan =>
       /\ \A a \in r.todo : a \in DOMAIN r.events /\ r.events[a].kind # "Missing"
       /\ \A a \in DOMAIN r.events :
            /\ r.events[a].kind = "Missing" => ~Found(c.assets[a], s)
            /\ r.events[a].kind # "Missing" /\ a \notin r.todo =>
                 Found(c.assets[a], s) \/ ~Running(c, s)

PlanInv == \A s \in Scans : owner[s] # NoProcess => Kept(Latest, s, plan[s])

LInv == RowsInv /\ OwnersInv /\ WorkInv /\ PlanInv

\* The rows of the statistics may change under both.
SameScans(c, d) == IsCatalog(d) /\ d.scans = c.scans /\ d.assets = c.assets

-----------------------------------------------------------------------------
\* What the helpers make of a row.
LEMMA ScansAreOrdered ==
  ASSUME NEW scans \in ScanRows, NEW s \in Scans, NEW t \in Scans
  PROVE  /\ s # t => Older(scans, s, t) \/ Older(scans, t, s)
         /\ ~(Older(scans, s, t) /\ Older(scans, t, s))
         /\ \A u \in Scans : Older(scans, s, t) /\ Older(scans, t, u) => Older(scans, s, u)
  <1>1. \A u \in Scans : u \in Nat /\ scans[u].started \in Nat
    BY CatalogAssumption DEF ScanRows
  <1> QED
    BY <1>1 DEF Older

LEMMA FoundSpoke ==
  ASSUME NEW row \in AssetRow, NEW s \in Scans
  PROVE  /\ Found(row, s) => Spoke(row, s) /\ row.said[s] # "absent"
         /\ Spoke(row, s) /\ ~Found(row, s) => row.said[s] = "absent"
  BY DEF Found, Spoke, AssetRow, Words, States

\* The row a mark leaves.
Marked(scans, row, s, to) ==
  [state |-> to, seen |-> s, said |-> [row.said EXCEPT ![s] = to],
   late |-> \E t \in Scans : Spoke(row, t) /\ Older(scans, s, t)]

LEMMA MarkKeepsRow ==
  ASSUME NEW scans \in ScanRows, NEW row \in AssetRow, NEW s \in Scans, NEW to \in States,
         scans[s].state # "none", RowInv(scans, row)
  PROVE  /\ Marked(scans, row, s, to) \in AssetRow
         /\ RowInv(scans, Marked(scans, row, s, to))
  <1> DEFINE new == Marked(scans, row, s, to)
  <1>1. /\ new \in AssetRow
        /\ new.state = to /\ new.seen = s
        /\ new.said = [row.said EXCEPT ![s] = to]
        /\ new.late <=> \E t \in Scans : Spoke(row, t) /\ Older(scans, s, t)
    <2>1. [row.said EXCEPT ![s] = to] \in [Scans -> Words]
      BY DEF AssetRow, Words
    <2>2. (\E t \in Scans : Spoke(row, t) /\ Older(scans, s, t)) \in BOOLEAN
      OBVIOUS
    <2> DEFINE said == [row.said EXCEPT ![s] = to]
               late == \E t \in Scans : Spoke(row, t) /\ Older(scans, s, t)
    <2>3. new = [state |-> to, seen |-> s, said |-> said, late |-> late]
      BY DEF Marked
    <2> HIDE DEF said, late, new
    <2>4. said \in [Scans -> Words] /\ late \in BOOLEAN
      BY <2>1, <2>2 DEF said, late
    <2>5. /\ new \in AssetRow
          /\ new.state = to /\ new.seen = s /\ new.said = said /\ new.late = late
      BY <2>3, <2>4 DEF AssetRow
    <2> QED
      BY <2>5 DEF said, late
  <1> HIDE DEF new
  <1>2. /\ new.said[s] = to /\ Found(new, s) /\ Spoke(new, s)
        /\ \A t \in Scans : t # s => /\ new.said[t] = row.said[t]
                                     /\ Found(new, t) <=> Found(row, t)
                                     /\ Spoke(new, t) <=> Spoke(row, t)
    <2>1. row.said \in [Scans -> Words]
      BY DEF AssetRow
    <2>2. new.said[s] = to /\ \A t \in Scans : t # s => new.said[t] = row.said[t]
      BY <1>1, <2>1
    <2> QED
      BY <1>1, <2>2, FoundSpoke DEF Found, Spoke
  <1>3. \A t \in Scans : scans[t].state = "none" => ~Spoke(new, t)
    BY <1>2 DEF RowInv
  <1>4. ASSUME ~new.late
        PROVE  SeenByNewest(scans, new) /\ FollowsNewest(scans, new)
    <2>1. \A t \in Scans : Spoke(row, t) /\ t # s => Older(scans, t, s)
      BY <1>1, <1>4, ScansAreOrdered
    <2>2. SeenByNewest(scans, new)
      <3>1. s # NoScan
        BY CatalogAssumption
      <3>2. \A t \in Scans : Found(new, t) /\ t # s => Older(scans, t, s)
        BY <1>2, <2>1, FoundSpoke
      <3> QED
        BY <1>1, <1>2, <3>1, <3>2 DEF SeenByNewest
    <2>3. ASSUME NEW t \in Scans, IsNewest(scans, new, t) PROVE Follows(new, t)
      <3>1. t = s
        <4> SUFFICES ASSUME t # s PROVE FALSE
          OBVIOUS
        <4>1. Older(scans, s, t)
          BY <1>2, <2>3 DEF IsNewest
        <4>2. Older(scans, t, s)
          BY <1>2, <2>1, <2>3 DEF IsNewest
        <4> QED
          BY <4>1, <4>2, ScansAreOrdered
      <3>2. to # "absent"
        BY DEF States
      <3> QED
        BY <1>1, <1>2, <3>1, <3>2 DEF Follows
    <2> QED
      BY <2>2, <2>3 DEF FollowsNewest
  <1>5. RowInv(scans, new)
    BY <1>3, <1>4 DEF RowInv
  <1> QED
    BY <1>1, <1>5 DEF new

\* The row a sweep leaves, of an asset that the scan did not find or found.
SweptState(scans, row, s) ==
  IF row.state # "tombstoned" /\ (row.seen = NoScan \/ Older(scans, row.seen, s))
  THEN "missing" ELSE row.state

Swept(scans, row, s) == [row EXCEPT !.state = SweptState(scans, row, s)]

Missed(scans, row, s) ==
  [row EXCEPT !.state = SweptState(scans, row, s), !.said = [row.said EXCEPT ![s] = "absent"]]

\* What the scan found itself, it does not undo.
LEMMA SweepKeepsFound ==
  ASSUME NEW scans \in ScanRows, NEW row \in AssetRow, NEW s \in Scans,
         RowInv(scans, row), Found(row, s)
  PROVE  Swept(scans, row, s) \in AssetRow /\ RowInv(scans, Swept(scans, row, s))
  <1> DEFINE new == Swept(scans, row, s)
             state == SweptState(scans, row, s)
  <1>1. state \in States
    BY DEF SweptState, AssetRow, States
  <1>2. new = [row EXCEPT !.state = state]
    BY DEF Swept
  <1>a. ~row.late => state = row.state
    <2> SUFFICES ASSUME ~row.late PROVE state = row.state
      OBVIOUS
    <2>1. row.seen # NoScan /\ (s = row.seen \/ Older(scans, s, row.seen))
      BY DEF RowInv, SeenByNewest
    <2>2. row.seen \in Scans
      BY <2>1 DEF AssetRow
    <2>3. ~Older(scans, row.seen, s)
      BY <2>1, <2>2, ScansAreOrdered
    <2> QED
      BY <2>1, <2>3 DEF SweptState
  <1> HIDE DEF state, new
  <1>3. /\ new \in AssetRow /\ new.state = state /\ new.seen = row.seen
        /\ new.said = row.said /\ new.late = row.late
    BY <1>1, <1>2 DEF AssetRow
  <1>4. ~row.late => new = row
    BY <1>2, <1>a DEF AssetRow
  <1>5. RowInv(scans, new)
    BY <1>3, <1>4 DEF RowInv, Spoke
  <1> QED
    BY <1>3, <1>5 DEF new

\* What it did not find is missing, unless a newer scan spoke of it.
LEMMA SweepKeepsMissed ==
  ASSUME NEW scans \in ScanRows, NEW row \in AssetRow, NEW s \in Scans,
         RowInv(scans, row), ~Found(row, s), scans[s].state # "none"
  PROVE  Missed(scans, row, s) \in AssetRow /\ RowInv(scans, Missed(scans, row, s))
  <1> DEFINE new == Missed(scans, row, s)
             state == SweptState(scans, row, s)
             said == [row.said EXCEPT ![s] = "absent"]
  <1>1. state \in States /\ said \in [Scans -> Words]
    BY DEF SweptState, AssetRow, States, Words
  <1>2. /\ said[s] = "absent"
        /\ \A t \in Scans : t # s => said[t] = row.said[t]
    BY DEF AssetRow
  <1>3. new = [row EXCEPT !.state = state, !.said = said]
    BY DEF Missed
  <1> HIDE DEF state, said, new
  <1>4. /\ new \in AssetRow /\ new.state = state /\ new.seen = row.seen
        /\ new.said = said /\ new.late = row.late
    BY <1>1, <1>3 DEF AssetRow
  <1>5. /\ ~Found(new, s) /\ Spoke(new, s) /\ new.said[s] = "absent"
        /\ \A t \in Scans : t # s => /\ new.said[t] = row.said[t]
                                     /\ Found(new, t) <=> Found(row, t)
                                     /\ Spoke(new, t) <=> Spoke(row, t)
    BY <1>2, <1>4 DEF Found, Spoke, States
  <1>6. \A t \in Scans : scans[t].state = "none" => ~Spoke(new, t)
    BY <1>5 DEF RowInv
  <1>7. ASSUME ~new.late
        PROVE  SeenByNewest(scans, new) /\ FollowsNewest(scans, new)
    <2>1. SeenByNewest(scans, row) /\ FollowsNewest(scans, row)
      BY <1>4, <1>7 DEF RowInv
    <2>2. \A t \in Scans : Found(new, t) <=> Found(row, t)
      BY <1>5
    <2>3. row.seen # NoScan => row.seen \in Scans
      BY DEF AssetRow
    <2>4. SeenByNewest(scans, new)
      BY <1>4, <2>1, <2>2, <2>3 DEF SeenByNewest
    <2>5. ASSUME NEW t \in Scans, IsNewest(scans, new, t) PROVE Follows(new, t)
      <3>1. CASE t = s
        <4>1. row.seen = NoScan \/ Older(scans, row.seen, s)
          <5> SUFFICES ASSUME row.seen # NoScan PROVE Older(scans, row.seen, s)
            OBVIOUS
          <5>1. row.seen \in Scans /\ Found(row, row.seen) /\ row.seen # s
            BY <2>1, <2>3 DEF SeenByNewest
          <5>2. Spoke(new, row.seen)
            BY <1>5, <5>1, FoundSpoke
          <5> QED
            BY <2>5, <3>1, <5>1, <5>2 DEF IsNewest
        <4>2. state \in {"missing", "tombstoned"}
          BY <4>1 DEF state, SweptState
        <4> QED
          BY <1>4, <1>5, <3>1, <4>2 DEF Follows
      <3>2. CASE t # s
        <4>1. Older(scans, s, t)
          BY <1>5, <2>5, <3>2 DEF IsNewest
        <4>2. IsNewest(scans, row, t)
          BY <1>5, <2>5, <3>2 DEF IsNewest
        <4>3. Follows(row, t) /\ new.said[t] = row.said[t] /\ Spoke(row, t)
          BY <1>5, <2>1, <3>2, <4>2 DEF FollowsNewest, IsNewest
        <4>4. CASE row.said[t] = "absent"
          <5>1. state \in {"missing", "tombstoned"}
            BY <4>3, <4>4 DEF Follows, state, SweptState
          <5> QED
            BY <1>4, <4>3, <4>4, <5>1 DEF Follows
        <4>5. CASE row.said[t] # "absent"
          <5>1. Found(row, t)
            BY <4>3, <4>5, FoundSpoke
          <5>2. row.seen # NoScan /\ row.seen \in Scans /\ Found(row, row.seen)
            BY <2>1, <2>3, <5>1 DEF SeenByNewest
          <5>3. t = row.seen
            <6> SUFFICES ASSUME t # row.seen PROVE FALSE
              OBVIOUS
            <6>1. Older(scans, t, row.seen)
              BY <2>1, <5>1 DEF SeenByNewest
            <6>2. Spoke(row, row.seen)
              BY <5>2, FoundSpoke
            <6>3. Older(scans, row.seen, t)
              BY <4>2, <5>2, <6>2 DEF IsNewest
            <6> QED
              BY <5>2, <6>1, <6>3, ScansAreOrdered
          <5>4. ~Older(scans, row.seen, s)
            BY <4>1, <5>3, ScansAreOrdered
          <5>5. state = row.state
            BY <5>2, <5>4 DEF state, SweptState
          <5> QED
            BY <1>4, <4>3, <4>5, <5>5 DEF Follows
        <4> QED
          BY <4>4, <4>5
      <3> QED
        BY <3>1, <3>2
    <2> QED
      BY <2>4, <2>5 DEF FollowsNewest
  <1>8. RowInv(scans, new)
    BY <1>6, <1>7 DEF RowInv
  <1> QED
    BY <1>4, <1>8 DEF new

\* What is said of scans that have not spoken is nothing to a row.
LEMMA OtherScansKeepRow ==
  ASSUME NEW scans \in ScanRows, NEW new \in ScanRows, NEW row \in AssetRow,
         RowInv(scans, row),
         \A s \in Scans : /\ new[s].state = "none" => scans[s].state = "none"
                          /\ scans[s].state # "none" => new[s].started = scans[s].started
  PROVE  RowInv(new, row)
  <1>1. \A s \in Scans : new[s].state = "none" => ~Spoke(row, s)
    BY DEF RowInv
  <1>2. \A s, t \in Scans : Spoke(row, s) /\ Spoke(row, t) =>
          (Older(new, s, t) <=> Older(scans, s, t))
    BY DEF RowInv, Older
  <1>3. ASSUME ~row.late PROVE SeenByNewest(new, row) /\ FollowsNewest(new, row)
    <2>1. SeenByNewest(scans, row) /\ FollowsNewest(scans, row)
      BY <1>3 DEF RowInv
    <2>2. row.seen # NoScan => row.seen \in Scans
      BY DEF AssetRow
    <2>3. SeenByNewest(new, row)
      BY <1>2, <2>1, <2>2, FoundSpoke DEF SeenByNewest
    <2>4. FollowsNewest(new, row)
      BY <1>2, <2>1 DEF FollowsNewest, IsNewest
    <2> QED
      BY <2>3, <2>4
  <1> QED
    BY <1>1, <1>3 DEF RowInv

-----------------------------------------------------------------------------
\* What the helpers make of the rows.
LEMMA CatalogFields ==
  ASSUME NEW c, IsCatalog(c) PROVE c.scans \in ScanRows /\ c.assets \in AssetRows
  BY DEF IsCatalog, CatalogWith

LEMMA RowsAreCatalog ==
  ASSUME NEW s \in ScanRows, NEW a \in AssetRows, NEW m, NEW p, NEW k
  PROVE  /\ IsCatalog(Rows(s, a, m, p, k))
         /\ Rows(s, a, m, p, k).scans = s /\ Rows(s, a, m, p, k).assets = a
  BY DEF IsCatalog, CatalogWith, Rows

LEMMA OtherScans ==
  ASSUME NEW c, IsCatalog(c), NEW scans \in ScanRows
  PROVE  LET d == [c EXCEPT !.scans = scans]
         IN  IsCatalog(d) /\ d.scans = scans /\ d.assets = c.assets
  BY DEF IsCatalog, CatalogWith

LEMMA OtherAssets ==
  ASSUME NEW c, IsCatalog(c), NEW assets \in AssetRows
  PROVE  LET d == [c EXCEPT !.assets = assets]
         IN  IsCatalog(d) /\ d.scans = c.scans /\ d.assets = assets
  BY DEF IsCatalog, CatalogWith

LEMMA StartsScan ==
  ASSUME NEW c, IsCatalog(c), NEW s \in Scans, NEW at \in Times
  PROVE  /\ IsCatalog(StartScan(c, s, at))
         /\ StartScan(c, s, at).scans =
              [c.scans EXCEPT ![s] = [state |-> "running", started |-> at]]
         /\ StartScan(c, s, at).assets = c.assets
  <1> DEFINE row == [state |-> "running", started |-> at]
             scans == [c.scans EXCEPT ![s] = row]
  <1>1. row \in [state : {"none", "running", "completed", "failed"}, started : Nat]
    BY CatalogAssumption
  <1> HIDE DEF row
  <1>2. scans \in ScanRows
    BY <1>1, CatalogFields DEF ScanRows
  <1>3. StartScan(c, s, at) = [c EXCEPT !.scans = scans]
    BY DEF StartScan, IsCatalog, CatalogWith, row
  <1> HIDE DEF scans
  <1>4. LET d == [c EXCEPT !.scans = scans]
        IN  IsCatalog(d) /\ d.scans = scans /\ d.assets = c.assets
    BY <1>2, OtherScans
  <1> QED
    BY <1>3, <1>4 DEF scans, row

LEMMA FinishesScan ==
  ASSUME NEW c, IsCatalog(c), NEW s \in Scans, NEW result \in {"completed", "failed"}
  PROVE  LET d == FinishScan(c, s, result)
         IN  /\ IsCatalog(d) /\ d.assets = c.assets
             /\ d.scans = IF Running(c, s)
                          THEN [c.scans EXCEPT ![s] = [state |-> result, started |-> @.started]]
                          ELSE c.scans
  <1> DEFINE row == [state |-> result, started |-> c.scans[s].started]
             scans == [c.scans EXCEPT ![s] = row]
  <1>1. c.scans \in ScanRows
    BY CatalogFields
  <1>2. row \in [state : {"none", "running", "completed", "failed"}, started : Nat]
    BY <1>1 DEF ScanRows
  <1>3. [c.scans[s] EXCEPT !.state = result] = row
    BY <1>1 DEF ScanRows
  <1>4. [c EXCEPT !.scans[s].state = result] = [c EXCEPT !.scans = [c.scans EXCEPT ![s] = [@ EXCEPT !.state = result]]]
    BY DEF IsCatalog, CatalogWith
  <1>5. [c EXCEPT !.scans[s].state = result] = [c EXCEPT !.scans = scans]
    BY <1>3, <1>4
  <1> HIDE DEF row
  <1>6. scans \in ScanRows
    BY <1>1, <1>2 DEF ScanRows
  <1> HIDE DEF scans
  <1>7. LET d == [c EXCEPT !.scans = scans]
        IN  IsCatalog(d) /\ d.scans = scans /\ d.assets = c.assets
    BY <1>6, OtherScans
  <1>8. scans = [c.scans EXCEPT ![s] = [state |-> result, started |-> @.started]]
    BY DEF scans, row
  <1>9. CASE Running(c, s)
    BY <1>5, <1>7, <1>8, <1>9 DEF FinishScan
  <1>10. CASE ~Running(c, s)
    BY <1>10 DEF FinishScan
  <1> QED
    BY <1>9, <1>10

LEMMA SameRow ==
  ASSUME NEW r \in AssetRow, NEW q \in AssetRow, r.state = q.state, r.seen = q.seen, r.said = q.said, r.late = q.late
  PROVE r = q
  BY DEF AssetRow

LEMMA HeardIs ==
  ASSUME NEW c, NEW s, NEW words, Running(c, s)
  PROVE  Heard(c, s, words) =
           [c EXCEPT !.assets = [a \in Assets |->
              IF a \in DOMAIN words THEN RowHeard(c.scans, s, c.assets[a], words[a])
              ELSE c.assets[a]]]
  BY DEF Heard

LEMMA HeardRow ==
  ASSUME NEW scans, NEW row \in AssetRow, NEW s \in Scans, NEW word \in Words, NEW n,
         n = RowHeard(scans, s, row, word)
  PROVE  /\ n \in AssetRow /\ n.state = row.state /\ n.seen = row.seen
         /\ n.said = [row.said EXCEPT ![s] = word]
         /\ word = "absent" => n.late = row.late
         /\ word # "absent" =>
              (n.late <=> \E t \in Scans : Spoke(row, t) /\ Older(scans, s, t))
  <1> DEFINE said == [row.said EXCEPT ![s] = word]
             isLate == \E t \in Scans : Spoke(row, t) /\ Older(scans, s, t)
             late == IF word = "absent" THEN row.late ELSE isLate
  <1>1. said \in [Scans -> Words]
    BY DEF AssetRow
  <1>2. late \in BOOLEAN
    BY DEF AssetRow
  <1>3. n = [row EXCEPT !.said = said, !.late = late]
    BY DEF RowHeard
  <1> HIDE DEF said, late
  <1>4. LET new == [row EXCEPT !.said = said, !.late = late]
        IN  /\ new \in AssetRow /\ new.state = row.state /\ new.seen = row.seen
            /\ new.said = said /\ new.late = late
    BY <1>1, <1>2 DEF AssetRow
  <1>5. /\ n \in AssetRow /\ n.state = row.state /\ n.seen = row.seen
        /\ n.said = said /\ n.late = late
    BY <1>3, <1>4
  <1> QED
    BY <1>5 DEF said, late

LEMMA SweptFields ==
  ASSUME NEW scans, NEW row \in AssetRow, NEW s \in Scans
  PROVE  LET new == Swept(scans, row, s)
         IN  /\ new \in AssetRow /\ new.state = SweptState(scans, row, s)
             /\ new.seen = row.seen /\ new.said = row.said /\ new.late = row.late
  <1> DEFINE state == SweptState(scans, row, s)
  <1>1. state \in States
    BY DEF SweptState, AssetRow, States
  <1> HIDE DEF state
  <1>2. LET new == [row EXCEPT !.state = state]
        IN  /\ new \in AssetRow /\ new.state = state
            /\ new.seen = row.seen /\ new.said = row.said /\ new.late = row.late
    BY <1>1 DEF AssetRow
  <1> QED
    BY <1>2 DEF Swept, state

LEMMA MissedFields ==
  ASSUME NEW scans, NEW row \in AssetRow, NEW s \in Scans
  PROVE  LET new == Missed(scans, row, s)
         IN  /\ new \in AssetRow /\ new.state = SweptState(scans, row, s)
             /\ new.seen = row.seen /\ new.said = [row.said EXCEPT ![s] = "absent"]
             /\ new.late = row.late
  <1> DEFINE state == SweptState(scans, row, s)
             said == [row.said EXCEPT ![s] = "absent"]
  <1>1. state \in States /\ said \in [Scans -> Words]
    BY DEF SweptState, AssetRow, States, Words
  <1> HIDE DEF state, said
  <1>2. LET new == [row EXCEPT !.state = state, !.said = said]
        IN  /\ new \in AssetRow /\ new.state = state
            /\ new.seen = row.seen /\ new.said = said /\ new.late = row.late
    BY <1>1 DEF AssetRow
  <1> QED
    BY <1>2 DEF Missed, state, said

\* The two steps of a mark, and the two of a sweep, make one row.
LEMMA MarkThenHeard ==
  ASSUME NEW scans, NEW row \in AssetRow, NEW s \in Scans, NEW to \in States,
         Marked(scans, row, s, to) \in AssetRow
  PROVE  RowHeard(scans, s, [row EXCEPT !.state = to, !.seen = s], to)
           = Marked(scans, row, s, to)
  <1> DEFINE seen == [row EXCEPT !.state = to, !.seen = s]
             heard == RowHeard(scans, s, seen, to)
             new == Marked(scans, row, s, to)
  <1>1. /\ seen \in AssetRow /\ seen.state = to /\ seen.seen = s
        /\ seen.said = row.said
    BY DEF AssetRow
  <1>2. to \in Words /\ to # "absent"
    BY DEF Words, States
  <1> HIDE DEF seen
  <1>3. /\ heard \in AssetRow /\ heard.state = to /\ heard.seen = s
        /\ heard.said = [row.said EXCEPT ![s] = to]
        /\ heard.late <=> \E t \in Scans : Spoke(seen, t) /\ Older(scans, s, t)
    <2> HIDE DEF heard
    <2>a. heard = RowHeard(scans, s, seen, to)
      BY DEF heard
    <2>1. /\ heard \in AssetRow /\ heard.state = seen.state /\ heard.seen = seen.seen
          /\ heard.said = [seen.said EXCEPT ![s] = to]
          /\ heard.late <=> \E t \in Scans : Spoke(seen, t) /\ Older(scans, s, t)
      BY <1>1, <1>2, <2>a, HeardRow
    <2> QED
      BY <1>1, <2>1
  <1>4. \A t \in Scans : Spoke(seen, t) <=> Spoke(row, t)
    BY <1>1 DEF Spoke
  <1>5. /\ new.state = to /\ new.seen = s /\ new.said = [row.said EXCEPT ![s] = to]
        /\ new.late <=> \E t \in Scans : Spoke(row, t) /\ Older(scans, s, t)
    BY DEF Marked
  <1>6. heard.late \in BOOLEAN /\ new.late \in BOOLEAN
    BY <1>3 DEF AssetRow
  <1> HIDE DEF heard, new
  <1>7. heard.late = new.late
    BY <1>3, <1>4, <1>5, <1>6
  <1>8. new \in AssetRow
    BY DEF new
  <1>9. heard = new
    BY <1>3, <1>5, <1>7, <1>8, SameRow
  <1> QED
    BY <1>9 DEF heard, new, seen

LEMMA SweptThenHeard ==
  ASSUME NEW scans, NEW row \in AssetRow, NEW s \in Scans
  PROVE  RowHeard(scans, s, Swept(scans, row, s), "absent") = Missed(scans, row, s)
  <1> DEFINE heard == RowHeard(scans, s, Swept(scans, row, s), "absent")
             new == Missed(scans, row, s)
  <1>1. /\ Swept(scans, row, s) \in AssetRow
        /\ Swept(scans, row, s).state = SweptState(scans, row, s)
        /\ Swept(scans, row, s).seen = row.seen /\ Swept(scans, row, s).said = row.said
        /\ Swept(scans, row, s).late = row.late
    BY SweptFields
  <1>2. "absent" \in Words
    BY DEF Words
  <1>3. /\ heard \in AssetRow /\ heard.state = SweptState(scans, row, s)
        /\ heard.seen = row.seen /\ heard.said = [row.said EXCEPT ![s] = "absent"]
        /\ heard.late = row.late
    <2> DEFINE swept == Swept(scans, row, s)
    <2> HIDE DEF swept
    <2>1. swept \in AssetRow
      BY <1>1 DEF swept
    <2>2. heard = RowHeard(scans, s, swept, "absent")
      BY DEF swept
    <2> DEFINE word == "absent"
    <2>b. heard = RowHeard(scans, s, swept, word) /\ word \in Words /\ word = "absent"
      BY <1>2, <2>2
    <2> HIDE DEF heard, word
    <2>3. /\ heard \in AssetRow /\ heard.state = swept.state /\ heard.seen = swept.seen
          /\ heard.said = [swept.said EXCEPT ![s] = "absent"] /\ heard.late = swept.late
      BY <2>1, <2>b, HeardRow
    <2> QED
      BY <1>1, <2>3 DEF swept
  <1>4. /\ new \in AssetRow /\ new.state = SweptState(scans, row, s)
        /\ new.seen = row.seen /\ new.said = [row.said EXCEPT ![s] = "absent"]
        /\ new.late = row.late
    BY MissedFields
  <1> HIDE DEF heard, new
  <1>5. heard = new
    BY <1>3, <1>4, SameRow
  <1> QED
    BY <1>5 DEF heard, new

LEMMA SeesRow ==
  ASSUME NEW c, IsCatalog(c), NEW s \in Scans, NEW a \in Assets, NEW to \in States,
         Running(c, s), Marked(c.scans, c.assets[a], s, to) \in AssetRow
  PROVE  LET d == SeeAs(c, s, a, to)
         IN  /\ IsCatalog(d) /\ d.scans = c.scans
             /\ d.assets[a] = Marked(c.scans, c.assets[a], s, to)
             /\ \A b \in Assets : b # a => d.assets[b] = c.assets[b]
  <1> DEFINE words == [b \in {a} |-> to]
             d == SeeAs(c, s, a, to)
             x == MarkAssetSeen(c, s, a, to)
             seen == [c.assets[a] EXCEPT !.state = to, !.seen = s]
             new == Marked(c.scans, c.assets[a], s, to)
             assets == [c.assets EXCEPT ![a] = seen]
             heard == [b \in Assets |-> IF b \in DOMAIN words
                         THEN RowHeard(x.scans, s, x.assets[b], words[b]) ELSE x.assets[b]]
  <1>1. c.assets \in AssetRows /\ c.assets[a] \in AssetRow
    BY CatalogFields DEF AssetRows
  <1>2. assets \in AssetRows
    <2>1. seen \in AssetRow
      BY <1>1 DEF AssetRow
    <2> HIDE DEF seen
    <2> QED
      BY <1>1, <2>1 DEF AssetRows
  <1>3. x = [c EXCEPT !.assets = assets]
    BY DEF MarkAssetSeen, IsCatalog, CatalogWith
  <1> HIDE DEF assets, x
  <1>4. IsCatalog(x) /\ x.scans = c.scans /\ x.assets = assets
    BY <1>2, <1>3, OtherAssets
  <1>5. x.assets[a] = seen /\ \A b \in Assets : b # a => x.assets[b] = c.assets[b]
    BY <1>1, <1>4 DEF assets, AssetRows
  <1>6. Running(x, s)
    BY <1>4 DEF Running
  <1>7. d = [x EXCEPT !.assets = heard]
    <2> HIDE DEF words
    <2>1. Heard(x, s, words) = [x EXCEPT !.assets = heard]
      BY <1>6, HeardIs
    <2> QED
      BY <2>1 DEF SeeAs, x, words
  <1>8. heard[a] = new /\ \A b \in Assets : b # a => heard[b] = c.assets[b]
    <2>1. RowHeard(c.scans, s, seen, to) = new
      BY <1>1, MarkThenHeard
    <2> HIDE DEF seen, new
    <2> QED
      BY <1>4, <1>5, <2>1
  <1>9. heard \in AssetRows
    <2> HIDE DEF heard
    <2>1. heard = [b \in Assets |-> heard[b]]
      BY DEF heard
    <2>2. \A b \in Assets : heard[b] \in AssetRow
      BY <1>1, <1>8 DEF AssetRows
    <2> QED
      BY <2>1, <2>2 DEF AssetRows
  <1> HIDE DEF heard, d
  <1>10. IsCatalog(d) /\ d.scans = x.scans /\ d.assets = heard
    BY <1>4, <1>7, <1>9, OtherAssets
  <1> QED
    BY <1>4, <1>8, <1>10 DEF d

\* A sweep of a scope, in which the scan did not find "gone".
SweptRow(c, s, scope, gone, a) ==
  IF a \in gone THEN Missed(c.scans, c.assets[a], s)
  ELSE IF a \in scope THEN Swept(c.scans, c.assets[a], s) ELSE c.assets[a]

LEMMA SweepsRows ==
  ASSUME NEW c, IsCatalog(c), NEW s \in Scans, Running(c, s),
         NEW scope, NEW gone \in SUBSET scope
  PROVE  LET d == Heard(MarkMissingAssets(c, s, scope), s, [a \in gone |-> "absent"])
         IN  /\ IsCatalog(d) /\ d.scans = c.scans
             /\ \A a \in Assets : d.assets[a] = SweptRow(c, s, scope, gone, a)
  <1> DEFINE words == [a \in gone |-> "absent"]
             x == MarkMissingAssets(c, s, scope)
             assets == [a \in Assets |-> IF a \in scope THEN Swept(c.scans, c.assets[a], s)
                                         ELSE c.assets[a]]
             heard == [b \in Assets |-> IF b \in DOMAIN words
                         THEN RowHeard(x.scans, s, x.assets[b], words[b]) ELSE x.assets[b]]
             d == Heard(x, s, words)
  <1>1. c.assets \in AssetRows /\ \A a \in Assets : c.assets[a] \in AssetRow
    BY CatalogFields DEF AssetRows
  <1>2. assets \in AssetRows
    BY <1>1, SweptFields DEF AssetRows
  <1>3. x = [c EXCEPT !.assets = assets]
    <2> DEFINE row(a) == IF a \in scope /\ c.assets[a].state # "tombstoned"
                            /\ Unseen(c, s, c.assets[a])
                         THEN [c.assets[a] EXCEPT !.state = "missing"] ELSE c.assets[a]
               new(a) == IF a \in scope THEN Swept(c.scans, c.assets[a], s) ELSE c.assets[a]
    <2>1. x = [c EXCEPT !.assets = [a \in Assets |-> row(a)]]
      BY DEF MarkMissingAssets
    <2>2. ASSUME NEW a \in Assets PROVE row(a) = new(a)
      <3> DEFINE old == c.assets[a]
      <3>1. old \in AssetRow
        BY <1>1
      <3>2. Unseen(c, s, old) <=> (old.seen = NoScan \/ Older(c.scans, old.seen, s))
        BY DEF Unseen, Older
      <3> HIDE DEF old
      <3>3. [old EXCEPT !.state = old.state] = old
        BY <3>1 DEF AssetRow
      <3>4. Swept(c.scans, old, s) =
              IF old.state # "tombstoned" /\ Unseen(c, s, old)
              THEN [old EXCEPT !.state = "missing"] ELSE old
        BY <3>2, <3>3 DEF Swept, SweptState
      <3> QED
        BY <3>4 DEF old
    <2> HIDE DEF row, new
    <2>3. [a \in Assets |-> row(a)] = [a \in Assets |-> new(a)]
      BY <2>2
    <2> QED
      BY <2>1, <2>3 DEF new
  <1> HIDE DEF assets, x
  <1>4. IsCatalog(x) /\ x.scans = c.scans /\ x.assets = assets
    BY <1>2, <1>3, OtherAssets
  <1>5. Running(x, s)
    BY <1>4 DEF Running
  <1>6. d = [x EXCEPT !.assets = heard]
    <2> HIDE DEF words
    <2> QED
      BY <1>5, HeardIs
  <1>7. ASSUME NEW a \in Assets PROVE heard[a] = SweptRow(c, s, scope, gone, a)
    <2>1. x.assets[a] = IF a \in scope THEN Swept(c.scans, c.assets[a], s) ELSE c.assets[a]
      BY <1>4 DEF assets
    <2>2. RowHeard(c.scans, s, Swept(c.scans, c.assets[a], s), "absent")
            = Missed(c.scans, c.assets[a], s)
      BY <1>1, SweptThenHeard
    <2>3. heard[a] = IF a \in gone THEN RowHeard(c.scans, s, x.assets[a], "absent")
                     ELSE x.assets[a]
      BY <1>4
    <2> HIDE DEF heard
    <2>4. CASE a \in gone
      BY <2>1, <2>2, <2>3, <2>4 DEF SweptRow
    <2>5. CASE a \notin gone
      BY <2>1, <2>3, <2>5 DEF SweptRow
    <2> QED
      BY <2>4, <2>5
  <1>8. heard \in AssetRows
    <2> HIDE DEF heard
    <2>1. heard = [b \in Assets |-> heard[b]]
      BY DEF heard
    <2>2. ASSUME NEW b \in Assets PROVE heard[b] \in AssetRow
      <3> DEFINE row == c.assets[b]
      <3>1. row \in AssetRow
        BY <1>1
      <3> HIDE DEF row
      <3>2. Swept(c.scans, row, s) \in AssetRow /\ Missed(c.scans, row, s) \in AssetRow
        BY <3>1, SweptFields, MissedFields
      <3> QED
        BY <1>7, <3>1, <3>2 DEF SweptRow, row
    <2> QED
      BY <2>1, <2>2 DEF AssetRows
  <1> HIDE DEF heard, d
  <1>9. IsCatalog(d) /\ d.scans = x.scans /\ d.assets = heard
    BY <1>4, <1>6, <1>8, OtherAssets
  <1> QED
    BY <1>4, <1>7, <1>9 DEF d, x

LEMMA OtherStats ==
  ASSUME NEW c, IsCatalog(c), NEW m, NEW p, NEW k
  PROVE  SameScans(c, [c EXCEPT !.marks = m, !.plays = p, !.counted = k])
  BY DEF SameScans, IsCatalog, CatalogWith

LEMMA StatsLeaveScans ==
  ASSUME NEW c, IsCatalog(c)
  PROVE  /\ \A f \in Facts : SameScans(c, ApplyPlayFact(c, f))
         /\ SameScans(c, ClearPlayStats(c)) /\ SameScans(c, Rebuilt(c))
  <1>1. ASSUME NEW f \in Facts PROVE SameScans(c, ApplyPlayFact(c, f))
    <2> DEFINE plays == [c.plays EXCEPT ![f.media] = Counted(@, f)]
               marks == c.marks \cup {f}
               counted == c.counted \cup {f}
    <2>1. [c EXCEPT !.marks = @ \cup {f}, !.plays[f.media] = Counted(@, f),
                    !.counted = @ \cup {f}]
          = [c EXCEPT !.marks = marks, !.plays = plays, !.counted = counted]
      BY DEF IsCatalog, CatalogWith
    <2>2. SameScans(c, [c EXCEPT !.marks = marks, !.plays = plays, !.counted = counted])
      BY OtherStats
    <2> QED
      BY <2>1, <2>2 DEF ApplyPlayFact, SameScans
  <1>2. SameScans(c, ClearPlayStats(c))
    BY DEF SameScans, IsCatalog, CatalogWith, ClearPlayStats
  <1>3. \E x, y, z : Rebuilt(c) = Rows(c.scans, c.assets, x, y, z)
    BY Zenon DEF Rebuilt
  <1>4. SameScans(c, Rebuilt(c))
    BY <1>3, CatalogFields, RowsAreCatalog DEF SameScans
  <1> QED
    BY <1>1, <1>2, <1>4

-----------------------------------------------------------------------------
\* What is kept of a scan depends on what is said of it alone.
LEMMA KeptSame ==
  ASSUME NEW c, NEW d, NEW s \in Scans, NEW r \in Plans \cup {NoPlan},
         SameWords(c, d, s), Kept(c, s, r)
  PROVE  Kept(d, s, r)
  <1>1. \A a \in Assets : Found(d.assets[a], s) <=> Found(c.assets[a], s)
    BY DEF SameWords, Found
  <1>2. d.scans[s] = c.scans[s]
    BY DEF SameWords
  <1>3. r # NoPlan => DOMAIN r.events \subseteq Assets
    BY LibraryAssumption DEF Plans, Runs
  <1> QED
    BY <1>1, <1>2, <1>3 DEF Kept, Running

\* A new file has no scans.
LEMMA InitLInv == LibraryInit => LInv
  <1> SUFFICES ASSUME LibraryInit PROVE LInv
    OBVIOUS
  <1>1. content = NewCatalog /\ Latest = content
    BY LibraryAssumption DEF LibraryInit, DatabaseInit, Latest
  <1> DEFINE scan  == [state |-> "none", started |-> 0]
             said  == [s \in Scans |-> "nothing"]
             row   == [state |-> "active", seen |-> NoScan, said |-> said, late |-> FALSE]
             scans == [s \in Scans |-> scan]
             rows  == [a \in Assets |-> row]
  <1>2. scans \in ScanRows
    BY DEF ScanRows
  <1>3. said \in [Scans -> Words]
    BY DEF Words
  <1> HIDE DEF said
  <1>4. row \in AssetRow
    BY <1>3 DEF AssetRow, States
  <1>5. /\ row.seen = NoScan /\ row.said = said
    OBVIOUS
  <1> HIDE DEF scan, row
  <1>6. rows \in AssetRows
    BY <1>4 DEF AssetRows
  <1>7. IsCatalog(NewCatalog) /\ NewCatalog.scans = scans /\ NewCatalog.assets = rows
    <2>1. NewCatalog = Rows(scans, rows, {}, NoPlays, {})
      BY DEF NewCatalog, scan, row, said
    <2> HIDE DEF scans, rows
    <2> QED
      BY <1>2, <1>6, <2>1, RowsAreCatalog
  <1>8. RowInv(scans, row)
    <2>1. \A s \in Scans : ~Spoke(row, s) /\ ~Found(row, s)
      BY <1>5 DEF Spoke, Found, said, States
    <2>2. SeenByNewest(scans, row)
      BY <1>5, <2>1 DEF SeenByNewest
    <2>3. FollowsNewest(scans, row)
      BY <2>1 DEF FollowsNewest, IsNewest
    <2> QED
      BY <2>1, <2>2, <2>3 DEF RowInv
  <1>9. HistoryInv(NewCatalog)
    BY <1>7, <1>8 DEF HistoryInv
  <1>10. RowsInv
    BY <1>1, <1>7, <1>9 DEF RowsInv
  <1>11. OwnersInv
    BY DEF LibraryInit, OwnersInv
  <1>12. PlanInv
    BY DEF LibraryInit, PlanInv
  <1>13. WorkInv
    BY <1>1 DEF WorkInv, SameWords
  <1> QED
    BY <1>10, <1>11, <1>12, <1>13 DEF LInv

\* A step that only begins, commits or drops a transaction, and may end scans.
LEMMA MovesKeeps ==
  ASSUME LInv, NEW new, new = Latest', new \in {content, Latest},
         \/ content' = new
         \/ /\ content' = content /\ new = Latest /\ writer' = writer
            /\ \A s \in Scans : owner'[s] # owner[s] => owner[s] # writer,
         owner' \in [Scans -> Processes \cup {NoProcess}],
         plan' \in [Scans -> Plans \cup {NoPlan}],
         \A s \in Scans : \/ owner'[s] = owner[s] /\ plan'[s] = plan[s]
                          \/ owner'[s] = NoProcess /\ plan'[s] = NoPlan,
         \A s \in Scans : owner'[s] # NoProcess =>
           SameWords(Latest, new, s) /\ place'[owner[s]] \in {"ready", "writing"}
  PROVE  LInv'
  <1>1. RowsInv'
    <2>1. content' \in {content, Latest}
      OBVIOUS
    <2> QED
      BY <2>1 DEF LInv, RowsInv
  <1>2. OwnersInv'
    BY DEF LInv, OwnersInv
  <1>3. WorkInv'
    <2> SUFFICES ASSUME NEW s \in Scans, owner'[s] # writer'
                 PROVE  SameWords(content', new, s)
      BY DEF WorkInv
    <2>1. CASE content' = new
      BY <2>1 DEF SameWords
    <2>2. CASE content' = content /\ new = Latest /\ owner[s] # writer
      BY <2>2 DEF LInv, WorkInv
    <2> QED
      BY <2>1, <2>2
  <1>4. PlanInv'
    <2> SUFFICES ASSUME NEW s \in Scans, owner'[s] # NoProcess
                 PROVE  Kept(new, s, plan'[s])
      BY DEF PlanInv
    <2>1. Kept(Latest, s, plan[s]) /\ plan'[s] = plan[s]
      BY DEF LInv, PlanInv
    <2>2. plan[s] \in Plans \cup {NoPlan}
      BY DEF LInv, OwnersInv
    <2> QED
      BY <2>1, <2>2, KeptSame
  <1> QED
    BY <1>1, <1>2, <1>3, <1>4 DEF LInv

LEMMA QuietKeeps ==
  ASSUME LInv, UNCHANGED <<owner, plan>>, NEW new, new = Latest', new \in {content, Latest},
         content' = new \/ (content' = content /\ new = Latest /\ writer' = writer),
         \A s \in Scans : owner[s] # NoProcess => SameWords(Latest, new, s),
         \A p \in Processes :
           place[p] \in {"ready", "writing"} => place'[p] \in {"ready", "writing"}
  PROVE  LInv'
  <1>1. owner \in [Scans -> Processes \cup {NoProcess}] /\ plan \in [Scans -> Plans \cup {NoPlan}]
    BY DEF LInv, OwnersInv
  <1>2. \A s \in Scans : owner[s] # NoProcess => place'[owner[s]] \in {"ready", "writing"}
    BY DEF LInv, OwnersInv
  <1> QED
    BY <1>1, <1>2, MovesKeeps

LEMMA SameAsItself == ASSUME NEW c, NEW s PROVE SameWords(c, c, s)
  BY DEF SameWords

LEMMA OpenQuiet ==
  ASSUME DatabaseIInv, LInv, NEW p \in Processes, NEW b \in Binaries, Open(p, b), UNCHANGED scanVars
  PROVE  LInv'
  <1>1. /\ content' = content /\ Latest' = Latest /\ writer' = writer
        /\ UNCHANGED <<owner, plan>>
    BY DEF Open, OnDisk, Latest, scanVars
  <1>2. \A q \in Processes :
          place[q] \in {"ready", "writing"} => place'[q] \in {"ready", "writing"}
    BY DEF DatabaseIInv, DatabaseTypeOK, Open, Move
  <1> QED
    BY <1>1, <1>2, SameAsItself, QuietKeeps

\* Who migrates has no scan.
LEMMA MigrationHasNoScan ==
  ASSUME DatabaseIInv, LInv, NEW p \in Processes, place[p] \in {"migrated", "recorded"}
  PROVE  /\ writer = p /\ Latest = work.content
         /\ \A s \in Scans : SameWords(Latest, content, s)
  <1>1. writer = p /\ p # NoProcess
    BY DatabaseAssumption DEF DatabaseIInv, OneWriter, Busy
  <1>2. \A s \in Scans : owner[s] # p
    BY <1>1 DEF LInv, OwnersInv
  <1>3. \A s \in Scans : SameWords(content, Latest, s)
    BY <1>1, <1>2 DEF LInv, WorkInv
  <1> QED
    BY <1>1, <1>3 DEF Latest, SameWords

LEMMA MigrateQuiet ==
  ASSUME DatabaseIInv, LInv, NEW p \in Processes, Migrate(p), UNCHANGED scanVars
  PROVE  LInv'
  <1>a. place[p] \notin {"ready", "writing"} /\
        \A q \in Processes : q # p => place'[q] = place[q]
    BY DEF DatabaseIInv, DatabaseTypeOK, Migrate, RunSql, RecordMigration, CommitMigration,
       MigrationsApplied, GiveUp, Move, Close
  <1>1. \A q \in Processes :
          place[q] \in {"ready", "writing"} => place'[q] \in {"ready", "writing"}
    BY <1>a
  <1>2. UNCHANGED <<owner, plan>>
    BY DEF scanVars
  <1>3. ASSUME NEW m \in binary[p], RunSql(p, m) PROVE LInv'
    <2>1. /\ content' = content /\ Latest' = Latest
          /\ Latest = content \/ writer' = writer
      BY <1>3, DatabaseAssumption DEF RunSql, OnDisk, Latest, View
    <2> QED
      BY <1>1, <1>2, <2>1, SameAsItself, QuietKeeps
  <1>4. ASSUME NEW m \in binary[p], RecordMigration(p, m) PROVE LInv'
    <2>1. writer = p /\ Latest = work.content /\ p # NoProcess
          /\ \A s \in Scans : SameWords(Latest, content, s)
      BY <1>4, MigrationHasNoScan, DatabaseAssumption DEF RecordMigration
    <2>2. CASE Idle
      <3>1. content' = content /\ Latest' = content
        BY <1>4, <2>2 DEF RecordMigration, OnDisk, Latest, Idle
      <3> QED
        BY <1>1, <1>2, <2>1, <3>1, QuietKeeps
    <2>3. CASE writer' = writer /\ work' = View(work.ledger \cup {m}, work.tables, work.content)
      <3>1. content' = content /\ Latest' = Latest
        BY <1>4, <2>1, <2>3 DEF RecordMigration, OnDisk, Latest, View
      <3> QED
        BY <1>1, <1>2, <2>3, <3>1, SameAsItself, QuietKeeps
    <2> QED
      BY <1>4, <2>2, <2>3 DEF RecordMigration
  <1>5. ASSUME NEW m \in binary[p], CommitMigration(p, m) PROVE LInv'
    <2>1. Latest = work.content
      BY <1>5, MigrationHasNoScan DEF CommitMigration
    <2>2. content' = Latest /\ Latest' = Latest
      BY <1>5, <2>1 DEF CommitMigration, Publish, Idle, Latest
    <2> QED
      BY <1>1, <1>2, <2>2, SameAsItself, QuietKeeps
  <1>6. ASSUME MigrationsApplied(p) \/ GiveUp(p) PROVE LInv'
    <2>1. content' = content /\ Latest' = Latest /\ writer' = writer
      BY <1>6 DEF MigrationsApplied, GiveUp, OnDisk, Latest
    <2> QED
      BY <1>1, <1>2, <2>1, SameAsItself, QuietKeeps
  <1> QED
    BY <1>3, <1>4, <1>5, <1>6 DEF Migrate

LEMMA BeginWriteQuiet ==
  ASSUME DatabaseIInv, LInv, NEW p \in Processes, BeginWrite(p), UNCHANGED scanVars
  PROVE  LInv'
  <1>1. content' = content /\ Latest' = Latest /\ Latest = content /\ UNCHANGED <<owner, plan>>
    BY DatabaseAssumption DEF BeginWrite, OnDisk, Latest, CommittedRows, scanVars
  <1>2. \A q \in Processes :
          place[q] \in {"ready", "writing"} => place'[q] \in {"ready", "writing"}
    BY DEF DatabaseIInv, DatabaseTypeOK, BeginWrite, Move
  <1> QED
    BY <1>1, <1>2, SameAsItself, QuietKeeps

LEMMA StutterQuiet == LInv /\ UNCHANGED libraryVars => LInv'
  <1> SUFFICES ASSUME LInv, UNCHANGED libraryVars PROVE LInv'
    OBVIOUS
  <1>1. /\ content' = content /\ writer' = writer /\ work' = work /\ place' = place
        /\ UNCHANGED <<owner, plan>>
    BY DEF libraryVars, dbVars, scanVars
  <1>2. Latest' = Latest
    BY <1>1 DEF Latest
  <1> QED
    BY <1>1, <1>2, SameAsItself, QuietKeeps

\* What a transaction wrote is committed; a scan it finished is released.
LEMMA CommitKeeps ==
  ASSUME DatabaseIInv, LInv, NEW p \in Processes, Commit(p)
  PROVE  LInv'
  <1> DEFINE over == {s \in Owned(p) : ~Running(work.content, s)}
  <1>1. /\ place[p] = "writing" /\ content' = Latest /\ Latest' = Latest
        /\ place' = [place EXCEPT ![p] = "ready"]
    <2>1. place[p] = "writing" /\ writer = p /\ p # NoProcess
      BY DatabaseAssumption DEF DatabaseIInv, OneWriter, Busy, Commit, CommitWrite
    <2> QED
      BY <2>1 DEF Commit, CommitWrite, Publish, Idle, Move, Latest
  <1>2. /\ owner' = [s \in Scans |-> IF s \in over THEN NoProcess ELSE owner[s]]
        /\ plan'  = [s \in Scans |-> IF s \in over THEN NoPlan ELSE plan[s]]
    BY DEF Commit, Release
  <1> HIDE DEF over
  <1>3. /\ owner' \in [Scans -> Processes \cup {NoProcess}]
        /\ plan' \in [Scans -> Plans \cup {NoPlan}]
        /\ \A s \in Scans : \/ owner'[s] = owner[s] /\ plan'[s] = plan[s]
                            \/ owner'[s] = NoProcess /\ plan'[s] = NoPlan
    BY <1>2 DEF LInv, OwnersInv
  <1>4. \A q \in Processes :
          place[q] \in {"ready", "writing"} => place'[q] \in {"ready", "writing"}
    BY <1>1 DEF DatabaseIInv, DatabaseTypeOK
  <1>5. \A s \in Scans : owner'[s] # NoProcess => place'[owner[s]] \in {"ready", "writing"}
    BY <1>3, <1>4 DEF LInv, OwnersInv
  <1> QED
    BY <1>1, <1>3, <1>5, SameAsItself, MovesKeeps

\* A transaction that is lost takes its process's scans with it.
LEMMA AbandonKeeps ==
  ASSUME DatabaseIInv, LInv, NEW p \in Processes, Abandon(p)
  PROVE  LInv'
  <1>1. /\ owner' = [s \in Scans |-> IF s \in Owned(p) THEN NoProcess ELSE owner[s]]
        /\ plan'  = [s \in Scans |-> IF s \in Owned(p) THEN NoPlan ELSE plan[s]]
    BY DEF Abandon, Release
  <1>2. /\ content' = content /\ \A q \in Processes : q # p => place'[q] = place[q]
        /\ p # NoProcess
    BY DatabaseAssumption DEF DatabaseIInv, DatabaseTypeOK, Abandon, RollBack, Panic, Crash, OnDisk, Move, Close
  <1>3. \/ writer = p /\ Latest' = content
        \/ writer # p /\ writer' = writer /\ Latest' = Latest
    <2>1. RollBack(p) \/ Panic(p) => writer = p /\ Latest' = content
      BY DEF DatabaseIInv, OneWriter, Busy, RollBack, Panic, Idle, OnDisk, Latest
    <2>2. Crash(p) => \/ writer = p /\ Latest' = content
                      \/ writer # p /\ writer' = writer /\ Latest' = Latest
      BY DEF Crash, Idle, OnDisk, Latest
    <2> QED
      BY <2>1, <2>2 DEF Abandon
  <1>4. /\ owner' \in [Scans -> Processes \cup {NoProcess}]
        /\ plan' \in [Scans -> Plans \cup {NoPlan}]
    BY <1>1 DEF LInv, OwnersInv
  <1>5. \A s \in Scans :
          \/ owner'[s] = owner[s] /\ plan'[s] = plan[s] /\ owner[s] # p
          \/ owner'[s] = NoProcess /\ plan'[s] = NoPlan /\ owner[s] = p
    BY <1>1 DEF Owned
  <1>6. \A s \in Scans : owner'[s] # NoProcess => place'[owner[s]] \in {"ready", "writing"}
    BY <1>2, <1>5 DEF LInv, OwnersInv
  <1>7. CASE writer = p /\ Latest' = content
    <2>1. \A s \in Scans : owner'[s] # NoProcess => SameWords(Latest, content, s)
      BY <1>5, <1>7 DEF LInv, WorkInv, SameWords
    <2> QED
      BY <1>2, <1>4, <1>5, <1>6, <1>7, <2>1, MovesKeeps
  <1>8. CASE writer # p /\ writer' = writer /\ Latest' = Latest
    BY <1>2, <1>4, <1>5, <1>6, <1>8, SameAsItself, MovesKeeps
  <1> QED
    BY <1>3, <1>7, <1>8

-----------------------------------------------------------------------------
\* A write of one call meets no other transaction.
LEMMA AtOnce ==
  ASSUME NEW p \in Processes, NEW c, WriteAtOnce(p, c)
  PROVE  /\ Latest = content /\ content' = c /\ Latest' = c
         /\ place' = place /\ place[p] = "ready"
  BY DEF WriteAtOnce, Latest

LEMMA StatsKeeps ==
  ASSUME LInv, NEW p \in Processes, NEW c, StatsWrite(p, c), SameScans(content, c)
  PROVE  LInv'
  <1>1. /\ Latest = content /\ content' = c /\ Latest' = c /\ place' = place
        /\ UNCHANGED <<owner, plan>>
    BY AtOnce DEF StatsWrite, scanVars
  <1>2. IsCatalog(c) /\ c.scans = content.scans /\ c.assets = content.assets
    BY DEF SameScans
  <1>3. RowsInv'
    BY <1>1, <1>2 DEF LInv, RowsInv, HistoryInv
  <1>4. OwnersInv'
    BY <1>1 DEF LInv, OwnersInv
  <1>5. WorkInv'
    BY <1>1 DEF WorkInv, SameWords
  <1>6. PlanInv'
    <2> SUFFICES ASSUME NEW s \in Scans, owner[s] # NoProcess PROVE Kept(c, s, plan[s])
      BY <1>1 DEF PlanInv
    <2>1. Kept(content, s, plan[s]) /\ plan[s] \in Plans \cup {NoPlan}
      BY <1>1 DEF LInv, PlanInv, OwnersInv
    <2>2. SameWords(content, c, s)
      BY <1>2 DEF SameWords
    <2> QED
      BY <2>1, <2>2, KeptSame
  <1> QED
    BY <1>3, <1>4, <1>5, <1>6 DEF LInv

\* The new scan has said nothing, and nothing is older or newer for it than before.
LEMMA BeginScanKeeps ==
  ASSUME LInv, NEW p \in Processes, NEW s \in Scans, NEW at \in Times, BeginScan(p, s, at)
  PROVE  LInv'
  <1> DEFINE c == StartScan(content, s, at)
             row == [state |-> "running", started |-> at]
  <1>1. /\ Latest = content /\ content' = c /\ Latest' = c /\ place' = place
        /\ place[p] = "ready"
        /\ owner' = [owner EXCEPT ![s] = p] /\ plan' = plan
    BY AtOnce DEF BeginScan
  <1>2. /\ content.scans[s].state = "none" /\ IsCatalog(content) /\ HistoryInv(content)
        /\ content.scans \in ScanRows /\ content.assets \in AssetRows
    BY CatalogFields DEF BeginScan, LInv, RowsInv
  <1>3. /\ IsCatalog(c) /\ c.assets = content.assets
        /\ c.scans = [content.scans EXCEPT ![s] = row]
    BY <1>2, StartsScan
  <1>4. row.state = "running"
    OBVIOUS
  <1> HIDE DEF c, row
  <1>5. c.scans[s] = row /\ \A t \in Scans : t # s => c.scans[t] = content.scans[t]
    BY <1>2, <1>3 DEF ScanRows
  <1>6. HistoryInv(c)
    <2> SUFFICES ASSUME NEW a \in Assets PROVE RowInv(c.scans, content.assets[a])
      BY <1>3 DEF HistoryInv
    <2>1. content.assets[a] \in AssetRow /\ RowInv(content.scans, content.assets[a])
      BY <1>2 DEF AssetRows, HistoryInv
    <2>2. c.scans \in ScanRows
      BY <1>3, CatalogFields
    <2>3. \A t \in Scans :
            /\ c.scans[t].state = "none" => content.scans[t].state = "none"
            /\ content.scans[t].state # "none" => c.scans[t].started = content.scans[t].started
      BY <1>2, <1>5
    <2> QED
      BY <1>2, <2>1, <2>2, <2>3, OtherScansKeepRow
  <1>7. RowsInv'
    BY <1>1, <1>3, <1>6 DEF RowsInv
  <1>8. owner[s] = NoProcess
    <2> SUFFICES ASSUME owner[s] # NoProcess PROVE FALSE
      OBVIOUS
    <2>1. Kept(content, s, plan[s])
      BY <1>1 DEF LInv, PlanInv
    <2> QED
      BY <1>2, <2>1 DEF Kept
  <1>9. plan[s] = NoPlan
    BY <1>8 DEF LInv, OwnersInv
  <1>10. OwnersInv'
    <2>1. /\ owner' \in [Scans -> Processes \cup {NoProcess}]
          /\ plan' \in [Scans -> Plans \cup {NoPlan}]
      BY <1>1 DEF LInv, OwnersInv
    <2>2. owner'[s] = p /\ \A t \in Scans : t # s => owner'[t] = owner[t]
      BY <1>1 DEF LInv, OwnersInv
    <2>3. p # NoProcess
      BY DatabaseAssumption
    <2> QED
      BY <1>1, <2>1, <2>2, <2>3 DEF LInv, OwnersInv
  <1>11. WorkInv'
    BY <1>1 DEF WorkInv, SameWords
  <1>12. PlanInv'
    <2> SUFFICES ASSUME NEW t \in Scans, owner'[t] # NoProcess PROVE Kept(c, t, plan[t])
      BY <1>1 DEF PlanInv
    <2>1. CASE t = s
      <3>1. \A a \in Assets : ~Found(content.assets[a], s)
        <4> SUFFICES ASSUME NEW a \in Assets PROVE ~Found(content.assets[a], s)
          OBVIOUS
        <4>1. content.assets[a] \in AssetRow
          BY <1>2 DEF AssetRows
        <4>2. ~Spoke(content.assets[a], s)
          BY <1>2 DEF HistoryInv, RowInv
        <4> QED
          BY <4>1, <4>2, FoundSpoke
      <3> QED
        BY <1>3, <1>4, <1>5, <1>9, <2>1, <3>1 DEF Kept
    <2>2. CASE t # s
      <3>1. owner[t] # NoProcess
        BY <1>1, <2>2 DEF LInv, OwnersInv
      <3>2. Kept(content, t, plan[t]) /\ plan[t] \in Plans \cup {NoPlan}
        BY <1>1, <3>1 DEF LInv, PlanInv, OwnersInv
      <3>3. SameWords(content, c, t)
        BY <1>3, <1>5, <2>2 DEF SameWords
      <3> QED
        BY <3>2, <3>3, KeptSame
    <2> QED
      BY <2>1, <2>2
  <1> QED
    BY <1>7, <1>10, <1>11, <1>12 DEF LInv

\* The end of a scan leaves what is known of the rows.
LEMMA FinishKeepsRows ==
  ASSUME NEW c, IsCatalog(c), HistoryInv(c), NEW s \in Scans,
         NEW result \in {"completed", "failed"}, NEW d, d = FinishScan(c, s, result)
  PROVE  /\ IsCatalog(d) /\ HistoryInv(d) /\ d.assets = c.assets
         /\ \A t \in Scans : t # s => SameWords(c, d, t)
         /\ d.scans[s].state = "none" <=> c.scans[s].state = "none"
         /\ ~Running(d, s)
  <1>1. /\ IsCatalog(d) /\ d.assets = c.assets
        /\ d.scans = IF Running(c, s)
                     THEN [c.scans EXCEPT ![s] = [state |-> result, started |-> @.started]]
                     ELSE c.scans
    BY FinishesScan
  <1>2. c.scans \in ScanRows /\ c.assets \in AssetRows /\ d.scans \in ScanRows
    BY <1>1, CatalogFields
  <1>3. /\ \A t \in Scans : t # s => d.scans[t] = c.scans[t]
        /\ d.scans[s].started = c.scans[s].started
        /\ d.scans[s].state = IF Running(c, s) THEN result ELSE c.scans[s].state
    BY <1>1, <1>2 DEF ScanRows
  <1>4. /\ d.scans[s].state = "none" <=> c.scans[s].state = "none"
        /\ ~Running(d, s)
    BY <1>3 DEF Running
  <1>5. ASSUME NEW a \in Assets PROVE RowInv(d.scans, d.assets[a])
    <2>1. c.assets[a] \in AssetRow /\ RowInv(c.scans, c.assets[a])
      BY <1>2 DEF AssetRows, HistoryInv
    <2>2. \A t \in Scans : /\ d.scans[t].state = "none" => c.scans[t].state = "none"
                           /\ d.scans[t].started = c.scans[t].started
      BY <1>3, <1>4
    <2>3. RowInv(d.scans, c.assets[a])
      BY <1>2, <2>1, <2>2, OtherScansKeepRow
    <2> QED
      BY <1>1, <2>3
  <1> QED
    BY <1>1, <1>3, <1>4, <1>5 DEF HistoryInv, SameWords

\* What is kept of a scan that is over.
LEMMA KeptOfOver ==
  ASSUME NEW c, NEW d, NEW s \in Scans, NEW r \in Plans \cup {NoPlan}, Kept(c, s, r),
         d.assets = c.assets, d.scans[s].state = "none" <=> c.scans[s].state = "none",
         ~Running(d, s)
  PROVE  Kept(d, s, r)
  BY DEF Kept

\* A scan that failed does nothing more, whether its owner knows or not.
LEMMA FailKeeps ==
  ASSUME LInv, NEW p \in Processes, NEW s \in Scans, Fail(p, s)
  PROVE  LInv'
  <1> DEFINE c == FinishScan(content, s, "failed")
             over == {s} \cap Owned(p)
  <1>1. Latest = content /\ content' = c /\ Latest' = c /\ place' = place
    BY AtOnce DEF Fail
  <1>2. /\ owner' = [t \in Scans |-> IF t \in over THEN NoProcess ELSE owner[t]]
        /\ plan'  = [t \in Scans |-> IF t \in over THEN NoPlan ELSE plan[t]]
    BY DEF Fail, Release
  <1>3. IsCatalog(content) /\ HistoryInv(content)
    BY DEF LInv, RowsInv
  <1> HIDE DEF c, over
  <1>4. /\ IsCatalog(c) /\ HistoryInv(c) /\ c.assets = content.assets
        /\ \A t \in Scans : t # s => SameWords(content, c, t)
        /\ c.scans[s].state = "none" <=> content.scans[s].state = "none"
        /\ ~Running(c, s)
    BY <1>3, FinishKeepsRows DEF c
  <1>5. RowsInv'
    BY <1>1, <1>4 DEF RowsInv
  <1>6. OwnersInv'
    BY <1>1, <1>2 DEF LInv, OwnersInv
  <1>7. WorkInv'
    BY <1>1 DEF WorkInv, SameWords
  <1>8. PlanInv'
    <2> SUFFICES ASSUME NEW t \in Scans, owner'[t] # NoProcess PROVE Kept(c, t, plan'[t])
      BY <1>1 DEF PlanInv
    <2>1. plan'[t] = plan[t] /\ owner[t] # NoProcess
      BY <1>2
    <2>2. Kept(content, t, plan[t]) /\ plan[t] \in Plans \cup {NoPlan}
      BY <1>1, <2>1 DEF LInv, PlanInv, OwnersInv
    <2>3. Kept(c, t, plan[t])
      BY <1>4, <2>2, KeptSame, KeptOfOver
    <2> QED
      BY <2>1, <2>3
  <1> QED
    BY <1>5, <1>6, <1>7, <1>8 DEF LInv
-----------------------------------------------------------------------------
\* The states of an asset, and what a run says of a file that is missing.
LEMMA TransitionsTyped ==
  ASSUME NEW t \in Transitions
  PROVE  /\ t.to \in States
         /\ t.observation = "Missing" => t.from = "active" /\ t.to = "missing"
  BY DEF Transitions, Transition, States

LEMMA Observed ==
  ASSUME NEW state, NEW o
  PROVE  /\ Observe(state, o) \in States \cup {Invalid}
         /\ o = "Missing" /\ Observe(state, o) # Invalid =>
              state = "active" /\ Observe(state, o) = "missing"
  <1> DEFINE P(t) == t.from = state /\ t.observation = o
  <1>1. CASE \E t \in Transitions : P(t)
    <2>1. (CHOOSE t \in Transitions : P(t)) \in Transitions
          /\ P(CHOOSE t \in Transitions : P(t))
      BY <1>1, Zenon
    <2>2. Observe(state, o) = (CHOOSE t \in Transitions : P(t)).to
      BY <1>1 DEF Observe
    <2> DEFINE u == CHOOSE t \in Transitions : P(t)
    <2> HIDE DEF u
    <2>3. u \in Transitions /\ P(u) /\ Observe(state, o) = u.to
      BY <2>1, <2>2 DEF u
    <2> QED
      BY <2>3, TransitionsTyped
  <1>2. CASE ~\E t \in Transitions : P(t)
    BY <1>2 DEF Observe
  <1> QED
    BY <1>1, <1>2

LEMMA EventOf ==
  ASSUME NEW kind \in {"Missing", "Unchanged", "Changed"}, NEW state \in States,
         NextState(kind, state) # Invalid
  PROVE  /\ NextState(kind, state) \in States
         /\ kind = "Missing" => state = "active" /\ NextState(kind, state) = "missing"
  <1>1. CASE kind = "Unchanged"
    <2>1. NextState(kind, state) = state
      BY <1>1, Zenon DEF NextState
    <2> QED
      BY <1>1, <2>1
  <1>2. CASE kind = "Missing"
    <2>1. NextState(kind, state) = Observe(state, "Missing")
      BY <1>2, Zenon DEF NextState
    <2> QED
      BY <2>1, Observed
  <1>3. CASE kind = "Changed" /\ state \in {"missing", "relink_candidate"}
    <2>1. NextState(kind, state) = "relink_candidate"
      BY <1>3, Zenon DEF NextState
    <2> QED
      BY <1>3, <2>1 DEF States
  <1>4. CASE kind = "Changed" /\ state \notin {"missing", "relink_candidate"}
    <2>1. NextState(kind, state) = Observe(Observe(state, "ContentChanged"), "ProbeStarted")
      BY <1>4, Zenon DEF NextState
    <2> QED
      BY <1>4, <2>1, Observed
  <1> QED
    BY <1>1, <1>2, <1>3, <1>4
LEMMA BuildTyped ==
  ASSUME NEW scope \in SUBSET Assets, NEW state \in [scope -> States], NEW observed,
         IsRun(Build(scope, state, StoredPrint, observed, Gone))
  PROVE  Build(scope, state, StoredPrint, observed, Gone) \in [scope -> Events]
  <1> DEFINE kind(a) == Classify(StoredPrint[a], observed[a], Gone)
             events == Build(scope, state, StoredPrint, observed, Gone)
  <1>1. events = [a \in scope |-> [kind |-> kind(a), to |-> NextState(kind(a), state[a])]]
    BY DEF Build
  <1>2. \A a \in scope : kind(a) \in {"Missing", "Unchanged", "Changed"}
    BY DEF Classify
  <1> HIDE DEF kind
  <1>3. \A a \in scope : NextState(kind(a), state[a]) # Invalid
    BY <1>1 DEF IsRun
  <1>4. \A a \in scope : [kind |-> kind(a), to |-> NextState(kind(a), state[a])] \in Events
    BY <1>2, <1>3, EventOf DEF Events
  <1> QED
    BY <1>1, <1>4

LEMMA BuildRunKeeps ==
  ASSUME LInv, NEW p \in Processes, NEW s \in Scans, NEW scope \in SUBSET Assets,
         NEW observed, BuildRun(p, s, scope, observed)
  PROVE  LInv'
  <1> DEFINE state  == [a \in scope |-> content.assets[a].state]
             events == Build(scope, state, StoredPrint, observed, Gone)
             r == [events |-> events, swept |-> {},
                   todo |-> {a \in scope : events[a].kind # "Missing"}]
  <1>1. /\ owner[s] = p /\ plan[s] = NoPlan /\ IsRun(events)
        /\ plan' = [plan EXCEPT ![s] = r]
        /\ content' = content /\ writer' = writer /\ work' = work /\ place' = place
        /\ owner' = owner
    BY DEF BuildRun, dbVars
  <1>2. Latest' = Latest
    BY <1>1 DEF Latest
  <1>3. state \in [scope -> States]
    <2>1. \A a \in scope : content.assets[a] \in AssetRow
      BY CatalogFields DEF LInv, RowsInv, AssetRows
    <2>2. \A a \in scope : content.assets[a].state \in States
      BY <2>1 DEF AssetRow
    <2> QED
      BY <2>2
  <1>4. events \in [scope -> Events]
    BY <1>1, <1>3, BuildTyped
  <1> HIDE DEF state, events
  <1>5. r \in Plans /\ r # NoPlan
    BY <1>4, LibraryAssumption DEF Plans, Runs
  <1>6. /\ r.events = events /\ r.todo = {a \in scope : events[a].kind # "Missing"}
        /\ DOMAIN events = scope
    BY <1>4
  <1> HIDE DEF r
  <1>7. RowsInv'
    BY <1>1, <1>2 DEF LInv, RowsInv
  <1>8. OwnersInv'
    BY <1>1, <1>5, DatabaseAssumption DEF LInv, OwnersInv
  <1>9. WorkInv'
    BY <1>1, <1>2 DEF LInv, WorkInv
  <1>10. PlanInv'
    <2> SUFFICES ASSUME NEW t \in Scans, owner[t] # NoProcess PROVE Kept(Latest, t, plan'[t])
      BY <1>1, <1>2 DEF PlanInv
    <2>1. Kept(Latest, t, plan[t])
      BY DEF LInv, PlanInv
    <2>2. CASE t = s
      <3>1. plan'[t] = r
        BY <1>1, <2>2 DEF LInv, OwnersInv
      <3>2. Latest.scans[s].state # "none" /\ \A a \in Assets : ~Found(Latest.assets[a], s)
        BY <1>1, <2>1, <2>2 DEF Kept
      <3> QED
        BY <1>5, <1>6, <2>2, <3>1, <3>2 DEF Kept
    <2>3. CASE t # s
      BY <1>1, <2>1, <2>3 DEF LInv, OwnersInv
    <2> QED
      BY <2>2, <2>3
  <1> QED
    BY <1>7, <1>8, <1>9, <1>10 DEF LInv

\* A write of a longer transaction, for a scan its process works on.
LEMMA InWork ==
  ASSUME DatabaseIInv, LInv, NEW p \in Processes, NEW c, Write(p, c)
  PROVE  /\ writer = p /\ Latest = work.content
         /\ content' = content /\ writer' = writer /\ Latest' = c /\ place' = place
  <1>1. writer = p /\ p # NoProcess
    BY DatabaseAssumption DEF DatabaseIInv, OneWriter, Busy, Write
  <1> QED
    BY <1>1 DEF Write, OnDisk, Latest, View

LEMMA WorkKeeps ==
  ASSUME DatabaseIInv, LInv, NEW p \in Processes, NEW s \in Scans, NEW c,
         Write(p, c), Planned(p, s), IsCatalog(c), HistoryInv(c),
         \A t \in Scans : t # s => SameWords(Latest, c, t),
         NEW r \in Plans, plan' = [plan EXCEPT ![s] = r], owner' = owner, Kept(c, s, r)
  PROVE  LInv'
  <1>1. /\ writer = p /\ owner[s] = p /\ p # NoProcess
        /\ content' = content /\ writer' = p /\ Latest' = c /\ place' = place
    BY InWork, DatabaseAssumption DEF Planned
  <1>2. plan'[s] = r /\ \A t \in Scans : t # s => plan'[t] = plan[t]
    BY DEF LInv, OwnersInv
  <1>3. RowsInv'
    BY <1>1 DEF LInv, RowsInv
  <1>4. OwnersInv'
    BY <1>1, <1>2 DEF LInv, OwnersInv
  <1>5. WorkInv'
    <2> SUFFICES ASSUME NEW t \in Scans, owner[t] # p PROVE SameWords(content, c, t)
      BY <1>1 DEF WorkInv
    <2>1. SameWords(content, Latest, t) /\ SameWords(Latest, c, t)
      BY <1>1 DEF LInv, WorkInv
    <2> QED
      BY <2>1 DEF SameWords
  <1>6. PlanInv'
    <2> SUFFICES ASSUME NEW t \in Scans, owner[t] # NoProcess PROVE Kept(c, t, plan'[t])
      BY <1>1 DEF PlanInv
    <2>1. CASE t = s
      BY <1>2, <2>1
    <2>2. CASE t # s
      <3>1. Kept(Latest, t, plan[t]) /\ plan[t] \in Plans \cup {NoPlan}
        BY DEF LInv, PlanInv, OwnersInv
      <3>2. SameWords(Latest, c, t)
        BY <2>2
      <3> QED
        BY <1>2, <2>2, <3>1, <3>2, KeptSame
    <2> QED
      BY <2>1, <2>2
  <1> QED
    BY <1>3, <1>4, <1>5, <1>6 DEF LInv

\* What is known of the scan before such a write.
LEMMA BeforeWork ==
  ASSUME DatabaseIInv, LInv, NEW p \in Processes, NEW s \in Scans, NEW c, Write(p, c), Planned(p, s)
  PROVE  /\ Latest = work.content /\ IsCatalog(Latest) /\ HistoryInv(Latest)
         /\ Latest.scans \in ScanRows /\ Latest.assets \in AssetRows
         /\ plan[s] \in Plans /\ plan[s] # NoPlan
         /\ Kept(Latest, s, plan[s]) /\ Latest.scans[s].state # "none"
  <1>1. Latest = work.content /\ owner[s] = p /\ plan[s] # NoPlan /\ p # NoProcess
    BY InWork, DatabaseAssumption DEF Planned
  <1>2. IsCatalog(Latest) /\ HistoryInv(Latest) /\ plan[s] \in Plans /\ Kept(Latest, s, plan[s])
    BY <1>1 DEF LInv, RowsInv, OwnersInv, PlanInv
  <1> QED
    BY <1>1, <1>2, CatalogFields DEF Kept

\* A mark of a scan that runs.
LEMMA SeesKeeps ==
  ASSUME NEW c, IsCatalog(c), HistoryInv(c), NEW s \in Scans, Running(c, s), NEW a \in Assets,
         NEW to \in States, NEW d, d = SeeAs(c, s, a, to)
  PROVE  /\ IsCatalog(d) /\ HistoryInv(d) /\ d.scans = c.scans
         /\ Found(d.assets[a], s) /\ \A b \in Assets : b # a => d.assets[b] = c.assets[b]
         /\ \A t \in Scans : t # s => SameWords(c, d, t)
  <1> DEFINE new == Marked(c.scans, c.assets[a], s, to)
  <1>1. c.scans \in ScanRows /\ c.assets[a] \in AssetRow /\ RowInv(c.scans, c.assets[a])
    BY CatalogFields DEF AssetRows, HistoryInv
  <1>2. c.scans[s].state # "none"
    BY DEF Running
  <1>3. new \in AssetRow /\ RowInv(c.scans, new)
    BY <1>1, <1>2, MarkKeepsRow
  <1>4. new.said = [c.assets[a].said EXCEPT ![s] = to]
    BY DEF Marked
  <1> HIDE DEF new
  <1>5. /\ IsCatalog(d) /\ d.scans = c.scans /\ d.assets[a] = new
        /\ \A b \in Assets : b # a => d.assets[b] = c.assets[b]
    <2>1. new = Marked(c.scans, c.assets[a], s, to)
      BY DEF new
    <2> QED
      BY <1>3, <2>1, SeesRow
  <1>6. HistoryInv(d)
    BY <1>3, <1>5 DEF HistoryInv
  <1>7. new.said[s] = to /\ \A t \in Scans : t # s => new.said[t] = c.assets[a].said[t]
    BY <1>1, <1>4 DEF AssetRow
  <1>8. Found(d.assets[a], s)
    BY <1>5, <1>7 DEF Found
  <1>9. ASSUME NEW t \in Scans, t # s PROVE SameWords(c, d, t)
    BY <1>5, <1>7, <1>9 DEF SameWords
  <1> QED
    BY <1>5, <1>6, <1>8, <1>9

LEMMA SeesNothing ==
  ASSUME NEW c, NEW s, ~Running(c, s), NEW a, NEW to PROVE SeeAs(c, s, a, to) = c
  BY DEF SeeAs, MarkAssetSeen, Heard

LEMMA SeeAssetKeeps ==
  ASSUME DatabaseIInv, LInv, NEW p \in Processes, NEW s \in Scans, NEW a \in Assets,
         SeeAsset(p, s, a)
  PROVE  LInv'
  <1> DEFINE to == plan[s].events[a].to
             c == SeeAs(work.content, s, a, to)
             r == [plan[s] EXCEPT !.todo = @ \ {a}]
  <1>1. Write(p, c) /\ Planned(p, s) /\ a \in plan[s].todo /\ owner' = owner
        /\ plan' = [plan EXCEPT ![s].todo = @ \ {a}]
    BY DEF SeeAsset
  <1>2. /\ Latest = work.content /\ IsCatalog(Latest) /\ HistoryInv(Latest)
        /\ plan[s] \in Plans /\ plan[s] # NoPlan /\ Kept(Latest, s, plan[s])
    BY <1>1, BeforeWork
  <1>3. a \in DOMAIN plan[s].events /\ plan[s].events[a].kind # "Missing"
    BY <1>1, <1>2 DEF Kept
  <1>4. to \in States
    BY <1>2, <1>3 DEF Plans, Runs, Events
  <1>5. /\ r \in Plans /\ r.events = plan[s].events /\ r.todo = plan[s].todo \ {a}
    BY <1>2 DEF Plans
  <1>6. plan' = [plan EXCEPT ![s] = r]
    BY <1>1
  <1> HIDE DEF to, r, c
  <1>7. r # NoPlan
    BY <1>5, LibraryAssumption
  <1>8. CASE Running(Latest, s)
    <2>1. c = SeeAs(Latest, s, a, to)
      BY <1>2 DEF c
    <2>2. /\ IsCatalog(c) /\ HistoryInv(c) /\ c.scans = Latest.scans
          /\ Found(c.assets[a], s) /\ \A b \in Assets : b # a => c.assets[b] = Latest.assets[b]
          /\ \A t \in Scans : t # s => SameWords(Latest, c, t)
      BY <1>2, <1>4, <1>8, <2>1, SeesKeeps
    <2>3. Kept(c, s, r)
      <3>1. c.scans[s].state # "none"
        BY <1>2, <2>2 DEF Kept
      <3>2. \A b \in r.todo : b \in DOMAIN r.events /\ r.events[b].kind # "Missing"
        BY <1>2, <1>5 DEF Kept
      <3>3. ASSUME NEW b \in DOMAIN r.events
            PROVE  /\ r.events[b].kind = "Missing" => ~Found(c.assets[b], s)
                   /\ r.events[b].kind # "Missing" /\ b \notin r.todo =>
                        Found(c.assets[b], s) \/ ~Running(c, s)
        <4>1. b \in Assets
          BY <1>2, <1>5 DEF Plans, Runs
        <4>2. CASE b = a
          BY <1>3, <1>5, <2>2, <4>2
        <4>3. CASE b # a
          BY <1>2, <1>5, <2>2, <4>1, <4>3 DEF Kept, Running
        <4> QED
          BY <4>2, <4>3
      <3> QED
        BY <1>7, <3>1, <3>2, <3>3 DEF Kept
    <2> QED
      BY <1>1, <1>5, <1>6, <2>2, <2>3, WorkKeeps
  <1>9. CASE ~Running(Latest, s)
    <2>1. c = Latest
      BY <1>2, <1>9, SeesNothing DEF c
    <2>2. Kept(c, s, r)
      BY <1>2, <1>5, <1>7, <1>9, <2>1 DEF Kept
    <2> QED
      BY <1>1, <1>2, <1>5, <1>6, <2>1, <2>2, SameAsItself, WorkKeeps
  <1> QED
    BY <1>8, <1>9

LEMMA ProbeAssetKeeps ==
  ASSUME DatabaseIInv, LInv, NEW p \in Processes, NEW s \in Scans, NEW a \in Assets,
         NEW result, ProbeAsset(p, s, a, result)
  PROVE  LInv'
  <1> DEFINE to == Observe(work.content.assets[a].state, result)
             c == SeeAs(work.content, s, a, to)
  <1>1. /\ Write(p, c) /\ Planned(p, s) /\ a \in DOMAIN plan[s].events
        /\ to # Invalid /\ plan[s].events[a].kind # "Missing"
        /\ owner' = owner /\ plan' = plan
    BY DEF ProbeAsset, scanVars
  <1>2. /\ Latest = work.content /\ IsCatalog(Latest) /\ HistoryInv(Latest)
        /\ plan[s] \in Plans /\ plan[s] # NoPlan /\ Kept(Latest, s, plan[s])
    BY <1>1, BeforeWork
  <1>3. to \in States
    BY <1>1, Observed
  <1>4. plan' = [plan EXCEPT ![s] = plan[s]]
    BY <1>1 DEF LInv, OwnersInv
  <1> HIDE DEF to, c
  <1>5. CASE Running(Latest, s)
    <2>1. c = SeeAs(Latest, s, a, to)
      BY <1>2 DEF c
    <2>2. /\ IsCatalog(c) /\ HistoryInv(c) /\ c.scans = Latest.scans
          /\ Found(c.assets[a], s) /\ \A b \in Assets : b # a => c.assets[b] = Latest.assets[b]
          /\ \A t \in Scans : t # s => SameWords(Latest, c, t)
      BY <1>2, <1>3, <1>5, <2>1, SeesKeeps
    <2>3. Kept(c, s, plan[s])
      <3>1. c.scans[s].state # "none"
        BY <1>2, <2>2 DEF Kept
      <3>2. ASSUME NEW b \in DOMAIN plan[s].events
            PROVE  /\ plan[s].events[b].kind = "Missing" => ~Found(c.assets[b], s)
                   /\ plan[s].events[b].kind # "Missing" /\ b \notin plan[s].todo =>
                        Found(c.assets[b], s) \/ ~Running(c, s)
        <4>1. b \in Assets
          BY <1>2 DEF Plans, Runs
        <4>2. CASE b = a
          BY <1>1, <2>2, <4>2
        <4>3. CASE b # a
          BY <1>2, <2>2, <4>1, <4>3 DEF Kept, Running
        <4> QED
          BY <4>2, <4>3
      <3> QED
        BY <1>2, <3>1, <3>2 DEF Kept
    <2> QED
      BY <1>1, <1>2, <1>4, <2>2, <2>3, WorkKeeps
  <1>6. CASE ~Running(Latest, s)
    <2>1. c = Latest
      BY <1>2, <1>6, SeesNothing DEF c
    <2> QED
      BY <1>1, <1>2, <1>4, <2>1, SameAsItself, WorkKeeps
  <1> QED
    BY <1>5, <1>6

\* A sweep finds every asset of its scope either marked by this scan or not found by it.
LEMMA SweepMissingKeeps ==
  ASSUME DatabaseIInv, LInv, NEW p \in Processes, NEW s \in Scans,
         NEW scope \in Directories, SweepMissing(p, s, scope)
  PROVE  LInv'
  <1> DEFINE gone == {b \in scope : plan[s].events[b].kind = "Missing"}
             c == Sweep(work.content, s, scope)
             r == [plan[s] EXCEPT !.swept = @ \cup scope]
  <1>1. /\ Write(p, c) /\ Planned(p, s) /\ plan[s].todo = {} /\ owner' = owner
        /\ scope \subseteq DOMAIN plan[s].events
        /\ plan' = [plan EXCEPT ![s].swept = @ \cup scope]
    BY DEF SweepMissing
  <1>2. /\ Latest = work.content /\ IsCatalog(Latest) /\ HistoryInv(Latest)
        /\ Latest.scans \in ScanRows /\ Latest.assets \in AssetRows
        /\ plan[s] \in Plans /\ plan[s] # NoPlan /\ Kept(Latest, s, plan[s])
        /\ Latest.scans[s].state # "none"
    BY <1>1, BeforeWork
  <1>3. scope \subseteq Assets
    BY LibraryAssumption
  <1>4. r \in Plans /\ r.events = plan[s].events /\ r.todo = {}
    BY <1>1, <1>2, <1>3 DEF Plans
  <1>5. plan' = [plan EXCEPT ![s] = r]
    BY <1>1
  <1> HIDE DEF r
  <1>6. r # NoPlan
    BY <1>4, LibraryAssumption
  <1>7. c = Heard(MarkMissingAssets(Latest, s, scope), s, [a \in gone |-> "absent"])
    BY <1>2 DEF Sweep, Absent
  <1>8. gone \in SUBSET scope
    OBVIOUS
  <1> HIDE DEF c, gone
  <1>9. CASE Running(Latest, s)
    <2>1. /\ IsCatalog(c) /\ c.scans = Latest.scans
          /\ \A a \in Assets : c.assets[a] = SweptRow(Latest, s, scope, gone, a)
      BY <1>2, <1>7, <1>8, <1>9, SweepsRows
    <2>2. ASSUME NEW a \in Assets
          PROVE  /\ RowInv(c.scans, c.assets[a])
                 /\ Found(c.assets[a], s) <=> Found(Latest.assets[a], s)
                 /\ \A t \in Scans : t # s => c.assets[a].said[t] = Latest.assets[a].said[t]
      <3> DEFINE row == Latest.assets[a]
      <3>1. row \in AssetRow /\ RowInv(Latest.scans, row)
        BY <1>2 DEF AssetRows, HistoryInv
      <3>2. a \in gone => ~Found(row, s)
        BY <1>1, <1>2 DEF Kept, gone
      <3>3. a \in scope /\ a \notin gone => Found(row, s)
        BY <1>1, <1>2, <1>9 DEF Kept, gone
      <3> HIDE DEF row
      <3>4. c.assets[a] = IF a \in gone THEN Missed(Latest.scans, row, s)
                          ELSE IF a \in scope THEN Swept(Latest.scans, row, s) ELSE row
        BY <2>1 DEF SweptRow, row
      <3>5. CASE a \in gone
        <4>1. c.assets[a] = Missed(Latest.scans, row, s) /\ RowInv(Latest.scans, c.assets[a])
          BY <1>2, <3>1, <3>2, <3>4, <3>5, SweepKeepsMissed
        <4>2. c.assets[a].said = [row.said EXCEPT ![s] = "absent"]
          BY <3>1, <4>1, MissedFields
        <4>3. /\ c.assets[a].said[s] = "absent"
              /\ \A t \in Scans : t # s => c.assets[a].said[t] = row.said[t]
          BY <3>1, <4>2 DEF AssetRow
        <4>4. ~Found(c.assets[a], s)
          BY <4>3 DEF Found, States
        <4> QED
          BY <2>1, <3>2, <3>5, <4>1, <4>3, <4>4 DEF row
      <3>6. CASE a \in scope /\ a \notin gone
        <4>1. c.assets[a] = Swept(Latest.scans, row, s) /\ RowInv(Latest.scans, c.assets[a])
          BY <1>2, <3>1, <3>3, <3>4, <3>6, SweepKeepsFound
        <4>2. c.assets[a].said = row.said
          BY <3>1, <4>1, SweptFields
        <4> QED
          BY <2>1, <4>1, <4>2 DEF Found, row
      <3>7. CASE a \notin scope
        <4>1. c.assets[a] = row
          BY <1>8, <3>4, <3>7
        <4> QED
          BY <2>1, <3>1, <4>1 DEF row
      <3> QED
        BY <3>5, <3>6, <3>7
    <2>3. HistoryInv(c)
      BY <2>2 DEF HistoryInv
    <2>4. \A t \in Scans : t # s => SameWords(Latest, c, t)
      BY <2>1, <2>2 DEF SameWords
    <2>5. Kept(c, s, r)
      <3>1. DOMAIN r.events \subseteq Assets
        BY <1>2, <1>4 DEF Plans, Runs
      <3> QED
        BY <1>1, <1>2, <1>4, <1>6, <2>1, <2>2, <3>1 DEF Kept, Running
    <2> QED
      BY <1>1, <1>4, <1>5, <2>1, <2>3, <2>4, <2>5, WorkKeeps
  <1>10. CASE ~Running(Latest, s)
    <2>1. c = Latest
      BY <1>7, <1>10 DEF MarkMissingAssets, Heard
    <2>2. Kept(c, s, r)
      BY <1>1, <1>2, <1>4, <1>6, <1>10, <2>1 DEF Kept
    <2> QED
      BY <1>1, <1>2, <1>4, <1>5, <2>1, <2>2, SameAsItself, WorkKeeps
  <1> QED
    BY <1>9, <1>10

LEMMA CompleteKeeps ==
  ASSUME DatabaseIInv, LInv, NEW p \in Processes, NEW s \in Scans, Complete(p, s)
  PROVE  LInv'
  <1> DEFINE c == FinishScan(work.content, s, "completed")
  <1>1. /\ Write(p, c) /\ Planned(p, s) /\ owner' = owner /\ plan' = plan
    BY DEF Complete, scanVars
  <1>2. /\ Latest = work.content /\ IsCatalog(Latest) /\ HistoryInv(Latest)
        /\ plan[s] \in Plans /\ Kept(Latest, s, plan[s])
    BY <1>1, BeforeWork
  <1> HIDE DEF c
  <1>3. c = FinishScan(Latest, s, "completed")
    BY <1>2 DEF c
  <1>4. /\ IsCatalog(c) /\ HistoryInv(c) /\ c.assets = Latest.assets
        /\ \A t \in Scans : t # s => SameWords(Latest, c, t)
        /\ c.scans[s].state = "none" <=> Latest.scans[s].state = "none"
        /\ ~Running(c, s)
    BY <1>2, <1>3, FinishKeepsRows
  <1>5. Kept(c, s, plan[s])
    BY <1>2, <1>4, KeptOfOver
  <1>6. plan' = [plan EXCEPT ![s] = plan[s]]
    BY <1>1 DEF LInv, OwnersInv
  <1> QED
    BY <1>1, <1>2, <1>4, <1>5, <1>6, WorkKeeps

-----------------------------------------------------------------------------
LEMMA ScanKeeps ==
  ASSUME DatabaseIInv, LInv, NEW p \in Processes, Scanning(p)
  PROVE  LInv'
  <1>1. PICK s \in Scans :
          \/ \E at \in Times : BeginScan(p, s, at)
          \/ \E some \in SUBSET Directories \ {{}} :
               \E observed \in [UNION some -> Prints \cup {Gone}] :
                 BuildRun(p, s, UNION some, observed)
          \/ \E a \in Assets : SeeAsset(p, s, a) \/ \E r \in Results : ProbeAsset(p, s, a, r)
          \/ \E scope \in Directories : SweepMissing(p, s, scope)
          \/ Complete(p, s) \/ Fail(p, s)
    BY Zenon DEF Scanning
  <1>2. \A some \in SUBSET Directories : UNION some \in SUBSET Assets
    BY LibraryAssumption
  <1>3. ASSUME NEW some \in SUBSET Directories, NEW observed, BuildRun(p, s, UNION some, observed)
        PROVE  LInv'
    BY <1>2, <1>3, BuildRunKeeps
  <1> QED
    BY <1>1, <1>3, BeginScanKeeps, SeeAssetKeeps, ProbeAssetKeeps, SweepMissingKeeps,
       CompleteKeeps, FailKeeps

LEMMA LibraryKeeps ==
  ASSUME DatabaseIInv, LInv, LibraryNext
  PROVE  LInv'
  <1> SUFFICES ASSUME NEW p \in Processes,
                      \/ (\/ \E b \in Binaries : Open(p, b)
                          \/ Migrate(p)
                          \/ BeginWrite(p)) /\ UNCHANGED scanVars
                      \/ Scanning(p)
                      \/ \E f \in Facts : AddFact(p, f)
                      \/ Rebuild(p) \/ ClearStats(p)
                      \/ Commit(p) \/ Abandon(p)
               PROVE  LInv'
    BY DEF LibraryNext
  <1>1. CASE (\/ \E b \in Binaries : Open(p, b)
             \/ Migrate(p)
             \/ BeginWrite(p)) /\ UNCHANGED scanVars
    BY <1>1, OpenQuiet, MigrateQuiet, BeginWriteQuiet
  <1>2. CASE (\E f \in Facts : AddFact(p, f)) \/ Rebuild(p) \/ ClearStats(p)
    <2>1. /\ \A f \in Facts : SameScans(content, ApplyPlayFact(content, f))
          /\ SameScans(content, ClearPlayStats(content))
          /\ SameScans(content, Rebuilt(content))
      BY StatsLeaveScans DEF LInv, RowsInv
    <2> QED
      BY <1>2, <2>1, StatsKeeps DEF AddFact, Rebuild, ClearStats
  <1> QED
    BY <1>1, <1>2, ScanKeeps, CommitKeeps, AbandonKeeps

LEMMA LInvHolds == LibrarySpec => []LInv
  <1>1. LibraryInit => LInv
    BY InitLInv
  <1>2. DatabaseIInv /\ LInv /\ [LibraryNext]_libraryVars => LInv'
    BY LibraryKeeps, StutterQuiet
  <1> QED
    BY <1>1, <1>2, IInvHolds, PTL DEF LibrarySpec

\* Whatever is committed, the row of an asset follows the newest scan that spoke of
\* it, unless its last mark came late, for any assets, scans and clocks, however the
\* scans overlap, and through every rollback, panic and crash (scan_observation.rs,
\* mark_missing_assets: the order by started_at and id).
THEOREM NewestStaysCounted == LibrarySpec => []NewestScanCounts
  <1>1. LInv => NewestScanCounts
    BY DEF LInv, RowsInv, HistoryInv, RowInv, FollowsNewest, NewestScanCounts
  <1> QED
    BY <1>1, LInvHolds, PTL

-----------------------------------------------------------------------------
(* Induction, as the least of a set of numbers and as a smallest set: a     *)
(* property of all is a set of exceptions that has no least one.            *)
LEMMA LeastNumber ==
  ASSUME NEW T \in SUBSET Nat, T # {}
  PROVE  \E n \in T : \A m \in T : n <= m
  <1> DEFINE R == OpToRel(<, Nat)
  <1>1. IsWellFoundedOn(R, Nat)
    BY NatLessThanWellFounded, Zenon
  <1>2. ASSUME NEW m \in Nat, NEW n \in Nat, m < n PROVE <<m, n>> \in R
    BY <1>2, Zenon DEF OpToRel
  <1> HIDE DEF R
  <1>3. PICK n \in T : \A m \in T : <<m, n>> \notin R
    BY <1>1, WFMin
  <1>4. ASSUME NEW m \in T PROVE n <= m
    <2>1. ~(m < n)
      BY <1>2, <1>3
    <2> QED
      BY <2>1
  <1> QED
    BY <1>4

LEMMA SmallestSet ==
  ASSUME NEW S, IsFiniteSet(S), NEW T \in SUBSET SUBSET S, T # {}
  PROVE  \E t \in T : \A u \in T : u \subseteq t => u = t
  <1> DEFINE R == StrictSubsetOrdering(S)
  <1>1. IsWellFoundedOn(R, SUBSET S)
    BY FS_StrictSubsetOrderingWellFounded, FS_FiniteSubsetsOfFinite
  <1>2. ASSUME NEW u \in SUBSET S, NEW t \in SUBSET S, u \subseteq t, u # t
        PROVE  <<u, t>> \in R
    BY <1>2 DEF StrictSubsetOrdering
  <1> HIDE DEF R
  <1>3. PICK t \in T : \A u \in T : <<u, t>> \notin R
    BY <1>1, WFMin
  <1> QED
    BY <1>2, <1>3

-----------------------------------------------------------------------------
(* The sum of the lengths of a set of facts.                                *)

Lengths(s) == MapThenSumSet(LAMBDA f : f.ms, s)

LengthsStep(g, s) ==
  IF s = {} THEN 0 ELSE LET x == CHOOSE y \in s : TRUE IN x.ms + g[s \ {x}]

LengthsIn(s) == CHOOSE g : g = [t \in SUBSET s |-> LengthsStep(g, t)]

LEMMA LengthsIsFold == ASSUME NEW s PROVE Lengths(s) = LengthsIn(s)[s]
  BY DEF Lengths, LengthsIn, LengthsStep, MapThenSumSet, MapThenFoldSet

\* There is a function with this recursion: on the sets of n elements first.
LEMMA LengthsRecursion ==
  ASSUME NEW S, IsFiniteSet(S)
  PROVE  LengthsIn(S) = [t \in SUBSET S |-> LengthsStep(LengthsIn(S), t)]
  <1> DEFINE Small(n) == {t \in SUBSET S : Cardinality(t) <= n}
             Bad == {n \in Nat : ~ \E g : g = [t \in Small(n) |-> LengthsStep(g, t)]}
  <1>1. \A t \in SUBSET S : IsFiniteSet(t) /\ Cardinality(t) \in Nat
    BY FS_Subset, FS_CardinalityType
  <1>2. Bad = {}
    <2> SUFFICES ASSUME Bad # {} PROVE FALSE
      OBVIOUS
    <2>1. PICK n \in Bad : \A m \in Bad : n <= m
      <3> HIDE DEF Bad
      <3>1. Bad \in SUBSET Nat
        BY DEF Bad
      <3> QED
        BY <3>1, LeastNumber
    <2>2. PICK g : n # 0 => g = [t \in Small(n - 1) |-> LengthsStep(g, t)]
      <3>1. CASE n = 0
        BY <3>1
      <3>2. CASE n # 0
        <4>1. n \in Nat
          OBVIOUS
        <4>2. n - 1 \in Nat /\ ~(n <= n - 1)
          BY <3>2, <4>1
        <4>3. n - 1 \notin Bad
          <5> HIDE DEF Bad
          <5> QED
            BY <2>1, <4>2
        <4> QED
          BY <4>2, <4>3
      <3> QED
        BY <3>1, <3>2
    <2> DEFINE h == [t \in Small(n) |-> LengthsStep(g, t)]
    <2>3. ASSUME NEW t \in Small(n) PROVE LengthsStep(h, t) = LengthsStep(g, t)
      <3>1. CASE t = {}
        BY <3>1 DEF LengthsStep
      <3>2. CASE t # {}
        <4> DEFINE x == CHOOSE y \in t : TRUE
                   r == t \ {x}
        <4>1. x \in t
          BY <3>2
        <4>2. IsFiniteSet(t) /\ Cardinality(r) = Cardinality(t) - 1 /\ Cardinality(t) \in Nat
          BY <1>1, <4>1, FS_RemoveElement
        <4>3. r \in SUBSET S /\ Cardinality(r) \in Nat /\ n \in Nat /\ Cardinality(t) <= n
          BY <1>1
        <4>4. n # 0 /\ r \in Small(n - 1) /\ r \in Small(n)
          BY <4>2, <4>3
        <4> HIDE DEF r, Small
        <4>5. g[r] = LengthsStep(g, r) /\ h[r] = LengthsStep(g, r)
          <5>1. g = [u \in Small(n - 1) |-> LengthsStep(g, u)]
            BY <2>2, <4>4
          <5> QED
            BY <4>4, <5>1
        <4> HIDE DEF h
        <4> QED
          BY <3>2, <4>5 DEF LengthsStep, r
      <3> QED
        BY <3>1, <3>2
    <2>4. h = [t \in Small(n) |-> LengthsStep(h, t)]
      <3> HIDE DEF Small
      <3> QED
        BY <2>3
    <2> HIDE DEF h
    <2> QED
      BY <2>1, <2>4
  <1>3. Cardinality(S) \in Nat /\ Small(Cardinality(S)) = SUBSET S
    BY FS_CardinalityType, FS_Subset
  <1>4. \E g : g = [t \in SUBSET S |-> LengthsStep(g, t)]
    <2> DEFINE k == Cardinality(S)
    <2>1. k \in Nat /\ k \notin Bad
      BY <1>2, <1>3
    <2>2. \E g : g = [t \in Small(k) |-> LengthsStep(g, t)]
      <3> HIDE DEF Small, k
      <3> QED
        BY <2>1
    <2>3. Small(k) = SUBSET S
      BY <1>3
    <2> HIDE DEF Small, k
    <2> QED
      BY <2>2, <2>3
  <1> QED
    BY <1>4 DEF LengthsIn

\* It says the same of a set whatever larger set it was taken for.
LEMMA LengthsAgree ==
  ASSUME NEW S, IsFiniteSet(S), NEW t \in SUBSET S
  PROVE  LengthsIn(S)[t] = Lengths(t)
  <1> DEFINE g == LengthsIn(S)
             h == LengthsIn(t)
             Bad == {u \in SUBSET t : g[u] # h[u]}
  <1>1. IsFiniteSet(t)
    BY FS_Subset
  <1>2. \A u \in SUBSET t : g[u] = LengthsStep(g, u) /\ h[u] = LengthsStep(h, u)
    <2>1. g = [u \in SUBSET S |-> LengthsStep(g, u)]
      BY LengthsRecursion
    <2>2. h = [u \in SUBSET t |-> LengthsStep(h, u)]
      BY <1>1, LengthsRecursion
    <2> HIDE DEF g, h
    <2> QED
      BY <2>1, <2>2
  <1> HIDE DEF g, h
  <1>3. Bad = {}
    <2> SUFFICES ASSUME Bad # {} PROVE FALSE
      OBVIOUS
    <2>1. PICK u \in Bad : \A v \in Bad : v \subseteq u => v = u
      <3>1. Bad \in SUBSET SUBSET t
        OBVIOUS
      <3> HIDE DEF Bad
      <3> QED
        BY <1>1, <3>1, SmallestSet
    <2>2. u # {}
      BY <1>2 DEF LengthsStep
    <2> DEFINE x == CHOOSE y \in u : TRUE
    <2>3. x \in u
      BY <2>2
    <2>4. u \ {x} \in SUBSET t /\ u \ {x} \notin Bad
      BY <2>1, <2>3
    <2>5. g[u \ {x}] = h[u \ {x}]
      BY <2>4
    <2> QED
      BY <1>2, <2>2, <2>5 DEF LengthsStep
  <1>4. g[t] = h[t]
    BY <1>3
  <1> QED
    BY <1>4, LengthsIsFold DEF g, h

LEMMA LengthsOfNone == Lengths({}) = 0
  <1>1. IsFiniteSet({})
    BY FS_EmptySet
  <1>2. LengthsIn({})[{}] = LengthsStep(LengthsIn({}), {})
    BY <1>1, LengthsRecursion
  <1> QED
    BY <1>2, LengthsIsFold DEF LengthsStep

LEMMA LengthsOfSome ==
  ASSUME NEW S, IsFiniteSet(S), S # {}
  PROVE  \E x \in S : Lengths(S) = x.ms + Lengths(S \ {x})
  <1> DEFINE x == CHOOSE y \in S : TRUE
  <1>1. x \in S
    OBVIOUS
  <1>2. LengthsIn(S)[S] = LengthsStep(LengthsIn(S), S)
    BY LengthsRecursion
  <1>3. LengthsIn(S)[S \ {x}] = Lengths(S \ {x})
    BY LengthsAgree
  <1> QED
    BY <1>1, <1>2, <1>3, LengthsIsFold DEF LengthsStep

LEMMA LengthsIsNat ==
  ASSUME NEW S, IsFiniteSet(S), \A f \in S : f.ms \in Nat
  PROVE  Lengths(S) \in Nat
  <1> DEFINE Bad == {u \in SUBSET S : Lengths(u) \notin Nat}
  <1> SUFFICES ASSUME Bad # {} PROVE FALSE
    OBVIOUS
  <1>1. PICK u \in Bad : \A v \in Bad : v \subseteq u => v = u
    <2>1. Bad \in SUBSET SUBSET S
      OBVIOUS
    <2> HIDE DEF Bad
    <2> QED
      BY <2>1, SmallestSet
  <1>2. u # {} /\ IsFiniteSet(u)
    <2>1. u # {}
      BY LengthsOfNone
    <2>2. u \in SUBSET S
      OBVIOUS
    <2> QED
      BY <2>1, <2>2, FS_Subset
  <1>3. PICK x \in u : Lengths(u) = x.ms + Lengths(u \ {x})
    BY <1>2, LengthsOfSome
  <1>4. Lengths(u \ {x}) \in Nat /\ x.ms \in Nat
    BY <1>1
  <1> QED
    BY <1>3, <1>4

LEMMA LengthsWithout ==
  ASSUME NEW S, IsFiniteSet(S), \A f \in S : f.ms \in Nat, NEW f \in S
  PROVE  Lengths(S) = f.ms + Lengths(S \ {f})
  <1> DEFINE Bad == {u \in SUBSET S : \E e \in u : Lengths(u) # e.ms + Lengths(u \ {e})}
  <1> SUFFICES ASSUME Bad # {} PROVE FALSE
    OBVIOUS
  <1>1. PICK u \in Bad : \A v \in Bad : v \subseteq u => v = u
    <2>1. Bad \in SUBSET SUBSET S
      OBVIOUS
    <2> HIDE DEF Bad
    <2> QED
      BY <2>1, SmallestSet
  <1>2. PICK e \in u : Lengths(u) # e.ms + Lengths(u \ {e})
    OBVIOUS
  <1>3. PICK x \in u : Lengths(u) = x.ms + Lengths(u \ {x})
    BY LengthsOfSome, FS_Subset
  <1>4. x # e
    BY <1>2, <1>3
  <1> DEFINE r == (u \ {x}) \ {e}
  <1>5. Lengths(u \ {x}) = e.ms + Lengths(r)
    <2>1. u \ {x} \in SUBSET S /\ u \ {x} \notin Bad
      <3>1. u \ {x} \in SUBSET S /\ u \ {x} # u
        OBVIOUS
      <3> HIDE DEF Bad
      <3> QED
        BY <1>1, <3>1
    <2>2. e \in u \ {x}
      BY <1>4
    <2> QED
      BY <2>1, <2>2
  <1>6. Lengths(u \ {e}) = x.ms + Lengths(r)
    <2>1. u \ {e} \in SUBSET S /\ u \ {e} \notin Bad
      <3>1. u \ {e} \in SUBSET S /\ u \ {e} # u
        OBVIOUS
      <3> HIDE DEF Bad
      <3> QED
        BY <1>1, <3>1
    <2>2. x \in u \ {e} /\ r = (u \ {e}) \ {x}
      BY <1>4
    <2> HIDE DEF r
    <2> QED
      BY <2>1, <2>2
  <1>7. Lengths(r) \in Nat /\ e.ms \in Nat /\ x.ms \in Nat
    <2>1. r \in SUBSET S /\ IsFiniteSet(r)
      BY FS_Subset
    <2> QED
      BY <2>1, LengthsIsNat
  <1> QED
    BY <1>2, <1>3, <1>5, <1>6, <1>7

-----------------------------------------------------------------------------
\* When a set of facts last played.
LastOf(s) == IF s = {} THEN 0 ELSE Max({f.at : f \in s})

LEMMA LastIsOne ==
  ASSUME NEW S, IsFiniteSet(S), S # {}, \A f \in S : f.at \in Nat
  PROVE  /\ \A f \in S : f.at <= LastOf(S)
         /\ \E f \in S : LastOf(S) = f.at
  <1> DEFINE Bad == {u \in SUBSET S : u # {} /\ ~ \E f \in u : \A g \in u : g.at <= f.at}
  <1>1. Bad = {}
    <2> SUFFICES ASSUME Bad # {} PROVE FALSE
      OBVIOUS
    <2>1. PICK u \in Bad : \A v \in Bad : v \subseteq u => v = u
      <3>1. Bad \in SUBSET SUBSET S
        OBVIOUS
      <3> HIDE DEF Bad
      <3> QED
        BY <3>1, SmallestSet
    <2>2. PICK x \in u : TRUE
      OBVIOUS
    <2>3. u \ {x} \in SUBSET S /\ u \ {x} \notin Bad
      <3>1. u \ {x} \in SUBSET S /\ u \ {x} # u
        OBVIOUS
      <3> HIDE DEF Bad
      <3> QED
        BY <2>1, <3>1
    <2>4. \A g \in u : g.at \in Nat
      OBVIOUS
    <2>5. \E f \in u : \A g \in u : g.at <= f.at
      <3>1. CASE u \ {x} = {}
        <4>1. \A g \in u : g = x
          BY <3>1
        <4> QED
          BY <2>4, <4>1
      <3>2. CASE u \ {x} # {}
        <4>1. PICK y \in u \ {x} : \A g \in u \ {x} : g.at <= y.at
          BY <2>3, <3>2
        <4>2. CASE x.at <= y.at
          BY <4>1, <4>2
        <4>3. CASE ~(x.at <= y.at)
          <5>1. \A g \in u : g.at <= x.at
            BY <2>4, <4>1, <4>3
          <5> QED
            BY <5>1
        <4> QED
          BY <4>2, <4>3
      <3> QED
        BY <3>1, <3>2
    <2> QED
      BY <2>5
  <1>2. PICK f \in S : \A g \in S : g.at <= f.at
    <2>1. S \notin Bad
      BY <1>1
    <2> QED
      BY <2>1
  <1> DEFINE T == {g.at : g \in S}
             m == CHOOSE x \in T : \A y \in T : x >= y
  <1>3. f.at \in T /\ \A y \in T : f.at >= y
    BY <1>2
  <1>4. m \in T /\ \A y \in T : m >= y
    BY <1>3
  <1>5. LastOf(S) = m
    BY DEF LastOf, Max
  <1> HIDE DEF m
  <1> QED
    BY <1>4, <1>5

LEMMA LastOfMore ==
  ASSUME NEW S, IsFiniteSet(S), NEW f, \A g \in S \cup {f} : g.at \in Nat
  PROVE  LastOf(S \cup {f}) = Later(f.at, LastOf(S))
  <1>1. IsFiniteSet(S \cup {f})
    BY FS_AddElement
  <1>2. /\ \A g \in S \cup {f} : g.at <= LastOf(S \cup {f})
        /\ \E g \in S \cup {f} : LastOf(S \cup {f}) = g.at
    BY <1>1, LastIsOne
  <1>3. CASE S = {}
    <2>1. LastOf(S) = 0 /\ LastOf(S \cup {f}) = f.at
      BY <1>2, <1>3 DEF LastOf
    <2> QED
      BY <2>1 DEF Later
  <1>4. CASE S # {}
    <2>1. /\ \A g \in S : g.at <= LastOf(S)
          /\ \E g \in S : LastOf(S) = g.at
      BY <1>4, LastIsOne
    <2> QED
      BY <1>2, <2>1 DEF Later
  <1> QED
    BY <1>3, <1>4

-----------------------------------------------------------------------------
(* What the aggregate of a set of facts is, one more fact at a time.         *)

Mine(facts, m) == {f \in facts : f.media = m}

LEMMA StatsOfMedia ==
  ASSUME NEW s
  PROVE  StatsOf(s) = [m \in Media |->
           [count |-> Cardinality(Mine(s, m)), ms |-> Lengths(Mine(s, m)),
            last |-> LastOf(Mine(s, m))]]
  BY DEF StatsOf, Mine, Lengths, LastOf

LEMMA StatsOfNone == StatsOf({}) = NoPlays
  <1>1. \A m : Mine({}, m) = {}
    BY DEF Mine
  <1>2. Cardinality({}) = 0 /\ Lengths({}) = 0 /\ LastOf({}) = 0
    BY FS_EmptySet, LengthsOfNone DEF LastOf
  <1> QED
    BY <1>1, <1>2, StatsOfMedia DEF NoPlays

LEMMA StatsOfMore ==
  ASSUME NEW s, IsFiniteSet(s), s \subseteq Facts, NEW f \in Facts, f \notin s
  PROVE  StatsOf(s \cup {f}) = [StatsOf(s) EXCEPT ![f.media] = Counted(@, f)]
  <1> DEFINE u == s \cup {f}
             mine == Mine(s, f.media)
             old == [count |-> Cardinality(mine), ms |-> Lengths(mine), last |-> LastOf(mine)]
  <1>1. \A m : m # f.media => Mine(u, m) = Mine(s, m)
    BY DEF Mine
  <1>2. Mine(u, f.media) = mine \cup {f} /\ f \notin mine
    BY DEF Mine
  <1>3. IsFiniteSet(mine) /\ mine \subseteq Facts
    <2>1. mine \in SUBSET s
      BY DEF Mine
    <2> QED
      BY <2>1, FS_Subset
  <1> HIDE DEF u, mine
  <1>4. \A g \in mine \cup {f} : g.ms \in Nat /\ g.at \in Nat
    BY <1>3, CatalogAssumption
  <1>5. Cardinality(mine \cup {f}) = Cardinality(mine) + 1
    BY <1>2, <1>3, FS_AddElement
  <1>6. Lengths(mine \cup {f}) = Lengths(mine) + f.ms
    <2> DEFINE more == mine \cup {f}
               less == more \ {f}
    <2>1. IsFiniteSet(more)
      BY <1>3, FS_AddElement
    <2>2. less = mine /\ f \in more
      BY <1>2
    <2>3. Lengths(more) = f.ms + Lengths(less)
      <3>1. \A g \in more : g.ms \in Nat
        BY <1>4
      <3> HIDE DEF more
      <3> QED
        BY <2>1, <2>2, <3>1, LengthsWithout
    <2>4. Lengths(mine) \in Nat /\ f.ms \in Nat
      BY <1>3, <1>4, LengthsIsNat
    <2> HIDE DEF more, less
    <2>5. Lengths(more) = Lengths(mine) + f.ms
      BY <2>2, <2>3, <2>4
    <2> QED
      BY <2>5 DEF more
  <1>7. LastOf(mine \cup {f}) = Later(f.at, LastOf(mine))
    BY <1>3, <1>4, LastOfMore
  <1>8. Counted(old, f) =
          [count |-> Cardinality(mine \cup {f}), ms |-> Lengths(mine \cup {f}),
           last |-> LastOf(mine \cup {f})]
    BY <1>5, <1>6, <1>7 DEF Counted
  <1>9. StatsOf(s)[f.media] = old /\ f.media \in Media
    BY StatsOfMedia, CatalogAssumption DEF mine
  <1>10. StatsOf(u)[f.media] = Counted(StatsOf(s)[f.media], f)
    BY <1>2, <1>8, <1>9, StatsOfMedia
  <1>11. \A m \in Media : m # f.media => StatsOf(u)[m] = StatsOf(s)[m]
    BY <1>1, StatsOfMedia
  <1>12. \A t : StatsOf(t) = [m \in Media |-> StatsOf(t)[m]]
    BY StatsOfMedia
  <1> QED
    BY <1>10, <1>11, <1>12 DEF u

-----------------------------------------------------------------------------
\* The marked facts, their order forgotten.
Recounted(c, s) == Rows(c.scans, c.assets, s, StatsOf(s), s)

RecountStep(c, g, s) ==
  IF s = {} THEN ResetPlayStats(c)
  ELSE LET x == CHOOSE y \in s : TRUE IN ApplyPlayFact(g[s \ {x}], x)

ReplayIn(c) == CHOOSE g : g = [s \in SUBSET c.marks |-> RecountStep(c, g, s)]

LEMMA RebuiltIsReplay ==
  ASSUME NEW c
  PROVE  Rebuilt(c) = LET d == ReplayIn(c)[c.marks]
                      IN  Rows(c.scans, c.assets, d.marks, d.plays, d.counted)
  BY DEF Rebuilt, FoldSet, MapThenFoldSet, ReplayIn, RecountStep

LEMMA ReplayedMore ==
  ASSUME NEW c, NEW s, IsFiniteSet(s), s \subseteq Facts, NEW f \in Facts, f \notin s
  PROVE  ApplyPlayFact(Recounted(c, s), f) = Recounted(c, s \cup {f})
  <1> DEFINE plays == StatsOf(s)
             more == s \cup {f}
  <1>1. StatsOf(more) = [plays EXCEPT ![f.media] = Counted(@, f)]
    BY StatsOfMore
  <1> HIDE DEF plays, more
  <1>2. ApplyPlayFact(Rows(c.scans, c.assets, s, plays, s), f)
          = Rows(c.scans, c.assets, more, [plays EXCEPT ![f.media] = Counted(@, f)], more)
    BY DEF ApplyPlayFact, Rows, more
  <1> QED
    BY <1>1, <1>2 DEF Recounted, plays, more

LEMMA Cleared ==
  ASSUME NEW scans, NEW assets, NEW marks, NEW plays, NEW counted
  PROVE  LET c == Rows(scans, assets, marks, plays, counted)
         IN  /\ ClearPlayStats(c) = Rows(scans, assets, marks, NoPlays, {})
             /\ ResetPlayStats(c) = Rows(scans, assets, {}, NoPlays, {})
  <1> DEFINE c == Rows(scans, assets, marks, plays, counted)
             d == [c EXCEPT !.plays = NoPlays]
             e == [d EXCEPT !.marks = {}]
  <1>1. /\ ClearPlayStats(c) = [d EXCEPT !.counted = {}]
        /\ ResetPlayStats(c) = [e EXCEPT !.counted = {}]
    <2> HIDE DEF c
    <2> QED
      BY DEF ClearPlayStats, ResetPlayStats
  <1>2. d = Rows(scans, assets, marks, NoPlays, counted)
    BY DEF Rows
  <1> HIDE DEF c, d
  <1>3. e = Rows(scans, assets, {}, NoPlays, counted)
    BY <1>2 DEF Rows
  <1> HIDE DEF e
  <1>4. /\ [d EXCEPT !.counted = {}] = Rows(scans, assets, marks, NoPlays, {})
        /\ [e EXCEPT !.counted = {}] = Rows(scans, assets, {}, NoPlays, {})
    BY <1>2, <1>3 DEF Rows
  <1> QED
    BY <1>1, <1>4 DEF c

\* Rebuilding the projection gives every marked fact its place in it, once.
LEMMA RebuiltCounts ==
  ASSUME NEW scans, NEW assets, NEW marks, NEW plays, NEW counted, NEW c,
         c = Rows(scans, assets, marks, plays, counted),
         IsFiniteSet(marks), marks \subseteq Facts
  PROVE  Rebuilt(c) = Rows(scans, assets, marks, StatsOf(marks), marks)
  <1> DEFINE h == [s \in SUBSET marks |-> Recounted(c, s)]
  <1>1. c.scans = scans /\ c.assets = assets /\ c.marks = marks
    BY DEF Rows
  <1>2. ASSUME NEW s \in SUBSET marks PROVE RecountStep(c, h, s) = Recounted(c, s)
    <2>1. CASE s = {}
      <3>1. ResetPlayStats(Rows(scans, assets, marks, plays, counted))
              = Rows(scans, assets, {}, NoPlays, {})
        BY Cleared
      <3> QED
        BY <1>1, <2>1, <3>1, StatsOfNone DEF RecountStep, Recounted
    <2>2. CASE s # {}
      <3> DEFINE x == CHOOSE y \in s : TRUE
                 r == s \ {x}
      <3>1. x \in s
        BY <2>2
      <3>2. /\ r \in SUBSET marks /\ r \subseteq Facts /\ IsFiniteSet(r)
            /\ x \in Facts /\ x \notin r /\ r \cup {x} = s
        BY <3>1, FS_Subset
      <3>3. RecountStep(c, h, s) = ApplyPlayFact(h[r], x)
        BY <2>2 DEF RecountStep
      <3> HIDE DEF x, r
      <3> QED
        BY <3>2, <3>3, ReplayedMore
    <2> QED
      BY <2>1, <2>2
  <1>3. h = [s \in SUBSET marks |-> RecountStep(c, h, s)]
    <2>1. h = [s \in SUBSET marks |-> Recounted(c, s)]
      OBVIOUS
    <2> HIDE DEF h
    <2> QED
      BY <1>2, <2>1
  <1> DEFINE g == ReplayIn(c)
  <1>4. g = [s \in SUBSET marks |-> RecountStep(c, g, s)]
    <2>1. \E e : e = [s \in SUBSET marks |-> RecountStep(c, e, s)]
      <3> HIDE DEF h
      <3> QED
        BY <1>3
    <2> QED
      BY <1>1, <2>1 DEF ReplayIn
  <1> DEFINE Bad == {s \in SUBSET marks : g[s] # h[s]}
  <1> HIDE DEF g, h
  <1>5. Bad = {}
    <2> SUFFICES ASSUME Bad # {} PROVE FALSE
      OBVIOUS
    <2>1. PICK s \in Bad : \A v \in Bad : v \subseteq s => v = s
      <3>1. Bad \in SUBSET SUBSET marks
        OBVIOUS
      <3> HIDE DEF Bad
      <3> QED
        BY <3>1, SmallestSet
    <2>2. g[s] = RecountStep(c, g, s) /\ h[s] = RecountStep(c, h, s)
      <3>1. s \in SUBSET marks
        OBVIOUS
      <3> HIDE DEF Bad
      <3> QED
        BY <1>3, <1>4, <3>1
    <2>3. s # {}
      BY <2>2 DEF RecountStep
    <2> DEFINE x == CHOOSE y \in s : TRUE
    <2>4. x \in s
      BY <2>3
    <2>5. s \ {x} \in SUBSET marks /\ s \ {x} # s
      BY <2>4
    <2>6. s \ {x} \notin Bad
      <3> HIDE DEF Bad, x
      <3> QED
        BY <2>1, <2>5
    <2>7. g[s \ {x}] = h[s \ {x}]
      BY <2>5, <2>6
    <2> QED
      BY <2>2, <2>3, <2>7 DEF RecountStep
  <1>6. g[marks] = Rows(scans, assets, marks, StatsOf(marks), marks)
    BY <1>1, <1>5 DEF h, Recounted
  <1>7. Rebuilt(c) = LET d == g[marks]
                     IN  Rows(scans, assets, d.marks, d.plays, d.counted)
    BY <1>1, RebuiltIsReplay DEF g
  <1> QED
    BY <1>6, <1>7 DEF Rows

-----------------------------------------------------------------------------
\* Rows whose aggregate is that of the facts counted, all of them marked.
Tallied(c) ==
  \E scans, assets, marks, counted :
    /\ c = Rows(scans, assets, marks, StatsOf(counted), counted)
    /\ IsFiniteSet(marks) /\ marks \subseteq Facts /\ counted \subseteq marks

\* So are the rows that are committed, and those a transaction would commit.
StatsInv == Tallied(content) /\ Tallied(work.content)

LEMMA NewIsTallied == Tallied(NewCatalog)
  <1>1. IsFiniteSet({})
    BY FS_EmptySet
  <1> QED
    BY <1>1, StatsOfNone DEF Tallied, NewCatalog

LEMMA FactKeepsTally ==
  ASSUME NEW c, Tallied(c), NEW f \in Facts
  PROVE  Tallied(ApplyPlayFact(c, f))
  <1>1. PICK scans, assets, marks, counted :
          /\ c = Rows(scans, assets, marks, StatsOf(counted), counted)
          /\ IsFiniteSet(marks) /\ marks \subseteq Facts /\ counted \subseteq marks
    BY DEF Tallied
  <1>2. CASE f \in marks
    BY <1>1, <1>2 DEF ApplyPlayFact, Rows
  <1>3. CASE f \notin marks
    <2> DEFINE plays == StatsOf(counted)
               all == marks \cup {f}
               more == counted \cup {f}
    <2>1. StatsOf(more) = [plays EXCEPT ![f.media] = Counted(@, f)]
      <3>1. IsFiniteSet(counted) /\ counted \subseteq Facts /\ f \notin counted
        BY <1>1, <1>3, FS_Subset
      <3> QED
        BY <3>1, StatsOfMore
    <2>2. IsFiniteSet(all) /\ all \subseteq Facts /\ more \subseteq all
      BY <1>1, FS_AddElement
    <2> HIDE DEF plays, more, all
    <2>3. ApplyPlayFact(Rows(scans, assets, marks, plays, counted), f)
            = Rows(scans, assets, all, [plays EXCEPT ![f.media] = Counted(@, f)], more)
      BY <1>3 DEF ApplyPlayFact, Rows, all, more
    <2>4. ApplyPlayFact(c, f) = Rows(scans, assets, all, StatsOf(more), more)
      BY <1>1, <2>1, <2>3 DEF plays
    <2> QED
      BY <2>2, <2>4 DEF Tallied
  <1> QED
    BY <1>2, <1>3

LEMMA StatsKeepTally ==
  ASSUME NEW c, Tallied(c)
  PROVE  Tallied(ClearPlayStats(c)) /\ Tallied(Rebuilt(c))
  <1>1. PICK scans, assets, marks, counted :
          /\ c = Rows(scans, assets, marks, StatsOf(counted), counted)
          /\ IsFiniteSet(marks) /\ marks \subseteq Facts /\ counted \subseteq marks
    BY DEF Tallied
  <1>2. ClearPlayStats(c) = Rows(scans, assets, marks, StatsOf({}), {})
    BY <1>1, Cleared, StatsOfNone
  <1>3. Rebuilt(c) = Rows(scans, assets, marks, StatsOf(marks), marks)
    BY <1>1, RebuiltCounts
  <1> QED
    BY <1>1, <1>2, <1>3 DEF Tallied

\* The helpers of a scan write no statistics.
LEMMA ScanKeepsTally ==
  ASSUME NEW c, Tallied(c), NEW s
  PROVE  /\ \A at : Tallied(StartScan(c, s, at))
         /\ \A result : Tallied(FinishScan(c, s, result))
         /\ \A a, state : Tallied(SeeAs(c, s, a, state))
         /\ \A scope : Tallied(Sweep(c, s, scope))
  <1>1. ASSUME NEW d, Tallied(d), NEW x
        PROVE  Tallied([d EXCEPT !.scans = x]) /\ Tallied([d EXCEPT !.assets = x])
    <2>1. PICK scans, assets, marks, counted :
            /\ d = Rows(scans, assets, marks, StatsOf(counted), counted)
            /\ IsFiniteSet(marks) /\ marks \subseteq Facts /\ counted \subseteq marks
      BY <1>1 DEF Tallied
    <2>2. /\ [d EXCEPT !.scans = x] = Rows(x, assets, marks, StatsOf(counted), counted)
          /\ [d EXCEPT !.assets = x] = Rows(scans, x, marks, StatsOf(counted), counted)
      BY <2>1 DEF Rows
    <2> QED
      BY <2>1, <2>2 DEF Tallied
  <1>2. \A x : [c EXCEPT !.scans[s] = x] = [c EXCEPT !.scans = [c.scans EXCEPT ![s] = x]]
    BY DEF Tallied, Rows
  <1>3. \A result : [c EXCEPT !.scans[s].state = result]
          = [c EXCEPT !.scans = [c.scans EXCEPT ![s] = [@ EXCEPT !.state = result]]]
    BY DEF Tallied, Rows
  <1>4. ASSUME NEW d, Tallied(d), NEW words PROVE Tallied(Heard(d, s, words))
    <2>1. CASE Running(d, s)
      <3>1. PICK x : Heard(d, s, words) = [d EXCEPT !.assets = x]
        BY <2>1, HeardIs
      <3>2. Tallied([d EXCEPT !.assets = x])
        BY <1>1, <1>4
      <3> QED
        BY <3>1, <3>2
    <2>2. CASE ~Running(d, s)
      BY <1>4, <2>2 DEF Heard
    <2> QED
      BY <2>1, <2>2
  <1>5. ASSUME NEW a, NEW state PROVE Tallied(MarkAssetSeen(c, s, a, state))
    <2> DEFINE row == [c.assets[a] EXCEPT !.state = state, !.seen = s]
               assets == [c.assets EXCEPT ![a] = row]
    <2>1. CASE Running(c, s)
      <3>1. MarkAssetSeen(c, s, a, state) = [c EXCEPT !.assets = assets]
        BY <2>1 DEF MarkAssetSeen, Tallied, Rows
      <3>2. Tallied([c EXCEPT !.assets = assets])
        BY <1>1
      <3> HIDE DEF assets
      <3> QED
        BY Zenon, <3>1, <3>2
    <2>2. CASE ~Running(c, s)
      BY <2>2 DEF MarkAssetSeen
    <2> QED
      BY <2>1, <2>2
  <1>6. ASSUME NEW scope PROVE Tallied(MarkMissingAssets(c, s, scope))
    <2>1. \/ MarkMissingAssets(c, s, scope) = c
          \/ \E x : MarkMissingAssets(c, s, scope) = [c EXCEPT !.assets = x]
      BY Zenon DEF MarkMissingAssets
    <2>2. CASE MarkMissingAssets(c, s, scope) = c
      BY Zenon, <2>2
    <2>3. ASSUME NEW x, MarkMissingAssets(c, s, scope) = [c EXCEPT !.assets = x]
          PROVE  Tallied(MarkMissingAssets(c, s, scope))
      <3>1. Tallied([c EXCEPT !.assets = x])
        BY <1>1
      <3> QED
        BY Zenon, <2>3, <3>1
    <2> QED
      BY <2>1, <2>2, <2>3
  <1>7. ASSUME NEW at PROVE Tallied(StartScan(c, s, at))
    BY <1>1, <1>2 DEF StartScan
  <1>8. ASSUME NEW result PROVE Tallied(FinishScan(c, s, result))
    BY <1>1, <1>3 DEF FinishScan
  <1> QED
    BY <1>4, <1>5, <1>6, <1>7, <1>8 DEF SeeAs, Sweep

-----------------------------------------------------------------------------
LEMMA InitStats == LibraryInit => StatsInv
  BY NewIsTallied, LibraryAssumption
  DEF LibraryInit, DatabaseInit, NoWork, View, StatsInv

\* Nothing is published but what a transaction holds, and that begins with what
\* is committed.
LEMMA DatabaseKeepsStats ==
  ASSUME StatsInv, NEW p,
         \/ \E b \in Binaries : Open(p, b)
         \/ Migrate(p) \/ BeginWrite(p)
         \/ CommitWrite(p) \/ RollBack(p) \/ Panic(p) \/ Crash(p)
  PROVE  StatsInv'
  <1>1. Tallied(NoWork.content)
    BY NewIsTallied, LibraryAssumption DEF NoWork, View
  <1>2. /\ content' \in {content, work.content}
        /\ work'.content \in {content, work.content, NoWork.content}
    <2>1. CASE \E b \in Binaries : Open(p, b)
      BY <2>1 DEF Open, OnDisk
    <2>2. CASE Migrate(p)
      BY <2>2 DEF Migrate, RunSql, RecordMigration, CommitMigration, MigrationsApplied,
         GiveUp, OnDisk, Publish, Idle, View
    <2>3. CASE BeginWrite(p) \/ CommitWrite(p) \/ RollBack(p) \/ Panic(p)
      BY <2>3 DEF BeginWrite, CommitWrite, RollBack, Panic, OnDisk, Publish, Idle, CommittedRows
    <2>4. CASE Crash(p)
      BY <2>4 DEF Crash, OnDisk, Idle
    <2> QED
      BY <2>1, <2>2, <2>3, <2>4
  <1> QED
    BY <1>1, <1>2 DEF StatsInv

LEMMA AtOnceKeepsStats ==
  ASSUME StatsInv, NEW p, NEW c, WriteAtOnce(p, c), Tallied(c) PROVE StatsInv'
  BY DEF StatsInv, WriteAtOnce

LEMMA WriteKeepsStats ==
  ASSUME StatsInv, NEW p, NEW c, Write(p, c), Tallied(c) PROVE StatsInv'
  BY DEF StatsInv, Write, View, OnDisk

LEMMA ScanningKeepsStats ==
  ASSUME StatsInv, NEW p, Scanning(p) PROVE StatsInv'
  <1>1. PICK s \in Scans :
          \/ \E at \in Times : BeginScan(p, s, at)
          \/ \E some \in SUBSET Directories \ {{}} :
               \E observed \in [UNION some -> Prints \cup {Gone}] :
                 BuildRun(p, s, UNION some, observed)
          \/ \E a \in Assets : SeeAsset(p, s, a) \/ \E r \in Results : ProbeAsset(p, s, a, r)
          \/ \E scope \in Directories : SweepMissing(p, s, scope)
          \/ Complete(p, s) \/ Fail(p, s)
    BY Zenon DEF Scanning
  <1>2. ASSUME NEW at, BeginScan(p, s, at) PROVE StatsInv'
    BY <1>2, AtOnceKeepsStats, ScanKeepsTally DEF BeginScan, StatsInv
  <1>3. ASSUME NEW scope, NEW observed, BuildRun(p, s, scope, observed) PROVE StatsInv'
    BY <1>3 DEF BuildRun, dbVars, StatsInv
  <1>4. ASSUME NEW a \in Assets, SeeAsset(p, s, a) PROVE StatsInv'
    BY <1>4, WriteKeepsStats, ScanKeepsTally DEF SeeAsset, StatsInv
  <1>5. ASSUME NEW a \in Assets, NEW r \in Results, ProbeAsset(p, s, a, r) PROVE StatsInv'
    BY <1>5, WriteKeepsStats, ScanKeepsTally DEF ProbeAsset, StatsInv
  <1>6. ASSUME NEW scope \in Directories, SweepMissing(p, s, scope) PROVE StatsInv'
    BY <1>6, WriteKeepsStats, ScanKeepsTally DEF SweepMissing, StatsInv
  <1>7. CASE Complete(p, s)
    BY <1>7, WriteKeepsStats, ScanKeepsTally DEF Complete, StatsInv
  <1>8. CASE Fail(p, s)
    BY <1>8, AtOnceKeepsStats, ScanKeepsTally DEF Fail, StatsInv
  <1> QED
    BY <1>1, <1>2, <1>3, <1>4, <1>5, <1>6, <1>7, <1>8

LEMMA LibraryKeepsStats ==
  ASSUME StatsInv, [LibraryNext]_libraryVars PROVE StatsInv'
  <1>1. CASE UNCHANGED libraryVars
    BY <1>1 DEF libraryVars, dbVars, StatsInv
  <1>2. ASSUME NEW p \in Processes,
               \/ (\/ \E b \in Binaries : Open(p, b)
                   \/ Migrate(p)
                   \/ BeginWrite(p)) /\ UNCHANGED scanVars
               \/ Scanning(p)
               \/ \E f \in Facts : AddFact(p, f)
               \/ Rebuild(p) \/ ClearStats(p)
               \/ Commit(p) \/ Abandon(p)
        PROVE  StatsInv'
    <2>1. CASE (\E f \in Facts : AddFact(p, f)) \/ Rebuild(p) \/ ClearStats(p)
      BY <2>1, AtOnceKeepsStats, FactKeepsTally, StatsKeepTally
      DEF AddFact, Rebuild, ClearStats, StatsWrite, StatsInv
    <2>2. CASE Commit(p) \/ Abandon(p)
      BY <2>2, DatabaseKeepsStats DEF Commit, Abandon
    <2> QED
      BY <1>2, <2>1, <2>2, DatabaseKeepsStats, ScanningKeepsStats
  <1> QED
    BY <1>1, <1>2 DEF LibraryNext

\* Whatever is committed, the aggregate is that of the facts counted since it was
\* last cleared, each once, for any facts and processes, in any order, with
\* retries, rebuilds, crashes and transactions that are lost
\* (stats_aggregator.rs).
THEOREM StatsStayTheFacts == LibrarySpec => []StatsAreTheFacts
  <1>1. StatsInv => StatsAreTheFacts
    <2> SUFFICES ASSUME StatsInv PROVE StatsAreTheFacts
      OBVIOUS
    <2>1. PICK scans, assets, marks, counted :
            /\ content = Rows(scans, assets, marks, StatsOf(counted), counted)
            /\ counted \subseteq marks
      BY DEF StatsInv, Tallied
    <2>2. content.marks = marks /\ content.plays = StatsOf(counted) /\ content.counted = counted
      BY <2>1 DEF Rows
    <2> QED
      BY <2>1, <2>2 DEF StatsAreTheFacts
  <1> QED
    BY <1>1, InitStats, LibraryKeepsStats, PTL DEF LibrarySpec
-----------------------------------------------------------------------------
(* The sync outbox, the servers and the snapshots. *)

\* What the proof needs to know of the reducers; not the playlists' contents.
HistoriesShape ==
  /\ epoch \in Epochs
  /\ DOMAIN histories = Epochs
  /\ \A e \in Epochs :
       /\ histories[e].revision \in Nat
       /\ DOMAIN histories[e].kept = Operations
       /\ \A o \in Operations :
            histories[e].kept[o] # NoResult => histories[e].kept[o].revision \in Nat
       /\ \A x \in Entities :
            histories[e].lists[x] # NoList => histories[e].lists[x].version \in Nat
       /\ DOMAIN histories[e].lists = Entities

StoresShape == stores \in [Devices -> Store!Stores]

\* A request is for a row of the device that has sent it.
SentFromRows ==
  \A q \in sent :
    /\ q \in Requests
    /\ stores[q.from].rows[q.op] # NoRow
    /\ stores[q.from].rows[q.op].body = q.body

\* A reply that is no rejection says what its history retains for the row.
RepliesAreTrue ==
  \A p \in replies :
    /\ p \in Replies
    /\ stores[p.to].rows[p.op] # NoRow
    /\ p.status # "Rejected" =>
         /\ Committed(p.epoch, p.op, stores[p.to].rows[p.op].body)
         /\ histories[p.epoch].kept[p.op].revision = p.revision

IInv ==
  /\ HistoriesShape /\ StoresShape
  /\ SentFromRows /\ RepliesAreTrue
  /\ AcknowledgedIsCommitted /\ OutboxAgreesWithArchive

LEMMA VersionIsNat ==
  ASSUME NEW list, NEW body, list # NoList => list.version \in Nat
  PROVE  Reducer!MutatedList(list, body).version \in Nat
  BY DEF Reducer!MutatedList, Reducer!NewList

LEMMA InitHolds == Init => IInv
  BY SyncAssumption
  DEF Init, IInv, HistoriesShape, StoresShape, SentFromRows, RepliesAreTrue,
      AcknowledgedIsCommitted, OutboxAgreesWithArchive, Acknowledged,
      Epochs, Reducer!NewReducer, Store!NewStore, Store!Stores

\* Queueing touches nothing but the row of an operation that had none.
LEMMA EnqueueEffect ==
  ASSUME NEW s \in Store!Stores, NEW op \in Operations, NEW body \in Issued
  PROVE  LET t == Store!EnqueueOutbox(s, op, body)
         IN /\ t \in Store!Stores
            /\ t.archive = s.archive /\ t.cursor = s.cursor
            /\ \A o \in Operations :
                 \/ t.rows[o] = s.rows[o]
                 \/ /\ s.rows[o] = NoRow
                    /\ t.rows[o] # NoRow
                    /\ t.rows[o].state = "Pending"
  <1> DEFINE new == [body |-> body, state |-> "Pending", revision |-> 0]
  <1>1. new \in Store!Rows /\ new # NoRow
    BY SyncAssumption DEF Store!Rows
  <1>2. CASE s.rows[op] # NoRow
    BY <1>2 DEF Store!EnqueueOutbox
  <1>3. CASE s.rows[op] = NoRow
    <2>1. Store!EnqueueOutbox(s, op, body) =
            [rows |-> [s.rows EXCEPT ![op] = new], archive |-> s.archive, cursor |-> s.cursor]
      BY <1>3 DEF Store!EnqueueOutbox
    <2>2. s.rows \in [Operations -> Store!Rows \cup {NoRow}]
      BY DEF Store!Stores
    <2>3. [s.rows EXCEPT ![op] = new] \in [Operations -> Store!Rows \cup {NoRow}]
      BY <1>1, <2>2
    <2> QED BY <1>1, <1>3, <2>1, <2>2, <2>3 DEF Store!Stores
  <1> QED BY <1>2, <1>3

Answers == [status : Statuses, revision : Nat]

\* A result that is applied settles one pending row, or repeats what the
\* archive says; the cursor stays in its epoch and does not go back.
LEMMA ApplyEffect ==
  ASSUME NEW s \in Store!Stores, NEW op \in Operations, NEW e \in Epochs,
         NEW answer \in Answers, Store!Applies(s, op, e, answer)
  PROVE  LET t == Store!ApplyCanonicalResult(s, op, e, answer)
         IN /\ t \in Store!Stores
            /\ t.cursor # NoCursor
            /\ t.cursor = [epoch |-> e, revision |-> Store!Incoming(s, e, answer)]
            /\ s.cursor # NoCursor =>
                 t.cursor.epoch = s.cursor.epoch /\ t.cursor.revision >= s.cursor.revision
            /\ t.rows[op] # NoRow
            /\ t.rows[op] = Store!SettledRow(s.rows[op], answer)
            /\ \A o \in Operations : o # op =>
                 t.rows[o] = s.rows[o] /\ t.archive[o] = s.archive[o]
            /\ s.archive[op] # NoEntry => t.archive[op] = s.archive[op]
            /\ s.archive[op] = NoEntry =>
                 /\ t.archive[op] # NoEntry
                 /\ t.archive[op] = [body |-> s.rows[op].body, outcome |-> answer.status,
                                     revision |-> answer.revision]
  <1> DEFINE new   == Store!SettledRow(s.rows[op], answer)
             entry == [body |-> s.rows[op].body, outcome |-> answer.status,
                       revision |-> answer.revision]
             at    == [epoch |-> e, revision |-> Store!Incoming(s, e, answer)]
  <1>1. /\ s.rows \in [Operations -> Store!Rows \cup {NoRow}]
        /\ s.archive \in [Operations -> Store!Entries \cup {NoEntry}]
        /\ s.cursor \in Store!Cursors \cup {NoCursor}
        /\ s.rows[op] \in Store!Rows
    BY DEF Store!Stores, Store!Applies
  <1>2. answer.status \in Statuses /\ answer.revision \in Nat
    BY DEF Answers
  <1>3. new \in Store!Rows /\ new # NoRow
    BY <1>1, <1>2, SyncAssumption DEF Store!SettledRow, Store!Rows
  <1>4. entry \in Store!Entries /\ entry # NoEntry
    BY <1>1, <1>2, SyncAssumption DEF Store!Rows, Store!Entries, Statuses
  <1>5. Store!Current(s, e).revision \in Nat
    BY <1>1 DEF Store!Current, Store!Cursors
  <1>6. Store!Incoming(s, e, answer) \in Nat
    BY <1>2, <1>5 DEF Store!Incoming
  <1>7. at \in Store!Cursors /\ at # NoCursor
    BY <1>6, SyncAssumption DEF Store!Cursors, Epochs
  <1>8. s.cursor # NoCursor => at.epoch = s.cursor.epoch /\ at.revision >= s.cursor.revision
    BY DEF Store!Applies, Store!Current
  <1>9. Store!ApplyCanonicalResult(s, op, e, answer) =
          [rows    |-> [s.rows EXCEPT ![op] = new],
           archive |-> IF s.archive[op] # NoEntry THEN s.archive
                       ELSE [s.archive EXCEPT ![op] = entry],
           cursor  |-> at]
    BY <1>1 DEF Store!ApplyCanonicalResult
  <1> QED BY <1>1, <1>3, <1>4, <1>7, <1>8, <1>9 DEF Store!Stores

-----------------------------------------------------------------------------
LEMMA EnqueueHolds ==
  ASSUME IInv, NEW d \in Devices, NEW op \in Operations, NEW body \in Issued,
         Enqueue(d, op, body)
  PROVE  IInv'
  <1> DEFINE t == Store!EnqueueOutbox(stores[d], op, body)
  <1>1. stores[d] \in Store!Stores
    BY DEF IInv, StoresShape
  <1>2. /\ t \in Store!Stores
        /\ t.archive = stores[d].archive /\ t.cursor = stores[d].cursor
        /\ \A o \in Operations :
             \/ t.rows[o] = stores[d].rows[o]
             \/ /\ stores[d].rows[o] = NoRow
                /\ t.rows[o] # NoRow
                /\ t.rows[o].state = "Pending"
    BY <1>1, EnqueueEffect
  <1>3. /\ stores' = [stores EXCEPT ![d] = t]
        /\ UNCHANGED <<epoch, histories, sent, replies>>
    BY DEF Enqueue
  <1> HIDE DEF t
  <1>4. \A x \in Devices : stores'[x] = IF x = d THEN t ELSE stores[x]
    BY <1>3 DEF IInv, StoresShape
  <1>5. HistoriesShape' /\ StoresShape'
    BY <1>2, <1>3 DEF IInv, HistoriesShape, StoresShape
  <1>6. SentFromRows'
    BY <1>2, <1>3, <1>4 DEF IInv, SentFromRows, Requests
  <1>7. RepliesAreTrue'
    BY <1>2, <1>3, <1>4 DEF IInv, RepliesAreTrue, Replies, Committed
  <1>8. AcknowledgedIsCommitted'
    BY <1>2, <1>3, <1>4 DEF IInv, AcknowledgedIsCommitted, Acknowledged, Committed
  <1>9. OutboxAgreesWithArchive'
    BY SMTT(30), <1>2, <1>4 DEF IInv, OutboxAgreesWithArchive
  <1> QED BY <1>5, <1>6, <1>7, <1>8, <1>9 DEF IInv

LEMMA SendHolds ==
  ASSUME IInv, NEW d \in Devices, NEW op \in Operations, Send(d, op)
  PROVE  IInv'
  <1>1. UNCHANGED <<epoch, histories, stores, replies>>
    BY DEF Send
  <1>2. stores[d].rows[op].body \in Issued
    BY DEF Send, IInv, StoresShape, Store!Stores, Store!Rows
  <1>3. SentFromRows'
    BY <1>1, <1>2 DEF Send, IInv, SentFromRows, Requests
  <1> QED BY SMTT(30), <1>1, <1>3
    DEF IInv, HistoriesShape, StoresShape, RepliesAreTrue, Committed, Acknowledged,
        AcknowledgedIsCommitted, OutboxAgreesWithArchive

\* The reducer retains what it has retained, and what it accepts.
LEMMA AppliedEffect ==
  ASSUME HistoriesShape, NEW op \in Operations, NEW body \in Issued
  PROVE  LET r == histories[epoch]
             n == Reducer!Applied(r, op, body)
             a == Reducer!Answered(r, op, body)
         IN /\ n.revision \in Nat
            /\ DOMAIN n.kept = Operations /\ DOMAIN n.lists = Entities
            /\ \A x \in Entities : n.lists[x] # NoList => n.lists[x].version \in Nat
            /\ \A o \in Operations : r.kept[o] # NoResult => n.kept[o] = r.kept[o]
            /\ a.status \in Statuses
            /\ \A o \in Operations : n.kept[o] # NoResult => n.kept[o].revision \in Nat
            /\ a.revision \in Nat
            /\ a.status # "Rejected" =>
                 /\ n.kept[op] # NoResult
                 /\ n.kept[op].body = body
                 /\ n.kept[op].revision = a.revision
  <1> DEFINE r    == histories[epoch]
             kept == [body |-> body, revision |-> r.revision + 1,
                      version |-> Reducer!ResultVersion(r, body)]
             n    == Reducer!Applied(r, op, body)
  <1>1. /\ r.revision \in Nat /\ DOMAIN r.kept = Operations /\ DOMAIN r.lists = Entities
        /\ \A x \in Entities : r.lists[x] # NoList => r.lists[x].version \in Nat
        /\ \A o \in Operations : r.kept[o] # NoResult => r.kept[o].revision \in Nat
    BY DEF HistoriesShape
  <1>2. body \in Reducer!Bodies /\ body.entity \in Entities
    BY SyncAssumption DEF Reducer!Bodies
  <1>3. Reducer!MutatedList(r.lists[body.entity], body).version \in Nat
    BY <1>1, <1>2, VersionIsNat
  <1>4. Reducer!ResultVersion(r, body) \in Nat
    BY <1>1, <1>3 DEF Reducer!ResultVersion
  <1>5. kept \in Reducer!Results /\ kept # NoResult
    BY <1>1, <1>2, <1>4, SyncAssumption DEF Reducer!Results
  <1>6. CASE Reducer!Accepts(r, op, body)
    <2>1. n = [revision |-> r.revision + 1, kept |-> [r.kept EXCEPT ![op] = kept],
               lists |-> Reducer!MutatedLists(r.lists, body),
               values |-> Reducer!MutatedValues(r.values, body)]
      BY <1>6 DEF Reducer!Applied
    <2>2. r.kept[op] = NoResult
      BY <1>6 DEF Reducer!Accepts
    <2>3. /\ DOMAIN n.lists = Entities
          /\ \A x \in Entities : n.lists[x] # NoList => n.lists[x].version \in Nat
      BY <1>1, <1>3, <2>1 DEF Reducer!MutatedLists
    <2>4. Reducer!Answered(r, op, body) = [status |-> "Accepted", revision |-> r.revision + 1]
      BY <1>6, <2>2 DEF Reducer!Answered, Reducer!IsRetained
    <2> QED BY <1>1, <1>5, <2>1, <2>2, <2>3, <2>4 DEF Statuses
  <1>7. CASE ~Reducer!Accepts(r, op, body)
    <2>1. /\ n.kept = r.kept /\ n.lists = r.lists
          /\ n.revision = r.revision \/ n.revision = r.revision + 1
      BY <1>7 DEF Reducer!Applied
    <2>2. Reducer!Answered(r, op, body) =
            IF Reducer!IsRetained(r, op, body)
              THEN [status |-> "Duplicate", revision |-> r.kept[op].revision]
              ELSE [status |-> "Rejected", revision |-> 0]
      BY <1>7 DEF Reducer!Answered
    <2> QED BY <1>1, <2>1, <2>2 DEF Statuses, Reducer!IsRetained
  <1> QED BY <1>6, <1>7

LEMMA ReduceHolds ==
  ASSUME IInv, NEW q \in sent, Reduce(q)
  PROVE  IInv'
  <1> DEFINE n == Reducer!Applied(histories[epoch], q.op, q.body)
             a == Reducer!Answered(histories[epoch], q.op, q.body)
             p == [to |-> q.from, op |-> q.op, epoch |-> epoch,
                   status |-> a.status, revision |-> a.revision]
  <1>1. /\ q.op \in Operations /\ q.body \in Issued /\ q.from \in Devices
        /\ stores[q.from].rows[q.op] # NoRow
        /\ stores[q.from].rows[q.op].body = q.body
    BY DEF IInv, SentFromRows, Requests
  <1>2. /\ n.revision \in Nat
        /\ DOMAIN n.kept = Operations /\ DOMAIN n.lists = Entities
        /\ \A x \in Entities : n.lists[x] # NoList => n.lists[x].version \in Nat
        /\ \A o \in Operations :
             histories[epoch].kept[o] # NoResult => n.kept[o] = histories[epoch].kept[o]
        /\ a.status \in Statuses
        /\ \A o \in Operations : n.kept[o] # NoResult => n.kept[o].revision \in Nat
        /\ a.revision \in Nat
        /\ a.status # "Rejected" =>
             /\ n.kept[q.op] # NoResult
             /\ n.kept[q.op].body = q.body
             /\ n.kept[q.op].revision = a.revision
    BY <1>1, AppliedEffect DEF IInv
  <1>3. /\ histories' = [histories EXCEPT ![epoch] = n]
        /\ replies' = replies \cup {p}
        /\ UNCHANGED <<epoch, stores, sent>>
    BY DEF Reduce
  <1> HIDE DEF n, a
  <1>4. epoch \in Epochs /\ DOMAIN histories = Epochs
    BY DEF IInv, HistoriesShape
  <1>5. \A e \in Epochs : histories'[e] = IF e = epoch THEN n ELSE histories[e]
    BY <1>3, <1>4
  <1>6. HistoriesShape'
    BY <1>2, <1>3, <1>4, <1>5 DEF IInv, HistoriesShape
  <1>7. StoresShape' /\ SentFromRows' /\ OutboxAgreesWithArchive'
    BY <1>3 DEF IInv, StoresShape, SentFromRows, OutboxAgreesWithArchive
  <1>8. \A e \in Epochs, o \in Operations :
          histories[e].kept[o] # NoResult => histories'[e].kept[o] = histories[e].kept[o]
    BY <1>2, <1>5
  <1>9. RepliesAreTrue'
    <2>1. p \in Replies
      BY <1>1, <1>2, <1>4 DEF Replies
    <2>2. ASSUME NEW x, x = p, x.status # "Rejected"
          PROVE  /\ Committed(x.epoch, x.op, stores[x.to].rows[x.op].body)'
                 /\ histories'[x.epoch].kept[x.op].revision = x.revision
      BY <1>1, <1>2, <1>3, <1>4, <1>5, <2>2 DEF Committed
    <2>3. \A x \in replies : x.status # "Rejected" =>
            /\ Committed(x.epoch, x.op, stores[x.to].rows[x.op].body)'
            /\ histories'[x.epoch].kept[x.op].revision = x.revision
      BY <1>3, <1>8 DEF IInv, RepliesAreTrue, Committed, Replies
    <2>4. stores[p.to].rows[p.op] # NoRow
      BY <1>1
    <2>5. \A x \in replies : x \in Replies /\ stores[x.to].rows[x.op] # NoRow
      BY DEF IInv, RepliesAreTrue
    <2> HIDE DEF p
    <2>6. ASSUME NEW x \in replies'
          PROVE  /\ x \in Replies
                 /\ stores'[x.to].rows[x.op] # NoRow
                 /\ x.status # "Rejected" =>
                      /\ Committed(x.epoch, x.op, stores[x.to].rows[x.op].body)'
                      /\ histories'[x.epoch].kept[x.op].revision = x.revision
      <3>1. CASE x = p
        <4>1. stores'[x.to].rows[x.op] # NoRow
          BY <1>3, <2>4, <3>1
        <4> QED
          BY <2>1, <2>2, <3>1, <4>1, Zenon
      <3>2. CASE x \in replies
        BY <1>3, <2>3, <2>5, <3>2
      <3> QED
        BY <1>3, <2>6, <3>1, <3>2
    <2> QED
      BY <2>6 DEF RepliesAreTrue
  <1>10. AcknowledgedIsCommitted'
    <2> SUFFICES ASSUME NEW d \in Devices, NEW o \in Operations, Acknowledged(d, o)
                 PROVE  /\ stores[d].cursor # NoCursor
                        /\ Committed(stores[d].cursor.epoch, o, stores[d].rows[o].body)'
                        /\ histories'[stores[d].cursor.epoch].kept[o].revision =
                             stores[d].rows[o].revision
                        /\ stores[d].rows[o].revision <= stores[d].cursor.revision
      BY <1>3 DEF AcknowledgedIsCommitted, Acknowledged, Committed
    <2>1. /\ stores[d].cursor # NoCursor
          /\ Committed(stores[d].cursor.epoch, o, stores[d].rows[o].body)
          /\ histories[stores[d].cursor.epoch].kept[o].revision = stores[d].rows[o].revision
          /\ stores[d].rows[o].revision <= stores[d].cursor.revision
      BY DEF IInv, AcknowledgedIsCommitted
    <2>2. stores[d].cursor.epoch \in Epochs
      BY <2>1 DEF IInv, StoresShape, Store!Stores, Store!Cursors
    <2> QED BY <1>3, <1>8, <2>1, <2>2 DEF Committed
  <1> QED BY <1>6, <1>7, <1>9, <1>10 DEF IInv

\* The step that OutcomeIsFinal speaks of.
OutcomesStay ==
  \A d \in Devices, op \in Operations :
    /\ stores[d].archive[op] # NoEntry =>
         stores'[d].archive[op] = stores[d].archive[op]
    /\ (stores[d].rows[op] # NoRow /\ stores[d].rows[op].state # "Pending") =>
         stores'[d].rows[op] = stores[d].rows[op]

\* What the delivery of a result does to the rows.
RowSettles(p) ==
  LET old == stores[p.to].rows[p.op]
      new == stores'[p.to].rows[p.op]
  IN  /\ p.to \in Devices /\ p.op \in Operations
      /\ \A x \in Devices, o \in Operations :
           x # p.to \/ o # p.op => stores'[x].rows[o] = stores[x].rows[o]
      /\ \/ new = old
         \/ /\ old \in Store!Rows /\ old # NoRow /\ old.state = "Pending"
            /\ new # NoRow /\ new.body = old.body
            /\ new.state \in {"Acknowledged", "Archived"}

LEMMA DeliverHolds ==
  ASSUME IInv, NEW p \in replies, Deliver(p)
  PROVE  IInv' /\ OutcomesStay /\ RowSettles(p)
  <1> DEFINE d      == p.to
             s      == stores[d]
             answer == [status |-> p.status, revision |-> p.revision]
             t      == Store!ApplyCanonicalResult(s, p.op, p.epoch, answer)
  <1>1. /\ d \in Devices /\ p.op \in Operations /\ p.epoch \in Epochs
        /\ p.status \in Statuses /\ p.revision \in Nat
        /\ answer \in Answers
        /\ s.rows[p.op] # NoRow
        /\ p.status # "Rejected" =>
             /\ Committed(p.epoch, p.op, s.rows[p.op].body)
             /\ histories[p.epoch].kept[p.op].revision = p.revision
    BY DEF IInv, RepliesAreTrue, Replies, Answers
  <1>2. s \in Store!Stores /\ stores \in [Devices -> Store!Stores]
    BY <1>1 DEF IInv, StoresShape
  <1>3. /\ stores' = [stores EXCEPT ![d] = t]
        /\ UNCHANGED <<epoch, histories, sent, replies>>
    BY DEF Deliver
  <1>4. \A x \in Devices : stores'[x] = IF x = d THEN t ELSE stores[x]
    BY <1>1, <1>2, <1>3
  <1>5. CASE ~Store!Applies(s, p.op, p.epoch, answer)
    <2>1. t = s
      BY <1>5 DEF Store!ApplyCanonicalResult
    <2>2. stores' = stores
      BY <1>1, <1>2, <1>3, <2>1
    <2>3. HistoriesShape' /\ StoresShape'
      BY <1>3, <2>2 DEF IInv, HistoriesShape, StoresShape
    <2>4. SentFromRows' /\ RepliesAreTrue'
      BY <1>3, <2>2 DEF IInv, SentFromRows, RepliesAreTrue, Committed
    <2>5. AcknowledgedIsCommitted'
      <3>1. \A x \in Devices, o \in Operations : Acknowledged(x, o)' <=> Acknowledged(x, o)
        BY <2>2 DEF Acknowledged
      <3>2. histories' = histories
        BY <1>3
      <3> QED BY <2>2, <3>1, <3>2
        DEF IInv, AcknowledgedIsCommitted, Committed
    <2>6. OutboxAgreesWithArchive' /\ OutcomesStay
      BY <2>2 DEF IInv, OutboxAgreesWithArchive, OutcomesStay
    <2>7. RowSettles(p)
      BY <1>1, <2>2 DEF RowSettles
    <2> QED BY <2>3, <2>4, <2>5, <2>6, <2>7 DEF IInv
  <1>6. CASE Store!Applies(s, p.op, p.epoch, answer)
    <2>1. /\ t \in Store!Stores
          /\ t.cursor # NoCursor
          /\ t.cursor = [epoch |-> p.epoch, revision |-> Store!Incoming(s, p.epoch, answer)]
          /\ s.cursor # NoCursor =>
               t.cursor.epoch = s.cursor.epoch /\ t.cursor.revision >= s.cursor.revision
          /\ t.rows[p.op] # NoRow
          /\ t.rows[p.op] = Store!SettledRow(s.rows[p.op], answer)
          /\ \A o \in Operations : o # p.op =>
               t.rows[o] = s.rows[o] /\ t.archive[o] = s.archive[o]
          /\ s.archive[p.op] # NoEntry => t.archive[p.op] = s.archive[p.op]
          /\ s.archive[p.op] = NoEntry =>
               /\ t.archive[p.op] # NoEntry
               /\ t.archive[p.op] = [body |-> s.rows[p.op].body, outcome |-> p.status,
                                     revision |-> p.revision]
      BY <1>1, <1>2, <1>6, ApplyEffect
    <2>2. /\ t.rows[p.op].body = s.rows[p.op].body
          /\ t.rows[p.op].revision = p.revision
          /\ t.rows[p.op].state = IF p.status = "Rejected" THEN "Archived" ELSE "Acknowledged"
      BY <2>1 DEF Store!SettledRow
    <2>3. s.archive[p.op] # NoEntry =>
            /\ s.archive[p.op].revision = p.revision
            /\ s.archive[p.op].body = s.rows[p.op].body
            /\ s.archive[p.op].outcome = "Rejected" <=> p.status = "Rejected"
      BY <1>6 DEF Store!Applies, Store!ArchiveAgrees, Store!SameOutcome
    <2>4. /\ s.archive[p.op] = NoEntry <=> s.rows[p.op].state = "Pending"
          /\ s.archive[p.op] # NoEntry =>
               /\ s.archive[p.op].revision = s.rows[p.op].revision
               /\ s.archive[p.op].outcome = "Rejected" <=> s.rows[p.op].state = "Archived"
      BY <1>1 DEF IInv, OutboxAgreesWithArchive
    <2>5. s.rows[p.op] \in Store!Rows
      BY <1>1, <1>2 DEF Store!Stores
    <2>6. s.rows[p.op].state # "Pending" => t.rows[p.op] = s.rows[p.op]
      BY <2>1, <2>3, <2>4, <2>5 DEF Store!SettledRow, Store!Rows
    <2> HIDE DEF t
    <2>7. HistoriesShape' /\ StoresShape'
      BY <1>2, <1>3, <2>1 DEF IInv, HistoriesShape, StoresShape
    <2>8. \A x \in Devices, o \in Operations :
            stores[x].rows[o] # NoRow =>
              /\ stores'[x].rows[o] # NoRow
              /\ stores'[x].rows[o].body = stores[x].rows[o].body
      BY <1>1, <1>4, <2>1, <2>2
    <2>9. SentFromRows' /\ RepliesAreTrue'
      BY <1>3, <2>8 DEF IInv, SentFromRows, RepliesAreTrue, Requests, Replies, Committed
    <2>10. \A o \in Operations : o # p.op => t.rows[o] = s.rows[o]
      BY <2>1
    <2>11. AcknowledgedIsCommitted'
      <3> SUFFICES ASSUME NEW x \in Devices, NEW o \in Operations, Acknowledged(x, o)'
                   PROVE  /\ stores'[x].cursor # NoCursor
                          /\ Committed(stores'[x].cursor.epoch, o, stores'[x].rows[o].body)
                          /\ histories[stores'[x].cursor.epoch].kept[o].revision =
                               stores'[x].rows[o].revision
                          /\ stores'[x].rows[o].revision <= stores'[x].cursor.revision
        BY <1>3 DEF AcknowledgedIsCommitted, Committed
      <3>1. CASE x = d /\ o = p.op
        <4>1. p.status # "Rejected"
          BY <1>4, <2>2, <3>1 DEF Acknowledged
        <4>2. t.cursor.epoch = p.epoch /\ t.cursor.revision = p.revision
          BY <2>1, <4>1 DEF Store!Incoming
        <4> QED BY SMTT(30), <1>1, <1>4, <2>1, <2>2, <3>1, <4>1, <4>2
      <3>2. CASE x = d /\ o # p.op
        <4>1. Acknowledged(x, o) /\ t.rows[o] = s.rows[o]
          BY <1>4, <2>10, <3>2 DEF Acknowledged
        <4>2. /\ s.cursor # NoCursor
              /\ Committed(s.cursor.epoch, o, s.rows[o].body)
              /\ histories[s.cursor.epoch].kept[o].revision = s.rows[o].revision
              /\ s.rows[o].revision <= s.cursor.revision
          BY <3>2, <4>1 DEF IInv, AcknowledgedIsCommitted
        <4>3. s.cursor.revision \in Nat /\ s.rows[o].revision \in Nat
          BY <1>2, <3>2, <4>1, <4>2
          DEF Acknowledged, Store!Stores, Store!Cursors, Store!Rows
        <4>4. t.cursor.revision \in Nat
          BY <2>1 DEF Store!Stores, Store!Cursors
        <4>5. t.cursor.epoch = s.cursor.epoch /\ t.cursor.revision >= s.cursor.revision
          BY <2>1, <4>2
        <4>6. s.rows[o].revision <= t.cursor.revision
          BY <4>2, <4>3, <4>4, <4>5
        <4>7. stores'[x].cursor = t.cursor /\ stores'[x].rows[o] = s.rows[o]
          BY <1>4, <3>2, <4>1
        <4> QED BY <2>1, <4>2, <4>5, <4>6, <4>7
      <3>3. CASE x # d
        <4>1. stores'[x] = stores[x]
          BY <1>4, <3>3
        <4> QED BY <4>1 DEF IInv, AcknowledgedIsCommitted, Acknowledged
      <3> QED BY <3>1, <3>2, <3>3
    <2>12. OutboxAgreesWithArchive'
      <3> SUFFICES ASSUME NEW x \in Devices, NEW o \in Operations
                   PROVE  LET entry == stores'[x].archive[o]
                              row   == stores'[x].rows[o]
                          IN /\ entry = NoEntry <=> (row = NoRow \/ row.state = "Pending")
                             /\ entry # NoEntry =>
                                  /\ entry.body = row.body
                                  /\ entry.revision = row.revision
                                  /\ entry.outcome = "Rejected" <=> row.state = "Archived"
        BY DEF OutboxAgreesWithArchive
      <3>1. CASE x = d /\ o = p.op
        <4>1. /\ t.archive[o] # NoEntry
              /\ t.archive[o].body = t.rows[o].body
              /\ t.archive[o].revision = t.rows[o].revision
              /\ t.archive[o].outcome = "Rejected" <=> p.status = "Rejected"
          BY <2>1, <2>2, <2>3, <3>1
        <4>2. /\ t.rows[o] # NoRow /\ t.rows[o].state # "Pending"
              /\ t.rows[o].state = "Archived" <=> p.status = "Rejected"
          BY <2>1, <2>2, <3>1
        <4> QED BY <1>4, <3>1, <4>1, <4>2
      <3>2. CASE x # d \/ o # p.op
        <4>1. stores'[x].archive[o] = stores[x].archive[o] /\ stores'[x].rows[o] = stores[x].rows[o]
          BY <1>4, <2>1, <3>2
        <4> QED BY <4>1 DEF IInv, OutboxAgreesWithArchive
      <3> QED BY <3>1, <3>2
    <2>13. OutcomesStay
      BY <1>1, <1>4, <2>1, <2>6 DEF OutcomesStay
    <2>14. RowSettles(p)
      <3>1. t.rows[p.op].state \in {"Acknowledged", "Archived"}
        BY <2>2
      <3>2. \A x \in Devices, o \in Operations :
              x # d \/ o # p.op => stores'[x].rows[o] = stores[x].rows[o]
        BY <1>4, <2>10
      <3>3. stores'[d].rows[p.op] = t.rows[p.op]
        BY <1>1, <1>4
      <3> QED BY <1>1, <2>1, <2>2, <2>5, <2>6, <3>1, <3>2, <3>3 DEF RowSettles
    <2> QED BY <2>7, <2>9, <2>11, <2>12, <2>13, <2>14 DEF IInv
  <1> QED BY <1>5, <1>6

LEMMA StepHolds == IInv /\ [Next]_vars => IInv' /\ OutcomesStay
  <1> SUFFICES ASSUME IInv, [Next]_vars PROVE IInv' /\ OutcomesStay
    OBVIOUS
  <1>1. ASSUME NEW d \in Devices, NEW op \in Operations, NEW body \in Issued,
               Enqueue(d, op, body)
        PROVE  IInv' /\ OutcomesStay
    <2>1. stores[d] \in Store!Stores /\ stores \in [Devices -> Store!Stores]
      BY DEF IInv, StoresShape
    <2>2. stores' = [stores EXCEPT ![d] = Store!EnqueueOutbox(stores[d], op, body)]
      BY <1>1 DEF Enqueue
    <2>3. OutcomesStay
      BY <2>1, <2>2, EnqueueEffect DEF OutcomesStay
    <2> QED BY <1>1, <2>3, EnqueueHolds
  <1>2. ASSUME NEW d \in Devices, NEW op \in Operations, Send(d, op)
        PROVE  IInv' /\ OutcomesStay
    BY <1>2, SendHolds DEF Send, OutcomesStay
  <1>3. ASSUME NEW q \in sent, Reduce(q)
        PROVE  IInv' /\ OutcomesStay
    BY <1>3, ReduceHolds DEF Reduce, OutcomesStay
  <1>4. ASSUME NEW p \in replies, Deliver(p)
        PROVE  IInv' /\ OutcomesStay
    BY <1>4, DeliverHolds
  <1>5. CASE NewHistory
    <2>1. epoch' \in Epochs
      BY <1>5, SyncAssumption DEF NewHistory, IInv, HistoriesShape, Epochs
    <2>2. UNCHANGED <<histories, stores, sent, replies>>
      BY <1>5 DEF NewHistory
    <2>3. HistoriesShape' /\ StoresShape' /\ SentFromRows' /\ RepliesAreTrue'
      BY <2>1, <2>2
      DEF IInv, HistoriesShape, StoresShape, SentFromRows, RepliesAreTrue, Committed
    <2>4. AcknowledgedIsCommitted' /\ OutboxAgreesWithArchive'
      BY <2>2
      DEF IInv, AcknowledgedIsCommitted, OutboxAgreesWithArchive,
          Acknowledged, Committed
    <2> QED BY <2>2, <2>3, <2>4 DEF IInv, OutcomesStay
  <1>6. CASE UNCHANGED vars
    <2>1. UNCHANGED <<epoch, histories, stores, sent, replies>>
      BY <1>6 DEF vars
    <2>3. HistoriesShape' /\ StoresShape' /\ SentFromRows' /\ RepliesAreTrue'
      BY <2>1
      DEF IInv, HistoriesShape, StoresShape, SentFromRows, RepliesAreTrue, Committed
    <2>4. AcknowledgedIsCommitted' /\ OutboxAgreesWithArchive'
      BY <2>1
      DEF IInv, AcknowledgedIsCommitted, OutboxAgreesWithArchive,
          Acknowledged, Committed
    <2> QED BY <2>1, <2>3, <2>4 DEF IInv, OutcomesStay
  <1> QED BY <1>1, <1>2, <1>3, <1>4, <1>5, <1>6 DEF Next

LEMMA Invariance == Spec => []IInv
  <1>1. IInv /\ [Next]_vars => IInv'
    BY StepHolds
  <1> QED BY InitHolds, <1>1, PTL DEF Spec

\* What is acknowledged was accepted, with the same bytes and revision, in the
\* history of the cursor, whatever the network does (apply_canonical_result).
THEOREM AcknowledgedCommitted == Spec => []AcknowledgedIsCommitted
  <1>1. IInv => AcknowledgedIsCommitted
    BY DEF IInv
  <1> QED BY Invariance, <1>1, PTL

\* The row of an operation and its entry in the archive never disagree.
THEOREM RowsAgree == Spec => []OutboxAgreesWithArchive
  <1>1. IInv => OutboxAgreesWithArchive
    BY DEF IInv
  <1> QED BY Invariance, <1>1, PTL

\* What was archived, and what was settled, never changes again.
THEOREM OutcomesAreFinal == Spec => OutcomeIsFinal
  <1>1. IInv /\ [Next]_vars => OutcomesStay
    BY StepHolds
  <1>2. IInv /\ [Next]_vars => [OutcomesStay]_vars
    BY <1>1
  <1>3. Spec => [][OutcomesStay]_vars
    BY Invariance, <1>2, PTL DEF Spec
  <1> QED BY <1>3 DEF OutcomeIsFinal, OutcomesStay
-----------------------------------------------------------------------------
(* The stores of the devices, all together, are an outbox.                  *)

Held(row) == IF row = NoRow THEN NoRow ELSE [body |-> row.body, state |-> row.state]

\* The outbox the stores stand for.
Boxed == [k \in Devices \X Operations |-> Held(stores[k[1]].rows[k[2]])]

\* A step on the row of one operation of one device is one on its key.
LEMMA OneKeyMoves ==
  ASSUME NEW d \in Devices, NEW op \in Operations,
         \A x \in Devices, o \in Operations :
           x # d \/ o # op => stores'[x].rows[o] = stores[x].rows[o]
  PROVE  /\ Boxed' = [Boxed EXCEPT ![<<d, op>>] = Held(stores'[d].rows[op])]
         /\ Boxed[<<d, op>>] = Held(stores[d].rows[op])
         /\ <<d, op>> \in Devices \X Operations
  <1>1. \A k \in Devices \X Operations :
          k # <<d, op>> => stores'[k[1]].rows[k[2]] = stores[k[1]].rows[k[2]]
    OBVIOUS
  <1> DEFINE K == Devices \X Operations
             new == Held(stores'[d].rows[op])
  <1>2. <<d, op>> \in K /\ \A k \in K : Boxed[k] = Held(stores[k[1]].rows[k[2]])
    BY DEF Boxed
  <1>3. Boxed' = [k \in K |-> Held(stores'[k[1]].rows[k[2]])]
    BY DEF Boxed
  <1>4. [Boxed EXCEPT ![<<d, op>>] = new] = [k \in K |-> IF k = <<d, op>> THEN new ELSE Boxed[k]]
    BY DEF Boxed
  <1>5. \A k \in K : Held(stores'[k[1]].rows[k[2]]) = IF k = <<d, op>> THEN new ELSE Boxed[k]
    BY <1>1, <1>2
  <1> QED BY <1>2, <1>3, <1>4, <1>5

LEMMA EnqueueIsBoxed ==
  ASSUME IInv, NEW d \in Devices, NEW op \in Operations, NEW body \in Issued,
         Enqueue(d, op, body)
  PROVE  Boxed' = Boxed \/ Box!Next
  <1>1. stores[d] \in Store!Stores /\ stores \in [Devices -> Store!Stores]
    BY DEF IInv, StoresShape
  <1>2. stores' = [stores EXCEPT ![d] = Store!EnqueueOutbox(stores[d], op, body)]
    BY DEF Enqueue
  <1>3. CASE stores[d].rows[op] # NoRow
    <2>1. stores' = stores
      BY <1>1, <1>2, <1>3 DEF Store!EnqueueOutbox
    <2> QED BY <2>1 DEF Boxed
  <1>4. CASE stores[d].rows[op] = NoRow
    <2> DEFINE new == [body |-> body, state |-> "Pending", revision |-> 0]
    <2>1. \A x \in Devices : stores'[x].rows =
            IF x = d THEN [stores[d].rows EXCEPT ![op] = new] ELSE stores[x].rows
      BY <1>1, <1>2, <1>4 DEF Store!EnqueueOutbox
    <2>2. stores[d].rows \in [Operations -> Store!Rows \cup {NoRow}]
      BY <1>1 DEF Store!Stores
    <2>3. new # NoRow
      BY SyncAssumption
    <2>4. /\ stores'[d].rows[op] = new
          /\ \A x \in Devices, o \in Operations :
               x # d \/ o # op => stores'[x].rows[o] = stores[x].rows[o]
      BY <2>1, <2>2
    <2>5. Held(stores'[d].rows[op]) = [body |-> body, state |-> "Pending"]
      BY <2>3, <2>4 DEF Held
    <2>6. /\ Boxed' = [Boxed EXCEPT ![<<d, op>>] = [body |-> body, state |-> "Pending"]]
          /\ Boxed[<<d, op>>] = NoRow /\ <<d, op>> \in Devices \X Operations
      <3>1. /\ Boxed' = [Boxed EXCEPT ![<<d, op>>] = Held(stores'[d].rows[op])]
            /\ Boxed[<<d, op>>] = Held(stores[d].rows[op])
            /\ <<d, op>> \in Devices \X Operations
        BY <2>4, OneKeyMoves
      <3>2. Held(stores[d].rows[op]) = NoRow
        BY <1>4 DEF Held
      <3> HIDE DEF new
      <3> QED BY <2>5, <3>1, <3>2
    <2>7. Box!Enqueue(<<d, op>>, body)
      BY <2>6 DEF Box!Enqueue, Boxed, Held
    <2> QED BY <2>6, <2>7 DEF Box!Next
  <1> QED BY <1>3, <1>4

LEMMA DeliverIsBoxed ==
  ASSUME IInv, NEW p \in replies, Deliver(p)
  PROVE  Boxed' = Boxed \/ Box!Next
  <1> DEFINE k   == <<p.to, p.op>>
             old == stores[p.to].rows[p.op]
             new == stores'[p.to].rows[p.op]
  <1>1. /\ p.to \in Devices /\ p.op \in Operations
        /\ \A x \in Devices, o \in Operations :
             x # p.to \/ o # p.op => stores'[x].rows[o] = stores[x].rows[o]
        /\ \/ new = old
           \/ /\ old \in Store!Rows /\ old # NoRow /\ old.state = "Pending"
              /\ new # NoRow /\ new.body = old.body
              /\ new.state \in {"Acknowledged", "Archived"}
    BY DeliverHolds DEF RowSettles
  <1>2. /\ Boxed' = [Boxed EXCEPT ![k] = Held(new)] /\ Boxed[k] = Held(old)
        /\ k \in Devices \X Operations
    BY <1>1, OneKeyMoves
  <1> HIDE DEF old, new, k
  <1>3. CASE new = old
    BY <1>2, <1>3 DEF Boxed
  <1>4. CASE /\ old \in Store!Rows /\ old # NoRow /\ old.state = "Pending"
             /\ new # NoRow /\ new.body = old.body
             /\ new.state \in {"Acknowledged", "Archived"}
    <2> DEFINE from == [body |-> old.body, state |-> "Pending"]
    <2>1. Boxed[k] = from
      BY <1>2, <1>4 DEF Held
    <2>2. from # NoRow
      BY <1>4, SyncAssumption DEF Store!Rows
    <2>3. Held(new) = [from EXCEPT !.state = new.state]
      BY <1>4 DEF Held
    <2>4. Boxed' = [Boxed EXCEPT ![k].state = new.state]
      BY <1>2, <2>1, <2>3
    <2>5. Boxed[k] # NoRow /\ Boxed[k].state = "Pending"
      BY <2>1, <2>2
    <2>6. Box!Acknowledge(k) \/ Box!Archive(k)
      BY <1>4, <2>4, <2>5 DEF Box!Acknowledge, Box!Archive, Box!Moved, Boxed, Held
    <2> QED BY <1>2, <2>6 DEF Box!Next
  <1> QED BY <1>1, <1>3, <1>4 DEF old, new

\* The stores of all devices together keep the promise of the outbox in memory,
\* whatever results come, and for any devices, operations and histories
\* (outbox.rs against sync_apply.rs).
THEOREM StoresImplementOutbox == Spec => StoresAreOutboxes
  <1>1. Init => Box!Init
    BY DEF Init, Box!Init, Store!NewStore
  <1>2. IInv /\ [Next]_vars => Boxed' = Boxed \/ Box!Next
    <2> SUFFICES ASSUME IInv, [Next]_vars PROVE Boxed' = Boxed \/ Box!Next
      OBVIOUS
    <2>1. ASSUME stores' = stores PROVE Boxed' = Boxed
      BY <2>1 DEF Boxed
    <2>2. CASE Next
      BY <2>1, <2>2, EnqueueIsBoxed, DeliverIsBoxed DEF Next, Send, Reduce, NewHistory
    <2> QED BY <2>1, <2>2 DEF vars
  <1>3. IInv /\ [Next]_vars =>
          [Box!Next]_([k \in Devices \X Operations |->
                         IF stores[k[1]].rows[k[2]] = NoRow THEN NoRow
                         ELSE [body  |-> stores[k[1]].rows[k[2]].body,
                               state |-> stores[k[1]].rows[k[2]].state]])
    BY <1>2 DEF Boxed, Held
  <1> QED BY <1>1, <1>3, Invariance, PTL DEF Spec, StoresAreOutboxes, Box!Spec

-----------------------------------------------------------------------------
(* The state of a reducer is the replay of what it retained: the function of *)
(* the revisions that Replayed chooses is shown to be there and to grow.     *)

ReplayStep(r, g, n) ==
  IF n = 0 THEN NewState
  ELSE IF AcceptedAs(r, n) = {} THEN g[n - 1]
  ELSE Mutated(g[n - 1], r.kept[CHOOSE o \in AcceptedAs(r, n) : TRUE].body)

IsReplay(r, g) == g = [n \in 0 .. r.revision |-> ReplayStep(r, g, n)]

LEMMA ReplayedIsOne ==
  ASSUME NEW r PROVE Replayed(r) = (CHOOSE g : IsReplay(r, g))[r.revision]
  BY DEF Replayed, ReplayStep, IsReplay

\* There is only one.
LEMMA ReplayIsUnique ==
  ASSUME NEW r, r.revision \in Nat, NEW h, IsReplay(r, h)
  PROVE  Replayed(r) = h[r.revision]
  <1> DEFINE g == CHOOSE g : IsReplay(r, g)
             Bad == {n \in 0 .. r.revision : g[n] # h[n]}
  <1>1. IsReplay(r, g)
    OBVIOUS
  <1>2. Replayed(r) = g[r.revision]
    BY ReplayedIsOne
  <1> HIDE DEF g
  <1>3. \A n \in 0 .. r.revision : g[n] = ReplayStep(r, g, n) /\ h[n] = ReplayStep(r, h, n)
    BY <1>1 DEF IsReplay
  <1>4. Bad = {}
    <2> SUFFICES ASSUME Bad # {} PROVE FALSE
      OBVIOUS
    <2>1. PICK n \in Bad : \A m \in Bad : n <= m
      <3>1. Bad \in SUBSET Nat
        OBVIOUS
      <3> HIDE DEF Bad
      <3> QED
        BY <3>1, LeastNumber
    <2>2. n \in 0 .. r.revision /\ g[n] # h[n]
      OBVIOUS
    <2>3. n # 0
      BY <1>3, <2>2 DEF ReplayStep
    <2>4. n - 1 \in 0 .. r.revision /\ ~(n <= n - 1)
      BY <2>2, <2>3
    <2>5. n - 1 \notin Bad
      <3> HIDE DEF Bad
      <3> QED
        BY <2>1, <2>4
    <2>6. g[n - 1] = h[n - 1]
      BY <2>4, <2>5
    <2> QED
      BY <1>3, <2>2, <2>6 DEF ReplayStep
  <1> QED
    BY <1>2, <1>4

\* A reducer's state is a replay, and each revision it has used is one operation's.
StateOf(r) == [lists |-> r.lists, values |-> r.values]

Replays(r) ==
  /\ \E g : IsReplay(r, g) /\ StateOf(r) = g[r.revision]
  /\ \A o \in Operations : r.kept[o] # NoResult => r.kept[o].revision <= r.revision
  /\ \A o, p \in Operations :
       (r.kept[o] # NoResult /\ r.kept[p] # NoResult /\ o # p) =>
         r.kept[o].revision # r.kept[p].revision

ReplayInv == \A e \in Epochs : Replays(histories[e])

LEMMA InitReplays == Init => ReplayInv
  <1> DEFINE r == Reducer!NewReducer
             g == [n \in 0 .. 0 |-> NewState]
  <1>1. r.revision = 0 /\ \A o \in Operations : r.kept[o] = NoResult
    BY DEF Reducer!NewReducer
  <1>2. g[0] = NewState /\ NewState = StateOf(r)
    BY DEF NewState, StateOf
  <1>3. IsReplay(r, g)
    BY <1>1 DEF IsReplay, ReplayStep
  <1>4. Replays(r)
    <2> HIDE DEF r, g
    <2> QED
      BY <1>1, <1>2, <1>3 DEF Replays
  <1> QED
    BY <1>4 DEF Init, ReplayInv

\* A revision more, accepted or used up by a mutation that failed.
LEMMA ReplayGrows ==
  ASSUME NEW r, r.revision \in Nat, DOMAIN r.kept = Operations, Replays(r),
         NEW n, n.revision = r.revision + 1, DOMAIN n.kept = Operations,
         \A o \in Operations : r.kept[o] # NoResult => r.kept[o].revision \in Nat,
         \/ n.kept = r.kept /\ StateOf(n) = StateOf(r)
         \/ \E op \in Operations :
              /\ r.kept[op] = NoResult /\ n.kept[op] # NoResult
              /\ n.kept[op].revision = r.revision + 1
              /\ \A o \in Operations : o # op => n.kept[o] = r.kept[o]
              /\ StateOf(n) = Mutated(StateOf(r), n.kept[op].body)
  PROVE  Replays(n)
  <1> DEFINE last == r.revision + 1
  <1>1. PICK g : IsReplay(r, g) /\ StateOf(r) = g[r.revision]
    BY DEF Replays
  <1> DEFINE h == [m \in 0 .. last |-> IF m = last THEN StateOf(n) ELSE g[m]]
  <1>2. \A m \in 0 .. r.revision : AcceptedAs(n, m) = AcceptedAs(r, m)
    BY DEF AcceptedAs
  <1>3. \A m \in 0 .. r.revision : \A o \in AcceptedAs(r, m) : n.kept[o] = r.kept[o]
    BY DEF AcceptedAs
  <1>4. ASSUME NEW m \in 0 .. r.revision PROVE ReplayStep(n, h, m) = h[m]
    <2>1. g[m] = ReplayStep(r, g, m) /\ h[m] = g[m] /\ (m # 0 => h[m - 1] = g[m - 1])
      BY SMTT(30), <1>1 DEF IsReplay
    <2> HIDE DEF h
    <2>2. CASE m = 0 \/ AcceptedAs(r, m) = {}
      BY <1>2, <2>1, <2>2 DEF ReplayStep
    <2>3. CASE m # 0 /\ AcceptedAs(r, m) # {}
      <3> DEFINE o == CHOOSE o \in AcceptedAs(r, m) : TRUE
      <3>1. n.kept[o] = r.kept[o]
        BY <1>3, <2>3
      <3> QED
        BY <1>2, <2>1, <2>3, <3>1 DEF ReplayStep
    <2> QED
      BY <2>2, <2>3
  <1>5. last # 0 /\ last - 1 = r.revision /\ last - 1 # last /\ h[last - 1] = StateOf(r)
        /\ h[last] = StateOf(n)
    BY <1>1
  <1>6. ReplayStep(n, h, last) = h[last]
    <2>1. AcceptedAs(r, last) = {}
      BY DEF Replays, AcceptedAs
    <2>2. CASE n.kept = r.kept /\ StateOf(n) = StateOf(r)
      <3>1. AcceptedAs(n, last) = {}
        BY <2>1, <2>2 DEF AcceptedAs
      <3> HIDE DEF h, last
      <3> QED
        BY <1>5, <2>2, <3>1 DEF ReplayStep
    <2>3. ASSUME NEW op \in Operations,
                 /\ r.kept[op] = NoResult /\ n.kept[op] # NoResult
                 /\ n.kept[op].revision = r.revision + 1
                 /\ \A o \in Operations : o # op => n.kept[o] = r.kept[o]
                 /\ StateOf(n) = Mutated(StateOf(r), n.kept[op].body)
          PROVE  ReplayStep(n, h, last) = h[last]
      <3>1. AcceptedAs(n, last) = {op}
        BY <2>1, <2>3 DEF AcceptedAs
      <3> HIDE DEF h, last
      <3> QED
        BY <1>5, <2>3, <3>1 DEF ReplayStep
    <2> QED
      BY <2>2, <2>3
  <1>7. IsReplay(n, h)
    <2>1. \A m \in 0 .. n.revision : h[m] = ReplayStep(n, h, m)
      <3>1. \A m \in 0 .. n.revision : m = last \/ m \in 0 .. r.revision
        OBVIOUS
      <3> HIDE DEF h, last
      <3> QED
        BY <1>4, <1>6, <3>1
    <2>2. h = [m \in 0 .. n.revision |-> h[m]]
      OBVIOUS
    <2> HIDE DEF h
    <2> QED
      BY <2>1, <2>2 DEF IsReplay
  <1> HIDE DEF h
  <1> QED
    BY <1>5, <1>7 DEF Replays

LEMMA ReduceReplays ==
  ASSUME IInv, ReplayInv, NEW q \in sent, Reduce(q)
  PROVE  ReplayInv'
  <1> DEFINE r == histories[epoch]
             n == Reducer!Applied(r, q.op, q.body)
             row == [body |-> q.body, revision |-> r.revision + 1,
                     version |-> Reducer!ResultVersion(r, q.body)]
  <1>1. /\ epoch \in Epochs /\ DOMAIN histories = Epochs
        /\ r.revision \in Nat /\ DOMAIN r.kept = Operations
        /\ \A o \in Operations : r.kept[o] # NoResult => r.kept[o].revision \in Nat
    BY DEF IInv, HistoriesShape
  <1>2. q.op \in Operations
    BY DEF IInv, SentFromRows, Requests
  <1>3. Replays(r)
    BY <1>1 DEF ReplayInv
  <1>4. Replays(n)
    <2>1. CASE Reducer!Accepts(r, q.op, q.body)
      <3>1. n = [revision |-> r.revision + 1, kept |-> [r.kept EXCEPT ![q.op] = row],
                 lists |-> Reducer!MutatedLists(r.lists, q.body),
                 values |-> Reducer!MutatedValues(r.values, q.body)]
        BY <2>1 DEF Reducer!Applied
      <3>2. r.kept[q.op] = NoResult /\ row # NoResult
        <4>1. r.kept[q.op] = NoResult
          BY <2>1 DEF Reducer!Accepts
        <4>2. Reducer!Answered(r, q.op, q.body).status = "Accepted"
          BY <2>1, <4>1 DEF Reducer!Answered, Reducer!IsRetained
        <4>3. n.kept[q.op] # NoResult
          <5>1. HistoriesShape /\ q.body \in Issued
            BY DEF IInv, SentFromRows, Requests
          <5> QED
            BY <1>2, <4>2, <5>1, AppliedEffect
        <4>4. n.kept[q.op] = row
          BY <1>1, <1>2, <3>1
        <4> QED
          BY <4>1, <4>3, <4>4
      <3>3. StateOf(n) = Mutated(StateOf(r), q.body)
        BY <3>1 DEF StateOf, Mutated
      <3> QED
        BY <1>1, <1>3, <1>2, <3>1, <3>2, <3>3, ReplayGrows
    <2>2. CASE ~Reducer!Accepts(r, q.op, q.body) /\ n # r
      <3>1. n = [revision |-> r.revision + 1, kept |-> r.kept,
                 lists |-> r.lists, values |-> r.values]
        BY <2>2 DEF Reducer!Applied
      <3>2. StateOf(n) = StateOf(r)
        BY <3>1 DEF StateOf
      <3> QED
        BY <1>1, <1>3, <3>1, <3>2, ReplayGrows
    <2> QED
      BY <1>3, <2>1, <2>2
  <1>5. histories' = [histories EXCEPT ![epoch] = n]
    BY DEF Reduce
  <1> QED
    BY <1>1, <1>4, <1>5 DEF ReplayInv

\* What a server holds of playlists and values is the replay of the operations it
\* accepted, in the order of their revisions, no revision twice, for any
\* operations, retries, failed mutations and epochs (reducer.rs).
THEOREM StateStaysTheReplay == Spec => []StateIsReplay
  <1>1. IInv /\ ReplayInv /\ [Next]_vars => ReplayInv'
    <2> SUFFICES ASSUME IInv, ReplayInv, [Next]_vars PROVE ReplayInv'
      OBVIOUS
    <2>1. ASSUME histories' = histories PROVE ReplayInv'
      BY <2>1 DEF ReplayInv
    <2> QED
      BY <2>1, ReduceReplays DEF Next, Enqueue, Send, Deliver, NewHistory, vars
  <1>2. IInv /\ ReplayInv => StateIsReplay
    <2> SUFFICES ASSUME IInv, ReplayInv, NEW e \in Epochs
                 PROVE  /\ StateOf(histories[e]) = Replayed(histories[e])
                        /\ \A o, p \in Operations :
                             (histories[e].kept[o] # NoResult /\ histories[e].kept[p] # NoResult
                              /\ o # p) =>
                               histories[e].kept[o].revision # histories[e].kept[p].revision
      BY DEF StateIsReplay, StateOf
    <2>1. histories[e].revision \in Nat /\ Replays(histories[e])
      BY DEF IInv, HistoriesShape, ReplayInv
    <2> QED
      BY <2>1, ReplayIsUnique DEF Replays
  <1> QED
    BY <1>1, <1>2, Invariance, InitReplays, PTL DEF Spec

-----------------------------------------------------------------------------
(* What the loop of validate_snapshot over the chunks has done after each.   *)

LEMMA MaxIsOne ==
  ASSUME NEW n \in Nat, NEW s \in SUBSET (1 .. n), s # {}
  PROVE  Max(s) \in s /\ \A y \in s : y <= Max(s)
  <1> DEFINE T == {n - y : y \in s}
  <1>1. \A y \in s : y \in Nat /\ n - y \in Nat
    OBVIOUS
  <1>2. T \in SUBSET Nat /\ T # {}
    BY <1>1
  <1>3. PICK t \in T : \A u \in T : t <= u
    <2> HIDE DEF T
    <2> QED
      BY <1>2, LeastNumber
  <1>4. PICK x \in s : t = n - x
    OBVIOUS
  <1>5. ASSUME NEW y \in s PROVE x >= y
    <2>1. n - x <= n - y
      BY <1>3, <1>4
    <2> QED
      BY <1>1, <2>1
  <1> QED
    BY <1>5, <1>1 DEF Max

PlaceBase(m) == [taken |-> [i \in 1 .. m.total |-> <<>>], fault |-> "None"]

PlaceNext(m, scan, c) ==
  LET fault == ChunkFault(m, scan.taken, c) IN
  IF scan.fault # "None" THEN scan
  ELSE IF fault # "None" THEN [scan EXCEPT !.fault = fault]
  ELSE [scan EXCEPT !.taken[c.index + 1] = <<c.payload>>]

PlaceStep(m, chunks, g, s) ==
  IF s = {} THEN PlaceBase(m)
  ELSE LET x == Max(s) IN PlaceNext(m, g[s \ {x}], chunks[x])

PlacesIn(m, chunks) ==
  CHOOSE g : g = [s \in SUBSET DOMAIN chunks |-> PlaceStep(m, chunks, g, s)]

LEMMA PlacedIsFold ==
  ASSUME NEW m, NEW chunks
  PROVE  Placed(m, chunks) = PlacesIn(m, chunks)[DOMAIN chunks]
  BY DEF Placed, FoldLeft, MapThenFoldSet, PlacesIn, PlaceStep, PlaceNext, PlaceBase

\* There is a function with this recursion: on the chunks up to a number first.
LEMMA PlacesRecursion ==
  ASSUME NEW m, NEW chunks, NEW n \in Nat, DOMAIN chunks = 1 .. n
  PROVE  PlacesIn(m, chunks) =
           [s \in SUBSET (1 .. n) |-> PlaceStep(m, chunks, PlacesIn(m, chunks), s)]
  <1> DEFINE Goes(g, k) == g = [s \in SUBSET (1 .. k) |-> PlaceStep(m, chunks, g, s)]
             Bad == {k \in Nat : ~ \E g : Goes(g, k)}
  <1>1. Bad = {}
    <2> SUFFICES ASSUME Bad # {} PROVE FALSE
      OBVIOUS
    <2>1. PICK k \in Bad : \A j \in Bad : k <= j
      <3>1. Bad \in SUBSET Nat
        OBVIOUS
      <3> HIDE DEF Bad
      <3> QED
        BY <3>1, LeastNumber
    <2>2. k \in Nat
      OBVIOUS
    <2>3. PICK g : k # 0 => Goes(g, k - 1)
      <3>1. CASE k = 0
        BY <3>1
      <3>2. CASE k # 0
        <4>1. k - 1 \in Nat /\ ~(k <= k - 1)
          BY <2>2, <3>2
        <4>2. k - 1 \notin Bad
          <5> HIDE DEF Bad
          <5> QED
            BY <2>1, <4>1
        <4> QED
          BY <4>1, <4>2
      <3> QED
        BY <3>1, <3>2
    <2> DEFINE h == [s \in SUBSET (1 .. k) |-> PlaceStep(m, chunks, g, s)]
    <2>4. ASSUME NEW s \in SUBSET (1 .. k)
          PROVE  PlaceStep(m, chunks, h, s) = PlaceStep(m, chunks, g, s)
      <3>1. CASE s = {}
        BY <3>1 DEF PlaceStep
      <3>2. CASE s # {}
        <4> DEFINE x == Max(s)
                   r == s \ {x}
        <4>1. x \in s /\ \A y \in s : y <= x
          BY <2>2, <3>2, MaxIsOne
        <4> HIDE DEF x
        <4>2. r \in SUBSET (1 .. k) /\ r \in SUBSET (1 .. (k - 1)) /\ k # 0
          BY <2>2, <4>1
        <4>3. h[r] = g[r]
          <5>1. g = [u \in SUBSET (1 .. (k - 1)) |-> PlaceStep(m, chunks, g, u)]
            BY <2>3, <4>2
          <5>2. g[r] = PlaceStep(m, chunks, g, r)
            BY <4>2, <5>1
          <5> QED
            BY <4>2, <5>2
        <4> HIDE DEF h
        <4> QED
          BY <3>2, <4>3 DEF PlaceStep, x
      <3> QED
        BY <3>1, <3>2
    <2>5. Goes(h, k)
      <3>1. h = [s \in SUBSET (1 .. k) |-> PlaceStep(m, chunks, g, s)]
        OBVIOUS
      <3> HIDE DEF h
      <3> QED
        BY <2>4, <3>1
    <2> HIDE DEF h, Goes
    <2> QED
      BY <2>1, <2>5
  <1>2. \E g : Goes(g, n)
    BY <1>1
  <1> QED
    BY <1>2 DEF PlacesIn

PlacesAfter(m, chunks, k) == PlacesIn(m, chunks)[1 .. k]

LEMMA PlacesUnfold ==
  ASSUME NEW m, NEW chunks, NEW n \in Nat, DOMAIN chunks = 1 .. n
  PROVE  /\ Placed(m, chunks) = PlacesAfter(m, chunks, n)
         /\ PlacesAfter(m, chunks, 0) = PlaceBase(m)
         /\ \A k \in 1 .. n :
              PlacesAfter(m, chunks, k) = PlaceNext(m, PlacesAfter(m, chunks, k - 1), chunks[k])
  <1> DEFINE g == PlacesIn(m, chunks)
  <1>1. \A s \in SUBSET (1 .. n) : g[s] = PlaceStep(m, chunks, g, s)
    <2>1. g = [s \in SUBSET (1 .. n) |-> PlaceStep(m, chunks, g, s)]
      BY PlacesRecursion
    <2> HIDE DEF g
    <2> QED
      BY <2>1
  <1>2. g[1 .. n] = Placed(m, chunks)
    BY PlacedIsFold
  <1> HIDE DEF g
  <1>3. g[1 .. 0] = PlaceBase(m)
    <2>1. 1 .. 0 = {}
      OBVIOUS
    <2> QED
      BY <1>1, <2>1 DEF PlaceStep
  <1>4. ASSUME NEW k \in 1 .. n
        PROVE  g[1 .. k] = PlaceNext(m, g[1 .. (k - 1)], chunks[k])
    <2>1. 1 .. k \in SUBSET (1 .. n) /\ 1 .. k # {} /\ k \in 1 .. k
      BY SMTT(30)
    <2>2. Max(1 .. k) = k
      <3>1. Max(1 .. k) \in 1 .. k /\ k <= Max(1 .. k)
        BY <2>1, MaxIsOne
      <3> QED
        BY <3>1
    <2>3. (1 .. k) \ {k} = 1 .. (k - 1)
      OBVIOUS
    <2> QED
      BY <1>1, <2>1, <2>2, <2>3 DEF PlaceStep
  <1> QED
    BY <1>2, <1>3, <1>4 DEF PlacesAfter, g

LEMMA PlaceNextIs ==
  ASSUME NEW m, NEW t, NEW fault, NEW c
  PROVE  LET scan == [taken |-> t, fault |-> fault]
             now  == ChunkFault(m, t, c)
         IN  PlaceNext(m, scan, c) =
               IF fault # "None" THEN scan
               ELSE IF now # "None" THEN [taken |-> t, fault |-> now]
               ELSE [taken |-> [t EXCEPT ![c.index + 1] = <<c.payload>>], fault |-> fault]
  <1> DEFINE now == ChunkFault(m, t, c)
  <1> HIDE DEF now
  <1> QED
    BY DEF PlaceNext, now

LEMMA OneIsSome == \A x : <<x>> # <<>>
  <1> SUFFICES ASSUME NEW x, <<x>> = <<>> PROVE FALSE
    OBVIOUS
  <1>1. Len(<<x>>) = 1 /\ Len(<<>>) = 0
    OBVIOUS
  <1> QED
    BY <1>1

\* While there is no fault, the chunks so far each have a place of their own,
\* and the other places are empty.
Filled(m, chunks, k, t) ==
  /\ \A j \in 1 .. k :
       /\ chunks[j].index < m.total
       /\ Digest(chunks[j].payload) = chunks[j].sha256
       /\ t[chunks[j].index + 1] = <<chunks[j].payload>>
  /\ \A i, j \in 1 .. k : i # j => chunks[i].index # chunks[j].index
  /\ \A i \in 1 .. m.total : t[i] = <<>> \/ \E j \in 1 .. k : chunks[j].index + 1 = i

IsScan(m, chunks, k, scan) ==
  \E t, fault :
    /\ scan = [taken |-> t, fault |-> fault]
    /\ t = [i \in 1 .. m.total |-> t[i]]
    /\ fault = "None" => Filled(m, chunks, k, t)
    /\ fault \notin {"Ok", "InvalidManifest"}

LEMMA ScanIs ==
  ASSUME NEW m, NEW chunks, NEW k, NEW t, NEW fault, t = [i \in 1 .. m.total |-> t[i]],
         fault = "None" => Filled(m, chunks, k, t), fault \notin {"Ok", "InvalidManifest"}
  PROVE  IsScan(m, chunks, k, [taken |-> t, fault |-> fault])
  BY DEF IsScan

LEMMA NextIsScan ==
  ASSUME NEW m, m.total \in Nat, NEW chunks, NEW k \in Nat,
         \A j \in 1 .. (k + 1) : chunks[j].index \in Nat,
         NEW scan, IsScan(m, chunks, k, scan)
  PROVE  IsScan(m, chunks, k + 1, PlaceNext(m, scan, chunks[k + 1]))
  <1>1. PICK t, fault :
          /\ scan = [taken |-> t, fault |-> fault]
          /\ t = [i \in 1 .. m.total |-> t[i]]
          /\ fault = "None" => Filled(m, chunks, k, t)
          /\ fault \notin {"Ok", "InvalidManifest"}
    BY DEF IsScan
  <1> DEFINE c == chunks[k + 1]
             now == ChunkFault(m, t, c)
             more == [t EXCEPT ![c.index + 1] = <<c.payload>>]
  <1>2. PlaceNext(m, scan, c) =
          IF fault # "None" THEN scan
          ELSE IF now # "None" THEN [taken |-> t, fault |-> now]
          ELSE [taken |-> more, fault |-> fault]
    <2>1. PlaceNext(m, [taken |-> t, fault |-> fault], c) =
            IF fault # "None" THEN [taken |-> t, fault |-> fault]
            ELSE IF now # "None" THEN [taken |-> t, fault |-> now]
            ELSE [taken |-> more, fault |-> fault]
      <3> HIDE DEF c
      <3> QED
        BY PlaceNextIs
    <2> HIDE DEF c, now, more
    <2> QED
      BY <1>1, <2>1
  <1>3. CASE fault # "None"
    <2>1. PlaceNext(m, scan, c) = scan
      BY <1>2, <1>3
    <2> QED
      BY <1>1, <1>3, <2>1 DEF IsScan
  <1>4. CASE fault = "None" /\ now # "None"
    <2>1. PlaceNext(m, scan, c) = [taken |-> t, fault |-> now]
      BY <1>2, <1>4
    <2>2. /\ now \notin {"None", "Ok", "InvalidManifest"}
          /\ t = [i \in 1 .. m.total |-> t[i]]
      BY <1>1, <1>4 DEF ChunkFault
    <2> HIDE DEF now, c
    <2>3. IsScan(m, chunks, k + 1, [taken |-> t, fault |-> now])
      BY <2>2, ScanIs
    <2> QED
      BY <2>1, <2>3 DEF c
  <1>5. CASE fault = "None" /\ now = "None"
    <2>1. PlaceNext(m, scan, c) = [taken |-> more, fault |-> "None"]
      BY <1>2, <1>5
    <2>2. /\ c.index < m.total /\ t[c.index + 1] = <<>>
          /\ Digest(c.payload) = c.sha256
      BY <1>5 DEF ChunkFault
    <2>3. c.index \in Nat /\ c.index + 1 \in 1 .. m.total
      BY <2>2
    <2>4. Filled(m, chunks, k, t)
      BY <1>1, <1>5
    <2>5. \A i \in 1 .. m.total :
            more[i] = IF i = c.index + 1 THEN <<c.payload>> ELSE t[i]
      BY <1>1
    <2>6. more = [i \in 1 .. m.total |-> more[i]]
      BY <1>1
    <2>7. \A j \in 1 .. (k + 1) : j = k + 1 \/ j \in 1 .. k
      OBVIOUS
    <2>8. ASSUME NEW j \in 1 .. k
          PROVE  /\ chunks[j].index \in Nat /\ chunks[j].index < m.total
                 /\ chunks[j].index + 1 \in 1 .. m.total
                 /\ Digest(chunks[j].payload) = chunks[j].sha256
                 /\ chunks[j].index # c.index
                 /\ more[chunks[j].index + 1] = <<chunks[j].payload>>
      <3>1. /\ chunks[j].index \in Nat /\ chunks[j].index < m.total
            /\ Digest(chunks[j].payload) = chunks[j].sha256
            /\ t[chunks[j].index + 1] = <<chunks[j].payload>>
        <4>1. j \in 1 .. (k + 1)
          BY <2>7
        <4> HIDE DEF c, more
        <4> QED
          BY <2>4, <4>1 DEF Filled
      <3>2. chunks[j].index # c.index
        <4>1. t[c.index + 1] = <<>> /\ t[chunks[j].index + 1] # <<>>
          <5> HIDE DEF c
          <5> QED
            BY <2>2, <3>1, OneIsSome
        <4> HIDE DEF c
        <4> QED
          BY <4>1
      <3>3. chunks[j].index + 1 \in 1 .. m.total
        BY <3>1
      <3> HIDE DEF more, c
      <3> QED
        BY <2>3, <2>5, <3>1, <3>2, <3>3
    <2>9. more[c.index + 1] = <<c.payload>>
      BY <2>3, <2>5
    <2>10. Filled(m, chunks, k + 1, more)
      <3>1. \A j \in 1 .. (k + 1) :
              /\ chunks[j].index < m.total
              /\ Digest(chunks[j].payload) = chunks[j].sha256
              /\ more[chunks[j].index + 1] = <<chunks[j].payload>>
        <4> HIDE DEF more
        <4> QED
          BY <2>2, <2>7, <2>8, <2>9
      <3>2. \A i, j \in 1 .. (k + 1) : i # j => chunks[i].index # chunks[j].index
        BY <2>4, <2>7, <2>8 DEF Filled
      <3>3. ASSUME NEW i \in 1 .. m.total
            PROVE  more[i] = <<>> \/ \E j \in 1 .. (k + 1) : chunks[j].index + 1 = i
        <4>1. CASE i = c.index + 1
          BY <4>1
        <4>2. CASE i # c.index + 1
          <5>1. more[i] = t[i]
            BY <2>5, <4>2
          <5>2. \A j \in 1 .. k : j \in 1 .. (k + 1)
            OBVIOUS
          <5> HIDE DEF more
          <5> QED
            BY <2>4, <5>1, <5>2 DEF Filled
        <4> QED
          BY <4>1, <4>2
      <3> HIDE DEF more
      <3> QED
        BY <3>1, <3>2, <3>3 DEF Filled
    <2> HIDE DEF more, c
    <2>11. IsScan(m, chunks, k + 1, [taken |-> more, fault |-> "None"])
      BY <2>6, <2>10, ScanIs
    <2> QED
      BY <2>1, <2>11 DEF c
  <1> QED
    BY <1>3, <1>4, <1>5

LEMMA PlacesAreScans ==
  ASSUME NEW m, m.total \in Nat, NEW chunks, NEW n \in Nat, DOMAIN chunks = 1 .. n,
         \A j \in 1 .. n : chunks[j].index \in Nat
  PROVE  \A k \in 0 .. n : IsScan(m, chunks, k, PlacesAfter(m, chunks, k))
  <1> DEFINE Bad == {k \in 0 .. n : ~IsScan(m, chunks, k, PlacesAfter(m, chunks, k))}
  <1> SUFFICES ASSUME Bad # {} PROVE FALSE
    OBVIOUS
  <1>1. PICK k \in Bad : \A j \in Bad : k <= j
    <2>1. Bad \in SUBSET Nat
      OBVIOUS
    <2> HIDE DEF Bad
    <2> QED
      BY <2>1, LeastNumber
  <1>2. k \in 0 .. n /\ ~IsScan(m, chunks, k, PlacesAfter(m, chunks, k))
    OBVIOUS
  <1>3. IsScan(m, chunks, 0, PlaceBase(m))
    <2> DEFINE t == [i \in 1 .. m.total |-> <<>>]
    <2>1. Filled(m, chunks, 0, t)
      BY DEF Filled
    <2>2. t = [i \in 1 .. m.total |-> t[i]]
      OBVIOUS
    <2>3. PlaceBase(m) = [taken |-> t, fault |-> "None"]
      BY DEF PlaceBase
    <2> HIDE DEF t
    <2>4. IsScan(m, chunks, 0, [taken |-> t, fault |-> "None"])
      BY <2>1, <2>2, ScanIs
    <2> QED
      BY <2>3, <2>4
  <1>4. k # 0
    BY <1>2, <1>3, PlacesUnfold
  <1>5. k - 1 \in 0 .. n /\ ~(k <= k - 1) /\ k \in 1 .. n /\ k - 1 \in Nat /\ (k - 1) + 1 = k
    BY <1>2, <1>4
  <1>6. k - 1 \notin Bad
    <2> HIDE DEF Bad
    <2> QED
      BY <1>1, <1>5
  <1>7. IsScan(m, chunks, k - 1, PlacesAfter(m, chunks, k - 1))
    BY <1>5, <1>6
  <1>8. \A j \in 1 .. ((k - 1) + 1) : chunks[j].index \in Nat
    BY <1>5
  <1>9. IsScan(m, chunks, (k - 1) + 1,
               PlaceNext(m, PlacesAfter(m, chunks, k - 1), chunks[(k - 1) + 1]))
    BY <1>5, <1>7, <1>8, NextIsScan
  <1>10. PlacesAfter(m, chunks, k) = PlaceNext(m, PlacesAfter(m, chunks, k - 1), chunks[k])
    BY <1>5, PlacesUnfold
  <1>11. IsScan(m, chunks, k, PlacesAfter(m, chunks, k))
    BY <1>5, <1>9, <1>10
  <1> QED
    BY <1>2, <1>11

-----------------------------------------------------------------------------
\* Where the first of a sequence with an index is.
Place(s, v) == SelectInSeq(s, LAMBDA c : c.index = v)

LEMMA PlaceIsMin ==
  ASSUME NEW s, NEW v
  PROVE  Place(s, v) = LET I == {i \in 1 .. Len(s) : s[i].index = v}
                       IN  IF I # {} THEN Min(I) ELSE 0
  BY DEF Place, SelectInSeq

LEMMA PlaceIsThere ==
  ASSUME NEW s, Len(s) \in Nat, NEW v, \E j \in 1 .. Len(s) : s[j].index = v
  PROVE  Place(s, v) \in 1 .. Len(s) /\ s[Place(s, v)].index = v
  <1> DEFINE I == {i \in 1 .. Len(s) : s[i].index = v}
  <1>1. I \in SUBSET Nat /\ I # {}
    OBVIOUS
  <1>2. Min(I) \in I
    <2>1. \E x \in I : \A y \in I : x <= y
      <3> HIDE DEF I
      <3> QED
        BY <1>1, LeastNumber
    <2> HIDE DEF I
    <2> QED
      BY <2>1 DEF Min
  <1>3. Place(s, v) = Min(I)
    BY <1>1, PlaceIsMin
  <1> QED
    BY <1>2, <1>3

\* What the loop says of a whole list of chunks.
LEMMA PlacedIsScan ==
  ASSUME NEW m \in Manifests, NEW chunks \in Seq(Deliveries)
  PROVE  IsScan(m, chunks, Len(chunks), Placed(m, chunks))
  <1> DEFINE n == Len(chunks)
  <1>1. n \in Nat /\ DOMAIN chunks = 1 .. n /\ m.total \in Nat
    BY SnapshotAssumption
  <1>2. \A j \in 1 .. n : chunks[j].index \in Nat
    BY <1>1, SnapshotAssumption
  <1> HIDE DEF n
  <1>3. IsScan(m, chunks, n, PlacesAfter(m, chunks, n))
    BY <1>1, <1>2, PlacesAreScans
  <1> QED
    BY <1>1, <1>3, PlacesUnfold DEF n

LEMMA FirstNumbers ==
  ASSUME NEW n \in Nat PROVE IsFiniteSet(1 .. n) /\ Cardinality(1 .. n) = n
  <1>1. 1 \in Int /\ n \in Int
    OBVIOUS
  <1>2. IsFiniteSet(1 .. n) /\ Cardinality(1 .. n) = IF 1 > n THEN 0 ELSE n - 1 + 1
    BY <1>1, FS_Interval
  <1> QED
    BY <1>2

LEMMA AcceptedIsWhole ==
  ASSUME NEW m \in Manifests, NEW chunks \in Seq(Deliveries),
         ValidateSnapshot(m, chunks) = "Ok"
  PROVE  /\ Len(chunks) = m.total
         /\ \A k \in DOMAIN chunks : Digest(chunks[k].payload) = chunks[k].sha256
         /\ Digest(FlattenSeq([i \in 1 .. m.total |-> chunks[Place(chunks, i - 1)].payload]))
              = m.whole
  <1> DEFINE n == Len(chunks)
  <1>1. n \in Nat /\ DOMAIN chunks = 1 .. n /\ m.total \in Nat
    BY SnapshotAssumption
  <1>2. \A j \in 1 .. n : chunks[j].index \in Nat
    BY <1>1, SnapshotAssumption
  <1>3. PICK t, fault :
          /\ Placed(m, chunks) = [taken |-> t, fault |-> fault]
          /\ fault = "None" => Filled(m, chunks, n, t)
          /\ fault \notin {"Ok", "InvalidManifest"}
    BY PlacedIsScan DEF IsScan
  <1> DEFINE held == [i \in 1 .. m.total |-> t[i][1]]
  <1>4. /\ fault = "None" /\ \A i \in 1 .. m.total : t[i] # <<>>
        /\ Digest(FlattenSeq(held)) = m.whole
    <2>1. Placed(m, chunks).taken = t /\ Placed(m, chunks).fault = fault
      BY <1>3
    <2> QED
      BY <1>3, <2>1 DEF ValidateSnapshot
  <1>5. Filled(m, chunks, n, t)
    BY <1>3, <1>4
  <1> HIDE DEF n
  <1>6. n = m.total
    <2> DEFINE f == [j \in 1 .. n |-> chunks[j].index + 1]
    <2>1. f \in [1 .. n -> 1 .. m.total]
      <3>1. \A j \in 1 .. n : chunks[j].index + 1 \in 1 .. m.total
        BY <1>1, <1>2, <1>5 DEF Filled
      <3> QED
        BY <3>1
    <2>2. \A i, j \in 1 .. n : f[i] = f[j] => i = j
      BY <1>2, <1>5 DEF Filled
    <2>3. \A i \in 1 .. m.total : \E j \in 1 .. n : f[j] = i
      BY <1>4, <1>5 DEF Filled
    <2> HIDE DEF f
    <2>4. f \in Surjection(1 .. n, 1 .. m.total) /\ f \in Injection(1 .. n, 1 .. m.total)
      BY <2>1, <2>2, <2>3 DEF Surjection, Injection, IsInjective
    <2>5. /\ IsFiniteSet(1 .. n) /\ Cardinality(1 .. n) = n
          /\ Cardinality(1 .. m.total) = m.total
      BY <1>1, FirstNumbers
    <2>6. Cardinality(1 .. m.total) = Cardinality(1 .. n)
      BY <2>4, <2>5, FS_Surjection
    <2> QED
      BY <2>5, <2>6
  <1>7. ASSUME NEW i \in 1 .. m.total PROVE t[i][1] = chunks[Place(chunks, i - 1)].payload
    <2>1. PICK j \in 1 .. n : chunks[j].index + 1 = i
      BY <1>4, <1>5 DEF Filled
    <2>2. chunks[j].index = i - 1
      BY <1>2, <2>1
    <2> DEFINE p == Place(chunks, i - 1)
    <2>3. p \in 1 .. n /\ chunks[p].index = i - 1
      BY <1>1, <2>2, PlaceIsThere DEF n
    <2> HIDE DEF p
    <2>4. p = j
      BY <1>5, <2>2, <2>3 DEF Filled
    <2>5. t[chunks[j].index + 1] = <<chunks[j].payload>>
      BY <1>5 DEF Filled
    <2>6. t[i] = <<chunks[j].payload>>
      BY <2>1, <2>5
    <2> QED
      BY <2>4, <2>6 DEF p
  <1>8. held = [i \in 1 .. m.total |-> chunks[Place(chunks, i - 1)].payload]
    BY <1>7
  <1>9. \A k \in DOMAIN chunks : Digest(chunks[k].payload) = chunks[k].sha256
    BY <1>1, <1>5 DEF Filled
  <1> HIDE DEF held
  <1> QED
    BY <1>4, <1>6, <1>8, <1>9 DEF n

\* A whole snapshot has no two chunks in one place.
LEMMA SentOnce ==
  ASSUME NEW chunks, Len(chunks) \in Nat, DOMAIN chunks = 1 .. Len(chunks),
         Len(chunks) = Len(Source), ToSet(chunks) = Sent
  PROVE  \A j, k \in 1 .. Len(chunks) : chunks[j].index = chunks[k].index => j = k
  <1> DEFINE n == Len(chunks)
             f == [j \in 1 .. n |-> chunks[j].index + 1]
  <1>1. DOMAIN Source = 1 .. n
    BY SnapshotAssumption
  <1>2. ASSUME NEW j \in 1 .. n PROVE chunks[j].index + 1 \in 1 .. n
    <2>1. chunks[j] \in Sent
      BY DEF ToSet
    <2>2. PICK i \in 1 .. n : chunks[j] = Chunk(SnapshotId, i - 1, Digest(Source[i]), Source[i])
      BY <1>1, <2>1 DEF Sent
    <2>3. chunks[j].index = i - 1
      BY <2>2 DEF Chunk
    <2> QED
      BY <2>3
  <1>3. ASSUME NEW i \in 1 .. n PROVE \E j \in 1 .. n : chunks[j].index + 1 = i
    <2> DEFINE c == Chunk(SnapshotId, i - 1, Digest(Source[i]), Source[i])
    <2>1. c \in Sent
      BY <1>1 DEF Sent
    <2>2. PICK j \in 1 .. n : chunks[j] = c
      <3> HIDE DEF c
      <3> QED
        BY <2>1 DEF ToSet
    <2>3. chunks[j].index = i - 1
      BY <2>2 DEF Chunk
    <2> QED
      BY <2>3
  <1>4. f \in Surjection(1 .. n, 1 .. n)
    <2>1. f \in [1 .. n -> 1 .. n] /\ \A i \in 1 .. n : \E j \in 1 .. n : f[j] = i
      BY <1>2, <1>3
    <2> HIDE DEF f, n
    <2> QED
      BY <2>1 DEF Surjection
  <1>5. f \in Injection(1 .. n, 1 .. n)
    <2> HIDE DEF f, n
    <2>1. IsFiniteSet(1 .. n)
      BY FirstNumbers DEF n
    <2> QED
      BY <1>4, <2>1, FS_Surjection
  <1>6. \A j, k \in 1 .. n : f[j] = f[k] => j = k
    <2> HIDE DEF f, n
    <2> QED
      BY <1>5 DEF Injection, IsInjective
  <1> QED
    BY <1>6

LEMMA WholeIsAccepted ==
  ASSUME NEW m \in Manifests, NEW chunks \in Seq(Deliveries), Describes(m),
         Len(chunks) = Len(Source), ToSet(chunks) = Sent
  PROVE  ValidateSnapshot(m, chunks) \in {"Ok", "InvalidManifest"}
  <1> DEFINE n == Len(chunks)
             SentChunk(i) == Chunk(SnapshotId, i - 1, Digest(Source[i]), Source[i])
  <1>1. /\ n \in Nat /\ DOMAIN chunks = 1 .. n /\ DOMAIN Source = 1 .. n
        /\ m.total = n /\ m.snapshot = SnapshotId /\ m.whole = Digest(Whole)
        /\ Len(m.chunks) = n /\ DOMAIN m.chunks = 1 .. n
    BY SnapshotAssumption DEF Describes
  <1>2. \A j \in 1 .. n : chunks[j].index \in Nat
    BY <1>1, SnapshotAssumption
  <1>3. \A j, k \in 1 .. n : chunks[j].index = chunks[k].index => j = k
    BY <1>1, SentOnce
  <1>4. Sent = {SentChunk(i) : i \in 1 .. n}
    BY <1>1 DEF Sent
  <1> HIDE DEF n, SentChunk
  <1>5. \A j \in 1 .. n : \E i \in 1 .. n : chunks[j] = SentChunk(i)
    BY <1>1, <1>4 DEF ToSet
  <1>6. \A i \in 1 .. n : \E j \in 1 .. n : chunks[j] = SentChunk(i)
    BY <1>1, <1>4 DEF ToSet
  <1>7. ASSUME NEW i \in 1 .. n PROVE DescriptorOf(m, i - 1) = Descriptor(i - 1, Source[i])
    <2> DEFINE Sound(k) == Descriptor(k - 1, Source[k])
               p == Place(m.chunks, i - 1)
    <2>1. ToSet(m.chunks) = {Sound(k) : k \in 1 .. n} /\ \A k : Sound(k).index = k - 1
      BY <1>1 DEF Describes, Descriptor
    <2>2. DescriptorOf(m, i - 1) = m.chunks[p]
      BY DEF DescriptorOf, Place, SelectInSeq
    <2> HIDE DEF Sound, p
    <2>3. PICK j \in 1 .. n : m.chunks[j] = Sound(i)
      BY <1>1, <2>1 DEF ToSet
    <2>4. m.chunks[j].index = i - 1
      BY <2>1, <2>3
    <2>5. p \in 1 .. n /\ m.chunks[p].index = i - 1
      BY <1>1, <2>4, PlaceIsThere DEF p
    <2>6. PICK k \in 1 .. n : m.chunks[p] = Sound(k)
      BY <1>1, <2>1, <2>5 DEF ToSet
    <2>7. k = i
      BY <2>1, <2>5, <2>6
    <2> QED
      BY <2>2, <2>6, <2>7 DEF Sound
  <1>8. ASSUME NEW k \in 1 .. n, NEW t, Filled(m, chunks, k - 1, t)
        PROVE  ChunkFault(m, t, chunks[k]) = "None"
    <2>1. PICK i \in 1 .. n : chunks[k] = SentChunk(i)
      BY <1>5
    <2>2. /\ chunks[k].snapshot = m.snapshot /\ chunks[k].index = i - 1
          /\ chunks[k].payload = Source[i] /\ chunks[k].sha256 = Digest(Source[i])
      BY <1>1, <2>1 DEF SentChunk, Chunk
    <2>3. i - 1 < m.total /\ (i - 1) + 1 \in 1 .. m.total
      BY <1>1
    <2>4. t[chunks[k].index + 1] = <<>>
      <3> SUFFICES ASSUME t[chunks[k].index + 1] # <<>> PROVE FALSE
        OBVIOUS
      <3>1. PICK j \in 1 .. (k - 1) : chunks[j].index + 1 = chunks[k].index + 1
        BY <1>8, <2>2, <2>3 DEF Filled
      <3>2. j \in 1 .. n /\ j # k
        BY <1>1
      <3>3. chunks[j].index = chunks[k].index
        BY <1>2, <3>1, <3>2
      <3> QED
        BY <1>3, <3>2, <3>3
    <2>5. DescriptorOf(m, chunks[k].index) = [index |-> i - 1, sha256 |-> Digest(Source[i]),
                                              length |-> Len(Source[i])]
      BY <1>7, <2>2 DEF Descriptor
    <2>6. /\ Len(chunks[k].payload) = DescriptorOf(m, chunks[k].index).length
          /\ Digest(chunks[k].payload) = DescriptorOf(m, chunks[k].index).sha256
          /\ Digest(chunks[k].payload) = chunks[k].sha256
      BY <2>2, <2>5
    <2>7. ~(chunks[k].index >= m.total)
      BY <1>1, <2>2, <2>3
    <2> QED
      BY <2>2, <2>4, <2>6, <2>7 DEF ChunkFault
  <1>9. \A k \in 0 .. n : IsScan(m, chunks, k, PlacesAfter(m, chunks, k))
    BY <1>1, <1>2, PlacesAreScans
  <1>10. PlacesAfter(m, chunks, n).fault = "None"
    <2> DEFINE Bad == {k \in 0 .. n : PlacesAfter(m, chunks, k).fault # "None"}
    <2> SUFFICES ASSUME Bad # {} PROVE FALSE
      BY <1>1
    <2>1. PICK k \in Bad : \A j \in Bad : k <= j
      <3>1. Bad \in SUBSET Nat
        OBVIOUS
      <3> HIDE DEF Bad
      <3> QED
        BY <3>1, LeastNumber
    <2>2. k \in 0 .. n /\ PlacesAfter(m, chunks, k).fault # "None"
      OBVIOUS
    <2>3. k # 0
      <3>1. PlacesAfter(m, chunks, 0) = PlaceBase(m)
        BY <1>1, PlacesUnfold
      <3>2. PlaceBase(m).fault = "None"
        BY DEF PlaceBase
      <3> QED
        BY <2>2, <3>1, <3>2
    <2>4. k \in 1 .. n /\ k - 1 \in 0 .. n /\ ~(k <= k - 1)
      BY <1>1, <2>2, <2>3
    <2>5. k - 1 \notin Bad
      <3> HIDE DEF Bad
      <3> QED
        BY <2>1, <2>4
    <2>6. PICK t, fault :
            /\ PlacesAfter(m, chunks, k - 1) = [taken |-> t, fault |-> fault]
            /\ fault = "None" => Filled(m, chunks, k - 1, t)
      BY <1>9, <2>4 DEF IsScan
    <2>7. fault = "None"
      BY <2>4, <2>5, <2>6
    <2>8. ChunkFault(m, t, chunks[k]) = "None"
      BY <1>8, <2>4, <2>6, <2>7
    <2>9. PlaceNext(m, [taken |-> t, fault |-> fault], chunks[k]).fault = "None"
      <3> DEFINE c == chunks[k]
                 more == [t EXCEPT ![c.index + 1] = <<c.payload>>]
      <3>1. PlaceNext(m, [taken |-> t, fault |-> fault], c) = [taken |-> more, fault |-> fault]
        <4>1. ChunkFault(m, t, c) = "None"
          BY <2>8
        <4> HIDE DEF c
        <4> QED
          BY <2>7, <4>1, PlaceNextIs
      <3> HIDE DEF more
      <3> QED
        BY <2>7, <3>1
    <2>10. PlacesAfter(m, chunks, k) = PlaceNext(m, PlacesAfter(m, chunks, k - 1), chunks[k])
      BY <1>1, <2>4, PlacesUnfold
    <2> QED
      BY <2>2, <2>6, <2>9, <2>10
  <1>11. Placed(m, chunks) = PlacesAfter(m, chunks, n)
    BY <1>1, PlacesUnfold
  <1>12. PICK t, fault :
           /\ PlacesAfter(m, chunks, n) = [taken |-> t, fault |-> fault]
           /\ fault = "None" => Filled(m, chunks, n, t)
    BY <1>1, <1>9 DEF IsScan
  <1>13. /\ Placed(m, chunks).taken = t /\ Placed(m, chunks).fault = "None"
         /\ Filled(m, chunks, n, t)
    BY <1>10, <1>11, <1>12
  <1>14. ASSUME NEW i \in 1 .. m.total PROVE t[i] = <<Source[i]>>
    <2>1. PICK j \in 1 .. n : chunks[j] = SentChunk(i)
      BY <1>1, <1>6
    <2>2. chunks[j].index + 1 = i /\ chunks[j].payload = Source[i]
      BY <1>1, <2>1 DEF SentChunk, Chunk
    <2>3. t[chunks[j].index + 1] = <<chunks[j].payload>>
      BY <1>13 DEF Filled
    <2> QED
      BY <2>2, <2>3
  <1>15. \A i \in 1 .. m.total : t[i] # <<>>
    BY <1>14, OneIsSome
  <1>16. [i \in 1 .. m.total |-> t[i][1]] = Source
    <2>1. \A i \in 1 .. m.total : t[i][1] = Source[i]
      BY <1>14
    <2>2. Source = [i \in 1 .. m.total |-> Source[i]]
      BY <1>1, SnapshotAssumption
    <2> QED
      BY <2>1, <2>2
  <1>17. Digest(FlattenSeq([i \in 1 .. m.total |-> Placed(m, chunks).taken[i][1]])) = m.whole
    BY <1>1, <1>13, <1>16 DEF Whole
  <1> QED
    BY <1>13, <1>15, <1>17 DEF ValidateSnapshot

-----------------------------------------------------------------------------
SnapshotInv ==
  /\ manifest \in Manifests \cup {NoManifest}
  /\ received \in Seq(Deliveries)
  /\ verdict # "None" =>
       manifest # NoManifest /\ verdict = ValidateSnapshot(manifest, received)

LEMMA SnapshotInvHolds == SnapshotSpec => []SnapshotInv
  <1>1. SnapshotInit => SnapshotInv
    BY DEF SnapshotInit, SnapshotInv
  <1>2. ASSUME SnapshotInv, [SnapshotNext]_snapshotVars PROVE SnapshotInv'
    <2>1. ASSUME NEW m \in Manifests, Announce(m) PROVE SnapshotInv'
      BY <1>2, <2>1 DEF Announce, SnapshotInv
    <2>2. ASSUME NEW c \in Deliveries, Arrive(c) PROVE SnapshotInv'
      BY <1>2, <2>2 DEF Arrive, SnapshotInv
    <2>3. CASE Validate
      BY <1>2, <2>3 DEF Validate, SnapshotInv
    <2>4. CASE Discard
      BY <1>2, <2>4 DEF Discard, SnapshotInv
    <2>5. CASE UNCHANGED snapshotVars
      BY <1>2, <2>5 DEF snapshotVars, SnapshotInv
    <2> QED
      BY <1>2, <2>1, <2>2, <2>3, <2>4, <2>5 DEF SnapshotNext
  <1> QED
    BY <1>1, <1>2, PTL DEF SnapshotSpec

\* Nothing but the snapshot itself passes for it, whatever arrives for whatever
\* manifest, and nothing else than its manifest is held against one that has
\* arrived whole, for any snapshot, manifests and chunks (validate_snapshot).
THEOREM SnapshotStaysWhole == SnapshotSpec => []SnapshotIsWholeOrRefused
  <1>1. ASSUME SnapshotInv PROVE SnapshotIsWholeOrRefused
    <2> SUFFICES ASSUME verdict # "None"
                 PROVE  SnapshotIsWholeOrRefused
      BY DEF SnapshotIsWholeOrRefused
    <2>1. /\ manifest \in Manifests /\ received \in Seq(Deliveries)
          /\ verdict = ValidateSnapshot(manifest, received)
      BY <1>1 DEF SnapshotInv
    <2>2. ASSUME verdict = "Ok", manifest.whole = Digest(Whole)
          PROVE  /\ Len(received) = manifest.total
                 /\ \A k \in DOMAIN received : Digest(received[k].payload) = received[k].sha256
                 /\ FlattenSeq([i \in 1 .. manifest.total |->
                      received[SelectInSeq(received, LAMBDA c : c.index = i - 1)].payload])
                      = Whole
      <3> DEFINE held == [i \in 1 .. manifest.total |->
                           received[Place(received, i - 1)].payload]
      <3>1. /\ Len(received) = manifest.total
            /\ \A k \in DOMAIN received : Digest(received[k].payload) = received[k].sha256
            /\ Digest(FlattenSeq(held)) = manifest.whole
        BY <2>1, <2>2, AcceptedIsWhole
      <3>2. FlattenSeq(held) = Whole
        <4> HIDE DEF held
        <4> QED
          BY <2>2, <3>1 DEF Digest
      <3>3. held = [i \in 1 .. manifest.total |->
                     received[SelectInSeq(received, LAMBDA c : c.index = i - 1)].payload]
        BY DEF Place, SelectInSeq
      <3> QED
        BY <3>1, <3>2, <3>3 DEF SelectInSeq
    <2>3. ASSUME Describes(manifest), Len(received) = Len(Source), ToSet(received) = Sent
          PROVE  verdict \in {"Ok", "InvalidManifest"}
      BY <2>1, <2>3, WholeIsAccepted
    <2> QED
      BY <2>2, <2>3 DEF SnapshotIsWholeOrRefused, SelectInSeq
  <1> QED
    BY <1>1, SnapshotInvHolds, PTL
=============================================================================
