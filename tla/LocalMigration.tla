---------------------------- MODULE LocalMigration ----------------------------
(***************************************************************************)
(* The start of the till over what an older release left behind: the files of  *)
(* the directories it used are copied, the database is opened, altered and its  *)
(* money columns filled in, and saved.  The machine may stop at every step.     *)
(***************************************************************************)
EXTENDS Naturals, Sequences, FiniteSets

CONSTANTS
    Dirs,         \* candidateDirectories, in order: a sequence of names
    OldSales,     \* OldSales[d]: the sets of sales a database in d may hold
    MaxSales,     \* bound: sales rung up after the start
    MaxStops      \* bound: crashes and failed copies

NoFile == <<>>      \* a file is the sequence of its one content
File(content) == <<content>>
Nowhere == "nowhere"
Kinds == {"database", "secure"}

\* The directories have names of their own, and no sale of an older release is
\* taken for one rung up after the start.
ASSUME MigrationAssumption ==
    /\ Dirs \in Seq(STRING) /\ Dirs # <<>>
    /\ \A i \in DOMAIN Dirs :
          /\ Dirs[i] \notin {Nowhere, "half"}
          /\ \A x \in OldSales[Dirs[i]] : \A s \in x : s[1] # "new"

VARIABLES
    old,     \* old[d][k]: the file of kind k in directory d, which nobody writes
    disk,    \* disk[k]: the file of kind k the till uses
    temp,    \* temp[k]: its temporary copy, nothing, half or the whole of it
    at,      \* the phase of the start, and the copy it is at
    origin,  \* origin[k]: the directory disk[k] came from
    db,      \* the database in memory, no content before it is opened
    rung,    \* sales rung up since
    stops    \* crashes and failures so far

migVars == <<old, disk, temp, at, origin, db, rung, stops>>

\* A database: its sales, those whose amounts are in minor units too, the marker.
Database(sales, minor, marker) == [sales |-> sales, minor |-> minor, marker |-> marker]
Empty == Database({}, {}, FALSE)

OldFiles == [d \in {Dirs[i] : i \in DOMAIN Dirs} |->
               [database : {NoFile} \cup {File(Database(x, {}, FALSE)) : x \in OldSales[d]},
                secure : {NoFile, File(d)}]]

Phase(p) == [phase |-> p, dir |-> 1, kind |-> "database"]
Copy(i, k) == [phase |-> "copying", dir |-> i, kind |-> k]

\* The till's own directory never holds an older secure state under another name.
MigInit ==
    /\ old \in [DOMAIN OldFiles -> UNION {OldFiles[d] : d \in DOMAIN OldFiles}]
    /\ \A d \in DOMAIN old : old[d] \in OldFiles[d]
    /\ old[Dirs[1]].secure = NoFile
    /\ disk = [k \in Kinds |-> NoFile] /\ temp = [k \in Kinds |-> "nothing"]
    /\ at = Phase("off") /\ origin = [k \in Kinds |-> Nowhere] /\ db = NoFile
    /\ rung = 0 /\ stops = 0

StartTill ==
    /\ at.phase = "off"
    /\ at' = Copy(1, "database")
    /\ UNCHANGED <<old, disk, temp, origin, db, rung, stops>>

Copying == at.phase = "copying"
Following ==
    IF at.kind = "database" THEN Copy(at.dir, "secure")
    ELSE IF at.dir < Len(Dirs) THEN Copy(at.dir + 1, "database") ELSE Phase("open")

Candidate == old[Dirs[at.dir]][at.kind]
Wanted == Copying /\ Candidate # NoFile /\ disk[at.kind] = NoFile

\* copyVerified: no such file, or the till has its own already.
SkipCopy ==
    /\ Copying /\ ~Wanted
    /\ at' = Following
    /\ UNCHANGED <<old, disk, temp, origin, db, rung, stops>>

\* A mutant: copyFileSync to the final name.
BeginCopyInPlace ==
    /\ Wanted /\ temp[at.kind] # "whole"
    /\ temp' = [temp EXCEPT ![at.kind] = "whole"]
    /\ disk' = [disk EXCEPT ![at.kind] = File(IF at.kind = "database" THEN Empty ELSE "half")]
    /\ UNCHANGED <<old, at, origin, db, rung, stops>>

\* copyFileSync, the first bytes of it, over what an earlier try left.
BeginCopy ==
    /\ Wanted /\ temp[at.kind] # "whole"
    /\ temp' = [temp EXCEPT ![at.kind] = "half"]
    /\ UNCHANGED <<old, disk, at, origin, db, rung, stops>>

CopyEnds ==
    /\ Wanted /\ temp[at.kind] = "half"
    /\ temp' = [temp EXCEPT ![at.kind] = "whole"]
    /\ UNCHANGED <<old, disk, at, origin, db, rung, stops>>

\* The checksums agree and the copy takes its name.
RenameCopy ==
    /\ Wanted /\ temp[at.kind] = "whole"
    /\ disk' = [disk EXCEPT ![at.kind] = Candidate]
    /\ temp' = [temp EXCEPT ![at.kind] = "nothing"]
    /\ origin' = [origin EXCEPT ![at.kind] = Dirs[at.dir]]
    /\ at' = Following
    /\ UNCHANGED <<old, db, rung, stops>>

\* An error while copying: the temporary file goes, the start fails.
CopyFails ==
    /\ Wanted /\ stops < MaxStops
    /\ temp' = [temp EXCEPT ![at.kind] = "nothing"]
    /\ at' = Phase("off")
    /\ stops' = stops + 1
    /\ UNCHANGED <<old, disk, origin, db, rung>>

\* migrateMoneyColumnsToMinorUnits, once, by the marker.
Backfilled(file) == IF file.marker THEN file ELSE Database(file.sales, file.sales, TRUE)

\* initDb: the file or an empty database, its tables, its new columns, the backfill.
OpenDatabase ==
    /\ at.phase = "open" /\ db = NoFile
    /\ LET file == IF disk["database"] = NoFile THEN Empty ELSE disk["database"][1]
       IN db' = File(Backfilled(file))
    /\ UNCHANGED <<old, disk, temp, at, origin, rung, stops>>

\* saveDb at the end of initDb, by a temporary file and a rename.
SaveOpened ==
    /\ at.phase = "open" /\ db # NoFile
    /\ disk' = [disk EXCEPT !["database"] = db]
    /\ at' = Phase("running")
    /\ UNCHANGED <<old, temp, origin, db, rung, stops>>

\* pos:sale and its saveDb; the till has a session by then.
RingUp ==
    /\ at.phase = "running" /\ rung < MaxSales
    /\ rung' = rung + 1
    /\ LET sale == <<"new", rung + 1>>
           was == db[1]
       IN db' = File(Database(was.sales \cup {sale}, was.minor \cup {sale}, was.marker))
    /\ disk' = [disk EXCEPT !["database"] = db', !["secure"] = IF @ = NoFile THEN File("own") ELSE @]
    /\ UNCHANGED <<old, temp, at, origin, stops>>

StopTill ==
    /\ at.phase # "off" /\ stops < MaxStops
    /\ at' = Phase("off") /\ db' = NoFile
    /\ stops' = stops + 1
    /\ UNCHANGED <<old, disk, temp, origin, rung>>

\* The factory reset removes the till's files and starts it again.
ResetTill ==
    /\ at.phase = "running" /\ disk["secure"] # NoFile /\ stops < MaxStops
    /\ disk' = [k \in Kinds |-> NoFile] /\ origin' = [k \in Kinds |-> Nowhere]
    /\ at' = Phase("off") /\ db' = NoFile
    /\ rung' = 0 /\ stops' = stops + 1
    /\ UNCHANGED <<old, temp>>

MigNext ==
    \/ StartTill \/ SkipCopy \/ BeginCopy \/ CopyEnds \/ RenameCopy \/ CopyFails
    \/ OpenDatabase \/ SaveOpened \/ RingUp \/ StopTill \/ ResetTill

-----------------------------------------------------------------------------
FirstWithDatabase ==
    LET has == {i \in DOMAIN Dirs : old[Dirs[i]].database # NoFile}
    IN IF has = {} THEN Nowhere ELSE Dirs[CHOOSE i \in has : \A j \in has : i <= j]

\* Wherever the machine stopped, a till that runs has every sale of the first older
\* database there is and of its own, each with its amount in minor units, and never
\* the half of a secure state (copyVerified, migrateMoneyColumnsToMinorUnits, saveDb).
LegacyTakenWhole ==
    at.phase = "running" =>
        /\ origin["database"] = FirstWithDatabase
        /\ FirstWithDatabase # Nowhere =>
              old[FirstWithDatabase].database[1].sales \subseteq db[1].sales
        /\ Cardinality({s \in db[1].sales : s[1] = "new"}) = rung
        /\ db[1].minor = db[1].sales
        /\ disk["secure"] # File("half")
=============================================================================
