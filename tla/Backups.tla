------------------------------- MODULE Backups -------------------------------
(* The backups of BackupManager (core/backup.py): the rows of SystemBackup,  *)
(* the files of BACKUP_DIR, the workers and requests that make backups, and  *)
(* the clean-ups that delete them again.                                     *)
(*                                                                           *)
(* No file belongs to one backup by construction: its name is made of the    *)
(* kind of the backup and the second in which it is opened, and the row      *)
(* learns the name only when all is done. Makers and clean-ups hold          *)
(* instances of the rows and save every column of them, long after they were *)
(* read. A "full" backup dumps the database and nothing else, so it is a     *)
(* database backup here. On anything but SQLite a compression never succeeds: *)
(* the function imports shutil in its branch for SQLite only, which makes    *)
(* the name local, and unbound where the dump is copied into the second file. *)
EXTENDS Naturals

CONSTANTS
    Backups,
    Cleaners,      \* clean-ups under way at a time
    Orders,        \* the backups that are asked for
    Retention,     \* RETENTION_DAYS
    Engines,       \* the databases the server may run on
    Troubles,      \* how many [deletions, failures, deaths] may happen
    MaxClock

ASSUME BackupsAssumption ==
    /\ Orders \subseteq [media : BOOLEAN, compression : BOOLEAN, scheduled : BOOLEAN]
    /\ Retention \in Nat
    /\ Engines \subseteq {"sqlite", "postgresql", "mysql"}
    /\ Troubles \subseteq [deletions : Nat, failures : Nat, deaths : Nat]
    /\ MaxClock \in Nat

VARIABLES
    record,     \* record[b]: the row of backup b
    maker,      \* maker[b]: who makes backup b
    files,      \* files[n]: what is in the file of name n
    cleaner,    \* cleaner[c]: a clean-up of expired backups
    clock,
    troubles,
    engine      \* the database of the server

backupVars == <<record, maker, files, cleaner, clock, troubles, engine>>

-----------------------------------------------------------------------------
(* What is in a file: the backups whose bytes are in it, and those of them   *)
(* that have written it to its end.                                          *)
Missing == [of |-> {}, ended |-> {}]
Names == {"sql", "sql.gz", "tar", "tar.gz"} \X (0 .. MaxClock)
NoName == <<"none", 0>>

(* The columns of a row; status: in_progress, completed, failed or expired.  *)
NewBackup == [status |-> "in_progress", path |-> NoName, checksum |-> Missing, expires |-> 0]
NoRow == [status |-> "none"]

(* The steps that are inside the try of the makers.                          *)
Dumping == {"open", "dump", "zip", "copy", "remove", "sum", "complete"}

(* path: backup_path; linked: what is written goes to the file of that name; *)
(* source: the dump that is being compressed; opened: the first file; row:   *)
(* the instance of the row.                                                  *)
NoMaker == [pc |-> "idle", order |-> CHOOSE o \in Orders : TRUE, path |-> NoName,
            linked |-> FALSE, source |-> NoName, opened |-> NoName, read |-> Missing,
            row |-> NewBackup]

(* A clean-up works from the rows it read; at: the row it has come to.       *)
NoCleaner == [pc |-> "idle"]

BackupsInit ==
    /\ record = [b \in Backups |-> NoRow]
    /\ maker = [b \in Backups |-> NoMaker]
    /\ files = [n \in Names |-> Missing]
    /\ cleaner = [c \in Cleaners |-> NoCleaner]
    /\ clock = 0
    /\ troubles \in Troubles
    /\ engine \in Engines

MakerAt(b, pc) == maker[b].pc = pc
Exists(n) == n # NoName /\ files[n] # Missing
Trouble(what) ==
    /\ troubles[what] > 0
    /\ troubles' = [troubles EXCEPT ![what] = @ - 1]

-----------------------------------------------------------------------------
(* Making a backup.                                                          *)

CreateBackup(b, order) ==
    /\ MakerAt(b, "idle")
    /\ record' = [record EXCEPT ![b] = NewBackup]
    /\ maker' = [maker EXCEPT ![b].pc = "open", ![b].order = order]
    /\ UNCHANGED <<files, cleaner, clock, troubles, engine>>

\* Opening truncates the file; whoever has it open goes on writing to it.
Writers(n) == {b \in Backups : maker[b].pc \in {"dump", "copy"} /\ maker[b].linked
                                   /\ maker[b].path = n}
Open(n, b) == files' = [files EXCEPT ![n] = [of |-> Writers(n) \cup {b}, ended |-> {}]]

\* The last byte of b goes into the file, unless its name was deleted meanwhile.
Write(b, whole) ==
    files' = IF maker[b].linked
             THEN [files EXCEPT ![maker[b].path].ended = IF whole THEN @ \cup {b} ELSE @]
             ELSE files

\* A file that is deleted keeps its writers, and its name is free again.
Unlinked(n) == [b \in Backups |-> [maker[b] EXCEPT !.linked = @ /\ maker[b].path # n]]

FileName(order) ==
    <<IF ~order.media THEN "sql" ELSE IF order.compression THEN "tar.gz" ELSE "tar", clock>>

OpenFile(b) ==
    /\ MakerAt(b, "open")
    /\ LET n == FileName(maker[b].order) IN
       /\ Open(n, b)
       /\ maker' = [maker EXCEPT ![b].pc = "dump", ![b].path = n, ![b].linked = TRUE,
                                 ![b].opened = n]
    /\ UNCHANGED <<record, cleaner, clock, troubles, engine>>

\* The dump is complete, or the archive, which compresses as it is written.
Dump(b) ==
    /\ MakerAt(b, "dump")
    /\ Write(b, TRUE)
    /\ maker' = [maker EXCEPT ![b].linked = FALSE, ![b].pc =
          IF maker[b].order.compression /\ ~maker[b].order.media THEN "zip" ELSE "sum"]
    /\ UNCHANGED <<record, cleaner, clock, troubles, engine>>

\* A dump is compressed into a second file ...
OpenZip(b) ==
    /\ MakerAt(b, "zip")
    /\ Exists(maker[b].path)
    /\ LET z == <<"sql.gz", maker[b].path[2]>> IN
       /\ Open(z, b)
       /\ maker' = [maker EXCEPT ![b].pc = "copy", ![b].path = z, ![b].linked = TRUE,
                                 ![b].source = maker[b].path, ![b].read = files[maker[b].path]]
    /\ UNCHANGED <<record, cleaner, clock, troubles, engine>>

Copy(b) ==
    /\ MakerAt(b, "copy")
    /\ engine = "sqlite"
    /\ Write(b, maker[b].read.of = maker[b].read.ended)
    /\ maker' = [maker EXCEPT ![b].pc = "remove", ![b].linked = FALSE]
    /\ UNCHANGED <<record, cleaner, clock, troubles, engine>>

\* ... and deleted.
RemoveForgotten(b) ==
    /\ MakerAt(b, "remove")
    /\ maker' = [maker EXCEPT ![b].pc = "sum"]
    /\ UNCHANGED <<record, files, cleaner, clock, troubles, engine>>
Remove(b) ==
    /\ MakerAt(b, "remove")
    /\ Exists(maker[b].source)
    /\ files' = [files EXCEPT ![maker[b].source] = Missing]
    /\ maker' = [Unlinked(maker[b].source) EXCEPT ![b].pc = "sum"]
    /\ UNCHANGED <<record, cleaner, clock, troubles, engine>>

CalculateChecksum(b) ==
    /\ MakerAt(b, "sum")
    /\ Exists(maker[b].path)
    /\ maker' = [maker EXCEPT ![b].pc = "complete", ![b].read = files[maker[b].path]]
    /\ UNCHANGED <<record, files, cleaner, clock, troubles, engine>>

\* Saving writes every column, and inserts the row again when it was deleted.
Complete(b) ==
    /\ MakerAt(b, "complete")
    /\ LET row == [status |-> "completed", path |-> maker[b].path,
                   checksum |-> maker[b].read, expires |-> clock + Retention] IN
       /\ record' = [record EXCEPT ![b] = row]
       /\ maker' = [maker EXCEPT ![b].row = row,
                                 ![b].pc = IF maker[b].order.scheduled THEN "schedule" ELSE "done"]
    /\ UNCHANGED <<files, cleaner, clock, troubles, engine>>

\* run_scheduled_backup marks the row it was returned.
MarkScheduled(b) ==
    /\ MakerAt(b, "schedule")
    /\ record' = [record EXCEPT ![b] = maker[b].row]
    /\ maker' = [maker EXCEPT ![b].pc = "done"]
    /\ UNCHANGED <<files, cleaner, clock, troubles, engine>>

\* The dump fails or the disk is full, or a file that was written is gone, or the copy
\* has no shutil. What is in the directory stays there.
Fail(b) ==
    /\ maker[b].pc \in Dumping \ {"complete"}
    /\ \/ Trouble("failures")
       \/ /\ UNCHANGED troubles
          /\ \/ maker[b].pc = "copy" /\ engine # "sqlite"
             \/ maker[b].pc \in {"zip", "sum"} /\ ~Exists(maker[b].path)
             \/ maker[b].pc = "remove" /\ ~Exists(maker[b].source)
    /\ record' = [record EXCEPT ![b] = [NewBackup EXCEPT !.status = "failed"]]
    /\ maker' = [maker EXCEPT ![b].pc = "failed", ![b].linked = FALSE]
    /\ UNCHANGED <<files, cleaner, clock, engine>>

\* The worker is killed, or the database refuses the save.
DieMaking(b) ==
    /\ maker[b].pc \in Dumping \cup {"schedule"}
    /\ Trouble("deaths")
    /\ maker' = [maker EXCEPT ![b].pc = "dead", ![b].linked = FALSE]
    /\ UNCHANGED <<record, files, cleaner, clock, engine>>

-----------------------------------------------------------------------------
(* The operator deletes a row; the file stays.                               *)
DestroyRecord(b) ==
    /\ record[b] # NoRow
    /\ Trouble("deletions")
    /\ record' = [record EXCEPT ![b] = NoRow]
    /\ UNCHANGED <<maker, files, cleaner, clock, engine>>

-----------------------------------------------------------------------------
(* cleanup_expired_backups: one query, then row by row.                      *)

ExpiresNow(row) == row.status = "completed" /\ row.expires <= clock
IsExpired(row) == row.status = "completed" /\ row.expires < clock

Cleanup(c) ==
    /\ cleaner[c].pc = "idle"
    /\ LET expired == {b \in Backups : IsExpired(record[b])} IN
       /\ expired # {}
       /\ cleaner' = [cleaner EXCEPT ![c] = [pc |-> "check", todo |-> expired,
             row |-> [b \in expired |-> record[b]], at |-> {}]]
    /\ UNCHANGED <<record, maker, files, clock, troubles, engine>>

\* A row whose file is there is next to be unlinked, then saved.
CheckFile(c, b) ==
    /\ cleaner[c].pc = "check" /\ b \in cleaner[c].todo
    /\ cleaner' = [cleaner EXCEPT ![c].pc = IF Exists(cleaner[c].row[b].path) THEN "unlink" ELSE "save",
                                  ![c].at = {b}, ![c].todo = @ \ {b}]
    /\ UNCHANGED <<record, maker, files, clock, troubles, engine>>

NextRow(c) == cleaner' = [cleaner EXCEPT ![c].pc = "check", ![c].at = {}]

\* A file that another clean-up has deleted in between raises, and the row is left alone.
UnlinkFile(c, b) ==
    /\ cleaner[c].pc = "unlink" /\ b \in cleaner[c].at
    /\ LET n == cleaner[c].row[b].path IN
       IF Exists(n)
       THEN /\ files' = [files EXCEPT ![n] = Missing]
            /\ maker' = Unlinked(n)
            /\ cleaner' = [cleaner EXCEPT ![c].pc = "save"]
       ELSE /\ NextRow(c)
            /\ UNCHANGED <<files, maker>>
    /\ UNCHANGED <<record, clock, troubles, engine>>

SaveExpired(c, b) ==
    /\ cleaner[c].pc = "save" /\ b \in cleaner[c].at
    /\ record' = [record EXCEPT ![b] = [cleaner[c].row[b] EXCEPT !.status = "expired"]]
    /\ NextRow(c)
    /\ UNCHANGED <<maker, files, clock, troubles, engine>>

EndCleanup(c) ==
    /\ cleaner[c].pc = "check" /\ cleaner[c].todo = {}
    /\ cleaner' = [cleaner EXCEPT ![c] = NoCleaner]
    /\ UNCHANGED <<record, maker, files, clock, troubles, engine>>

DieCleaning(c) ==
    /\ cleaner[c].pc # "idle"
    /\ Trouble("deaths")
    /\ cleaner' = [cleaner EXCEPT ![c] = NoCleaner]
    /\ UNCHANGED <<record, maker, files, clock, engine>>

-----------------------------------------------------------------------------
Second ==
    /\ clock < MaxClock
    /\ clock' = clock + 1
    /\ UNCHANGED <<record, maker, files, cleaner, troubles, engine>>

BackupsNext ==
    \/ \E b \in Backups :
          \/ \E order \in Orders : CreateBackup(b, order)
          \/ OpenFile(b) \/ Dump(b) \/ OpenZip(b) \/ Copy(b) \/ Remove(b)
          \/ CalculateChecksum(b) \/ Complete(b) \/ MarkScheduled(b)
          \/ Fail(b) \/ DieMaking(b) \/ DestroyRecord(b)
    \/ \E c \in Cleaners :
          \/ Cleanup(c) \/ EndCleanup(c) \/ DieCleaning(c)
          \/ \E b \in Backups : CheckFile(c, b) \/ UnlinkFile(c, b) \/ SaveExpired(c, b)
    \/ Second

-----------------------------------------------------------------------------
(* Properties.                                                               *)

\* verify_backup: the file is there and has the checksum of the row.
VerifyBackup(row) == Exists(row.path) /\ files[row.path] = row.checksum

Shared(b) == \E o \in Backups \ {b} : maker[o].opened = maker[b].opened

\* A completed backup verifies until it expires, and holds a whole dump of its own,
\* unless another backup of its kind was begun in the same second: whatever clean-ups
\* overlap with it, whatever rows are deleted and saved again, whoever is killed.
CompletedVerifies ==
    \A b \in Backups : record[b].status = "completed" /\ clock <= record[b].expires /\ ~Shared(b)
        => VerifyBackup(record[b]) /\ record[b].checksum = [of |-> {b}, ended |-> {b}]

BelongsTo(n, b) == n \in {maker[b].opened, maker[b].path}

\* What is in the backup directory belongs to a completed row, or to a backup that is
\* under way, failed or was killed, or whose row was deleted: no clean-up and no
\* compression, however they overlap or die, leaves a file that no row leads to.
LeftoversAreFailures ==
    \A n \in Names : Exists(n) =>
        \E b \in Backups :
            \/ record[b].status = "completed" /\ record[b].path = n
            \/ /\ BelongsTo(n, b)
               /\ \/ maker[b].pc \in Dumping \cup {"failed", "dead"}
                  \/ record[b] = NoRow

\* A backup that fails has met an error of its tools or of the disk, or has lost a file
\* to another that was begun in the same second.
FailureHasCause ==
    [][\A b \in Backups : maker[b].pc \in Dumping /\ maker'[b].pc = "failed" =>
           \/ troubles' # troubles
           \/ Shared(b)]_backupVars

=============================================================================
