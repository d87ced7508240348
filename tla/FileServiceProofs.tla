--------------------------- MODULE FileServiceProofs ---------------------------
(***************************************************************************)
(* FileService, for any files, companies, sizes and target tiers and any   *)
(* number of requests in flight. The invariant says what a handler may     *)
(* still rely on of the row it read: rows only move forward, so a read     *)
(* that passed its checks stays right about everything but the size, the   *)
(* deletion mark and, for a migration, the tiers marked stale.             *)
(***************************************************************************)
EXTENDS FileService, TLAPS

Needed(target) == IF Source(target) = "standard" THEN 1 ELSE 2

ConfirmHolds(h) ==
    serving[h] \in Confirm =>
        LET f == serving[h].file
        IN  /\ files[f] # NoFile
            /\ files[f].company = serving[h].company
            /\ serving[h].saw = "pending"

DownloadHolds(h) ==
    serving[h] \in Download =>
        LET f == serving[h].file
        IN  /\ files[f] # NoFile
            /\ files[f].company = serving[h].company
            /\ files[f].status = "active"

MigrateHolds(h) ==
    serving[h] \in Migrate =>
        \A f \in serving[h].files :
            /\ files[f] # NoFile
            /\ files[f].company = serving[h].company
            /\ files[f].status = "active"
            /\ files[f].age >= Needed(serving[h].target)
            /\ f \notin serving[h].stale => files[f].tier = Source(serving[h].target)

ReadsHold == \A h \in Handler : ConfirmHolds(h) /\ DownloadHolds(h) /\ MigrateHolds(h)

URLsHold == \A u \in urls : files[u.file] # NoFile

FileInv == TypeOK /\ ReadsHold /\ URLsHold /\ URLsAreForUploads /\ TiersMatchPolicy

\* What no step takes back of a row.
RowsMoveForward ==
    \A f \in File :
        files[f] # NoFile =>
            /\ files'[f] # NoFile
            /\ files'[f].company = files[f].company
            /\ files[f].status = "active" => files'[f].status = "active"
            /\ files'[f].age >= files[f].age

\* The three kinds of work differ in their op.
LEMMA KindsDiffer ==
    /\ \A w \in Confirm : w.op = "confirm" /\ w \notin Download /\ w \notin Migrate /\ w # Idle
    /\ \A w \in Download : w.op = "download" /\ w \notin Confirm /\ w \notin Migrate /\ w # Idle
    /\ \A w \in Migrate : w.op = "migrate" /\ w \notin Confirm /\ w \notin Download /\ w # Idle
    /\ Idle \notin Confirm /\ Idle \notin Download /\ Idle \notin Migrate
  BY FileAssumption DEF Confirm, Download, Migrate

\* A row is a record with the fields of FileRow.
LEMMA RowTyped ==
    ASSUME TypeOK, NEW f \in File, files[f] # NoFile
    PROVE  /\ files[f] \in FileRow
           /\ files[f].company \in Company /\ files[f].status \in {"pending", "active"}
           /\ files[f].size \in Size /\ files[f].tier \in Tier /\ files[f].age \in 0 .. 2
           /\ files[f].deleted \in BOOLEAN
  <1>1. files[f] \in FileRow
    BY DEF TypeOK
  <1> QED
    BY <1>1 DEF FileRow

LEMMA InitFileInv == Init => FileInv
  BY KindsDiffer, FileAssumption
  DEF Init, FileInv, TypeOK, ReadsHold, ConfirmHolds, DownloadHolds, MigrateHolds, URLsHold,
      URLsAreForUploads, TiersMatchPolicy

\* An UPDATE that keeps the company, the age and an active status moves the row forward.
LEMMA WriteMovesForward ==
    ASSUME TypeOK, NEW f \in File, NEW row \in FileRow, Write(f, row),
           Live(f) => /\ row.company = files[f].company
                      /\ row.age = files[f].age
                      /\ files[f].status = "active" => row.status = "active"
    PROVE  /\ RowsMoveForward
           /\ files' \in [File -> FileRow \cup {NoFile}]
           /\ \A g \in File : g # f => files'[g] = files[g]
           /\ files'[f] = IF Live(f) THEN row ELSE files[f]
  <1>1. files' = IF Live(f) THEN [files EXCEPT ![f] = row] ELSE files
    BY DEF Write
  <1>2. files \in [File -> FileRow \cup {NoFile}]
    BY DEF TypeOK
  <1>3. row # NoFile
    BY FileAssumption
  <1>4. /\ files' \in [File -> FileRow \cup {NoFile}]
        /\ \A g \in File : g # f => files'[g] = files[g]
        /\ files'[f] = IF Live(f) THEN row ELSE files[f]
    BY <1>1, <1>2
  <1>5. \A g \in File : files[g] # NoFile => files[g].age \in 0 .. 2
    BY RowTyped
  <1>6. RowsMoveForward
    BY <1>3, <1>4, <1>5 DEF RowsMoveForward, Live
  <1> QED
    BY <1>4, <1>6

\* Handlers that go on with what they were doing still hold it, as long as the tiers
\* they listed are the same or marked stale.
LEMMA ReadsSurvive ==
    ASSUME TypeOK, ReadsHold, RowsMoveForward, files' \in [File -> FileRow \cup {NoFile}],
           NEW h \in Handler, serving'[h] = serving[h],
           \A f \in File : files[f] # NoFile => files'[f].tier = files[f].tier
    PROVE  ConfirmHolds(h)' /\ DownloadHolds(h)' /\ MigrateHolds(h)'
  <1>1. ConfirmHolds(h) /\ DownloadHolds(h) /\ MigrateHolds(h)
    BY DEF ReadsHold
  <1>2. ConfirmHolds(h)'
    BY <1>1 DEF ConfirmHolds, Confirm, RowsMoveForward
  <1>3. DownloadHolds(h)'
    BY <1>1 DEF DownloadHolds, Download, RowsMoveForward
  <1>4. MigrateHolds(h)'
    <2> SUFFICES ASSUME serving[h] \in Migrate, NEW f \in serving[h].files
                 PROVE  /\ files'[f] # NoFile
                        /\ files'[f].company = serving[h].company
                        /\ files'[f].status = "active"
                        /\ files'[f].age >= Needed(serving[h].target)
                        /\ f \notin serving[h].stale => files'[f].tier = Source(serving[h].target)
      BY DEF MigrateHolds
    <2>1. f \in File
      BY DEF Migrate
    <2>2. /\ files[f] # NoFile
          /\ files[f].company = serving[h].company
          /\ files[f].status = "active"
          /\ files[f].age >= Needed(serving[h].target)
          /\ f \notin serving[h].stale => files[f].tier = Source(serving[h].target)
      BY <1>1 DEF MigrateHolds
    <2>3. files[f].age \in 0 .. 2 /\ files'[f].age \in 0 .. 2
      BY <2>1, <2>2, RowTyped DEF RowsMoveForward, FileRow
    <2> QED
      BY <2>1, <2>2, <2>3 DEF RowsMoveForward, Needed
  <1> QED
    BY <1>2, <1>3, <1>4

\* The invariant of the rows, for a step that moves no tier.
LEMMA RowsKeepInv ==
    ASSUME FileInv, RowsMoveForward, files' \in [File -> FileRow \cup {NoFile}],
           \A f \in File : files[f] # NoFile => files'[f].tier = files[f].tier,
           \A f \in File : files[f] = NoFile /\ files'[f] # NoFile => files'[f].tier = "standard"
    PROVE  TiersMatchPolicy'
  <1> SUFFICES ASSUME NEW f \in File, files'[f] # NoFile, files'[f].tier # "standard"
               PROVE  /\ files'[f].status = "active"
                      /\ files'[f].age >= IF files'[f].tier = "glacier" THEN 2 ELSE 1
    BY DEF TiersMatchPolicy
  <1>1. files[f] # NoFile /\ files'[f].tier = files[f].tier
    OBVIOUS
  <1>2. /\ files[f].status = "active"
        /\ files[f].age >= IF files[f].tier = "glacier" THEN 2 ELSE 1
    BY <1>1 DEF FileInv, TiersMatchPolicy
  <1>3. files[f].age \in 0 .. 2 /\ files'[f].age \in 0 .. 2
    BY <1>1, RowTyped DEF FileInv, FileRow
  <1> QED
    BY <1>1, <1>2, <1>3 DEF RowsMoveForward

\* The URLs that were given out stay right.
LEMMA URLsKeepInv ==
    ASSUME FileInv, RowsMoveForward, urls' = urls
    PROVE  URLsHold' /\ URLsAreForUploads'
  <1>1. \A u \in urls : u.file \in File
    BY DEF FileInv, TypeOK
  <1> QED
    BY <1>1 DEF FileInv, URLsHold, URLsAreForUploads, RowsMoveForward

\* Statements, and the end of a request, that move no tier.
LEMMA OrdinaryStep ==
    ASSUME FileInv, RowsMoveForward, files' \in [File -> FileRow \cup {NoFile}],
           \A f \in File : files[f] # NoFile => files'[f].tier = files[f].tier,
           \A f \in File : files[f] = NoFile /\ files'[f] # NoFile => files'[f].tier = "standard",
           urls' = urls,
           \/ serving' = serving
           \/ \E h \in Handler : Return(h)
    PROVE  FileInv'
  <1>1. TypeOK'
    BY DEF FileInv, TypeOK, Return
  <1>2. ASSUME NEW h \in Handler
        PROVE  ConfirmHolds(h)' /\ DownloadHolds(h)' /\ MigrateHolds(h)'
    <2>1. serving'[h] = serving[h] \/ serving'[h] = Idle
      BY DEF FileInv, TypeOK, Return
    <2>2. CASE serving'[h] = serving[h]
      BY <2>2, ReadsSurvive DEF FileInv
    <2>3. CASE serving'[h] = Idle
      BY <2>3, KindsDiffer DEF ConfirmHolds, DownloadHolds, MigrateHolds
    <2> QED
      BY <2>1, <2>2, <2>3
  <1> QED
    BY <1>1, <1>2, RowsKeepInv, URLsKeepInv DEF FileInv, ReadsHold

LEMMA GrowOldPreserves == ASSUME FileInv, NEW f \in File, GrowOld(f) PROVE FileInv'
  <1>1. files[f] \in FileRow /\ files[f].age \in 0 .. 1
    BY RowTyped DEF FileInv, GrowOld
  <1> DEFINE row == [files[f] EXCEPT !.age = @ + 1]
  <1>2. row \in FileRow /\ row # NoFile
    BY <1>1, FileAssumption DEF FileRow
  <1>3. files' = [files EXCEPT ![f] = row] /\ serving' = serving /\ urls' = urls
    BY DEF GrowOld
  <1>4. /\ row.company = files[f].company /\ row.status = files[f].status
        /\ row.tier = files[f].tier /\ row.age = files[f].age + 1
    BY <1>1 DEF FileRow
  <1> HIDE DEF row
  <1>5. files' \in [File -> FileRow \cup {NoFile}]
    BY <1>2, <1>3 DEF FileInv, TypeOK
  <1>6. \A g \in File : files'[g] = IF g = f THEN row ELSE files[g]
    BY <1>3 DEF FileInv, TypeOK
  <1>7. \A g \in File : files[g] # NoFile => files[g].age \in 0 .. 2
    BY RowTyped DEF FileInv
  <1>8. RowsMoveForward
    BY <1>1, <1>2, <1>4, <1>6, <1>7 DEF RowsMoveForward
  <1> QED
    BY <1>2, <1>3, <1>4, <1>5, <1>6, <1>8, OrdinaryStep DEF GrowOld

LEMMA DeleteFilePreserves ==
    ASSUME FileInv, NEW c \in Company, NEW f \in File, DeleteFile(c, f) PROVE FileInv'
  <1>1. files[f] \in FileRow /\ files[f] # NoFile
    BY RowTyped DEF FileInv, DeleteFile, Found, Live
  <1> DEFINE row == [files[f] EXCEPT !.deleted = TRUE]
  <1>2. row \in FileRow /\ row # NoFile
    BY <1>1, FileAssumption DEF FileRow
  <1>3. files' = [files EXCEPT ![f] = row] /\ serving' = serving /\ urls' = urls
    BY DEF DeleteFile
  <1>4. /\ row.company = files[f].company /\ row.status = files[f].status
        /\ row.tier = files[f].tier /\ row.age = files[f].age
    BY <1>1 DEF FileRow
  <1> HIDE DEF row
  <1>5. files' \in [File -> FileRow \cup {NoFile}]
    BY <1>2, <1>3 DEF FileInv, TypeOK
  <1>6. \A g \in File : files'[g] = IF g = f THEN row ELSE files[g]
    BY <1>3 DEF FileInv, TypeOK
  <1>7. \A g \in File : files[g] # NoFile => files[g].age \in 0 .. 2
    BY RowTyped DEF FileInv
  <1>8. RowsMoveForward
    BY <1>1, <1>2, <1>4, <1>6, <1>7 DEF RowsMoveForward
  <1> QED
    BY <1>1, <1>2, <1>3, <1>4, <1>5, <1>6, <1>8, OrdinaryStep

LEMMA PresignUploadPreserves ==
    ASSUME FileInv, NEW c \in Company, NEW f \in File, NEW s \in Size, PresignUpload(c, f, s)
    PROVE  FileInv'
  <1> DEFINE row == [company |-> c, status |-> "pending", size |-> s, tier |-> "standard",
                     age |-> 0, deleted |-> FALSE]
  <1>a. "standard" \in Tier /\ FALSE \in BOOLEAN /\ 0 \in 0 .. 2
    BY DEF Tier
  <1>b. row \in FileRow
    BY <1>a DEF FileRow
  <1>1. row \in FileRow /\ row # NoFile
    BY <1>b, FileAssumption
  <1>2. /\ files[f] = NoFile
        /\ files' = [files EXCEPT ![f] = row] /\ serving' = serving /\ urls' = urls
    BY DEF PresignUpload
  <1>3. row.tier = "standard"
    OBVIOUS
  <1> HIDE DEF row
  <1>4. files' \in [File -> FileRow \cup {NoFile}]
    BY <1>1, <1>2 DEF FileInv, TypeOK
  <1>5. \A g \in File : files'[g] = IF g = f THEN row ELSE files[g]
    BY <1>2 DEF FileInv, TypeOK
  <1>6. \A g \in File : files[g] # NoFile => files[g].age \in 0 .. 2
    BY RowTyped DEF FileInv
  <1>7. RowsMoveForward
    BY <1>2, <1>5, <1>6 DEF RowsMoveForward
  <1> QED
    BY <1>2, <1>3, <1>4, <1>5, <1>7, OrdinaryStep

LEMMA UpdateStatusPreserves ==
    ASSUME FileInv, NEW h \in Handler, serving[h] # Idle, UpdateStatus(h) PROVE FileInv'
  <1> DEFINE f == serving[h].file
             row == [files[f] EXCEPT !.status = "active",
                         !.size = IF serving[h].size > 0 THEN serving[h].size ELSE @]
  <1>1. serving[h] \in Confirm
    BY KindsDiffer DEF FileInv, TypeOK, UpdateStatus
  <1>2. f \in File /\ serving[h].size \in Size /\ files[f] # NoFile
    BY <1>1 DEF Confirm, FileInv, ReadsHold, ConfirmHolds
  <1>3. files[f] \in FileRow
    BY <1>2, RowTyped DEF FileInv
  <1>4. row \in FileRow
    BY <1>2, <1>3 DEF FileRow
  <1>5. /\ row.company = files[f].company /\ row.status = "active"
        /\ row.tier = files[f].tier /\ row.age = files[f].age
    BY <1>3 DEF FileRow
  <1>6. Write(f, row) /\ Return(h) /\ urls' = urls
    BY DEF UpdateStatus
  <1> HIDE DEF f, row
  <1>7. /\ RowsMoveForward
        /\ files' \in [File -> FileRow \cup {NoFile}]
        /\ \A g \in File : g # f => files'[g] = files[g]
        /\ files'[f] = IF Live(f) THEN row ELSE files[f]
    BY <1>2, <1>4, <1>5, <1>6, WriteMovesForward DEF FileInv
  <1> QED
    BY <1>2, <1>5, <1>6, <1>7, OrdinaryStep

LEMMA LeavePreserves == ASSUME FileInv, NEW h \in Handler, Leave(h) PROVE FileInv'
  <1>1. \A g \in File : files[g] # NoFile => files[g].age \in 0 .. 2
    BY RowTyped DEF FileInv
  <1>2. RowsMoveForward
    BY <1>1 DEF Leave, RowsMoveForward
  <1> QED
    BY <1>2, OrdinaryStep DEF Leave, FileInv, TypeOK

\* A request that starts work it has checked.
LEMMA BeginPreserves ==
    ASSUME FileInv, NEW h \in Handler, NEW work \in Confirm \cup Download \cup Migrate,
           Begin(h, work), files' = files, urls' = urls,
           ConfirmHolds(h)', DownloadHolds(h)', MigrateHolds(h)'
    PROVE  FileInv'
  <1>1. TypeOK'
    BY DEF FileInv, TypeOK, Begin
  <1>2. \A g \in File : files[g] # NoFile => files[g].age \in 0 .. 2
    BY RowTyped DEF FileInv
  <1>3. RowsMoveForward
    BY <1>2 DEF RowsMoveForward
  <1>4. ASSUME NEW x \in Handler, x # h
        PROVE  ConfirmHolds(x)' /\ DownloadHolds(x)' /\ MigrateHolds(x)'
    <2>1. serving'[x] = serving[x]
      BY <1>4 DEF FileInv, TypeOK, Begin
    <2> QED
      BY <1>3, <2>1, ReadsSurvive DEF FileInv, TypeOK
  <1>5. ReadsHold'
    BY <1>4 DEF ReadsHold
  <1> QED
    BY <1>1, <1>3, <1>5, RowsKeepInv, URLsKeepInv DEF FileInv, TypeOK

LEMMA ConfirmUploadPreserves ==
    ASSUME FileInv, NEW h \in Handler, NEW c \in Company, NEW f \in File, NEW s \in Size,
           ConfirmUpload(h, c, f, s)
    PROVE  FileInv'
  <1> DEFINE work == [op |-> "confirm", company |-> c, file |-> f, size |-> s,
                      saw |-> files[f].status]
  <1>1. files[f] # NoFile /\ files[f].company = c /\ files[f].status = "pending"
    BY DEF ConfirmUpload, Found, Live
  <1>2. work \in Confirm /\ work.file = f /\ work.company = c /\ work.saw = "pending"
    BY <1>1 DEF Confirm
  <1>3. Begin(h, work) /\ files' = files /\ urls' = urls
    BY DEF ConfirmUpload
  <1> HIDE DEF work
  <1>4. serving'[h] = work
    BY <1>3 DEF Begin, FileInv, TypeOK
  <1>5. ConfirmHolds(h)' /\ DownloadHolds(h)' /\ MigrateHolds(h)'
    BY <1>1, <1>2, <1>3, <1>4, KindsDiffer DEF ConfirmHolds, DownloadHolds, MigrateHolds
  <1> QED
    BY <1>2, <1>3, <1>5, BeginPreserves

LEMMA GetDownloadURLPreserves ==
    ASSUME FileInv, NEW h \in Handler, NEW c \in Company, NEW f \in File,
           GetDownloadURL(h, c, f)
    PROVE  FileInv'
  <1> DEFINE work == [op |-> "download", company |-> c, file |-> f]
  <1>1. files[f] # NoFile /\ files[f].company = c /\ files[f].status = "active"
    BY DEF GetDownloadURL, Found, Live
  <1>2. work \in Download /\ work.file = f /\ work.company = c
    BY DEF Download
  <1>3. Begin(h, work) /\ files' = files /\ urls' = urls
    BY DEF GetDownloadURL
  <1> HIDE DEF work
  <1>4. serving'[h] = work
    BY <1>3 DEF Begin, FileInv, TypeOK
  <1>5. ConfirmHolds(h)' /\ DownloadHolds(h)' /\ MigrateHolds(h)'
    BY <1>1, <1>2, <1>3, <1>4, KindsDiffer DEF ConfirmHolds, DownloadHolds, MigrateHolds
  <1> QED
    BY <1>2, <1>3, <1>5, BeginPreserves

LEMMA MigrateStoragePreserves ==
    ASSUME FileInv, NEW h \in Handler, NEW c \in Company, NEW t \in Target,
           MigrateStorage(h, c, t)
    PROVE  FileInv'
  <1> DEFINE work == [op |-> "migrate", company |-> c, target |-> t,
                      files |-> Migratable(c, t), stale |-> {}]
  <1>1. \A f \in Migratable(c, t) :
           /\ f \in File /\ files[f] # NoFile /\ files[f].company = c
           /\ files[f].status = "active" /\ files[f].age >= Needed(t)
           /\ files[f].tier = Source(t)
    BY DEF Migratable, Found, Live, Expired, Needed
  <1>2. /\ work \in Migrate
        /\ work.files = Migratable(c, t) /\ work.company = c /\ work.target = t
    BY <1>1 DEF Migrate
  <1>3. Begin(h, work) /\ files' = files /\ urls' = urls
    BY DEF MigrateStorage
  <1> HIDE DEF work
  <1>4. serving'[h] = work
    BY <1>3 DEF Begin, FileInv, TypeOK
  <1>5. ConfirmHolds(h)' /\ DownloadHolds(h)' /\ MigrateHolds(h)'
    BY <1>1, <1>2, <1>3, <1>4, KindsDiffer
    DEF ConfirmHolds, DownloadHolds, MigrateHolds, Needed, Source
  <1> QED
    BY <1>2, <1>3, <1>5, BeginPreserves

LEMMA PresignGetURLPreserves ==
    ASSUME FileInv, NEW h \in Handler, serving[h] # Idle, PresignGetURL(h) PROVE FileInv'
  <1>1. serving[h] \in Download
    BY KindsDiffer DEF FileInv, TypeOK, PresignGetURL
  <1> DEFINE u == [company |-> serving[h].company, file |-> serving[h].file]
  <1>2. /\ u \in [company : Company, file : File]
        /\ files[u.file] # NoFile
        /\ files[u.file].company = u.company /\ files[u.file].status = "active"
    BY <1>1 DEF Download, FileInv, ReadsHold, DownloadHolds
  <1>3. urls' = urls \cup {u} /\ files' = files /\ Return(h)
    BY DEF PresignGetURL
  <1> HIDE DEF u
  <1>4. TypeOK'
    BY <1>2, <1>3 DEF FileInv, TypeOK, Return
  <1>5. URLsHold' /\ URLsAreForUploads' /\ TiersMatchPolicy'
    BY <1>2, <1>3 DEF FileInv, URLsHold, URLsAreForUploads, TiersMatchPolicy
  <1>6. ASSUME NEW x \in Handler
        PROVE  ConfirmHolds(x)' /\ DownloadHolds(x)' /\ MigrateHolds(x)'
    <2>1. serving'[x] = IF x = h THEN Idle ELSE serving[x]
      BY <1>3 DEF FileInv, TypeOK, Return
    <2>2. ConfirmHolds(x) /\ DownloadHolds(x) /\ MigrateHolds(x)
      BY DEF FileInv, ReadsHold
    <2> QED
      BY <1>3, <2>1, <2>2, KindsDiffer DEF ConfirmHolds, DownloadHolds, MigrateHolds
  <1> QED
    BY <1>4, <1>5, <1>6 DEF FileInv, ReadsHold

\* What one iteration leaves to every handler, whether the UPDATE was done or not.
LEMMA MigrationReads ==
    ASSUME FileInv, RowsMoveForward, files' \in [File -> FileRow \cup {NoFile}],
           NEW f \in File, NEW x \in Handler,
           \A g \in File : g # f => files'[g] = files[g],
           \/ serving'[x] = serving[x] /\ (serving[x] \in Migrate => f \notin serving[x].files)
           \/ /\ serving[x] \in Migrate
              /\ \/ serving'[x] = [serving[x] EXCEPT !.files = @ \ {f}]
                 \/ serving'[x] = [serving[x] EXCEPT !.stale = @ \cup {f}]
    PROVE  ConfirmHolds(x)' /\ DownloadHolds(x)' /\ MigrateHolds(x)'
  <1>1. ConfirmHolds(x) /\ DownloadHolds(x) /\ MigrateHolds(x)
    BY DEF FileInv, ReadsHold
  <1>2. CASE serving[x] \notin Migrate
    <2>1. serving'[x] = serving[x]
      BY <1>2
    <2> QED
      BY <1>1, <1>2, <2>1 DEF ConfirmHolds, DownloadHolds, MigrateHolds, RowsMoveForward,
                             Confirm, Download
  <1>3. CASE serving[x] \in Migrate
    <2>1. /\ serving'[x] \in Migrate
          /\ serving'[x].company = serving[x].company
          /\ serving'[x].target = serving[x].target
          /\ serving'[x].files \subseteq serving[x].files
          /\ serving[x].stale \subseteq serving'[x].stale
          /\ f \notin serving'[x].files \/ f \in serving'[x].stale
      BY <1>3 DEF Migrate
    <2>2. ASSUME NEW g \in serving'[x].files
          PROVE  /\ files'[g] # NoFile
                 /\ files'[g].company = serving'[x].company
                 /\ files'[g].status = "active"
                 /\ files'[g].age >= Needed(serving'[x].target)
                 /\ g \notin serving'[x].stale => files'[g].tier = Source(serving'[x].target)
      <3>1. g \in File /\ g \in serving[x].files
        BY <1>3, <2>1 DEF Migrate
      <3>2. /\ files[g] # NoFile
            /\ files[g].company = serving[x].company
            /\ files[g].status = "active"
            /\ files[g].age >= Needed(serving[x].target)
            /\ g \notin serving[x].stale => files[g].tier = Source(serving[x].target)
        BY <1>1, <1>3, <3>1 DEF MigrateHolds
      <3>3. files[g].age \in 0 .. 2 /\ files'[g].age \in 0 .. 2
        BY <3>1, <3>2, RowTyped DEF FileInv, RowsMoveForward, FileRow
      <3> QED
        BY <2>1, <3>1, <3>2, <3>3 DEF RowsMoveForward, Needed
    <2>3. serving'[x] \notin Confirm /\ serving'[x] \notin Download
      BY <2>1, KindsDiffer
    <2> QED
      BY <2>1, <2>2, <2>3 DEF ConfirmHolds, DownloadHolds, MigrateHolds, Needed, Source
  <1> QED
    BY <1>2, <1>3

LEMMA MigrateFilePreserves ==
    ASSUME FileInv, NEW h \in Handler, serving[h] # Idle, NEW f \in File, MigrateFile(h, f)
    PROVE  FileInv'
  <1> DEFINE rest == [serving[h] EXCEPT !.files = @ \ {f}]
             row == [files[f] EXCEPT !.tier = NewTier(serving[h].target)]
  <1>1. serving[h] \in Migrate /\ f \in serving[h].files
    BY KindsDiffer DEF FileInv, TypeOK, MigrateFile
  <1>2. rest \in Migrate
    BY <1>1 DEF Migrate
  <1>3. /\ files[f] # NoFile /\ files[f].status = "active"
        /\ files[f].age >= Needed(serving[h].target)
        /\ serving[h].target \in Target
    BY <1>1 DEF FileInv, ReadsHold, MigrateHolds, Migrate
  <1>4. files[f] \in FileRow /\ files[f].age \in 0 .. 2
    BY <1>3, RowTyped DEF FileInv
  <1>5. row \in FileRow
    BY <1>3, <1>4 DEF FileRow, Tier, NewTier
  <1>6. /\ row.company = files[f].company /\ row.status = files[f].status
        /\ row.age = files[f].age /\ row.tier = serving[h].target
    BY <1>4 DEF FileRow, NewTier
  <1>7. /\ urls' = urls
        /\ \/ Write(f, row) /\ serving' = MarkStale(h, f, rest)
           \/ files' = files /\ serving' = [serving EXCEPT ![h] = rest]
    BY DEF MigrateFile
  <1> HIDE DEF row
  <1>8. CASE Write(f, row) /\ serving' = MarkStale(h, f, rest)
    <2>1. /\ RowsMoveForward
          /\ files' \in [File -> FileRow \cup {NoFile}]
          /\ \A g \in File : g # f => files'[g] = files[g]
          /\ files'[f] = IF Live(f) THEN row ELSE files[f]
      BY <1>5, <1>6, <1>8, WriteMovesForward DEF FileInv
    <2>2. \A x \in Handler :
             serving'[x] = IF x = h THEN rest
                           ELSE IF serving[x] \in Migrate /\ f \in serving[x].files
                             THEN [serving[x] EXCEPT !.stale = @ \cup {f}]
                             ELSE serving[x]
      BY <1>8 DEF MarkStale
    <2>3. serving' \in [Handler -> Confirm \cup Download \cup Migrate \cup {Idle}]
      <3>1. \A w \in Migrate : [w EXCEPT !.stale = @ \cup {f}] \in Migrate
        BY DEF Migrate
      <3>2. serving \in [Handler -> Confirm \cup Download \cup Migrate \cup {Idle}]
        BY DEF FileInv, TypeOK
      <3> HIDE DEF rest
      <3> QED
        BY <1>2, <1>8, <3>1, <3>2 DEF MarkStale
    <2>4. TypeOK'
      BY <1>7, <2>1, <2>3 DEF FileInv, TypeOK
    <2>5. ASSUME NEW x \in Handler
          PROVE  ConfirmHolds(x)' /\ DownloadHolds(x)' /\ MigrateHolds(x)'
      BY <1>1, <2>1, <2>2, MigrationReads
    <2>6. TiersMatchPolicy'
      <3>1. \A g \in File : g # f /\ files'[g] # NoFile /\ files'[g].tier # "standard" =>
               /\ files'[g].status = "active"
               /\ files'[g].age >= IF files'[g].tier = "glacier" THEN 2 ELSE 1
        BY <2>1 DEF FileInv, TiersMatchPolicy
      <3>2. files'[f].tier # "standard" =>
               /\ files'[f].status = "active"
               /\ files'[f].age >= IF files'[f].tier = "glacier" THEN 2 ELSE 1
        <4>1. CASE Live(f)
          BY <1>3, <1>4, <1>6, <2>1, <4>1 DEF Needed, Source
        <4>2. CASE ~Live(f)
          BY <1>3, <2>1, <4>2 DEF FileInv, TiersMatchPolicy
        <4> QED
          BY <4>1, <4>2
      <3> QED
        BY <3>1, <3>2 DEF TiersMatchPolicy
    <2> QED
      BY <1>7, <2>1, <2>4, <2>5, <2>6, URLsKeepInv DEF FileInv, ReadsHold
  <1>9. CASE files' = files /\ serving' = [serving EXCEPT ![h] = rest]
    <2>1. \A g \in File : files[g] # NoFile => files[g].age \in 0 .. 2
      BY RowTyped DEF FileInv
    <2>2. RowsMoveForward
      BY <1>9, <2>1 DEF RowsMoveForward
    <2>3. TypeOK'
      BY <1>2, <1>7, <1>9 DEF FileInv, TypeOK
    <2>4. serving'[h] = rest /\ \A x \in Handler : x # h => serving'[x] = serving[x]
      BY <1>9 DEF FileInv, TypeOK
    <2>5. ConfirmHolds(h)' /\ DownloadHolds(h)' /\ MigrateHolds(h)'
      BY <1>1, <1>9, <2>2, <2>4, MigrationReads DEF FileInv, TypeOK
    <2>6. ASSUME NEW x \in Handler, x # h
          PROVE  ConfirmHolds(x)' /\ DownloadHolds(x)' /\ MigrateHolds(x)'
      BY <1>9, <2>2, <2>4, <2>6, ReadsSurvive DEF FileInv, TypeOK
    <2> QED
      BY <1>7, <1>9, <2>2, <2>3, <2>5, <2>6, RowsKeepInv, URLsKeepInv DEF FileInv, ReadsHold, TypeOK
  <1> QED
    BY <1>7, <1>8, <1>9

THEOREM FileServiceInvariant == Spec => []FileInv
  <1>1. ASSUME FileInv, [Next]_vars PROVE FileInv'
    <2>1. CASE Statement
      BY <1>1, <2>1, GrowOldPreserves, DeleteFilePreserves, PresignUploadPreserves DEF Statement
    <2>2. ASSUME NEW h \in Handler, Request(h) PROVE FileInv'
      BY <1>1, <2>2, ConfirmUploadPreserves, GetDownloadURLPreserves, MigrateStoragePreserves
      DEF Request
    <2>3. ASSUME NEW h \in Handler, Continue(h) PROVE FileInv'
      BY <1>1, <2>3, UpdateStatusPreserves, PresignGetURLPreserves, MigrateFilePreserves,
         LeavePreserves DEF Continue
    <2>4. CASE UNCHANGED vars
      BY <1>1, <2>4
      DEF vars, FileInv, TypeOK, ReadsHold, ConfirmHolds, DownloadHolds, MigrateHolds, URLsHold,
          URLsAreForUploads, TiersMatchPolicy
    <2> QED
      BY <1>1, <2>1, <2>2, <2>3, <2>4 DEF Next
  <1> QED
    BY <1>1, InitFileInv, PTL DEF Spec

\* file-service: every variable keeps its type.
THEOREM FileTypeOK == Spec => []TypeOK
  <1>1. FileInv => TypeOK
    BY DEF FileInv
  <1> QED
    BY <1>1, FileServiceInvariant, PTL

\* UpdateStatus and UpdateStorageTier, by id alone, write to rows of the caller's company.
THEOREM FileWritesStayInTenant == Spec => []WritesStayInTenant
  <1>1. FileInv => WritesStayInTenant
    BY DEF FileInv, ReadsHold, ConfirmHolds, DownloadHolds, MigrateHolds, WritesStayInTenant
  <1> QED
    BY <1>1, FileServiceInvariant, PTL

\* GetDownloadURL hands out confirmed uploads of the caller's company only.
THEOREM FileURLsAreForUploads == Spec => []URLsAreForUploads
  <1>1. FileInv => URLsAreForUploads
    BY DEF FileInv
  <1> QED
    BY <1>1, FileServiceInvariant, PTL

\* MigrateStorage moves a file to a colder tier only when the policy lets it.
THEOREM FileTiersMatchPolicy == Spec => []TiersMatchPolicy
  <1>1. FileInv => TiersMatchPolicy
    BY DEF FileInv
  <1> QED
    BY <1>1, FileServiceInvariant, PTL

\* The ways in which a step changes a row that exists.
LEMMA RowChanges ==
    ASSUME FileInv, Next, NEW f \in File, files[f] # NoFile
    PROVE  \/ files'[f] = files[f]
           \/ files'[f] = [files[f] EXCEPT !.age = @ + 1]
           \/ Live(f) /\ files'[f] = [files[f] EXCEPT !.deleted = TRUE]
           \/ \E h \in Handler :
                  /\ Live(f) /\ serving[h] \in Confirm /\ serving[h].file = f
                  /\ files'[f] = [files[f] EXCEPT !.status = "active",
                          !.size = IF serving[h].size > 0 THEN serving[h].size ELSE @]
           \/ \E h \in Handler :
                  /\ Live(f) /\ serving[h] \in Migrate /\ f \in serving[h].files
                  /\ serving'[h] = [serving[h] EXCEPT !.files = @ \ {f}]
                  /\ files'[f] = [files[f] EXCEPT !.tier = NewTier(serving[h].target)]
  <1>1. /\ files \in [File -> FileRow \cup {NoFile}]
        /\ serving \in [Handler -> Confirm \cup Download \cup Migrate \cup {Idle}]
    BY DEF FileInv, TypeOK
  <1>2. CASE Statement
    <2>1. ASSUME NEW g \in File, GrowOld(g)
          PROVE  files'[f] = files[f] \/ files'[f] = [files[f] EXCEPT !.age = @ + 1]
      BY <1>1, <2>1 DEF GrowOld
    <2>2. ASSUME NEW g \in File, NEW c \in Company, DeleteFile(c, g)
          PROVE  \/ files'[f] = files[f]
                 \/ Live(f) /\ files'[f] = [files[f] EXCEPT !.deleted = TRUE]
      BY <1>1, <2>2 DEF DeleteFile, Found
    <2>3. ASSUME NEW g \in File, NEW c \in Company, NEW s \in Size, PresignUpload(c, g, s)
          PROVE  files'[f] = files[f]
      BY <1>1, <2>3 DEF PresignUpload
    <2> QED
      BY <1>2, <2>1, <2>2, <2>3 DEF Statement
  <1>3. ASSUME NEW h \in Handler, Request(h) PROVE files' = files
    BY <1>3 DEF Request, ConfirmUpload, GetDownloadURL, MigrateStorage
  <1>4. ASSUME NEW h \in Handler, serving[h] # Idle, UpdateStatus(h)
        PROVE  \/ files'[f] = files[f]
               \/ /\ Live(f) /\ serving[h] \in Confirm /\ serving[h].file = f
                  /\ files'[f] = [files[f] EXCEPT !.status = "active",
                          !.size = IF serving[h].size > 0 THEN serving[h].size ELSE @]
    <2>1. serving[h] \in Confirm
      BY <1>1, <1>4, KindsDiffer DEF UpdateStatus
    <2>2. serving[h].file \in File
      BY <2>1 DEF Confirm
    <2> DEFINE row == [files[serving[h].file] EXCEPT !.status = "active",
                          !.size = IF serving[h].size > 0 THEN serving[h].size ELSE @]
    <2>3. Write(serving[h].file, row)
      BY <1>4 DEF UpdateStatus
    <2>4. CASE serving[h].file # f
      <3> HIDE DEF row
      <3> QED
        BY <1>1, <2>2, <2>3, <2>4 DEF Write
    <2>5. CASE serving[h].file = f /\ ~Live(f)
      <3> HIDE DEF row
      <3> QED
        BY <2>3, <2>5 DEF Write
    <2>6. CASE serving[h].file = f /\ Live(f)
      <3>1. files'[f] = row
        <4> HIDE DEF row
        <4> QED
          BY <1>1, <2>3, <2>6 DEF Write
      <3> QED
        BY <2>1, <2>6, <3>1
    <2> QED
      BY <2>4, <2>5, <2>6
  <1>5. ASSUME NEW h \in Handler, serving[h] # Idle, NEW g \in File, MigrateFile(h, g)
        PROVE  \/ files'[f] = files[f]
               \/ /\ Live(f) /\ serving[h] \in Migrate /\ f \in serving[h].files
                  /\ serving'[h] = [serving[h] EXCEPT !.files = @ \ {f}]
                  /\ files'[f] = [files[f] EXCEPT !.tier = NewTier(serving[h].target)]
    <2>1. serving[h] \in Migrate /\ g \in serving[h].files
      BY <1>1, <1>5, KindsDiffer DEF MigrateFile
    <2> DEFINE row == [files[g] EXCEPT !.tier = NewTier(serving[h].target)]
    <2>2. \/ files' = files
          \/ /\ Write(g, row)
             /\ serving' = MarkStale(h, g, [serving[h] EXCEPT !.files = @ \ {g}])
      BY <1>5 DEF MigrateFile
    <2> HIDE DEF row
    <2>3. CASE g # f \/ ~Live(f)
      BY <1>1, <2>2, <2>3 DEF Write
    <2>4. CASE files' # files /\ g = f /\ Live(f)
      <3>1. files'[f] = row
        BY <1>1, <2>2, <2>4 DEF Write
      <3>2. serving'[h] = [serving[h] EXCEPT !.files = @ \ {f}]
        BY <2>2, <2>4 DEF MarkStale
      <3> QED
        BY <2>1, <2>4, <3>1, <3>2 DEF row
    <2> QED
      BY <2>3, <2>4
  <1>6. ASSUME NEW h \in Handler, Continue(h)
        PROVE  \/ files' = files
               \/ serving[h] # Idle /\ UpdateStatus(h)
               \/ serving[h] # Idle /\ \E g \in File : MigrateFile(h, g)
    BY <1>6 DEF Continue, PresignGetURL, Leave
  <1> QED
    BY <1>2, <1>3, <1>4, <1>5, <1>6 DEF Next

\* A deleted row is never written again, by no request that was in flight at that time.
THEOREM FileDeletedFilesAreFrozen == Spec => DeletedFilesAreFrozen
  <1>1. ASSUME FileInv, [Next]_vars, NEW f \in File, files[f] # NoFile, files[f].deleted
        PROVE  files'[f] = [files[f] EXCEPT !.age = files'[f].age]
    <2>1. files[f] \in FileRow
      BY <1>1, RowTyped DEF FileInv
    <2>2. files'[f] = files[f] \/ files'[f] = [files[f] EXCEPT !.age = @ + 1]
      <3>1. CASE Next
        BY <1>1, <3>1, RowChanges DEF Live
      <3>2. CASE UNCHANGED vars
        BY <3>2 DEF vars
      <3> QED
        BY <1>1, <3>1, <3>2
    <2> QED
      BY <2>1, <2>2 DEF FileRow
  <1>2. ASSUME FileInv, [Next]_vars
        PROVE  \A f \in File : files[f] # NoFile /\ files[f].deleted =>
                   files'[f] = [files[f] EXCEPT !.age = files'[f].age]
    BY <1>1, <1>2
  <1> QED
    BY <1>2, FileServiceInvariant, PTL DEF Spec, DeletedFilesAreFrozen

\* A migration warms a file only if another one moved it after the list was read.
THEOREM FileOnlyStaleListsWarm == Spec => OnlyStaleListsWarm
  <1> DEFINE Warm(f) == Coldness(files'[f].tier) < Coldness(files[f].tier)
             Cause(f) == \E h \in Handler : /\ serving[h] \in Migrate
                                           /\ f \in serving[h].stale
                                           /\ f \notin serving'[h].files
  <1>1. ASSUME FileInv, [Next]_vars, NEW f \in File, files[f] # NoFile, Warm(f) PROVE Cause(f)
    <2>1. files[f] \in FileRow
      BY <1>1, RowTyped DEF FileInv
    <2>2. files'[f].tier # files[f].tier
      BY <1>1 DEF Coldness
    <2>3. PICK h \in Handler :
             /\ serving[h] \in Migrate /\ f \in serving[h].files
             /\ serving'[h] = [serving[h] EXCEPT !.files = @ \ {f}]
             /\ files'[f] = [files[f] EXCEPT !.tier = NewTier(serving[h].target)]
      <3>1. Next
        BY <1>1, <2>2 DEF vars
      <3> QED
        BY <1>1, <2>1, <2>2, <3>1, RowChanges DEF FileRow
    <2>4. files'[f].tier = serving[h].target
      BY <2>1, <2>3 DEF FileRow, NewTier
    <2>5. f \notin serving'[h].files
      BY <2>3 DEF Migrate
    <2>6. f \in serving[h].stale \/ files[f].tier = Source(serving[h].target)
      BY <1>1, <2>3 DEF FileInv, ReadsHold, MigrateHolds
    <2>7. files[f].tier # Source(serving[h].target)
      BY <1>1, <2>4 DEF Coldness, Source
    <2> QED
      BY <2>3, <2>5, <2>6, <2>7
  <1>2. ASSUME FileInv, [Next]_vars
        PROVE  \A f \in File :
                   files[f] # NoFile /\ Coldness(files'[f].tier) < Coldness(files[f].tier) =>
                       \E h \in Handler : /\ serving[h] \in Migrate
                                          /\ f \in serving[h].stale
                                          /\ f \notin serving'[h].files
    BY <1>1, <1>2
  <1> QED
    BY <1>2, FileServiceInvariant, PTL DEF Spec, OnlyStaleListsWarm

\* A confirmed size changes only by a confirmation that read the row when it was pending.
THEOREM FileConfirmedSizeStays == Spec => ConfirmedSizeStays
  <1> DEFINE Resized(f) == files[f].status = "active" /\ files'[f].size # files[f].size
             Cause(f) == \E h \in Handler : /\ serving[h] \in Confirm
                                           /\ serving[h].file = f
                                           /\ serving[h].saw = "pending"
  <1>1. ASSUME FileInv, [Next]_vars, NEW f \in File, files[f] # NoFile, Resized(f) PROVE Cause(f)
    <2>1. files[f] \in FileRow
      BY <1>1, RowTyped DEF FileInv
    <2>2. PICK h \in Handler : serving[h] \in Confirm /\ serving[h].file = f
      <3>1. Next
        BY <1>1 DEF vars
      <3> QED
        BY <1>1, <2>1, <3>1, RowChanges DEF FileRow
    <2> QED
      BY <1>1, <2>2 DEF FileInv, ReadsHold, ConfirmHolds
  <1>2. ASSUME FileInv, [Next]_vars
        PROVE  \A f \in File :
                   files[f] # NoFile /\ files[f].status = "active" /\ files'[f].size # files[f].size =>
                       \E h \in Handler : /\ serving[h] \in Confirm
                                          /\ serving[h].file = f
                                          /\ serving[h].saw = "pending"
    BY <1>1, <1>2
  <1> QED
    BY <1>2, FileServiceInvariant, PTL DEF Spec, ConfirmedSizeStays
===============================================================================
