------------------------------ MODULE FileService ------------------------------
(***************************************************************************)
(* file-service: the rows of uploaded files. A client presigns an upload,  *)
(* stores the bytes in S3 itself, confirms, downloads and deletes;         *)
(* MigrateStorage moves old files to colder tiers. A request reads rows    *)
(* and then writes by id alone, with other requests in between.            *)
(***************************************************************************)
EXTENDS Naturals

CONSTANTS
    File,      \* file ids; a row never loses its id
    Company,   \* tenants
    Size,      \* sizes clients state; 0 is "not given"
    Target,    \* target tiers MigrateStorage is called with
    Handler,   \* requests that can be in flight at the same time
    NoFile,    \* no row with this id
    Idle       \* a handler that serves nothing

\* storage_tier is a string the caller chooses: unknown ones are stored as they are.
Tier == {"standard", "standard_ia", "glacier"} \cup Target

FileRow == [company : Company, status : {"pending", "active"}, size : Size,
            tier : Tier, age : 0 .. 2, deleted : BOOLEAN]

Confirm == [op : {"confirm"}, company : Company, file : File, size : Size,
            saw : {"pending", "active"}]
Download == [op : {"download"}, company : Company, file : File]
Migrate == [op : {"migrate"}, company : Company, target : Target,
            files : SUBSET File, stale : SUBSET File]

ASSUME FileAssumption ==
    /\ 0 \in Size
    /\ NoFile \notin FileRow
    /\ Idle \notin Confirm \cup Download \cup Migrate

VARIABLES
    files,    \* table files; age: 0, 1 past AfterAge of "standard", 2 past both
    serving,  \* handler -> what it has read and goes on with
    urls      \* download URLs given out, as [company, file]

vars == <<files, serving, urls>>

Live(f) == files[f] # NoFile /\ ~files[f].deleted

\* Mutant: WHERE id = ? without the company.
FoundInAnyTenant(company, f) == Live(f)

\* FindByID.
Found(company, f) == Live(f) /\ files[f].company = company

Init ==
    /\ files = [f \in File |-> NoFile]
    /\ serving = [h \in Handler |-> Idle]
    /\ urls = {}

Begin(h, work) == serving[h] = Idle /\ serving' = [serving EXCEPT ![h] = work]

Return(h) == serving' = [serving EXCEPT ![h] = Idle]

\* PresignUpload: one INSERT, with the defaults of the columns.
PresignUpload(company, f, size) ==
    /\ files[f] = NoFile
    /\ files' = [files EXCEPT ![f] = [company |-> company, status |-> "pending", size |-> size,
                                      tier |-> "standard", age |-> 0, deleted |-> FALSE]]
    /\ UNCHANGED <<serving, urls>>

\* Mutant: any status may be confirmed.
ConfirmAnyUpload(h, company, f, size) ==
    /\ Found(company, f)
    /\ Begin(h, [op |-> "confirm", company |-> company, file |-> f, size |-> size,
                 saw |-> files[f].status])
    /\ UNCHANGED <<files, urls>>

\* ConfirmUpload: the row has to be pending when it is read. Refused requests change
\* nothing, here and below.
ConfirmUpload(h, company, f, size) ==
    /\ Found(company, f)
    /\ files[f].status = "pending"
    /\ Begin(h, [op |-> "confirm", company |-> company, file |-> f, size |-> size,
                 saw |-> files[f].status])
    /\ UNCHANGED <<files, urls>>

\* UPDATE ... WHERE id = ? AND deleted_at IS NULL: no row is no error.
Write(f, row) == files' = IF Live(f) THEN [files EXCEPT ![f] = row] ELSE files

\* UpdateStatus.
UpdateStatus(h) ==
    LET c == serving[h]
        row == files[c.file]
    IN  /\ c.op = "confirm"
        /\ Write(c.file, [row EXCEPT !.status = "active",
                                     !.size = IF c.size > 0 THEN c.size ELSE @])
        /\ Return(h)
        /\ UNCHANGED urls

\* GetDownloadURL: files in glacier have to be restored first.
GetDownloadURL(h, company, f) ==
    /\ Found(company, f)
    /\ files[f].status = "active"
    /\ files[f].tier # "glacier"
    /\ Begin(h, [op |-> "download", company |-> company, file |-> f])
    /\ UNCHANGED <<files, urls>>

PresignGetURL(h) ==
    /\ serving[h].op = "download"
    /\ urls' = urls \cup {[company |-> serving[h].company, file |-> serving[h].file]}
    /\ Return(h)
    /\ UNCHANGED files

\* DeleteFile: one statement; the object in S3 stays.
DeleteFile(company, f) ==
    /\ Found(company, f)
    /\ files' = [files EXCEPT ![f].deleted = TRUE]
    /\ UNCHANGED <<serving, urls>>

Source(target) == IF target = "glacier" THEN "standard_ia" ELSE "standard"

\* created_at < now - StorageTierPolicy[current].AfterAge.
Expired(f, target) == files[f].age >= IF Source(target) = "standard" THEN 1 ELSE 2

\* Mutant: files of every tier are listed.
ListAllTiers(company, target) ==
    {f \in File : Found(company, f) /\ files[f].status = "active" /\ Expired(f, target)}

\* ListForLifecycleMigration.
Migratable(company, target) ==
    {f \in File : /\ Found(company, f)
                  /\ files[f].tier = Source(target)
                  /\ files[f].status = "active"
                  /\ Expired(f, target)}

MigrateStorage(h, company, target) ==
    /\ Begin(h, [op |-> "migrate", company |-> company, target |-> target,
                 files |-> Migratable(company, target), stale |-> {}])
    /\ UNCHANGED <<files, urls>>

\* History: the other requests that listed f have listed a tier that is no longer its own.
MarkStale(h, f, work) ==
    [x \in Handler |->
        IF x = h THEN work
        ELSE IF serving[x] \in Migrate /\ f \in serving[x].files
               THEN [serving[x] EXCEPT !.stale = @ \cup {f}]
               ELSE serving[x]]

\* Mutant: the tier that the policy names after the target.
PolicyNextTier(target) ==
    CASE target = "standard" -> "standard_ia" [] target = "standard_ia" -> "glacier" [] OTHER -> ""

NewTier(target) == target

\* UpdateStorageTier for one file of the list, or a failed call: the loop goes on.
MigrateFile(h, f) ==
    LET rest == [serving[h] EXCEPT !.files = @ \ {f}]
    IN  /\ serving[h].op = "migrate"
        /\ f \in serving[h].files
        /\ \/ /\ Write(f, [files[f] EXCEPT !.tier = NewTier(serving[h].target)])
              /\ serving' = MarkStale(h, f, rest)
           \/ /\ serving' = [serving EXCEPT ![h] = rest]
              /\ UNCHANGED files
        /\ UNCHANGED urls

\* The list is done, a database call fails, or the pod dies.
Leave(h) ==
    /\ serving[h] # Idle
    /\ Return(h)
    /\ UNCHANGED <<files, urls>>

\* created_at passes a threshold.
GrowOld(f) ==
    /\ files[f] # NoFile /\ files[f].age < 2
    /\ files' = [files EXCEPT ![f].age = @ + 1]
    /\ UNCHANGED <<serving, urls>>

Request(h) ==
    \E c \in Company :
        \/ \E f \in File : GetDownloadURL(h, c, f) \/ \E s \in Size : ConfirmUpload(h, c, f, s)
        \/ \E t \in Target : MigrateStorage(h, c, t)

Continue(h) ==
    /\ serving[h] # Idle
    /\ UpdateStatus(h) \/ PresignGetURL(h) \/ (\E f \in File : MigrateFile(h, f)) \/ Leave(h)

Statement ==
    \E f \in File :
        \/ GrowOld(f)
        \/ \E c \in Company : DeleteFile(c, f) \/ \E s \in Size : PresignUpload(c, f, s)

Next == Statement \/ \E h \in Handler : Request(h) \/ Continue(h)

Spec == Init /\ [][Next]_vars
-------------------------------------------------------------------------------
(***************************************************************************)
(* Properties                                                              *)
(***************************************************************************)

\* Every variable has its type.
TypeOK ==
    /\ files \in [File -> FileRow \cup {NoFile}]
    /\ serving \in [Handler -> Confirm \cup Download \cup Migrate \cup {Idle}]
    /\ urls \subseteq [company : Company, file : File]

\* UpdateStatus and UpdateStorageTier write by id alone: what keeps them in the
\* tenant is the company check of the read before, however old it is.
WritesStayInTenant ==
    \A h \in Handler :
        /\ serving[h] \in Confirm \cup Download =>
               files[serving[h].file].company = serving[h].company
        /\ serving[h] \in Migrate =>
               \A f \in serving[h].files : files[f].company = serving[h].company

\* Only confirmed uploads of its own company are ever handed to a client.
URLsAreForUploads ==
    \A u \in urls : files[u.file].company = u.company /\ files[u.file].status = "active"

\* A colder tier says: confirmed, and older than the policy of the tiers before.
TiersMatchPolicy ==
    \A f \in File :
        files[f] # NoFile /\ files[f].tier # "standard" =>
            /\ files[f].status = "active"
            /\ files[f].age >= IF files[f].tier = "glacier" THEN 2 ELSE 1

\* No request that was in flight when a file was deleted writes to its row any more.
DeletedFilesAreFrozen ==
    [][\A f \in File :
           files[f] # NoFile /\ files[f].deleted => files'[f] = [files[f] EXCEPT !.age = files'[f].age]]_vars

Coldness(tier) == CASE tier = "standard" -> 0 [] tier = "glacier" -> 2 [] OTHER -> 1

\* A file gets warmer only by a migration that listed it before another one moved it.
OnlyStaleListsWarm ==
    [][\A f \in File :
           files[f] # NoFile /\ Coldness(files'[f].tier) < Coldness(files[f].tier) =>
               \E h \in Handler : /\ serving[h] \in Migrate
                                  /\ f \in serving[h].stale
                                  /\ f \notin serving'[h].files]_vars

\* "file already confirmed": the size of a confirmed file changes only by a
\* confirmation that had read the row before it was confirmed.
ConfirmedSizeStays ==
    [][\A f \in File :
           files[f] # NoFile /\ files[f].status = "active" /\ files'[f].size # files[f].size =>
               \E h \in Handler : /\ serving[h] \in Confirm
                                  /\ serving[h].file = f
                                  /\ serving[h].saw = "pending"]_vars
===============================================================================
