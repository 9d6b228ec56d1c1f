---------------------------- MODULE Acquisition ----------------------------
(***************************************************************************)
(* The acquisition of an exchange's monthly archives, run after run: each    *)
(* month is downloaded and cached under its checksum; once every required    *)
(* month is cached and good, the dataset of every role is written, then      *)
(* listed.  A run may end anywhere.  The exchange may publish a month anew,  *)
(* and a cached archive may be damaged between runs.                         *)
(***************************************************************************)
EXTENDS Integers, Sequences, SequencesExt, FiniteSets

CONSTANTS
    Required,               \* the months, in order
    RoleOrder, MonthsOf,        \* the roles in order, and the months of each
    Sound,                  \* the months and versions of the archives whose rows are valid
    MAX_RETRIES,            \* attempts at one download
    MaxVersion, MaxFaults   \* bounds: publications of a month; crashes, failed writes and damage

NoArchive == 0
Damaged == -1

VARIABLES
    published,      \* the version of each month the exchange has
    zip, checksum,  \* the cache: the version of each archive, and of its checksum file
    dataset,        \* what each role's dataset was made of: the version of each month, <<>> for no file
    manifest,       \* the roles listed, each with what it was made of
    acquiring,      \* "idle", "checksum", "zip", "saveZip", "saveChecksum", "audit", "write" or "list"
    todo, tries, expected,      \* the months still to download, the attempts, the checksum just read
    archives, left,             \* the versions read for the datasets, the roles still to write or list
    faults

fetching == <<todo, tries, expected>>
making == <<archives, left>>
archiveVars == <<published, zip, checksum, dataset, manifest, acquiring, fetching, making, faults>>

RequiredMonth == ToSet(Required)

\* What the plan of an acquisition is: its months and its roles are listed, there is a role at
\* least, and every role is made of required months.
ASSUME PlanAssumption ==
    /\ Required \in Seq(RequiredMonth)
    /\ RoleOrder \in Seq(ToSet(RoleOrder)) /\ RoleOrder # <<>>
    /\ \A r \in ToSet(RoleOrder) : MonthsOf[r] \subseteq RequiredMonth

Made(role) == [m \in MonthsOf[role] |-> archives[m]]

ArchiveInit ==
    /\ published = [m \in RequiredMonth |-> 1] /\ zip = [m \in RequiredMonth |-> NoArchive] /\ checksum = [m \in RequiredMonth |-> NoArchive]
    /\ dataset = [r \in ToSet(RoleOrder) |-> <<>>] /\ manifest = <<>>
    /\ acquiring = "idle" /\ todo = <<>> /\ tries = 0 /\ expected = NoArchive
    /\ archives = [m \in RequiredMonth |-> NoArchive] /\ left = <<>> /\ faults = 0

\* The run ends, with an error or at its end; what is on disk stays.
EndRun == acquiring' = "idle" /\ todo' = <<>> /\ tries' = 0 /\ expected' = NoArchive
        /\ archives' = [m \in RequiredMonth |-> NoArchive] /\ left' = <<>>

\* An operator starts a run for a range of the months.
Begin ==
    /\ acquiring = "idle"
    /\ \E i, j \in DOMAIN Required : i <= j /\ todo' = SubSeq(Required, i, j)
    /\ acquiring' = "checksum" /\ tries' = 0
    /\ UNCHANGED <<published, zip, checksum, dataset, manifest, expected, making, faults>>

\* A download that does not succeed: a client's error or a body too large at once, any other after the last attempt.
FetchFails ==
    /\ acquiring \in {"checksum", "zip"}
    /\ \/ tries + 1 < MAX_RETRIES /\ tries' = tries + 1 /\ UNCHANGED <<acquiring, todo, expected, making>>
       \/ EndRun
    /\ UNCHANGED <<published, zip, checksum, dataset, manifest, faults>>

\* The checksum is always read anew; a cached archive it fits is not downloaded again.
FetchChecksum ==
    /\ acquiring = "checksum"
    /\ expected' = published[Head(todo)] /\ tries' = 0
    /\ acquiring' = IF zip[Head(todo)] = published[Head(todo)] THEN "saveChecksum" ELSE "zip"
    /\ UNCHANGED <<published, zip, checksum, dataset, manifest, todo, making, faults>>

\* An archive that does not fit the checksum is not written.
FetchZip ==
    /\ acquiring = "zip"
    /\ IF published[Head(todo)] = expected
       THEN acquiring' = "saveZip" /\ tries' = 0 /\ UNCHANGED <<todo, expected, making>>
       ELSE EndRun
    /\ UNCHANGED <<published, zip, checksum, dataset, manifest, faults>>

SaveZip ==
    /\ acquiring = "saveZip"
    /\ zip' = [zip EXCEPT ![Head(todo)] = expected] /\ acquiring' = "saveChecksum"
    /\ UNCHANGED <<published, checksum, dataset, manifest, fetching, making, faults>>

SaveChecksum ==
    /\ acquiring = "saveChecksum"
    /\ checksum' = [checksum EXCEPT ![Head(todo)] = expected]
    /\ todo' = Tail(todo) /\ expected' = NoArchive
    /\ acquiring' = IF Len(todo) = 1 THEN "audit" ELSE "checksum"
    /\ UNCHANGED <<published, zip, dataset, manifest, tries, making, faults>>

\* Mutant: an archive that is there is taken to be good.
Present(m) == zip[m] # NoArchive /\ checksum[m] # NoArchive

Verified(m) == zip[m] # NoArchive /\ checksum[m] = zip[m]

\* auditLocalCache, then every archive read and validated (damage need not show in the rows): all the
\* datasets are made before one is written.
AuditAndAssemble ==
    /\ acquiring = "audit"
    /\ IF \A m \in RequiredMonth : Verified(m) /\ (<<m, zip[m]>> \in Sound \/ zip[m] = Damaged)
       THEN archives' = zip /\ left' = RoleOrder /\ acquiring' = "write" /\ UNCHANGED fetching
       ELSE EndRun
    /\ UNCHANGED <<published, zip, checksum, dataset, manifest, faults>>

\* Mutant: a dataset that is there is kept.
WriteOrKeep(role) ==
    /\ dataset' = [dataset EXCEPT ![role] = IF @ = <<>> THEN Made(role) ELSE @]
    /\ IF Len(left) = 1 THEN left' = RoleOrder /\ acquiring' = "list" ELSE left' = Tail(left) /\ acquiring' = acquiring
    /\ UNCHANGED <<archives, fetching>>

\* A file that is there is never written over: the run ends.
WriteDataset(role) ==
    IF dataset[role] # <<>> THEN EndRun /\ UNCHANGED dataset
    ELSE /\ dataset' = [dataset EXCEPT ![role] = Made(role)]
         /\ IF Len(left) = 1 THEN left' = RoleOrder /\ acquiring' = "list" ELSE left' = Tail(left) /\ acquiring' = acquiring
         /\ UNCHANGED <<archives, fetching>>

WriteNext == acquiring = "write" /\ WriteDataset(Head(left)) /\ UNCHANGED <<published, zip, checksum, manifest, faults>>

\* A second entry for a role is refused.
AppendEntry ==
    /\ acquiring = "list"
    /\ LET role == Head(left)
       IN  IF \E e \in ToSet(manifest) : e.role = role THEN EndRun /\ UNCHANGED manifest
           ELSE /\ manifest' = Append(manifest, [role |-> role, made |-> Made(role)])
                /\ IF Len(left) = 1 THEN EndRun ELSE left' = Tail(left) /\ UNCHANGED <<acquiring, fetching, archives>>
    /\ UNCHANGED <<published, zip, checksum, dataset, faults>>

\* The process is killed, or a write fails.
RunCrash ==
    /\ acquiring # "idle" /\ faults < MaxFaults /\ faults' = faults + 1 /\ EndRun
    /\ UNCHANGED <<published, zip, checksum, dataset, manifest>>

PublishAnew ==
    /\ \E m \in RequiredMonth : published[m] < MaxVersion /\ published' = [published EXCEPT ![m] = @ + 1]
    /\ UNCHANGED <<zip, checksum, dataset, manifest, acquiring, fetching, making, faults>>

Damage ==
    /\ acquiring = "idle" /\ faults < MaxFaults /\ faults' = faults + 1
    /\ \E m \in RequiredMonth : zip[m] > 0 /\ zip' = [zip EXCEPT ![m] = Damaged]
    /\ UNCHANGED <<published, checksum, dataset, manifest, acquiring, fetching, making>>

ArchiveNext ==
    \/ Begin \/ FetchFails \/ FetchChecksum \/ FetchZip \/ SaveZip \/ SaveChecksum
    \/ AuditAndAssemble \/ WriteNext \/ AppendEntry \/ RunCrash \/ PublishAnew \/ Damage
ArchiveSpec == ArchiveInit /\ [][ArchiveNext]_archiveVars

-----------------------------------------------------------------------------
(* Properties.                                                             *)

\* No dataset is made of an archive that is not what the exchange published, whichever runs ended between
\* the saving of an archive and of its checksum, and whatever became of the cache since
\* (dataset-binance-download-cli.ts, auditLocalCache: "never trusting a cached file merely because it exists").
OnlyPublishedArchives ==
    \A r \in ToSet(RoleOrder) : \A m \in DOMAIN dataset[r] : dataset[r][m] \in 1 .. published[m]

\* Every entry of the manifest is about the dataset that is on disk, and all the datasets that are listed come
\* from one reading of the archives: a run lists only what it wrote itself (the create-only output).
ListedComeFromOneRun ==
    /\ \A e \in ToSet(manifest) : dataset[e.role] = e.made
    /\ acquiring = "list" => \A r \in ToSet(RoleOrder) : dataset[r] = Made(r)

\* Through damage, crashes and new publications a manifest lists only datasets of published
\* archives, all of one run (binance-downloader.ts, dataset-binance-download-cli.ts).
ArchivesAreSound == OnlyPublishedArchives /\ ListedComeFromOneRun
=============================================================================
