--------------------------- MODULE PolicyChanges ---------------------------
(***************************************************************************)
(* The change workflow (modules/policy_changes/workflow.py): a collected   *)
(* source becomes a report, the report is reviewed and approved with its   *)
(* patches, and an approved report regenerates a seed in a directory of    *)
(* its own.  Regenerations run in processes that may end at any step.      *)
(***************************************************************************)
EXTENDS SeedFiles

CONSTANTS
    Reports,       \* review reports, each regenerated by one process
    Directories,   \* seed directories
    Released,      \* the directory the repository ships
    ReleasedFiles, \* its files
    Baselines,     \* what the reviewers hold of each policy: PolicyBaseline
    Snapshots,     \* what the collector may bring: SourceSnapshot
    PatchSets,     \* the sets of patches a reviewer may approve
    Interrupted,   \* sets of files an interrupted removal may leave without
    Listing,       \* where each name of a directory comes when the directory is listed
    MaxStarts,     \* bound: regenerations started
    MaxCrashes,    \* bound: processes that end half way
    None,          \* a field that was not extracted
    NoReport, Nobody

VARIABLES
    report,    \* per report: its record
    seed,      \* per directory: its files and checksums
    active,    \* POLICY_SEED_DIR
    job,       \* per report: the regeneration under way
    origin,    \* history: per directory, the seed it is a copy of
    maker,     \* history: per directory, the report it was made for
    starts,
    crashes

changeVars == <<report, seed, active, job, origin, maker, starts, crashes>>

\* There is no such directory.
NoSeed == [exists |-> FALSE]

SumsFile == "SHA256SUMS"
Entries == Files \cup {SumsFile}

\* A patch changes what a row says, not which row it is.
ASSUME PolicyChangesAssumption ==
    /\ MaxStarts \in Nat /\ MaxCrashes \in Nat
    /\ Released \in Directories /\ Nobody \notin Reports
    /\ Listing \in [Entries -> Nat]
    /\ ReleasedFiles = [f \in Files |-> ReleasedFiles[f]]
    /\ \A patches \in PatchSets : \A p \in patches : "id" \notin DOMAIN p.values

Idle == [stage |-> "idle"]

ChangeInit ==
    /\ report = [r \in Reports |-> NoReport]
    /\ seed = [ d \in Directories |->
                  IF d = Released
                  THEN [files |-> ReleasedFiles, sums |-> ChecksumsOf(ReleasedFiles)]
                  ELSE NoSeed ]
    /\ active = Released
    /\ job = [r \in Reports |-> Idle]
    /\ origin = [d \in Directories |-> NoSeed]
    /\ maker = [d \in Directories |-> Nobody]
    /\ starts = 0
    /\ crashes = 0

-----------------------------------------------------------------------------
(* Reports.                                                                *)

Field(fields, f) == IF f \in DOMAIN fields THEN fields[f] ELSE None

\* The reviewed changes: the new value of every field that differs.
FieldDiffs(baseline, snapshot) ==
    LET fields == DOMAIN baseline.fields \cup DOMAIN snapshot.fields
    IN  [ f \in {g \in fields : /\ snapshot.extracted
                               /\ Field(baseline.fields, g) # Field(snapshot.fields, g)} |->
            Field(snapshot.fields, f) ]

BuildReviewReport(baseline, snapshot) ==
    LET diffs == FieldDiffs(baseline, snapshot)
        moved == baseline.content # snapshot.content
    IN  [ policy_id |-> baseline.policy_id,
          status |-> IF moved \/ DOMAIN diffs # {} THEN "OUTDATED" ELSE "UNCHANGED",
          moved |-> moved, diffs |-> diffs,
          rules |-> { u \in DOMAIN baseline.dependencies :
                        baseline.dependencies[u] \cap DOMAIN diffs # {} },
          chunks |-> IF moved THEN baseline.chunks ELSE {},
          patches |-> {} ]

MayBeginReview(rep) == rep.status = "OUTDATED"
BeginReview(rep) == [rep EXCEPT !.status = "REVIEWING"]

SeedText(value) == IF value = None THEN Blank ELSE value

TargetIsReviewed(rep, patch) ==
    CASE patch.filename = "03_policy_rule.csv" -> patch.row_id \in rep.rules
      [] patch.filename = "10_policy_document_chunk.csv" -> patch.row_id \in rep.chunks
      [] OTHER -> patch.filename \in PatchableFiles /\ patch.row_id = rep.policy_id

\* Mutant: a reviewed field may take any value.
AnyValuesOfReviewedFields(rep, patch) ==
    patch.filename = "02_policy.csv" =>
        DOMAIN patch.values \subseteq DOMAIN rep.diffs \cup {"verified_at"}

ValuesAreReviewed(rep, patch) ==
    patch.filename = "02_policy.csv" =>
        \A f \in DOMAIN patch.values \ {"verified_at"} :
            f \in DOMAIN rep.diffs /\ SeedText(rep.diffs[f]) = patch.values[f]

\* A patch of anything but the policy row counts as covering every field.
DiffsAreCovered(rep, patches) ==
    \/ \E p \in patches : p.filename # "02_policy.csv"
    \/ DOMAIN rep.diffs \subseteq UNION {DOMAIN p.values \ {"verified_at"} : p \in patches}

PatchesMatchReport(rep, patches) ==
    /\ rep.moved => patches # {}
    /\ \A p, q \in patches : p.filename = q.filename /\ p.row_id = q.row_id => p = q
    /\ \A p \in patches : TargetIsReviewed(rep, p) /\ ValuesAreReviewed(rep, p)
    /\ DiffsAreCovered(rep, patches)

MayApprove(rep, patches) == rep.status = "REVIEWING" /\ PatchesMatchReport(rep, patches)
ApproveReport(rep, patches) == [rep EXCEPT !.status = "APPROVED", !.patches = patches]

\* Each call returns a report and changes nothing else; the reviewer who makes them
\* one after the other holds what they return.  A call that raises ends the review.
Review(r) ==
    /\ report[r] = NoReport
    /\ \E baseline \in Baselines, snapshot \in Snapshots, patches \in PatchSets :
         LET built == BuildReviewReport(baseline, snapshot)
         IN  /\ snapshot.source_url = baseline.source_url
             /\ MayBeginReview(built)
             /\ MayApprove(BeginReview(built), patches)
             /\ report' = [report EXCEPT ![r] = ApproveReport(BeginReview(built), patches)]
    /\ UNCHANGED <<seed, active, job, origin, maker, starts, crashes>>

-----------------------------------------------------------------------------
(* regenerate_seed.                                                        *)

Goes(r, next) == job' = [job EXCEPT ![r] = next]

StartRegeneration(r, d) ==
    /\ job[r] = Idle
    /\ starts < MaxStarts
    /\ report[r] # NoReport
    /\ report[r].status = "APPROVED"
    /\ report[r].moved => report[r].patches # {}
    /\ d # active
    /\ seed[d] = NoSeed
    /\ seed[active] # NoSeed
    /\ Goes(r, [stage |-> "hashed", from |-> active, to |-> d])
    /\ starts' = starts + 1
    /\ UNCHANGED <<report, seed, active, origin, maker, crashes>>

\* Mutant: a copy that fails clears the directory like the later steps do.
ClearsAnyTarget(r) ==
    seed' = [seed EXCEPT ![job[r].to] = NoSeed] /\ UNCHANGED <<origin, maker>>

\* copytree is called outside the try that clears the directory.
CopyRaises(r) ==
    UNCHANGED <<seed, origin, maker>>

Content(s, name) == IF name = SumsFile THEN s.sums ELSE s.files[name]
Put(s, name, content) ==
    IF name = SumsFile THEN [s EXCEPT !.sums = content] ELSE [s EXCEPT !.files[name] = content]

EmptyDirectory == [files |-> [f \in Files |-> NoFile], sums |-> NoFile]

\* copytree lists the source, which may have gone away since its files were hashed,
\* and creates the target, or raises.
MakeDirectory(r) ==
    /\ job[r].stage = "hashed"
    /\ LET from == job[r].from
           to == job[r].to
       IN  IF seed[to] # NoSeed \/ seed[from] = NoSeed
           THEN CopyRaises(r) /\ Goes(r, Idle)
           ELSE /\ seed' = [seed EXCEPT ![to] = EmptyDirectory]
                /\ origin' = [origin EXCEPT ![to] = seed[from]]
                /\ maker' = [maker EXCEPT ![to] = r]
                /\ Goes(r, [ stage |-> "copying", from |-> from, to |-> to,
                             left |-> {name \in Entries : Content(seed[from], name) # NoFile},
                             raises |-> FALSE ])
    /\ UNCHANGED <<report, active, starts, crashes>>

\* The name in the listing whose turn it is.
NextName(r, name) ==
    name \in job[r].left /\ \A other \in job[r].left : Listing[name] <= Listing[other]

\* Each file is copied as it is at that moment.  One that has gone away since the
\* listing is skipped, and copytree raises when it is through.
CopyFile(r) ==
    /\ job[r].stage = "copying"
    /\ \E name \in Entries :
         LET from == seed[job[r].from]
             to == job[r].to
             gone == from = NoSeed \/ Content(from, name) = NoFile
         IN  /\ NextName(r, name)
             /\ Goes(r, [job[r] EXCEPT !.left = @ \ {name}, !.raises = @ \/ gone])
             /\ seed' = IF gone THEN seed
                        ELSE [seed EXCEPT ![to] = Put(@, name, Content(from, name))]
             /\ origin' = IF gone THEN origin
                          ELSE [origin EXCEPT ![to] = Put(@, name, Content(from, name))]
    /\ UNCHANGED <<report, active, maker, starts, crashes>>

EndCopy(r) ==
    /\ job[r].stage = "copying"
    /\ job[r].left = {}
    /\ Goes(r, IF job[r].raises THEN Idle
               ELSE [stage |-> "patching", to |-> job[r].to, left |-> report[r].patches])
    /\ IF job[r].raises THEN CopyRaises(r) ELSE UNCHANGED <<seed, origin, maker>>
    /\ UNCHANGED <<report, active, starts, crashes>>

Target(r) == seed[job[r].to]

\* _apply_patch reads the file and opens it for writing, which empties it.
OpenPatchedFile(r) ==
    /\ job[r].stage = "patching"
    /\ \E p \in job[r].left :
         IF Applies(Target(r).files, p, report[r].policy_id)
         THEN /\ seed' = [seed EXCEPT ![job[r].to].files[p.filename] = {}]
              /\ Goes(r, [ stage |-> "writing", to |-> job[r].to, left |-> job[r].left \ {p},
                           filename |-> p.filename,
                           rows |-> Patched(Target(r).files[p.filename], p) ])
         ELSE Goes(r, [stage |-> "failed", to |-> job[r].to]) /\ UNCHANGED seed
    /\ UNCHANGED <<report, active, origin, maker, starts, crashes>>

\* Mutant: the checksums follow each patch.
SumsAfterEachPatch(r, files) == ChecksumsOf(files)

SumsAfterPatch(r, files) == Target(r).sums

WritePatchedFile(r) ==
    /\ job[r].stage = "writing"
    /\ LET files == [Target(r).files EXCEPT ![job[r].filename] = job[r].rows]
       IN  seed' = [seed EXCEPT ![job[r].to] = [files |-> files, sums |-> SumsAfterPatch(r, files)]]
    /\ Goes(r, [stage |-> "patching", to |-> job[r].to, left |-> job[r].left])
    /\ UNCHANGED <<report, active, origin, maker, starts, crashes>>

\* The manifest is written; then _write_checksums hashes the files and opens
\* SHA256SUMS, which empties it.
OpenChecksums(r) ==
    /\ job[r].stage = "patching"
    /\ job[r].left = {}
    /\ seed' = [seed EXCEPT ![job[r].to].sums = <<>>]
    /\ Goes(r, [stage |-> "summing", to |-> job[r].to])
    /\ UNCHANGED <<report, active, origin, maker, starts, crashes>>

WriteChecksums(r) ==
    /\ job[r].stage = "summing"
    /\ seed' = [seed EXCEPT ![job[r].to].sums = ChecksumsOf(Target(r).files)]
    /\ Goes(r, [stage |-> "loading", to |-> job[r].to])
    /\ UNCHANGED <<report, active, origin, maker, starts, crashes>>

Validate(r) ==
    /\ job[r].stage = "loading"
    /\ Goes(r, IF Loads(Target(r)) THEN Idle ELSE [stage |-> "failed", to |-> job[r].to])
    /\ UNCHANGED <<report, seed, active, origin, maker, starts, crashes>>

RemoveTree(r) ==
    /\ job[r].stage = "failed"
    /\ seed' = [seed EXCEPT ![job[r].to] = NoSeed]
    /\ Goes(r, Idle)
    /\ UNCHANGED <<report, active, origin, maker, starts, crashes>>

-----------------------------------------------------------------------------
(* Processes that end half way, and the operator.                          *)

\* Mutant: a file that is gone is no file of the directory any more.
WithoutNames(files, gone, instead) == [f \in Files \ gone |-> files[f]]

Without(files, gone, instead) == [f \in Files |-> IF f \in gone THEN instead ELSE files[f]]

PartialRemovals(whole) ==
    { [files |-> Without(whole.files, gone, NoFile), sums |-> sums] :
        gone \in Interrupted, sums \in {whole.sums, NoFile} }

EndProcess(r) ==
    /\ job[r] # Idle
    /\ crashes < MaxCrashes
    /\ crashes' = crashes + 1
    /\ Goes(r, Idle)
    /\ UNCHANGED <<report, active, starts>>

\* A file is opened before it is written: it may be left with nothing in it.
CrashInCopy(r) ==
    /\ EndProcess(r)
    /\ job[r].stage = "copying"
    /\ \E name \in Entries :
         /\ NextName(r, name)
         /\ seed' = [seed EXCEPT ![job[r].to] =
                       Put(@, name, IF name = SumsFile THEN <<>> ELSE {})]
    /\ UNCHANGED <<origin, maker>>

CrashInRemoval(r) ==
    /\ EndProcess(r)
    /\ job[r].stage = "failed"
    /\ \E part \in PartialRemovals(Target(r)) : seed' = [seed EXCEPT ![job[r].to] = part]
    /\ UNCHANGED <<origin, maker>>

CrashBetweenWrites(r) ==
    /\ EndProcess(r)
    /\ job[r].stage \in {"hashed", "copying", "patching", "writing", "summing", "loading"}
    /\ UNCHANGED <<seed, origin, maker>>

\* The operator points POLICY_SEED_DIR at any directory there is.
Deploy(d) ==
    /\ seed[d] # NoSeed
    /\ d # active
    /\ active' = d
    /\ UNCHANGED <<report, seed, job, origin, maker, starts, crashes>>

Regenerate(r) ==
    \/ \E d \in Directories : StartRegeneration(r, d)
    \/ MakeDirectory(r) \/ CopyFile(r) \/ EndCopy(r)
    \/ OpenPatchedFile(r) \/ WritePatchedFile(r)
    \/ OpenChecksums(r) \/ WriteChecksums(r)
    \/ Validate(r) \/ RemoveTree(r)
    \/ CrashInCopy(r) \/ CrashInRemoval(r) \/ CrashBetweenWrites(r)

ChangeNext ==
    \/ \E r \in Reports :
         Review(r) \/ Regenerate(r)
    \/ \E d \in Directories : Deploy(d)

-----------------------------------------------------------------------------
(* Properties.                                                             *)

Jobs ==
    {Idle} \cup
    [stage : {"hashed"}, from : Directories, to : Directories] \cup
    [ stage : {"copying"}, from : Directories, to : Directories, left : SUBSET Entries,
      raises : BOOLEAN ] \cup
    [stage : {"patching"}, to : Directories, left : SUBSET UNION PatchSets] \cup
    [stage : {"summing", "loading", "failed"}, to : Directories]

ChangeTypeOK ==
    /\ \A r \in Reports :
         /\ report[r] # NoReport => report[r].status = "APPROVED"
         /\ job[r].stage = "writing" \/ job[r] \in Jobs
    /\ \A d \in Directories : seed[d] # NoSeed => DOMAIN seed[d].files = Files
    /\ active \in Directories
    /\ maker \in [Directories -> Reports \cup {Nobody}]
    /\ starts \in 0..MaxStarts
    /\ crashes \in 0..MaxCrashes

Made == {d \in Directories : seed[d] # NoSeed /\ maker[d] # Nobody}
Tables(s) == [f \in Required |-> s.files[f]]
Sealed(s) == VerifyChecksums(s) /\ DOMAIN s.sums = Files

WithPatches(s, patches) ==
    [ f \in Required |->
        { IF \E p \in patches : p.filename = f /\ p.row_id = row.id
          THEN Updated(row, (CHOOSE p \in patches : p.filename = f /\ p.row_id = row.id).values)
          ELSE row : row \in s.files[f] } ]

\* A directory the loader accepts is the seed it was copied from or that seed with
\* every patch of its report, whatever step its regeneration ended at: the sums of
\* the copy convict a directory with some of the patches.  They must have been those
\* of all its files: a process that ends in _write_checksums leaves an empty
\* SHA256SUMS, and regenerate_seed does not verify what it copies.
LoadableSeedsAreWhole ==
    \A d \in Made :
        Sealed(origin[d]) /\ Loads(seed[d]) =>
            Tables(seed[d]) \in {Tables(origin[d]), WithPatches(origin[d], report[maker[d]].patches)}

Owner(filename, row) == IF filename = "02_policy.csv" THEN row.id ELSE row.policy_id

\* A loadable seed keeps every row of the policies that its report is not about,
\* even where the reviewers' baseline named a rule or chunk of another policy.
OtherPoliciesKeepTheirRows ==
    \A d \in Made :
        Sealed(origin[d]) /\ Loads(seed[d]) =>
            \A f \in {"02_policy.csv", "03_policy_rule.csv", "08_policy_document.csv",
                      "10_policy_document_chunk.csv"} :
                \A row \in origin[d].files[f] :
                    Owner(f, row) # report[maker[d]].policy_id => row \in seed[d].files[f]

\* What a policy row says in a made seed is what it said before or what the review
\* of the source found, in every column but the date of the review.
PoliciesChangeAsReviewed ==
    \A d \in Made :
        /\ Sealed(origin[d])
        /\ Loads(seed[d])
        => \A row \in seed[d].files["02_policy.csv"] :
             \E old \in origin[d].files["02_policy.csv"] :
                 \A f \in DOMAIN row \ {"verified_at"} :
                     \/ row[f] = old[f]
                     \/ /\ old.id = report[maker[d]].policy_id
                        /\ f \in DOMAIN report[maker[d]].diffs
                        /\ row[f] = SeedText(report[maker[d]].diffs[f])

\* A directory changes only under the process that made it: a second regeneration
\* that loses the race for its name neither writes into it nor clears it away.
SeedsAreWrittenByTheirMakers ==
    [][\A d \in Directories :
          seed[d] # NoSeed /\ seed'[d] # seed[d] =>
              job[maker[d]].stage \in {"copying", "patching", "writing", "summing", "failed"}
                /\ job[maker[d]].to = d /\ job'[maker[d]] # job[maker[d]]]_changeVars

=============================================================================
