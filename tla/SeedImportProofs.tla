-------------------------- MODULE SeedImportProofs --------------------------
(***************************************************************************)
(* Proofs about PolicyChanges and SeedImport, for every number of reports, *)
(* directories and importers, every release and every set of patches.  The *)
(* first half is about the workflow by itself: who writes into a seed      *)
(* directory, and what a directory that loads can hold, whatever step its  *)
(* regeneration ended at.  The second is about the importers that read the *)
(* directories: the catalogue is made of whole editions.                   *)
(***************************************************************************)
EXTENDS SeedImport, TLAPS

\* The workflow by itself; the importers of SeedImport read it.
ChangeSpec == ChangeInit /\ [][ChangeNext]_changeVars

Busy == {"copying", "patching", "writing", "summing", "loading", "failed"}

-----------------------------------------------------------------------------
(* What patches make of the rows of a seed.                                *)

ForRow(f, row, patches) == {p \in patches : p.filename = f /\ p.row_id = row.id}

\* A row with the patch meant for it, as in WithPatches.
UpdatedBy(row, patches) ==
    IF patches # {} THEN Updated(row, (CHOOSE p \in patches : TRUE).values) ELSE row

Upd(f, row, patches) == UpdatedBy(row, ForRow(f, row, patches))

With(files, patches) == [f \in Files |-> {Upd(f, row, patches) : row \in files[f]}]

\* At most one patch for a row, and none renames its row (PatchesMatchReport).
Distinct(patches) ==
    \A p, q \in patches : p.filename = q.filename /\ p.row_id = q.row_id => p = q
Names(patches) ==
    \A p \in patches : p.filename \in Files /\ "id" \notin DOMAIN p.values

\* The patches of files whose rows name their policy were for rows of that policy.
OwnRows(files, patches, policy) ==
    \A p \in patches :
        p.filename \notin {"02_policy.csv", "09_policy_flat.csv"} =>
            \A row \in files[p.filename] : row.id = p.row_id => row.policy_id = policy

LEMMA UpdKeepsColumns ==
    ASSUME NEW f, NEW row, NEW patches
    PROVE  /\ DOMAIN Upd(f, row, patches) = DOMAIN row
           /\ "id" \in DOMAIN row /\ Names(patches) => Upd(f, row, patches).id = row.id
  <1>1. CASE ForRow(f, row, patches) = {}
    BY <1>1 DEF Upd, UpdatedBy
  <1>2. CASE ForRow(f, row, patches) # {}
    <2> DEFINE p == CHOOSE q \in ForRow(f, row, patches) : TRUE
    <2>1. p \in ForRow(f, row, patches)
      BY <1>2
    <2>2. p \in patches
      BY <2>1 DEF ForRow
    <2>3. Upd(f, row, patches) = Updated(row, p.values)
      BY <1>2 DEF Upd, UpdatedBy
    <2> HIDE DEF p
    <2>4. DOMAIN Updated(row, p.values) = DOMAIN row
      BY DEF Updated
    <2>5. "id" \in DOMAIN row /\ Names(patches) => Updated(row, p.values).id = row.id
      BY <2>2 DEF Updated, Names
    <2> QED  BY <2>3, <2>4, <2>5
  <1> QED  BY <1>1, <1>2

\* One more patch.
LEMMA UpdOnce ==
    ASSUME NEW patches, NEW p, p \notin patches, Distinct(patches \cup {p}),
           NEW row, "id" \in DOMAIN row, Names(patches)
    PROVE  LET before == Upd(p.filename, row, patches)
           IN  Upd(p.filename, row, patches \cup {p})
                 = IF before.id = p.row_id THEN Updated(before, p.values) ELSE before
  <1> DEFINE f == p.filename
             before == Upd(f, row, patches)
  <1>1. before.id = row.id
    BY UpdKeepsColumns
  <1>2. CASE row.id = p.row_id
    <2>1. ForRow(f, row, patches) = {}
      BY <1>2 DEF ForRow, Distinct
    <2>2. ForRow(f, row, patches \cup {p}) = {p}
      BY <1>2, <2>1 DEF ForRow
    <2>3. (CHOOSE q \in ForRow(f, row, patches \cup {p}) : TRUE) = p
      BY <2>2
    <2>4. before = row
      BY <2>1 DEF Upd, UpdatedBy
    <2>5. Upd(f, row, patches \cup {p}) = Updated(row, p.values)
      BY <2>2, <2>3 DEF Upd, UpdatedBy
    <2> QED  BY <1>1, <1>2, <2>4, <2>5
  <1>3. CASE row.id # p.row_id
    <2>1. ForRow(f, row, patches \cup {p}) = ForRow(f, row, patches)
      BY <1>3 DEF ForRow
    <2>2. Upd(f, row, patches \cup {p}) = before
      BY <2>1 DEF Upd
    <2> QED  BY <1>1, <1>3, <2>2
  <1> QED  BY <1>2, <1>3

OnePatch(files, p) == [files EXCEPT ![p.filename] = Patched(files[p.filename], p)]

LEMMA PatchedWith ==
    ASSUME NEW files, NEW patches, NEW p, p \notin patches,
           Distinct(patches \cup {p}), Names(patches \cup {p}),
           \A r \in With(files, patches)[p.filename] : "id" \in DOMAIN r
    PROVE  With(files, patches \cup {p}) = OnePatch(With(files, patches), p)
  <1> DEFINE f == p.filename
             old == With(files, patches)
             new == With(files, patches \cup {p})
  <1>0. f \in Files /\ Names(patches)
    BY DEF Names
  <1>1. old[f] = {Upd(f, row, patches) : row \in files[f]}
    BY <1>0 DEF With
  <1>2. new[f] = {Upd(f, row, patches \cup {p}) : row \in files[f]}
    BY <1>0 DEF With
  <1>3. \A row \in files[f] :
          Upd(f, row, patches \cup {p})
            = IF Upd(f, row, patches).id = p.row_id
              THEN Updated(Upd(f, row, patches), p.values) ELSE Upd(f, row, patches)
    <2> SUFFICES ASSUME NEW row \in files[f]
                 PROVE  Upd(f, row, patches \cup {p})
                          = IF Upd(f, row, patches).id = p.row_id
                            THEN Updated(Upd(f, row, patches), p.values)
                            ELSE Upd(f, row, patches)
      OBVIOUS
    <2>1. "id" \in DOMAIN Upd(f, row, patches)
      BY <1>1
    <2>2. "id" \in DOMAIN row
      BY <2>1, UpdKeepsColumns
    <2> QED  BY <2>2, <1>0, UpdOnce
  <1>4. new[f] = Patched(old[f], p)
    <2>1. Patched(old[f], p) =
            {IF r.id = p.row_id THEN Updated(r, p.values) ELSE r : r \in old[f]}
      BY DEF Patched
    <2>2. ASSUME NEW row \in files[f]
          PROVE  Upd(f, row, patches \cup {p}) \in Patched(old[f], p)
      <3>1. Upd(f, row, patches) \in old[f]
        BY <1>1
      <3> QED  BY <3>1, <2>1, <1>3
    <2>3. ASSUME NEW r \in old[f]
          PROVE  (IF r.id = p.row_id THEN Updated(r, p.values) ELSE r) \in new[f]
      <3>1. PICK row \in files[f] : r = Upd(f, row, patches)
        BY <1>1
      <3>2. Upd(f, row, patches \cup {p}) \in new[f]
        BY <1>2
      <3> QED  BY <3>1, <3>2, <1>3
    <2> HIDE DEF f, old, new
    <2>4. Patched(old[f], p) \subseteq new[f]
      BY <2>1, <2>3
    <2>5. new[f] \subseteq Patched(old[f], p)
      BY <2>2, <1>2
    <2> QED  BY <2>4, <2>5
  <1>5. \A g \in Files \ {f} : new[g] = old[g]
    <2> SUFFICES ASSUME NEW g \in Files, g # f PROVE new[g] = old[g]
      OBVIOUS
    <2>1. \A row : ForRow(g, row, patches \cup {p}) = ForRow(g, row, patches)
      BY DEF ForRow
    <2>2. \A row : Upd(g, row, patches \cup {p}) = Upd(g, row, patches)
      BY <2>1 DEF Upd
    <2> QED  BY <2>2 DEF With
  <1>6. old = [g \in Files |-> old[g]] /\ new = [g \in Files |-> new[g]]
    BY DEF With
  <1> QED
    <2> HIDE DEF f, old, new
    <2>1. new = [old EXCEPT ![f] = Patched(old[f], p)]
      BY <1>0, <1>4, <1>5, <1>6
    <2> QED  BY <2>1 DEF f, old, new, OnePatch

LEMMA WithNothing ==
    ASSUME NEW files, files = [f \in Files |-> files[f]]
    PROVE  With(files, {}) = files
  <1>1. \A f, row : Upd(f, row, {}) = row
    BY DEF Upd, UpdatedBy, ForRow
  <1>2. \A f \in Files : {Upd(f, row, {}) : row \in files[f]} = files[f]
    BY <1>1
  <1> QED  BY <1>2 DEF With

\* The patches of a report may be applied to a seed in any order.
LEMMA WithPatchesIsWith ==
    ASSUME NEW s, NEW patches
    PROVE  WithPatches(s, patches) = [f \in Required |-> With(s.files, patches)[f]]
  <1>1. \A f, row :
          (IF \E p \in patches : p.filename = f /\ p.row_id = row.id
           THEN Updated(row, (CHOOSE p \in patches : p.filename = f /\ p.row_id = row.id).values)
           ELSE row) = Upd(f, row, patches)
    <2> SUFFICES ASSUME NEW f, NEW row
                 PROVE  (IF \E p \in patches : p.filename = f /\ p.row_id = row.id
                         THEN Updated(row, (CHOOSE p \in patches :
                                              p.filename = f /\ p.row_id = row.id).values)
                         ELSE row) = Upd(f, row, patches)
      OBVIOUS
    <2>1. (\E p \in patches : p.filename = f /\ p.row_id = row.id) <=> ForRow(f, row, patches) # {}
      BY DEF ForRow
    <2>2. (CHOOSE p \in patches : p.filename = f /\ p.row_id = row.id)
            = CHOOSE p \in ForRow(f, row, patches) : TRUE
      BY DEF ForRow
    <2> QED  BY <2>1, <2>2 DEF Upd, UpdatedBy
  <1>2. \A f \in Required :
          With(s.files, patches)[f] = {Upd(f, row, patches) : row \in s.files[f]}
    BY DEF With, Files
  <1> QED  BY <1>1, <1>2 DEF WithPatches

-----------------------------------------------------------------------------
(* What a directory can hold.                                              *)

IsSeed(s) ==
    /\ s = [files |-> s.files, sums |-> s.sums]
    /\ s.files = [f \in Files |-> s.files[f]]

\* s has every patch of rep, a report, and was copied from o.
Finished(s, o, rep) ==
    /\ s.files = With(o.files, rep.patches)
    /\ OwnRows(o.files, rep.patches, rep.policy_id)

Complete(s, o, rep) ==
    /\ Tables(s) = WithPatches(o, rep.patches)
    /\ OwnRows(o.files, rep.patches, rep.policy_id)

Good(s, o, rep) ==
    VerifyChecksums(s) /\ Required \subseteq Present(s) =>
        Tables(s) = Tables(o) \/ Complete(s, o, rep)

\* What the steps of a regeneration know of the directory they write.
Phase(s, o, rep, j) ==
    /\ j.stage \in {"patching", "writing"} =>
         /\ j.left \subseteq rep.patches
         /\ s.sums = o.sums
         /\ OwnRows(o.files, rep.patches \ j.left, rep.policy_id)
    /\ j.stage = "patching" => s.files = With(o.files, rep.patches \ j.left)
    /\ j.stage = "writing" =>
         [s.files EXCEPT ![j.filename] = j.rows] = With(o.files, rep.patches \ j.left)
    /\ j.stage \in {"summing", "loading"} => Finished(s, o, rep)
    /\ j.stage = "failed" => s.sums = o.sums \/ Finished(s, o, rep)

Kept(s, o, rep, j, d) ==
    /\ Good(s, o, rep)
    /\ j.stage \in Busy /\ j.to = d => Phase(s, o, rep, j)

\* A seed with the checksums of the copy is the copy.
LEMMA SumsConvict ==
    ASSUME NEW s, NEW o, NEW rep, Sealed(o), s.sums = o.sums
    PROVE  Good(s, o, rep)
  <1> SUFFICES ASSUME VerifyChecksums(s)
               PROVE  Tables(s) = Tables(o)
    BY DEF Good
  <1>1. \A f \in Files : s.files[f] = o.files[f]
    BY DEF VerifyChecksums, Sealed
  <1>2. Required \subseteq Files
    BY DEF Files
  <1> QED  BY <1>1, <1>2 DEF Tables

LEMMA FinishedIsGood ==
    ASSUME NEW s, NEW o, NEW rep, Finished(s, o, rep)
    PROVE  Good(s, o, rep)
  <1>1. \A f \in Required : s.files[f] = With(o.files, rep.patches)[f]
    BY DEF Finished
  <1>2. Tables(s) = WithPatches(o, rep.patches)
    BY <1>1, WithPatchesIsWith DEF Tables
  <1> QED  BY <1>2 DEF Good, Complete, Finished

\* Files that are missing cannot be read.
LEMMA MissingFiles ==
    ASSUME NEW s, NEW part, NEW gone, part.files = Without(s.files, gone, NoFile),
           Required \subseteq Present(part)
    PROVE  Tables(part) = Tables(s)
  <1>1. \A f \in Required : f \in Files /\ part.files[f] # NoFile
    BY DEF Present
  <1>2. \A f \in Required : part.files[f] = s.files[f]
    BY <1>1 DEF Without
  <1> QED  BY <1>2 DEF Tables

LEMMA WithoutIsSeed ==
    ASSUME NEW s, NEW gone, NEW instead, NEW sums
    PROVE  IsSeed([files |-> Without(s.files, gone, instead), sums |-> sums])
  BY DEF IsSeed, Without

\* s has entries of o, and no others.
CopyOf(s, o) == \A name \in Entries : Content(s, name) \in {Content(o, name), NoFile}

\* What a copy has done: unless it is going to raise, only what is left is missing.
Copied(s, o, j) ==
    /\ j = [ stage |-> j.stage, from |-> j.from, to |-> j.to, left |-> j.left,
             raises |-> j.raises ]
    /\ IsSeed(o) /\ CopyOf(s, o)
    /\ ~ j.raises => \A name \in Entries \ j.left : Content(s, name) = Content(o, name)

LEMMA EntriesAreFiles == SumsFile \notin Files /\ \A f \in Files : f \in Entries /\ f # SumsFile
  BY DEF SumsFile, Files, Required, Entries

LEMMA SeedsExist ==
    ASSUME NEW s, IsSeed(s)
    PROVE  s # NoSeed
  <1>1. DOMAIN s # DOMAIN NoSeed
    BY DEF IsSeed, NoSeed
  <1> QED  BY <1>1

LEMMA PutEntry ==
    ASSUME NEW s, IsSeed(s), NEW name \in Entries, NEW content
    PROVE  /\ IsSeed(Put(s, name, content)) /\ Content(Put(s, name, content), name) = content
           /\ \A other \in Entries \ {name} :
                Content(Put(s, name, content), other) = Content(s, other)
  <1>1. CASE name = SumsFile
    <2> DEFINE t == [s EXCEPT !.sums = content]
    <2>1. t = [files |-> s.files, sums |-> content]
      BY DEF IsSeed
    <2>2. t.files = s.files /\ t.sums = content
      BY <2>1
    <2> HIDE DEF t
    <2>3. IsSeed(t)
      BY <2>1, <2>2 DEF IsSeed
    <2>4. Put(s, name, content) = t
      BY <1>1 DEF Put, t
    <2> QED  BY <1>1, <2>2, <2>3, <2>4 DEF Content
  <1>2. CASE name # SumsFile
    <2> DEFINE files == [s.files EXCEPT ![name] = content]
               t == [s EXCEPT !.files[name] = content]
    <2>0. name \in Files
      BY <1>2 DEF Entries
    <2>1. t = [files |-> files, sums |-> s.sums]
      BY DEF IsSeed
    <2>2. t.files = files /\ t.sums = s.sums
      BY <2>1
    <2>3. /\ files = [f \in Files |-> files[f]] /\ files[name] = content
          /\ \A f \in Files \ {name} : files[f] = s.files[f]
      BY <2>0 DEF IsSeed
    <2> HIDE DEF t, files
    <2>4. IsSeed(t)
      BY <2>1, <2>2, <2>3 DEF IsSeed
    <2>5. Put(s, name, content) = t
      BY <1>2 DEF Put, t
    <2> QED  BY <1>2, <2>2, <2>3, <2>4, <2>5 DEF Content, Entries
  <1> QED  BY <1>1, <1>2

LEMMA SameSeed ==
    ASSUME NEW s, NEW o, IsSeed(s), IsSeed(o), \A name \in Entries : Content(s, name) = Content(o, name)
    PROVE  s = o
  <1>1. s.sums = o.sums
    BY DEF Content, Entries
  <1>2. \A f \in Files : s.files[f] = o.files[f]
    BY EntriesAreFiles DEF Content
  <1>3. s.files = o.files
    BY <1>2 DEF IsSeed
  <1> QED  BY <1>1, <1>3 DEF IsSeed

\* As far as a copy has come, it loads only if it is the whole seed.
LEMMA CopiesAreGood ==
    ASSUME NEW s, NEW o, NEW rep, \A f \in Files : s.files[f] \in {o.files[f], NoFile}
    PROVE  Good(s, o, rep)
  <1>1. ASSUME Required \subseteq Present(s) PROVE Tables(s) = Tables(o)
    <2>1. \A f \in Required : f \in Files /\ s.files[f] # NoFile
      BY <1>1 DEF Present
    <2> QED  BY <2>1 DEF Tables
  <1> QED  BY <1>1 DEF Good

LEMMA CopyOfFiles ==
    ASSUME NEW s, NEW o, CopyOf(s, o)
    PROVE  \A f \in Files : s.files[f] \in {o.files[f], NoFile}
  <1> SUFFICES ASSUME NEW f \in Files PROVE s.files[f] \in {o.files[f], NoFile}
    OBVIOUS
  <1>1. f \in Entries /\ f # SumsFile
    BY EntriesAreFiles
  <1> QED  BY <1>1 DEF CopyOf, Content

\* One file of the copy has been opened, and nothing written to it.
LEMMA TornCopiesAreGood ==
    ASSUME NEW s, NEW o, NEW rep, IsSeed(s), CopyOf(s, o), Sealed(o), NEW name \in Entries,
           NEW content
    PROVE  Good(Put(s, name, content), o, rep)
  <1> DEFINE t == Put(s, name, content)
  <1>1. CASE name = SumsFile
    <2>1. t.files = s.files
      BY <1>1 DEF Put, IsSeed
    <2> QED  BY <2>1, CopyOfFiles, CopiesAreGood
  <1>2. CASE name # SumsFile
    <2>1. t.sums = s.sums
      <3>1. SumsFile \in Entries \ {name}
        BY <1>2 DEF Entries
      <3>2. Content(t, SumsFile) = Content(s, SumsFile)
        BY <3>1, PutEntry
      <3> QED  BY <3>2 DEF Content
    <2>2. s.sums \in {o.sums, NoFile}
      BY DEF CopyOf, Content, Entries
    <2>3. CASE s.sums = o.sums
      BY <2>1, <2>3, SumsConvict
    <2>4. CASE s.sums = NoFile
      BY <2>1, <2>4 DEF Good, VerifyChecksums
    <2> QED  BY <2>2, <2>3, <2>4
  <1> QED  BY <1>1, <1>2

LEMMA PartialRemovalsAreGood ==
    ASSUME NEW s, NEW o, NEW rep, NEW part \in PartialRemovals(s), Sealed(o),
           s.sums = o.sums \/ Finished(s, o, rep)
    PROVE  Good(part, o, rep)
  <1>1. PICK gone \in Interrupted, sums \in {s.sums, NoFile} :
          part = [files |-> Without(s.files, gone, NoFile), sums |-> sums]
    BY DEF PartialRemovals
  <1>2. part.files = Without(s.files, gone, NoFile) /\ part.sums = sums
    BY <1>1
  <1>3. CASE s.sums = o.sums
    <2>1. CASE sums = s.sums
      BY <2>1, <1>2, <1>3, SumsConvict
    <2>2. CASE sums = NoFile
      BY <2>2, <1>2 DEF Good, VerifyChecksums
    <2> QED  BY <2>1, <2>2
  <1>4. CASE Finished(s, o, rep)
    <2> SUFFICES ASSUME Required \subseteq Present(part)
                 PROVE  Complete(part, o, rep)
      BY DEF Good
    <2>1. Tables(part) = Tables(s)
      BY <1>2, MissingFiles
    <2>2. \A f \in Required : s.files[f] = With(o.files, rep.patches)[f]
      BY <1>4 DEF Finished
    <2>3. Tables(s) = WithPatches(o, rep.patches)
      BY <2>2, WithPatchesIsWith DEF Tables
    <2> QED  BY <2>1, <2>3, <1>4 DEF Complete, Finished
  <1> QED  BY <1>3, <1>4

-----------------------------------------------------------------------------
(* The invariant.                                                          *)

ReportOK(rep) == rep.patches \in PatchSets /\ PatchesMatchReport(rep, rep.patches)

Shapes ==
    /\ report = [r \in Reports |-> report[r]]
    /\ job = [r \in Reports |-> job[r]]
    /\ seed = [d \in Directories |-> seed[d]]
    /\ origin = [d \in Directories |-> origin[d]]
    /\ maker = [d \in Directories |-> maker[d]]
    /\ active \in Directories

ReportsOK == \A r \in Reports : report[r] # NoReport => ReportOK(report[r])
SeedsOK == \A d \in Directories : seed[d] # NoSeed => IsSeed(seed[d])

\* A regeneration past its hash works on a directory it made.
JobOK(r) ==
    /\ job[r].stage # "idle" => report[r] # NoReport /\ job[r].to \in Directories
    /\ job[r].stage \in {"hashed", "copying"} => job[r].from \in Directories
    /\ job[r].stage \in Busy => seed[job[r].to] # NoSeed /\ maker[job[r].to] = r
    /\ job[r].stage = "copying" => Copied(seed[job[r].to], origin[job[r].to], job[r])

DirOK(d) ==
    seed[d] # NoSeed /\ maker[d] # Nobody =>
        /\ maker[d] \in Reports
        /\ report[maker[d]] # NoReport
        /\ Sealed(origin[d]) =>
             Kept(seed[d], origin[d], report[maker[d]], job[maker[d]], d)

ChangeInv ==
    /\ Shapes /\ ReportsOK /\ SeedsOK
    /\ \A r \in Reports : JobOK(r)
    /\ \A d \in Directories : DirOK(d)

\* The patches of a report are for different rows, and rename none.
LEMMA ReportPatches ==
    ASSUME NEW rep, ReportOK(rep)
    PROVE  Distinct(rep.patches) /\ Names(rep.patches)
  <1>1. \A p \in rep.patches : p.filename \in Files
    <2> SUFFICES ASSUME NEW p \in rep.patches PROVE p.filename \in Files
      OBVIOUS
    <2>1. TargetIsReviewed(rep, p)
      BY DEF ReportOK, PatchesMatchReport
    <2>2. \/ p.filename = "03_policy_rule.csv"
          \/ p.filename = "10_policy_document_chunk.csv"
          \/ p.filename \in PatchableFiles
      BY <2>1 DEF TargetIsReviewed
    <2> QED  BY <2>2 DEF PatchableFiles, Files, Required
  <1>2. \A p \in rep.patches : "id" \notin DOMAIN p.values
    BY PolicyChangesAssumption DEF ReportOK
  <1>3. Distinct(rep.patches)
    BY DEF ReportOK, PatchesMatchReport, Distinct
  <1> QED  BY <1>1, <1>2, <1>3 DEF Names

LEMMA SomePatches ==
    ASSUME NEW patches, Distinct(patches), Names(patches), NEW some, some \subseteq patches
    PROVE  Distinct(some) /\ Names(some)
  BY DEF Distinct, Names

\* A step of the process of r on its directory d, or its copy of o into d.
LEMMA Touches ==
    ASSUME ChangeInv, NEW r \in Reports, NEW d \in Directories, NEW s, NEW o, NEW j,
           UNCHANGED <<report, active>>,
           job' = [job EXCEPT ![r] = j],
           seed' = [seed EXCEPT ![d] = s],
           origin' = [origin EXCEPT ![d] = o],
           maker' = [maker EXCEPT ![d] = r],
           report[r] # NoReport,
           seed[d] = NoSeed \/ maker[d] = r,
           s = NoSeed \/ IsSeed(s),
           j.stage = "idle" \/ (j.stage \in Busy /\ j.to = d /\ s # NoSeed),
           j.stage = "copying" => j.from \in Directories /\ Copied(s, o, j),
           s # NoSeed /\ Sealed(o) => Kept(s, o, report[r], j, d)
    PROVE  ChangeInv'
  <1>1. Shapes'
    BY DEF ChangeInv, Shapes
  <1>2. /\ job'[r] = j /\ \A q \in Reports \ {r} : job'[q] = job[q]
        /\ seed'[d] = s /\ \A e \in Directories \ {d} : seed'[e] = seed[e]
        /\ origin'[d] = o /\ \A e \in Directories \ {d} : origin'[e] = origin[e]
        /\ maker'[d] = r /\ \A e \in Directories \ {d} : maker'[e] = maker[e]
        /\ report' = report
    BY DEF ChangeInv, Shapes
  <1>3. ReportsOK'
    BY <1>2 DEF ChangeInv, ReportsOK
  <1>4. SeedsOK'
    BY <1>2 DEF ChangeInv, SeedsOK
  <1>5. ASSUME NEW q \in Reports PROVE JobOK(q)'
    <2>1. CASE q = r
      BY <2>1, <1>2 DEF JobOK, Busy
    <2>2. CASE q # r
      <3>1. JobOK(q) /\ job'[q] = job[q]
        BY <2>2, <1>2 DEF ChangeInv
      <3>2. ASSUME job[q].stage \in Busy
            PROVE  /\ seed'[job[q].to] # NoSeed /\ maker'[job[q].to] = q
                   /\ seed'[job[q].to] = seed[job[q].to]
                   /\ origin'[job[q].to] = origin[job[q].to]
        <4>1. job[q].to \in Directories /\ seed[job[q].to] # NoSeed /\ maker[job[q].to] = q
          BY <3>1, <3>2 DEF JobOK, Busy
        <4>2. job[q].to # d
          BY <4>1, <2>2
        <4> QED  BY <4>1, <4>2, <1>2
      <3>3. job[q].stage = "copying" =>
              Copied(seed'[job[q].to], origin'[job[q].to], job'[q])
        BY <3>1, <3>2 DEF JobOK, Busy
      <3> HIDE DEF Copied
      <3> QED  BY <3>1, <3>2, <3>3, <1>2 DEF JobOK
    <2> QED  BY <2>1, <2>2
  <1>6. ASSUME NEW e \in Directories PROVE DirOK(e)'
    <2>1. CASE e = d
      BY <2>1, <1>2 DEF DirOK
    <2>2. CASE e # d
      <3> SUFFICES ASSUME seed'[e] # NoSeed, maker'[e] # Nobody
                   PROVE  /\ maker'[e] \in Reports /\ report'[maker'[e]] # NoReport
                          /\ Sealed(origin'[e]) =>
                               Kept(seed'[e], origin'[e], report'[maker'[e]], job'[maker'[e]], e)
        BY DEF DirOK
      <3>1. seed'[e] = seed[e] /\ origin'[e] = origin[e] /\ maker'[e] = maker[e]
        BY <2>2, <1>2
      <3>2. /\ maker[e] \in Reports /\ report[maker[e]] # NoReport
            /\ Sealed(origin[e]) => Kept(seed[e], origin[e], report[maker[e]], job[maker[e]], e)
        BY <3>1 DEF ChangeInv, DirOK
      <3>3. CASE maker[e] # r
        BY <3>1, <3>2, <3>3, <1>2
      <3>4. CASE maker[e] = r
        <4>1. ~ (j.stage \in Busy /\ j.to = e)
          BY <2>2 DEF Busy
        <4>2. Sealed(origin[e]) => Kept(seed[e], origin[e], report[r], j, e)
          BY <4>1, <3>2, <3>4 DEF Kept
        <4> QED  BY <3>1, <3>2, <3>4, <4>2, <1>2
      <3> QED  BY <3>3, <3>4
    <2> QED  BY <2>1, <2>2
  <1> QED  BY <1>1, <1>3, <1>4, <1>5, <1>6 DEF ChangeInv

\* A process that has written nothing yet, or gives up before it does.
LEMMA LeavesFiles ==
    ASSUME ChangeInv, NEW r \in Reports, NEW j,
           UNCHANGED <<report, active, seed, origin, maker>>,
           job' = [job EXCEPT ![r] = j],
           report[r] # NoReport,
           \/ j.stage = "idle"
           \/ j.stage = "hashed" /\ j.from \in Directories /\ j.to \in Directories
    PROVE  ChangeInv'
  <1>1. job'[r] = j /\ \A q \in Reports \ {r} : job'[q] = job[q]
    BY DEF ChangeInv, Shapes
  <1>2. Shapes' /\ ReportsOK' /\ SeedsOK'
    BY DEF ChangeInv, Shapes, ReportsOK, SeedsOK
  <1>3. ASSUME NEW q \in Reports PROVE JobOK(q)'
    <2>1. CASE q = r
      BY <2>1, <1>1 DEF JobOK, Busy
    <2>2. CASE q # r
      <3>1. JobOK(q) /\ job'[q] = job[q]
        BY <2>2, <1>1 DEF ChangeInv
      <3> QED  BY <3>1 DEF JobOK
    <2> QED  BY <2>1, <2>2
  <1>4. ASSUME NEW e \in Directories PROVE DirOK(e)'
    <2> SUFFICES ASSUME seed[e] # NoSeed, maker[e] # Nobody
                 PROVE  /\ maker[e] \in Reports /\ report[maker[e]] # NoReport
                        /\ Sealed(origin[e]) =>
                             Kept(seed[e], origin[e], report[maker[e]], job'[maker[e]], e)
      BY DEF DirOK
    <2>1. /\ maker[e] \in Reports /\ report[maker[e]] # NoReport
          /\ Sealed(origin[e]) => Kept(seed[e], origin[e], report[maker[e]], job[maker[e]], e)
      BY DEF ChangeInv, DirOK
    <2>2. CASE maker[e] # r
      BY <2>1, <2>2, <1>1
    <2>3. CASE maker[e] = r
      <3>1. j.stage \notin Busy
        BY DEF Busy
      <3>2. Sealed(origin[e]) => Kept(seed[e], origin[e], report[r], j, e)
        BY <3>1, <2>1, <2>3 DEF Kept
      <3> QED  BY <2>1, <2>3, <3>2, <1>1
    <2> QED  BY <2>2, <2>3
  <1> QED  BY <1>2, <1>3, <1>4 DEF ChangeInv

-----------------------------------------------------------------------------
(* One step of each kind.                                                  *)

LEMMA InitInv == ChangeInit => ChangeInv
  <1> SUFFICES ASSUME ChangeInit PROVE ChangeInv
    OBVIOUS
  <1>1. Shapes
    BY PolicyChangesAssumption DEF ChangeInit, Shapes
  <1>2. ReportsOK
    BY DEF ChangeInit, ReportsOK
  <1>3. SeedsOK
    <2> SUFFICES ASSUME NEW d \in Directories, seed[d] # NoSeed PROVE IsSeed(seed[d])
      BY DEF SeedsOK
    <2>1. seed[d] = [files |-> ReleasedFiles, sums |-> ChecksumsOf(ReleasedFiles)]
      BY DEF ChangeInit
    <2> QED  BY <2>1, PolicyChangesAssumption DEF IsSeed
  <1>4. \A r \in Reports : JobOK(r)
    BY DEF ChangeInit, JobOK, Idle, Busy
  <1>5. \A d \in Directories : DirOK(d)
    BY DEF ChangeInit, DirOK
  <1> QED  BY <1>1, <1>2, <1>3, <1>4, <1>5 DEF ChangeInv

LEMMA ReviewInv ==
    ASSUME ChangeInv, NEW r \in Reports, Review(r)
    PROVE  ChangeInv'
  <1>1. PICK baseline \in Baselines, snapshot \in Snapshots, patches \in PatchSets :
          LET built == BuildReviewReport(baseline, snapshot)
          IN  /\ MayApprove(BeginReview(built), patches)
              /\ report' = [report EXCEPT ![r] = ApproveReport(BeginReview(built), patches)]
    BY DEF Review
  <1> DEFINE begun == BeginReview(BuildReviewReport(baseline, snapshot))
             rep == ApproveReport(begun, patches)
  <1>2. report' = [report EXCEPT ![r] = rep] /\ report[r] = NoReport
    BY <1>1 DEF Review
  <1>3. PatchesMatchReport(begun, patches)
    BY <1>1 DEF MayApprove
  <1>4. /\ rep.patches = patches /\ rep.policy_id = begun.policy_id /\ rep.rules = begun.rules
        /\ rep.chunks = begun.chunks /\ rep.diffs = begun.diffs /\ rep.moved = begun.moved
    BY DEF ApproveReport, BeginReview, BuildReviewReport
  <1> HIDE DEF begun, rep
  <1>5. ReportOK(rep)
    <2>1. PatchesMatchReport(rep, patches)
      BY <1>3, <1>4 DEF PatchesMatchReport, TargetIsReviewed, ValuesAreReviewed, DiffsAreCovered
    <2> QED  BY <2>1, <1>4 DEF ReportOK
  <1>6. report'[r] = rep /\ \A q \in Reports \ {r} : report'[q] = report[q]
    BY <1>2 DEF ChangeInv, Shapes
  <1>7. UNCHANGED <<seed, active, job, origin, maker>>
    BY DEF Review
  <1>8. Shapes' /\ SeedsOK'
    BY <1>2, <1>7 DEF ChangeInv, Shapes, SeedsOK
  <1>9. ReportsOK'
    BY <1>5, <1>6 DEF ChangeInv, ReportsOK
  <1>10. ASSUME NEW q \in Reports PROVE JobOK(q)'
    <2>1. JobOK(q)
      BY DEF ChangeInv
    <2>2. CASE q = r
      BY <2>1, <2>2, <1>2, <1>7 DEF JobOK, Busy
    <2>3. CASE q # r
      BY <2>1, <2>3, <1>6, <1>7 DEF JobOK
    <2> QED  BY <2>2, <2>3
  <1>11. ASSUME NEW d \in Directories PROVE DirOK(d)'
    <2> SUFFICES ASSUME seed[d] # NoSeed, maker[d] # Nobody
                 PROVE  /\ maker[d] \in Reports /\ report'[maker[d]] # NoReport
                        /\ Sealed(origin[d]) =>
                             Kept(seed[d], origin[d], report'[maker[d]], job[maker[d]], d)
      BY <1>7 DEF DirOK
    <2>1. /\ maker[d] \in Reports /\ report[maker[d]] # NoReport
          /\ Sealed(origin[d]) =>
               Kept(seed[d], origin[d], report[maker[d]], job[maker[d]], d)
      BY DEF ChangeInv, DirOK
    <2>2. maker[d] # r
      BY <2>1, <1>2
    <2> QED  BY <2>1, <2>2, <1>6
  <1> QED  BY <1>8, <1>9, <1>10, <1>11 DEF ChangeInv

LEMMA DeployInv ==
    ASSUME ChangeInv, NEW d \in Directories, Deploy(d)
    PROVE  ChangeInv'
  <1>1. UNCHANGED <<report, seed, job, origin, maker>> /\ active' \in Directories
    BY DEF Deploy
  <1>2. Shapes'
    BY <1>1 DEF ChangeInv, Shapes
  <1>3. ReportsOK' /\ SeedsOK'
    BY <1>1 DEF ChangeInv, ReportsOK, SeedsOK
  <1>4. ASSUME NEW r \in Reports PROVE JobOK(r)'
    BY <1>1 DEF ChangeInv, JobOK
  <1>5. ASSUME NEW e \in Directories PROVE DirOK(e)'
    BY <1>1 DEF ChangeInv, DirOK
  <1> QED  BY <1>2, <1>3, <1>4, <1>5 DEF ChangeInv

LEMMA StartInv ==
    ASSUME ChangeInv, NEW r \in Reports, NEW d \in Directories, StartRegeneration(r, d)
    PROVE  ChangeInv'
  <1> DEFINE j == [stage |-> "hashed", from |-> active, to |-> d]
  <1>1. j.stage = "hashed" /\ j.from \in Directories /\ j.to \in Directories
    BY DEF ChangeInv, Shapes
  <1>2. /\ UNCHANGED <<report, active, seed, origin, maker>>
        /\ job' = [job EXCEPT ![r] = j] /\ report[r] # NoReport
    BY DEF StartRegeneration, Goes
  <1> HIDE DEF j
  <1> QED  BY <1>1, <1>2, LeavesFiles

\* The directory that is made has nothing of the seed yet.
LEMMA MakeDirectoryInv ==
    ASSUME ChangeInv, NEW r \in Reports, MakeDirectory(r)
    PROVE  ChangeInv'
  <1>1. JobOK(r) /\ job[r].stage = "hashed"
    BY DEF ChangeInv, MakeDirectory
  <1>2. report[r] # NoReport /\ job[r].to \in Directories /\ job[r].from \in Directories
    BY <1>1 DEF JobOK
  <1>3. CASE seed[job[r].to] # NoSeed \/ seed[job[r].from] = NoSeed
    <2>1. /\ UNCHANGED <<report, active, seed, origin, maker>>
          /\ job' = [job EXCEPT ![r] = Idle] /\ Idle.stage = "idle"
      BY <1>3 DEF MakeDirectory, CopyRaises, Goes, Idle
    <2> QED  BY <2>1, <1>2, LeavesFiles
  <1>4. CASE seed[job[r].to] = NoSeed /\ seed[job[r].from] # NoSeed
    <2> DEFINE d == job[r].to
               o == seed[job[r].from]
               s == EmptyDirectory
               j == [ stage |-> "copying", from |-> job[r].from, to |-> d,
                      left |-> {name \in Entries : Content(o, name) # NoFile}, raises |-> FALSE ]
    <2>1. /\ UNCHANGED <<report, active>>
          /\ job' = [job EXCEPT ![r] = j] /\ seed' = [seed EXCEPT ![d] = s]
          /\ origin' = [origin EXCEPT ![d] = o] /\ maker' = [maker EXCEPT ![d] = r]
      BY <1>4 DEF MakeDirectory, Goes
    <2>2. IsSeed(o)
      BY <1>2, <1>4 DEF ChangeInv, SeedsOK
    <2>3. IsSeed(s) /\ s # NoSeed
      BY SeedsExist DEF EmptyDirectory, IsSeed
    <2>4. \A name \in Entries : Content(s, name) = NoFile
      BY EntriesAreFiles DEF EmptyDirectory, Content, Entries
    <2>5. /\ j.stage = "copying" /\ j.to = d /\ j.from \in Directories
          /\ j.left = {name \in Entries : Content(o, name) # NoFile}
          /\ j = [ stage |-> j.stage, from |-> j.from, to |-> j.to, left |-> j.left,
                   raises |-> j.raises ]
      BY <1>2
    <2> HIDE DEF d, o, j, s
    <2>6. CopyOf(s, o)
      BY <2>4 DEF CopyOf
    <2>7. Copied(s, o, j)
      BY <2>2, <2>4, <2>5, <2>6 DEF Copied
    <2>8. Good(s, o, report[r])
      BY <2>6, CopyOfFiles, CopiesAreGood
    <2>9. Kept(s, o, report[r], j, d)
      BY <2>5, <2>8 DEF Kept, Phase
    <2>10. d \in Directories /\ seed[d] = NoSeed
      BY <1>2, <1>4 DEF d
    <2> QED  BY <2>1, <2>3, <2>5, <2>7, <2>9, <2>10, <1>2, Touches DEF Busy
  <1> QED  BY <1>3, <1>4

\* What the process of r knows of the directory d it works on.
Working(r, d) ==
    /\ d \in Directories /\ maker[d] = r
    /\ report[r] # NoReport /\ ReportOK(report[r])
    /\ seed[d] # NoSeed /\ IsSeed(seed[d])
    /\ Sealed(origin[d]) =>
         Good(seed[d], origin[d], report[r]) /\ Phase(seed[d], origin[d], report[r], job[r])

LEMMA BusyWorks ==
    ASSUME ChangeInv, NEW r \in Reports, job[r].stage \in Busy
    PROVE  Working(r, job[r].to)
  <1> DEFINE d == job[r].to
  <1>1. JobOK(r)
    BY DEF ChangeInv
  <1>2. d \in Directories /\ report[r] # NoReport /\ seed[d] # NoSeed /\ maker[d] = r
    BY <1>1 DEF JobOK, Busy
  <1>3. ReportOK(report[r]) /\ IsSeed(seed[d])
    BY <1>2 DEF ChangeInv, ReportsOK, SeedsOK
  <1>4. Sealed(origin[d]) => Kept(seed[d], origin[d], report[r], job[r], d)
    BY <1>2, PolicyChangesAssumption DEF ChangeInv, DirOK
  <1> QED  BY <1>2, <1>3, <1>4 DEF Working, Kept

LEMMA Writes ==
    ASSUME ChangeInv, NEW r \in Reports, NEW d, Working(r, d), NEW s, NEW j,
           UNCHANGED <<report, active, origin, maker>>,
           job' = [job EXCEPT ![r] = j],
           seed' = [seed EXCEPT ![d] = s],
           s = NoSeed \/ IsSeed(s),
           j.stage = "idle" \/ (j.stage \in Busy /\ j.to = d /\ s # NoSeed),
           j.stage # "copying",
           s # NoSeed /\ Sealed(origin[d]) => Kept(s, origin[d], report[r], j, d)
    PROVE  ChangeInv'
  <1>1. d \in Directories /\ maker[d] = r /\ report[r] # NoReport
    BY DEF Working
  <1>2. origin' = [origin EXCEPT ![d] = origin[d]] /\ maker' = [maker EXCEPT ![d] = r]
    BY <1>1 DEF ChangeInv, Shapes
  <1> QED  BY <1>1, <1>2, Touches

\* What is copied is what the seed is a copy of.
LEMMA CopyFileInv ==
    ASSUME ChangeInv, NEW r \in Reports, CopyFile(r)
    PROVE  ChangeInv'
  <1> DEFINE d == job[r].to
             s == seed[d]
             o == origin[d]
             now == seed[job[r].from]
  <1>1. job[r].stage = "copying" /\ Working(r, d)
    BY BusyWorks DEF CopyFile, Busy
  <1>2. job[r].from \in Directories /\ Copied(s, o, job[r])
    BY <1>1 DEF ChangeInv, JobOK
  <1>3. PICK name \in Entries :
          LET gone == now = NoSeed \/ Content(now, name) = NoFile
          IN  /\ NextName(r, name)
              /\ Goes(r, [job[r] EXCEPT !.left = @ \ {name}, !.raises = @ \/ gone])
              /\ seed' = IF gone THEN seed
                         ELSE [seed EXCEPT ![d] = Put(@, name, Content(now, name))]
              /\ origin' = IF gone THEN origin
                           ELSE [origin EXCEPT ![d] = Put(@, name, Content(now, name))]
    BY DEF CopyFile
  <1> DEFINE gone == now = NoSeed \/ Content(now, name) = NoFile
             j == [job[r] EXCEPT !.left = @ \ {name}, !.raises = @ \/ gone]
             t == IF gone THEN s ELSE Put(s, name, Content(now, name))
             p == IF gone THEN o ELSE Put(o, name, Content(now, name))
  <1>4. /\ UNCHANGED <<report, active>> /\ job' = [job EXCEPT ![r] = j]
        /\ maker' = [maker EXCEPT ![d] = r]
    BY <1>1, <1>3 DEF CopyFile, Goes, Working, ChangeInv, Shapes
  <1>5. seed' = [seed EXCEPT ![d] = t] /\ origin' = [origin EXCEPT ![d] = p]
    BY <1>1, <1>3 DEF Working, ChangeInv, Shapes
  <1>6. /\ j.stage = "copying" /\ j.from = job[r].from /\ j.to = d
        /\ j.left = job[r].left \ {name} /\ (j.raises <=> job[r].raises \/ gone)
        /\ j = [ stage |-> j.stage, from |-> j.from, to |-> j.to, left |-> j.left,
                 raises |-> j.raises ]
    <2> DEFINE k == job[r]
    <2>1. /\ k = [ stage |-> k.stage, from |-> k.from, to |-> k.to, left |-> k.left,
                   raises |-> k.raises ]
          /\ k.stage = "copying"
      BY <1>1, <1>2 DEF Copied
    <2>2. j = [k EXCEPT !.left = @ \ {name}, !.raises = @ \/ gone]
      OBVIOUS
    <2> HIDE DEF k, gone, j
    <2>3. j = [ stage |-> k.stage, from |-> k.from, to |-> k.to, left |-> k.left \ {name},
                raises |-> k.raises \/ gone ]
      BY <2>1, <2>2
    <2>4. /\ j.stage = k.stage /\ j.from = k.from /\ j.to = k.to /\ j.left = k.left \ {name}
          /\ j.raises = (k.raises \/ gone)
      BY <2>3
    <2> QED  BY <2>1, <2>3, <2>4 DEF k, d
  <1>7. IsSeed(s) /\ s # NoSeed /\ IsSeed(o) /\ CopyOf(s, o)
    BY <1>1, <1>2 DEF Working, Copied
  <1> HIDE DEF j
  <1>8. IsSeed(t) /\ t # NoSeed /\ Copied(t, p, j)
    <2>1. CASE gone
      <3>1. t = s /\ p = o /\ j.raises
        BY <1>6, <2>1
      <3> HIDE DEF t, p, s, o, gone
      <3> QED  BY <1>6, <1>7, <3>1 DEF Copied
    <2>2. CASE ~ gone
      <3> DEFINE content == Content(now, name)
      <3>1. t = Put(s, name, content) /\ p = Put(o, name, content)
        BY <2>2
      <3>2. j.raises <=> job[r].raises
        BY <1>6, <2>2
      <3> HIDE DEF t, p, s, o, gone, content
      <3>3. IsSeed(t) /\ IsSeed(p)
        BY <1>7, <3>1, PutEntry
      <3>4. /\ Content(t, name) = content /\ Content(p, name) = content
            /\ \A other \in Entries \ {name} :
                 Content(t, other) = Content(s, other) /\ Content(p, other) = Content(o, other)
        BY <1>7, <3>1, PutEntry
      <3>5. CopyOf(t, p)
        BY <1>7, <3>4 DEF CopyOf
      <3>6. ASSUME ~ j.raises
            PROVE  \A other \in Entries \ j.left : Content(t, other) = Content(p, other)
        BY <1>2, <1>6, <3>2, <3>4, <3>6 DEF Copied
      <3> QED  BY <1>6, <3>3, <3>5, <3>6, SeedsExist DEF Copied
    <2> QED  BY <2>1, <2>2
  <1> HIDE DEF t, p
  <1>9. Kept(t, p, report[r], j, d)
    <2>1. Good(t, p, report[r])
      BY <1>8, CopyOfFiles, CopiesAreGood DEF Copied
    <2> QED  BY <1>6, <2>1 DEF Kept, Phase
  <1>10. d \in Directories /\ maker[d] = r /\ report[r] # NoReport
    BY <1>1 DEF Working
  <1> QED  BY <1>2, <1>4, <1>5, <1>6, <1>8, <1>9, <1>10, Touches DEF Busy

\* When nothing is left and nothing was missed, the copy is the seed.
LEMMA EndCopyInv ==
    ASSUME ChangeInv, NEW r \in Reports, EndCopy(r)
    PROVE  ChangeInv'
  <1> DEFINE d == job[r].to
             s == seed[d]
             o == origin[d]
  <1>1. job[r].stage = "copying" /\ job[r].left = {} /\ Working(r, d)
    BY BusyWorks DEF EndCopy, Busy
  <1>2. UNCHANGED <<report, active, seed, origin, maker>> /\ report[r] # NoReport
    BY <1>1 DEF EndCopy, CopyRaises, Working
  <1>3. CASE job[r].raises
    <2>1. job' = [job EXCEPT ![r] = Idle] /\ Idle.stage = "idle"
      BY <1>3 DEF EndCopy, Goes, Idle
    <2> QED  BY <1>2, <2>1, LeavesFiles
  <1>4. CASE ~ job[r].raises
    <2> DEFINE j == [stage |-> "patching", to |-> d, left |-> report[r].patches]
    <2>1. job' = [job EXCEPT ![r] = j] /\ seed' = [seed EXCEPT ![d] = s]
      BY <1>2, <1>4 DEF EndCopy, Goes, ChangeInv, Shapes
    <2>2. j.stage = "patching" /\ j.to = d /\ j.left = report[r].patches
      OBVIOUS
    <2>3. Copied(s, o, job[r]) /\ IsSeed(s) /\ s # NoSeed
      BY <1>1 DEF ChangeInv, JobOK, Working
    <2> HIDE DEF j, s, o
    <2>4. s = o /\ IsSeed(o)
      BY <1>1, <1>4, <2>3, SameSeed DEF Copied
    <2>5. Kept(s, o, report[r], j, d)
      <3>1. report[r].patches \ j.left = {}
        BY <2>2
      <3>2. With(o.files, {}) = o.files
        BY <2>4, WithNothing DEF IsSeed
      <3>3. OwnRows(o.files, {}, report[r].policy_id)
        BY DEF OwnRows
      <3>4. Phase(s, o, report[r], j)
        BY <2>2, <2>4, <3>1, <3>2, <3>3 DEF Phase
      <3> QED  BY <2>4, <3>4 DEF Kept, Good
    <2> QED  BY <1>1, <1>2, <2>1, <2>2, <2>3, <2>5, Writes DEF Busy, s, o
  <1> QED  BY <1>3, <1>4

LEMMA CrashInCopyInv ==
    ASSUME ChangeInv, NEW r \in Reports, CrashInCopy(r)
    PROVE  ChangeInv'
  <1> DEFINE d == job[r].to
             s == seed[d]
             o == origin[d]
  <1>1. job[r].stage = "copying" /\ Working(r, d)
    BY BusyWorks DEF CrashInCopy, Busy
  <1>2. PICK name \in Entries :
          seed' = [seed EXCEPT ![d] = Put(@, name, IF name = SumsFile THEN <<>> ELSE {})]
    BY DEF CrashInCopy
  <1> DEFINE content == IF name = SumsFile THEN <<>> ELSE {}
             t == Put(s, name, content)
  <1>3. /\ UNCHANGED <<report, active, origin, maker>>
        /\ job' = [job EXCEPT ![r] = Idle] /\ Idle.stage = "idle"
    BY DEF CrashInCopy, EndProcess, Goes, Idle
  <1>4. seed' = [seed EXCEPT ![d] = t]
    BY <1>2
  <1>5. IsSeed(s) /\ CopyOf(s, o)
    BY <1>1 DEF ChangeInv, JobOK, Working, Copied
  <1> HIDE DEF s, o, content
  <1>6. IsSeed(t)
    BY <1>5, PutEntry
  <1>7. Sealed(o) => Kept(t, o, report[r], Idle, d)
    BY <1>3, <1>5, TornCopiesAreGood DEF Kept, Busy
  <1> HIDE DEF t
  <1> QED  BY <1>1, <1>3, <1>4, <1>6, <1>7, Writes DEF o

\* A record with the two fields of a seed is one.
LEMMA MadeIsSeed ==
    ASSUME NEW files, files = [f \in Files |-> files[f]], NEW sums
    PROVE  LET s == [files |-> files, sums |-> sums]
           IN  IsSeed(s) /\ s # NoSeed /\ s.files = files /\ s.sums = sums
  <1> DEFINE s == [files |-> files, sums |-> sums]
  <1>1. s.files = files /\ s.sums = sums
    OBVIOUS
  <1>2. IsSeed(s)
    BY <1>1 DEF IsSeed
  <1>3. DOMAIN s # DOMAIN NoSeed
    BY DEF NoSeed
  <1> QED  BY <1>1, <1>2, <1>3

\* The patch for this row is applied to the row of the origin.
LEMMA NextOwnRows ==
    ASSUME NEW files, NEW rep, ReportOK(rep), NEW left, left \subseteq rep.patches,
           NEW p \in left, Applies(With(files, rep.patches \ left), p, rep.policy_id),
           OwnRows(files, rep.patches \ left, rep.policy_id)
    PROVE  OwnRows(files, rep.patches \ (left \ {p}), rep.policy_id)
  <1> DEFINE done == rep.patches \ left
             f == p.filename
  <1>1. Distinct(rep.patches) /\ f \in Files
    BY ReportPatches DEF Names
  <1>2. ASSUME f \notin {"02_policy.csv", "09_policy_flat.csv"},
               NEW row \in files[f], row.id = p.row_id
        PROVE  row.policy_id = rep.policy_id
    <2>1. ForRow(f, row, done) = {}
      BY <1>1, <1>2 DEF ForRow, Distinct
    <2>2. Upd(f, row, done) = row
      BY <2>1 DEF Upd, UpdatedBy
    <2>3. row \in With(files, done)[f]
      BY <2>2, <1>1 DEF With
    <2>4. row \in Matches(With(files, done)[f], p)
      BY <2>3, <1>2 DEF Matches
    <2> QED  BY <2>4, <1>2 DEF Applies
  <1>3. \A q \in rep.patches \ (left \ {p}) : q \in done \/ q = p
    OBVIOUS
  <1> QED  BY <1>2, <1>3 DEF OwnRows

LEMMA OpenPatchedFileInv ==
    ASSUME ChangeInv, NEW r \in Reports, OpenPatchedFile(r)
    PROVE  ChangeInv'
  <1> DEFINE d == job[r].to
             o == origin[d]
             s == seed[d]
             rep == report[r]
             left == job[r].left
  <1>1. job[r].stage = "patching" /\ Working(r, d)
    BY BusyWorks DEF OpenPatchedFile, Busy
  <1>2. PICK p \in left :
          IF Applies(s.files, p, rep.policy_id)
          THEN /\ seed' = [seed EXCEPT ![d].files[p.filename] = {}]
               /\ Goes(r, [ stage |-> "writing", to |-> d, left |-> left \ {p},
                            filename |-> p.filename, rows |-> Patched(s.files[p.filename], p) ])
          ELSE Goes(r, [stage |-> "failed", to |-> d]) /\ UNCHANGED seed
    BY DEF OpenPatchedFile, Target
  <1>3. UNCHANGED <<report, active, origin, maker>>
    BY DEF OpenPatchedFile
  <1>4. CASE Applies(s.files, p, rep.policy_id)
    <2> DEFINE f == p.filename
               files == [s.files EXCEPT ![f] = {}]
               t == [files |-> files, sums |-> s.sums]
               j == [ stage |-> "writing", to |-> d, left |-> left \ {p},
                      filename |-> f, rows |-> Patched(s.files[f], p) ]
    <2>1. seed' = [seed EXCEPT ![d] = t] /\ job' = [job EXCEPT ![r] = j]
      BY <1>1, <1>2, <1>4 DEF Goes, Working, IsSeed
    <2>2. files = [g \in Files |-> files[g]]
      BY <1>1 DEF Working, IsSeed
    <2>3. IsSeed(t) /\ t # NoSeed /\ t.files = files /\ t.sums = s.sums
      BY <2>2, MadeIsSeed
    <2>4. /\ j.stage = "writing" /\ j.to = d /\ j.left = left \ {p}
          /\ j.filename = f /\ j.rows = Patched(s.files[f], p)
      OBVIOUS
    <2>5. ASSUME Sealed(o) PROVE Kept(t, o, rep, j, d)
      <3> DEFINE done == rep.patches \ left
      <3>1. /\ ReportOK(rep) /\ left \subseteq rep.patches /\ s.sums = o.sums
            /\ OwnRows(o.files, done, rep.policy_id) /\ s.files = With(o.files, done)
        BY <1>1, <2>5 DEF Working, Phase
      <3>2. OwnRows(o.files, rep.patches \ j.left, rep.policy_id)
        BY <3>1, <1>4, <2>4, NextOwnRows
      <3>3. rep.patches \ j.left = done \cup {p} /\ p \notin done
        BY <3>1, <2>4
      <3>4. Distinct(done \cup {p}) /\ Names(done \cup {p})
        BY <3>1, <3>3, ReportPatches, SomePatches
      <3>5. \A q \in With(o.files, done)[f] : "id" \in DOMAIN q
        BY <3>1, <1>4 DEF Applies
      <3>6. With(o.files, done \cup {p})
              = [With(o.files, done) EXCEPT ![f] = Patched(With(o.files, done)[f], p)]
        <4>1. With(o.files, done \cup {p}) = OnePatch(With(o.files, done), p)
          <5> DEFINE rows == o.files
          <5> HIDE DEF done, rows
          <5>1. \A q \in With(rows, done)[p.filename] : "id" \in DOMAIN q
            BY <3>5 DEF rows
          <5>2. With(rows, done \cup {p}) = OnePatch(With(rows, done), p)
            BY <3>3, <3>4, <5>1, PatchedWith
          <5> QED  BY <5>2 DEF rows
        <4> QED  BY <4>1 DEF OnePatch
      <3>7. [t.files EXCEPT ![f] = j.rows] = [s.files EXCEPT ![f] = j.rows]
        BY <2>3
      <3>8. [t.files EXCEPT ![j.filename] = j.rows] = With(o.files, rep.patches \ j.left)
        BY <3>1, <3>3, <3>6, <3>7, <2>4
      <3>9. Good(t, o, rep)
        BY <2>3, <2>5, <3>1, SumsConvict
      <3>10. j.left \subseteq rep.patches /\ t.sums = o.sums
        BY <2>3, <2>4, <3>1
      <3> HIDE DEF j, t, o, rep, done
      <3> QED  BY <2>4, <3>2, <3>8, <3>9, <3>10 DEF Kept, Phase
    <2> HIDE DEF j, t
    <2> QED  BY <1>1, <1>3, <2>1, <2>3, <2>4, <2>5, Writes DEF Busy
  <1>5. CASE ~ Applies(s.files, p, rep.policy_id)
    <2> DEFINE j == [stage |-> "failed", to |-> d]
    <2>1. seed' = [seed EXCEPT ![d] = s] /\ job' = [job EXCEPT ![r] = j]
      BY <1>2, <1>5 DEF Goes, ChangeInv, Shapes
    <2>2. j.stage = "failed" /\ j.to = d
      OBVIOUS
    <2>3. s # NoSeed /\ IsSeed(s)
      BY <1>1 DEF Working
    <2>4. Sealed(o) => Good(s, o, rep) /\ s.sums = o.sums
      BY <1>1 DEF Working, Phase
    <2>5. Sealed(o) => Kept(s, o, rep, j, d)
      BY <2>2, <2>4 DEF Kept, Phase
    <2> HIDE DEF j
    <2> QED  BY <1>1, <1>3, <2>1, <2>2, <2>3, <2>5, Writes DEF Busy
  <1> QED  BY <1>4, <1>5

LEMMA WritePatchedFileInv ==
    ASSUME ChangeInv, NEW r \in Reports, WritePatchedFile(r)
    PROVE  ChangeInv'
  <1> DEFINE d == job[r].to
             o == origin[d]
             s == seed[d]
             rep == report[r]
             files == [s.files EXCEPT ![job[r].filename] = job[r].rows]
             t == [files |-> files, sums |-> s.sums]
             j == [stage |-> "patching", to |-> d, left |-> job[r].left]
  <1>1. job[r].stage = "writing" /\ Working(r, d)
    BY BusyWorks DEF WritePatchedFile, Busy
  <1>2. /\ UNCHANGED <<report, active, origin, maker>>
        /\ seed' = [seed EXCEPT ![d] = t] /\ job' = [job EXCEPT ![r] = j]
    BY DEF WritePatchedFile, Goes, Target, SumsAfterPatch
  <1>3. files = [f \in Files |-> files[f]]
    BY <1>1 DEF Working, IsSeed
  <1>4. IsSeed(t) /\ t # NoSeed /\ t.files = files /\ t.sums = s.sums
    BY <1>3, MadeIsSeed
  <1>5. j.stage = "patching" /\ j.to = d /\ j.left = job[r].left
    OBVIOUS
  <1>6. ASSUME Sealed(o) PROVE Kept(t, o, rep, j, d)
    <2>1. /\ job[r].left \subseteq rep.patches /\ s.sums = o.sums
          /\ OwnRows(o.files, rep.patches \ job[r].left, rep.policy_id)
          /\ files = With(o.files, rep.patches \ job[r].left)
      BY <1>1, <1>6 DEF Working, Phase
    <2>2. Good(t, o, rep)
      BY <1>4, <1>6, <2>1, SumsConvict
    <2> HIDE DEF j, t, files, o, rep
    <2> QED  BY <1>4, <1>5, <2>1, <2>2 DEF Kept, Phase
  <1> HIDE DEF j, t
  <1> QED  BY <1>1, <1>2, <1>4, <1>5, <1>6, Writes DEF Busy

Summed(s, sums) == [files |-> s.files, sums |-> sums]

\* The checksums change once every patch has been written.
LEMMA NewSumsInv ==
    ASSUME ChangeInv, NEW r \in Reports, NEW d, Working(r, d), NEW t, NEW sums, NEW j,
           t = Summed(seed[d], sums), j.stage \in {"summing", "loading"}, j.to = d,
           UNCHANGED <<report, active, origin, maker>>,
           job' = [job EXCEPT ![r] = j],
           seed' = [seed EXCEPT ![d] = t],
           Sealed(origin[d]) => Finished(seed[d], origin[d], report[r])
    PROVE  ChangeInv'
  <1>2. IsSeed(t) /\ t # NoSeed /\ t.files = seed[d].files
    BY MadeIsSeed DEF Working, IsSeed, Summed
  <1>3. ASSUME Sealed(origin[d]) PROVE Kept(t, origin[d], report[r], j, d)
    <2>1. Finished(t, origin[d], report[r])
      BY <1>2, <1>3 DEF Finished
    <2>2. Good(t, origin[d], report[r])
      BY <2>1, FinishedIsGood
    <2> QED  BY <2>1, <2>2 DEF Kept, Phase
  <1> QED  BY <1>2, <1>3, Writes DEF Busy

LEMMA OpenChecksumsInv ==
    ASSUME ChangeInv, NEW r \in Reports, OpenChecksums(r)
    PROVE  ChangeInv'
  <1> DEFINE d == job[r].to
             t == Summed(seed[d], <<>>)
             j == [stage |-> "summing", to |-> d]
  <1>1. job[r].stage = "patching" /\ job[r].left = {} /\ Working(r, d)
    BY BusyWorks DEF OpenChecksums, Busy
  <1>2. /\ UNCHANGED <<report, active, origin, maker>>
        /\ job' = [job EXCEPT ![r] = j] /\ j.stage = "summing" /\ j.to = d
    BY DEF OpenChecksums, Goes
  <1>3. Sealed(origin[d]) => Finished(seed[d], origin[d], report[r])
    <2> SUFFICES ASSUME Sealed(origin[d]) PROVE Finished(seed[d], origin[d], report[r])
      OBVIOUS
    <2>1. report[r].patches \ job[r].left = report[r].patches
      BY <1>1
    <2>2. Phase(seed[d], origin[d], report[r], job[r])
      BY <1>1 DEF Working
    <2> QED  BY <1>1, <2>1, <2>2 DEF Phase, Finished
  <1>4. t = [seed[d] EXCEPT !.sums = <<>>]
    BY <1>1 DEF Working, IsSeed, Summed
  <1>5. seed' = [seed EXCEPT ![d] = t]
    <2>1. seed' = [seed EXCEPT ![d] = [seed[d] EXCEPT !.sums = <<>>]]
      BY DEF OpenChecksums
    <2> HIDE DEF t
    <2> QED  BY <1>4, <2>1
  <1>6. t = Summed(seed[d], <<>>)
    OBVIOUS
  <1> HIDE DEF j, t
  <1> QED  BY <1>1, <1>2, <1>3, <1>5, <1>6, NewSumsInv

LEMMA WriteChecksumsInv ==
    ASSUME ChangeInv, NEW r \in Reports, WriteChecksums(r)
    PROVE  ChangeInv'
  <1> DEFINE d == job[r].to
             sums == ChecksumsOf(seed[d].files)
             t == Summed(seed[d], sums)
             j == [stage |-> "loading", to |-> d]
  <1>1. job[r].stage = "summing" /\ Working(r, d)
    BY BusyWorks DEF WriteChecksums, Busy
  <1>2. /\ UNCHANGED <<report, active, origin, maker>>
        /\ job' = [job EXCEPT ![r] = j] /\ j.stage = "loading" /\ j.to = d
    BY DEF WriteChecksums, Goes
  <1>3. Sealed(origin[d]) => Finished(seed[d], origin[d], report[r])
    BY <1>1 DEF Working, Phase
  <1>4. t = [seed[d] EXCEPT !.sums = sums]
    BY <1>1 DEF Working, IsSeed, Summed
  <1>5. seed' = [seed EXCEPT ![d] = t]
    <2>1. seed' = [seed EXCEPT ![d] = [seed[d] EXCEPT !.sums = sums]]
      BY DEF WriteChecksums, Target
    <2> HIDE DEF t
    <2> QED  BY <1>4, <2>1
  <1>6. t = Summed(seed[d], sums)
    OBVIOUS
  <1> HIDE DEF j, t, sums
  <1> QED  BY <1>1, <1>2, <1>3, <1>5, <1>6, NewSumsInv

LEMMA ValidateInv ==
    ASSUME ChangeInv, NEW r \in Reports, Validate(r)
    PROVE  ChangeInv'
  <1> DEFINE d == job[r].to
             s == seed[d]
             j == IF Loads(Target(r)) THEN Idle ELSE [stage |-> "failed", to |-> d]
  <1>1. job[r].stage = "loading" /\ Working(r, d)
    BY BusyWorks DEF Validate, Busy
  <1>2. /\ UNCHANGED <<report, active, origin, maker>> /\ job' = [job EXCEPT ![r] = j]
        /\ seed' = [seed EXCEPT ![d] = s]
    BY DEF Validate, Goes, ChangeInv, Shapes
  <1>3. j.stage = "idle" \/ (j.stage = "failed" /\ j.to = d)
    BY DEF Idle
  <1> HIDE DEF j
  <1>4. s # NoSeed /\ IsSeed(s)
    BY <1>1 DEF Working
  <1>5. Sealed(origin[d]) => Kept(s, origin[d], report[r], j, d)
    BY <1>1, <1>3 DEF Working, Kept, Phase, Busy
  <1> QED  BY <1>1, <1>2, <1>3, <1>4, <1>5, Writes DEF Busy

LEMMA RemoveTreeInv ==
    ASSUME ChangeInv, NEW r \in Reports, RemoveTree(r)
    PROVE  ChangeInv'
  <1>1. job[r].stage = "failed" /\ Working(r, job[r].to)
    BY BusyWorks DEF RemoveTree, Busy
  <1>2. /\ UNCHANGED <<report, active, origin, maker>> /\ job' = [job EXCEPT ![r] = Idle]
        /\ seed' = [seed EXCEPT ![job[r].to] = NoSeed] /\ Idle.stage = "idle"
    BY DEF RemoveTree, Goes, Idle
  <1> QED  BY <1>1, <1>2, Writes

LEMMA CrashInRemovalInv ==
    ASSUME ChangeInv, NEW r \in Reports, CrashInRemoval(r)
    PROVE  ChangeInv'
  <1> DEFINE d == job[r].to
             s == seed[d]
  <1>1. job[r].stage = "failed" /\ Working(r, d)
    BY BusyWorks DEF CrashInRemoval, Busy
  <1>2. PICK part \in PartialRemovals(s) : seed' = [seed EXCEPT ![d] = part]
    BY DEF CrashInRemoval, Target
  <1>3. /\ UNCHANGED <<report, active, origin, maker>>
        /\ job' = [job EXCEPT ![r] = Idle] /\ Idle.stage = "idle"
    BY DEF CrashInRemoval, EndProcess, Goes, Idle
  <1>4. IsSeed(part)
    BY WithoutIsSeed DEF PartialRemovals
  <1>5. ASSUME Sealed(origin[d]) PROVE Kept(part, origin[d], report[r], Idle, d)
    <2>1. s.sums = origin[d].sums \/ Finished(s, origin[d], report[r])
      BY <1>1, <1>5 DEF Working, Phase
    <2>2. Good(part, origin[d], report[r])
      BY <1>5, <2>1, PartialRemovalsAreGood
    <2> QED  BY <2>2 DEF Kept, Idle, Busy
  <1> HIDE DEF d, s
  <1> QED  BY <1>1, <1>2, <1>3, <1>4, <1>5, Writes

LEMMA CrashBetweenWritesInv ==
    ASSUME ChangeInv, NEW r \in Reports, CrashBetweenWrites(r)
    PROVE  ChangeInv'
  <1>1. JobOK(r) /\ report[r] # NoReport
    BY DEF ChangeInv, JobOK, CrashBetweenWrites
  <1>2. /\ UNCHANGED <<report, active, seed, origin, maker>>
        /\ job' = [job EXCEPT ![r] = Idle] /\ Idle.stage = "idle"
    BY DEF CrashBetweenWrites, EndProcess, Goes, Idle
  <1> QED  BY <1>1, <1>2, LeavesFiles

LEMMA NextInv == ChangeInv /\ [ChangeNext]_changeVars => ChangeInv'
  <1> SUFFICES ASSUME ChangeInv, [ChangeNext]_changeVars PROVE ChangeInv'
    OBVIOUS
  <1>1. ASSUME NEW r \in Reports, Regenerate(r) PROVE ChangeInv'
    BY <1>1, StartInv, MakeDirectoryInv, CopyFileInv, EndCopyInv, OpenPatchedFileInv, WritePatchedFileInv, OpenChecksumsInv,
       WriteChecksumsInv, ValidateInv, RemoveTreeInv, CrashInCopyInv, CrashInRemovalInv,
       CrashBetweenWritesInv DEF Regenerate
  <1>2. CASE UNCHANGED changeVars
    <2>1. Shapes' /\ ReportsOK' /\ SeedsOK'
      BY <1>2 DEF ChangeInv, Shapes, ReportsOK, SeedsOK, changeVars
    <2>2. ASSUME NEW r \in Reports PROVE JobOK(r)'
      BY <1>2 DEF ChangeInv, JobOK, changeVars
    <2>3. ASSUME NEW d \in Directories PROVE DirOK(d)'
      BY <1>2 DEF ChangeInv, DirOK, changeVars
    <2> QED  BY <2>1, <2>2, <2>3 DEF ChangeInv
  <1> QED  BY <1>1, <1>2, ReviewInv, DeployInv DEF ChangeNext

-----------------------------------------------------------------------------
(* What follows for a directory that loads.                                *)

LEMMA LoadsIsGood ==
    ASSUME ChangeInv, NEW d \in Made, Sealed(origin[d]), Loads(seed[d])
    PROVE  /\ maker[d] \in Reports /\ ReportOK(report[maker[d]])
           /\ \/ Tables(seed[d]) = Tables(origin[d])
              \/ Complete(seed[d], origin[d], report[maker[d]])
  <1>1. d \in Directories /\ seed[d] # NoSeed /\ maker[d] # Nobody
    BY DEF Made
  <1>2. /\ maker[d] \in Reports /\ report[maker[d]] # NoReport
        /\ Good(seed[d], origin[d], report[maker[d]])
    BY <1>1 DEF ChangeInv, DirOK, Kept
  <1>3. ReportOK(report[maker[d]])
    BY <1>2 DEF ChangeInv, ReportsOK
  <1>4. VerifyChecksums(seed[d]) /\ Required \subseteq Present(seed[d])
    BY DEF Loads, ReadsTables
  <1> QED  BY <1>2, <1>3, <1>4 DEF Good

\* A row of a finished seed is a row of the origin, with the patch meant for it.
LEMMA CompleteRows ==
    ASSUME NEW s, NEW o, NEW rep, Complete(s, o, rep), NEW f \in Required
    PROVE  s.files[f] = {Upd(f, row, rep.patches) : row \in o.files[f]}
  <1>1. Tables(s)[f] = [g \in Required |-> With(o.files, rep.patches)[g]][f]
    BY WithPatchesIsWith DEF Complete
  <1>2. f \in Files
    BY DEF Files
  <1> QED  BY <1>1, <1>2 DEF Tables, With

LEMMA PatchForRow ==
    ASSUME NEW f, NEW row, NEW patches, Upd(f, row, patches) # row
    PROVE  \E p \in patches : /\ p.filename = f /\ p.row_id = row.id
                              /\ Upd(f, row, patches) = Updated(row, p.values)
  <1>1. ForRow(f, row, patches) # {}
    BY DEF Upd, UpdatedBy
  <1> DEFINE p == CHOOSE q \in ForRow(f, row, patches) : TRUE
  <1>2. p \in ForRow(f, row, patches)
    BY <1>1
  <1>3. Upd(f, row, patches) = Updated(row, p.values)
    BY <1>1 DEF Upd, UpdatedBy
  <1> HIDE DEF p
  <1> QED  BY <1>2, <1>3 DEF ForRow

\* Only rows of the policy of the report are patched.
LEMMA OthersAreKept ==
    ASSUME NEW files, NEW rep, ReportOK(rep), OwnRows(files, rep.patches, rep.policy_id),
           NEW f \in {"02_policy.csv", "03_policy_rule.csv", "08_policy_document.csv",
                      "10_policy_document_chunk.csv"},
           NEW row \in files[f], Owner(f, row) # rep.policy_id
    PROVE  Upd(f, row, rep.patches) = row
  <1> SUFFICES ASSUME Upd(f, row, rep.patches) # row PROVE FALSE
    OBVIOUS
  <1>1. PICK p \in rep.patches : p.filename = f /\ p.row_id = row.id
    BY PatchForRow
  <1>2. TargetIsReviewed(rep, p)
    BY DEF ReportOK, PatchesMatchReport
  <1>3. CASE f = "02_policy.csv"
    BY <1>1, <1>2, <1>3 DEF TargetIsReviewed, Owner
  <1>4. CASE f # "02_policy.csv"
    <2>1. row.policy_id = rep.policy_id
      BY <1>1, <1>4 DEF OwnRows
    <2> QED  BY <2>1, <1>4 DEF Owner
  <1> QED  BY <1>3, <1>4

\* What the patch of a policy row may say.
LEMMA PolicyPatches ==
    ASSUME NEW rep, ReportOK(rep), NEW p \in rep.patches, p.filename = "02_policy.csv"
    PROVE  /\ p.row_id = rep.policy_id
           /\ \A f \in DOMAIN p.values \ {"verified_at"} :
                f \in DOMAIN rep.diffs /\ p.values[f] = SeedText(rep.diffs[f])
  <1>1. TargetIsReviewed(rep, p) /\ ValuesAreReviewed(rep, p)
    BY DEF ReportOK, PatchesMatchReport
  <1> QED  BY <1>1 DEF TargetIsReviewed, ValuesAreReviewed

LEMMA WholeSeeds == ChangeInv => LoadableSeedsAreWhole
  <1> SUFFICES ASSUME ChangeInv, NEW d \in Made, Sealed(origin[d]), Loads(seed[d])
               PROVE  Tables(seed[d]) \in
                        { Tables(origin[d]),
                          WithPatches(origin[d], report[maker[d]].patches) }
    BY DEF LoadableSeedsAreWhole
  <1> QED  BY LoadsIsGood DEF Complete

LEMMA OtherPolicies == ChangeInv => OtherPoliciesKeepTheirRows
  <1> SUFFICES ASSUME ChangeInv, NEW d \in Made, Sealed(origin[d]), Loads(seed[d]),
                      NEW f \in {"02_policy.csv", "03_policy_rule.csv",
                                 "08_policy_document.csv", "10_policy_document_chunk.csv"},
                      NEW row \in origin[d].files[f],
                      Owner(f, row) # report[maker[d]].policy_id
               PROVE  row \in seed[d].files[f]
    BY DEF OtherPoliciesKeepTheirRows
  <1> DEFINE s == seed[d]
             o == origin[d]
             rep == report[maker[d]]
  <1>1. ReportOK(rep) /\ (Tables(s) = Tables(o) \/ Complete(s, o, rep))
    BY LoadsIsGood
  <1>2. f \in Required
    BY DEF Required
  <1>3. CASE Tables(s) = Tables(o)
    <2>1. Tables(s)[f] = Tables(o)[f]
      BY <1>3
    <2> QED  BY <1>2, <2>1 DEF Tables
  <1>4. CASE Complete(s, o, rep)
    <2>1. s.files[f] = {Upd(f, q, rep.patches) : q \in o.files[f]}
      BY <1>2, <1>4, CompleteRows
    <2>2. Upd(f, row, rep.patches) = row
      BY <1>1, <1>4, OthersAreKept DEF Complete
    <2> QED  BY <2>1, <2>2
  <1> QED  BY <1>1, <1>3, <1>4

LEMMA ReviewedPolicies == ChangeInv => PoliciesChangeAsReviewed
  <1> DEFINE F == "02_policy.csv"
  <1> SUFFICES ASSUME ChangeInv, NEW d \in Made, Sealed(origin[d]), Loads(seed[d]),
                      NEW row \in seed[d].files[F]
               PROVE  \E old \in origin[d].files[F] :
                        \A f \in DOMAIN row \ {"verified_at"} :
                            \/ row[f] = old[f]
                            \/ /\ old.id = report[maker[d]].policy_id
                               /\ f \in DOMAIN report[maker[d]].diffs
                               /\ row[f] = SeedText(report[maker[d]].diffs[f])
    BY DEF PoliciesChangeAsReviewed
  <1> DEFINE s == seed[d]
             o == origin[d]
             rep == report[maker[d]]
  <1>1. ReportOK(rep) /\ (Tables(s) = Tables(o) \/ Complete(s, o, rep))
    BY LoadsIsGood
  <1>2. F \in Required
    BY DEF Required
  <1>3. CASE Tables(s) = Tables(o)
    <2>1. Tables(s)[F] = Tables(o)[F]
      BY <1>3
    <2>2. row \in o.files[F]
      BY <1>2, <2>1 DEF Tables
    <2> QED  BY <2>2
  <1>4. CASE Complete(s, o, rep)
    <2>1. PICK old \in o.files[F] : row = Upd(F, old, rep.patches)
      BY <1>2, <1>4, CompleteRows
    <2>2. CASE row = old
      BY <2>1, <2>2
    <2>3. CASE row # old
      <3>1. PICK p \in rep.patches : /\ p.filename = F /\ p.row_id = old.id
                                    /\ row = Updated(old, p.values)
        BY <2>1, <2>3, PatchForRow
      <3>2. /\ p.row_id = rep.policy_id
            /\ \A f \in DOMAIN p.values \ {"verified_at"} :
                 f \in DOMAIN rep.diffs /\ p.values[f] = SeedText(rep.diffs[f])
        BY <1>1, <3>1, PolicyPatches
      <3>3. ASSUME NEW f \in DOMAIN row \ {"verified_at"}
            PROVE  \/ row[f] = old[f]
                   \/ /\ old.id = rep.policy_id /\ f \in DOMAIN rep.diffs
                      /\ row[f] = SeedText(rep.diffs[f])
        <4>1. f \in DOMAIN old
          BY <3>1 DEF Updated
        <4>2. row[f] = IF f \in DOMAIN p.values THEN p.values[f] ELSE old[f]
          BY <3>1, <4>1 DEF Updated
        <4> QED  BY <3>1, <3>2, <4>2
      <3> QED  BY <2>1, <3>3
    <2> QED  BY <2>2, <2>3
  <1> QED  BY <1>1, <1>3, <1>4

\* Who writes, and where.
WrittenByMaker(d) ==
    seed[d] # NoSeed /\ seed'[d] # seed[d] =>
        /\ job[maker[d]].stage \in {"copying", "patching", "writing", "summing", "failed"}
        /\ job[maker[d]].to = d /\ job'[maker[d]] # job[maker[d]]

LEMMA WritesByMaker ==
    ASSUME ChangeInv, NEW r \in Reports, NEW d, NEW j,
           d = job[r].to, job[r].stage \in Busy \ {"loading"},
           job' = [job EXCEPT ![r] = j], j # job[r],
           \A e \in Directories \ {d} : seed'[e] = seed[e]
    PROVE  \A e \in Directories : WrittenByMaker(e)
  <1>1. maker[d] = r
    BY BusyWorks DEF Working
  <1>2. job'[r] = j
    BY DEF ChangeInv, Shapes
  <1> QED  BY <1>1, <1>2 DEF WrittenByMaker, Busy

LEMMA StepsByMakers ==
    ASSUME ChangeInv, [ChangeNext]_changeVars
    PROVE  \A d \in Directories : WrittenByMaker(d)
  <1>1. ASSUME UNCHANGED seed PROVE \A d \in Directories : WrittenByMaker(d)
    BY <1>1 DEF WrittenByMaker
  <1>2. ASSUME NEW r \in Reports, Regenerate(r)
        PROVE  \A d \in Directories : WrittenByMaker(d)
    <2> DEFINE d == job[r].to
    <2>1. ASSUME MakeDirectory(r)
          PROVE  \A e \in Directories : WrittenByMaker(e)
      <3>1. \A e \in Directories : seed[e] # NoSeed => seed'[e] = seed[e]
        BY <2>1 DEF MakeDirectory, CopyRaises, ChangeInv, Shapes
      <3> QED  BY <3>1 DEF WrittenByMaker
    <2>2. ASSUME NEW s, NEW j, NEW from \in Busy \ {"loading"}, job[r].stage = from,
                 seed' = [seed EXCEPT ![d] = s], Goes(r, j), j.stage # from
          PROVE  \A e \in Directories : WrittenByMaker(e)
      <3>1. \A e \in Directories \ {d} : seed'[e] = seed[e]
        BY <2>2 DEF ChangeInv, Shapes
      <3> QED  BY <2>2, <3>1, WritesByMaker DEF Goes
    <2>3. CASE OpenPatchedFile(r)
      <3>1. PICK p \in job[r].left :
              IF Applies(Target(r).files, p, report[r].policy_id)
              THEN /\ seed' = [seed EXCEPT ![d].files[p.filename] = {}]
                   /\ Goes(r, [ stage |-> "writing", to |-> d, left |-> job[r].left \ {p},
                                filename |-> p.filename,
                                rows |-> Patched(Target(r).files[p.filename], p) ])
              ELSE Goes(r, [stage |-> "failed", to |-> d]) /\ UNCHANGED seed
        BY <2>3 DEF OpenPatchedFile
      <3>2. CASE UNCHANGED seed
        BY <1>1, <3>2
      <3>3. CASE ~ UNCHANGED seed
        <4> DEFINE s == [seed[d] EXCEPT !.files[p.filename] = {}]
                   j == [ stage |-> "writing", to |-> d, left |-> job[r].left \ {p},
                          filename |-> p.filename,
                          rows |-> Patched(Target(r).files[p.filename], p) ]
        <4>1. seed' = [seed EXCEPT ![d] = s] /\ Goes(r, j)
          BY <3>1, <3>3
        <4>2. job[r].stage = "patching" /\ j.stage = "writing"
          BY <2>3 DEF OpenPatchedFile
        <4> HIDE DEF s, j
        <4> QED  BY <4>1, <4>2, <2>2 DEF Busy
      <3> QED  BY <3>2, <3>3
    <2>4. CASE WritePatchedFile(r)
      <3> DEFINE s == [ files |-> [Target(r).files EXCEPT ![job[r].filename] = job[r].rows],
                        sums |-> SumsAfterPatch(r, [Target(r).files EXCEPT
                                                      ![job[r].filename] = job[r].rows]) ]
                 j == [stage |-> "patching", to |-> d, left |-> job[r].left]
      <3>1. /\ seed' = [seed EXCEPT ![d] = s] /\ Goes(r, j)
            /\ job[r].stage = "writing" /\ j.stage = "patching"
        BY <2>4 DEF WritePatchedFile
      <3> HIDE DEF s, j
      <3> QED  BY <3>1, <2>2 DEF Busy
    <2>5. CASE OpenChecksums(r)
      <3> DEFINE s == [seed[d] EXCEPT !.sums = <<>>]
                 j == [stage |-> "summing", to |-> d]
      <3>1. /\ seed' = [seed EXCEPT ![d] = s] /\ Goes(r, j)
            /\ job[r].stage = "patching" /\ j.stage = "summing"
        BY <2>5 DEF OpenChecksums
      <3> HIDE DEF s, j
      <3> QED  BY <3>1, <2>2 DEF Busy
    <2>6. CASE WriteChecksums(r)
      <3> DEFINE s == [seed[d] EXCEPT !.sums = ChecksumsOf(Target(r).files)]
                 j == [stage |-> "loading", to |-> d]
      <3>1. /\ seed' = [seed EXCEPT ![d] = s] /\ Goes(r, j)
            /\ job[r].stage = "summing" /\ j.stage = "loading"
        BY <2>6 DEF WriteChecksums
      <3> HIDE DEF s, j
      <3> QED  BY <3>1, <2>2 DEF Busy
    <2>7. CASE RemoveTree(r)
      BY <2>7, <2>2 DEF RemoveTree, Busy, Idle
    <2>8. CASE CrashInRemoval(r)
      BY <2>8, <2>2 DEF CrashInRemoval, EndProcess, Busy, Idle
    <2>10. CASE CopyFile(r)
      <3>1. \E name \in job[r].left : \E raises :
              /\ Goes(r, [job[r] EXCEPT !.left = @ \ {name}, !.raises = raises])
              /\ \A e \in Directories \ {d} : seed'[e] = seed[e]
        <4>1. PICK name \in Entries :
                LET from == seed[job[r].from]
                    gone == from = NoSeed \/ Content(from, name) = NoFile
                IN  /\ NextName(r, name)
                    /\ Goes(r, [job[r] EXCEPT !.left = @ \ {name}, !.raises = @ \/ gone])
                    /\ seed' = IF gone THEN seed
                               ELSE [seed EXCEPT ![d] = Put(@, name, Content(from, name))]
          BY <2>10 DEF CopyFile
        <4> QED  BY <4>1 DEF NextName, ChangeInv, Shapes
      <3>6. PICK name \in job[r].left :
              \E raises :
                 /\ Goes(r, [job[r] EXCEPT !.left = @ \ {name}, !.raises = raises])
                 /\ \A e \in Directories \ {d} : seed'[e] = seed[e]
        BY <3>1
      <3>7. PICK raises :
              /\ Goes(r, [job[r] EXCEPT !.left = @ \ {name}, !.raises = raises])
              /\ \A e \in Directories \ {d} : seed'[e] = seed[e]
        BY <3>6
      <3> DEFINE k == job[r]
                 j == [k EXCEPT !.left = @ \ {name}, !.raises = raises]
      <3>2. k.stage = "copying" /\ k = [ stage |-> k.stage, from |-> k.from, to |-> k.to,
                                         left |-> k.left, raises |-> k.raises ]
        BY <2>10 DEF CopyFile, ChangeInv, JobOK, Copied
      <3>3. name \in k.left /\ Goes(r, j)
        BY <3>6, <3>7
      <3> HIDE DEF k
      <3>4. j.left = k.left \ {name}
        BY <3>2
      <3>5. j # k
        BY <3>3, <3>4
      <3> HIDE DEF j
      <3>8. job[r].stage \in Busy \ {"loading"}
        BY <3>2 DEF Busy, k
      <3>9. j # job[r]
        BY <3>5 DEF k
      <3> QED  BY <3>3, <3>7, <3>8, <3>9, WritesByMaker DEF Goes
    <2>11. CASE CrashInCopy(r)
      BY <2>11, <2>2 DEF CrashInCopy, EndProcess, Busy, Idle
    <2>9. ASSUME \/ \E e \in Directories : StartRegeneration(r, e)
                 \/ EndCopy(r) \/ Validate(r) \/ CrashBetweenWrites(r)
          PROVE  UNCHANGED seed
      BY <2>9 DEF StartRegeneration, EndCopy, CopyRaises, Validate, CrashBetweenWrites
    <2> QED  BY <1>1, <1>2, <2>1, <2>3, <2>4, <2>5, <2>6, <2>7, <2>8, <2>9,
                <2>10, <2>11 DEF Regenerate
  <1>3. ASSUME \/ \E r \in Reports : Review(r)
               \/ \E d \in Directories : Deploy(d)
               \/ UNCHANGED changeVars
        PROVE  UNCHANGED seed
    BY <1>3 DEF Review, Deploy, changeVars
  <1> QED  BY <1>1, <1>2, <1>3 DEF ChangeNext

-----------------------------------------------------------------------------
(* Theorems.                                                               *)

\* Who works on which directory, and what each step of a regeneration knows of it.
THEOREM ChangeInvariant == ChangeSpec => []ChangeInv
  <1> QED  BY InitInv, NextInv, PTL DEF ChangeSpec

\* A directory changes only under the process that made it.
THEOREM MakersWriteSeeds == ChangeSpec => SeedsAreWrittenByTheirMakers
  <1>1. ChangeInv /\ [ChangeNext]_changeVars =>
          [ \A d \in Directories :
              seed[d] # NoSeed /\ seed'[d] # seed[d] =>
                  job[maker[d]].stage \in {"copying", "patching", "writing", "summing", "failed"}
                    /\ job[maker[d]].to = d /\ job'[maker[d]] # job[maker[d]] ]_changeVars
    BY StepsByMakers DEF WrittenByMaker
  <1> QED  BY <1>1, ChangeInvariant, PTL DEF ChangeSpec, SeedsAreWrittenByTheirMakers

\* What loads is the seed that was copied, or that seed with every patch of its report,
\* whatever step the regeneration ended at.
THEOREM SeedsThatLoadAreWhole == ChangeSpec => []LoadableSeedsAreWhole
  BY ChangeInvariant, WholeSeeds, PTL

\* The rows of other policies survive whatever the reviewers' baseline named.
THEOREM OthersKeepTheirRows == ChangeSpec => []OtherPoliciesKeepTheirRows
  BY ChangeInvariant, OtherPolicies, PTL

\* A policy row says what it said, or what the review found.
THEOREM PolicyRowsAreReviewed == ChangeSpec => []PoliciesChangeAsReviewed
  BY ChangeInvariant, ReviewedPolicies, PTL

-----------------------------------------------------------------------------
(* What an import writes.                                                  *)

LEMMA UpsertedRows ==
    ASSUME NEW table, NEW rows, NEW id
    PROVE  RowsOf(UpsertRows(table, rows), id)
             = IF id \in Ids(rows) THEN RowsOf(rows, id) ELSE RowsOf(table, id)
  <1>1. \A r \in rows : r.id \in Ids(rows)
    BY DEF Ids
  <1>2. CASE id \in Ids(rows)
    BY <1>1, <1>2 DEF RowsOf, UpsertRows
  <1>3. CASE id \notin Ids(rows)
    BY <1>1, <1>3 DEF RowsOf, UpsertRows
  <1> QED  BY <1>2, <1>3

LEMMA UpsertTwice ==
    ASSUME NEW table, NEW rows
    PROVE  UpsertRows(UpsertRows(table, rows), rows) = UpsertRows(table, rows)
  <1>1. \A r \in rows : r.id \in Ids(rows)
    BY DEF Ids
  <1> QED  BY <1>1 DEF UpsertRows

\* An edition has rows for the same policies in every table of policies.
Even(edition) == \A t, u \in PerPolicy : Ids(edition[t]) = Ids(edition[u])

LEMMA PayloadIsEven ==
    ASSUME NEW s, ReadsTables(s)
    PROVE  Even(ReviewedSeedPayload(s.files))
  <1> DEFINE policies == s.files["02_policy.csv"]
             documents == s.files["08_policy_document.csv"]
             minted(id) == PolicyId(CHOOSE p \in policies : p.id = id, s.files)
             payload == ReviewedSeedPayload(s.files)
  <1>1. /\ \A d \in documents : d.policy_id \in Ids(policies)
        /\ Ids(policies) \subseteq {d.policy_id : d \in documents}
    BY DEF ReadsTables, RequireReferences
  <1> DEFINE ids == {minted(p.id) : p \in policies}
  <1>2. /\ Ids(payload["policy"]) = ids
        /\ Ids(payload["question"]) = ids
        /\ Ids(payload["policy_rule"]) = ids
    <2> DEFINE policy(p) ==
                 [ id |-> minted(p.id), summary |-> p.summary,
                   period |-> <<p.application_start_date, p.application_end_date>>,
                   reviewed_at |-> p.verified_at ]
               question(p) == [id |-> minted(p.id), fact_key |-> "region"]
               rule(p) == [id |-> minted(p.id), value |-> Region[p.summary]]
    <2>1. /\ payload["policy"] = {policy(p) : p \in policies}
          /\ payload["question"] = {question(p) : p \in policies}
          /\ payload["policy_rule"] = {rule(p) : p \in policies}
      BY DEF ReviewedSeedPayload
    <2>2. \A p \in policies : /\ policy(p).id = minted(p.id)
                             /\ question(p).id = minted(p.id) /\ rule(p).id = minted(p.id)
      OBVIOUS
    <2> HIDE DEF policy, question, rule, minted, payload
    <2> QED  BY <2>1, <2>2 DEF Ids
  <1>3. Ids(payload["policy_document"]) = {minted(d.policy_id) : d \in documents}
    <2> DEFINE named(id) == CHOOSE p \in policies : p.id = id
               document(d) ==
                 [ id |-> minted(d.policy_id), url |-> d.source_url,
                   document_type |-> d.document_type,
                   reviewed_at |-> named(d.policy_id).verified_at ]
    <2>1. payload["policy_document"] = {document(d) : d \in documents}
      BY DEF ReviewedSeedPayload
    <2>2. \A d \in documents : document(d).id = minted(d.policy_id)
      OBVIOUS
    <2> HIDE DEF document, minted, payload
    <2> QED  BY <2>1, <2>2 DEF Ids
  <1>4. {minted(d.policy_id) : d \in documents} = ids
    BY <1>1 DEF Ids
  <1>5. PerPolicy = {"policy", "question", "policy_rule", "policy_document"}
    BY DEF PerPolicy, CatalogTables
  <1> HIDE DEF payload, ids, minted
  <1> QED  BY <1>2, <1>3, <1>4, <1>5 DEF Even, payload

\* What the catalogue is, given the editions committed so far.
Whole(tables, eds) ==
    /\ eds # <<>> => \A t \in CatalogTables : eds[Len(eds)][t] \subseteq tables[t]
    /\ \A id \in UNION {Ids(tables[t]) : t \in PerPolicy} :
         \E n \in DOMAIN eds : \A t \in PerPolicy : RowsOf(tables[t], id) = RowsOf(eds[n][t], id)

LEMMA WholeAfterCommit ==
    ASSUME NEW tables, NEW S, NEW eds \in Seq(S), NEW edition, Even(edition),
           Whole(tables, eds), NEW written,
           \A t \in CatalogTables : written[t] = UpsertRows(tables[t], edition[t])
    PROVE  Whole(written, Append(eds, edition))
  <1> DEFINE more == Append(eds, edition)
  <1>1. /\ Len(more) = Len(eds) + 1 /\ DOMAIN more = 1..Len(more) /\ Len(eds) \in Nat
        /\ more[Len(eds) + 1] = edition
        /\ \A n \in DOMAIN eds : n \in DOMAIN more /\ more[n] = eds[n]
    OBVIOUS
  <1>2. PerPolicy \subseteq CatalogTables
    BY DEF PerPolicy
  <1> HIDE DEF more
  <1>3. \A t \in CatalogTables : more[Len(more)][t] \subseteq written[t]
    BY <1>1 DEF UpsertRows
  <1>4. ASSUME NEW t \in PerPolicy, NEW id \in Ids(written[t])
        PROVE  \E n \in DOMAIN more :
                 \A u \in PerPolicy : RowsOf(written[u], id) = RowsOf(more[n][u], id)
    <2>1. CASE id \in Ids(edition[t])
      <3>1. \A u \in PerPolicy : id \in Ids(edition[u])
        BY <2>1 DEF Even
      <3>2. \A u \in PerPolicy : RowsOf(written[u], id) = RowsOf(edition[u], id)
        BY <3>1, <1>2, UpsertedRows
      <3> QED  BY <3>2, <1>1
    <2>2. CASE id \notin Ids(edition[t])
      <3>1. \A u \in PerPolicy : id \notin Ids(edition[u])
        BY <2>2 DEF Even
      <3>2. \A u \in PerPolicy : RowsOf(written[u], id) = RowsOf(tables[u], id)
        BY <3>1, <1>2, UpsertedRows
      <3>3. id \in Ids(tables[t])
        BY <2>2, <1>2 DEF Ids, UpsertRows
      <3>4. PICK n \in DOMAIN eds : \A u \in PerPolicy : RowsOf(tables[u], id) = RowsOf(eds[n][u], id)
        BY <3>3 DEF Whole
      <3> QED  BY <3>2, <3>4, <1>1
    <2> QED  BY <2>1, <2>2
  <1>5. Whole(written, more)
    BY <1>3, <1>4 DEF Whole
  <1> QED  BY <1>5 DEF more

-----------------------------------------------------------------------------
(* The invariant.                                                          *)

Elements(s) == {s[k] : k \in 1..Len(s)}

Transaction(edition, left, written) ==
    [stage |-> "upserting", edition |-> edition, left |-> left, written |-> written]

\* An open transaction has upserted the tables that are not left, each of them on
\* top of what is committed.
Upserting(j) ==
    /\ j = Transaction(j.edition, j.left, j.written)
    /\ j.left \in Seq(CatalogTables)
    /\ j.written = [t \in CatalogTables |-> j.written[t]]
    /\ \A t \in CatalogTables :
         /\ j.written[t] \in {catalog[t], UpsertRows(catalog[t], j.edition[t])}
         /\ t \notin Elements(j.left) => j.written[t] = UpsertRows(catalog[t], j.edition[t])

ImporterOK(i) ==
    /\ importer[i].stage \in {"waiting", "verified", "loaded", "upserting"}
    /\ importer[i].stage \in {"loaded", "upserting"} => Even(importer[i].edition)
    /\ importer[i].stage = "upserting" => Upserting(importer[i])

ImportInv ==
    /\ importer = [i \in Importers |-> importer[i]]
    /\ catalog = [t \in CatalogTables |-> catalog[t]]
    /\ \E S : editions \in Seq(S)
    /\ \A i, j \in Importers :
         importer[i].stage = "upserting" /\ importer[j].stage = "upserting" => i = j
    /\ \A i \in Importers : ImporterOK(i)
    /\ Whole(catalog, editions)

LEMMA ImportInitInv == Init => ImportInv
  <1> SUFFICES ASSUME Init PROVE ImportInv
    OBVIOUS
  <1>1. /\ importer = [i \in Importers |-> Waiting] /\ catalog = [t \in CatalogTables |-> {}]
        /\ editions = <<>>
    BY DEF Init, ImportInit
  <1>2. \A i \in Importers : ImporterOK(i) /\ importer[i].stage = "waiting"
    BY <1>1 DEF ImporterOK, Waiting
  <1>3. editions \in Seq({})
    BY <1>1
  <1>4. \A t \in PerPolicy : Ids(catalog[t]) = {}
    BY <1>1 DEF Ids, PerPolicy
  <1>5. Whole(catalog, editions)
    BY <1>1, <1>4 DEF Whole
  <1> QED  BY <1>1, <1>2, <1>3, <1>5 DEF ImportInv

\* One importer changes; nothing is committed.
LEMMA ImporterMoves ==
    ASSUME ImportInv, NEW i \in Importers, NEW k,
           importer' = [importer EXCEPT ![i] = k], UNCHANGED <<catalog, editions>>,
           k.stage \in {"waiting", "verified", "loaded", "upserting"},
           k.stage \in {"loaded", "upserting"} => Even(k.edition),
           k.stage = "upserting" =>
               Upserting(k) /\ \A j \in Importers \ {i} : importer[j].stage # "upserting"
    PROVE  ImportInv'
  <1>1. /\ importer' = [j \in Importers |-> importer'[j]]
        /\ importer'[i] = k /\ \A j \in Importers \ {i} : importer'[j] = importer[j]
    BY DEF ImportInv
  <1>2. ASSUME NEW j \in Importers PROVE ImporterOK(j)'
    <2>1. CASE j = i
      BY <2>1, <1>1 DEF ImporterOK, Upserting
    <2>2. CASE j # i
      <3>1. ImporterOK(j) /\ importer'[j] = importer[j]
        BY <2>2, <1>1 DEF ImportInv
      <3> QED  BY <3>1 DEF ImporterOK, Upserting
    <2> QED  BY <2>1, <2>2
  <1>3. ASSUME NEW j \in Importers, NEW m \in Importers,
               importer'[j].stage = "upserting", importer'[m].stage = "upserting"
        PROVE  j = m
    BY <1>1, <1>3 DEF ImportInv
  <1>4. /\ (catalog = [t \in CatalogTables |-> catalog[t]])'
        /\ (\E S : editions \in Seq(S))' /\ Whole(catalog, editions)'
    BY DEF ImportInv, Whole
  <1> QED  BY <1>1, <1>2, <1>3, <1>4 DEF ImportInv

LEMMA VerifyInv ==
    ASSUME ImportInv, NEW i \in Importers, Verify(i)
    PROVE  ImportInv'
  <1> DEFINE k == [stage |-> "verified", from |-> active]
  <1>1. /\ importer' = [importer EXCEPT ![i] = k] /\ UNCHANGED <<catalog, editions>>
        /\ k.stage = "verified"
    BY DEF Verify
  <1> HIDE DEF k
  <1> QED  BY <1>1, ImporterMoves

LEMMA ReadTablesInv ==
    ASSUME ImportInv, NEW i \in Importers, ReadTables(i)
    PROVE  ImportInv'
  <1> DEFINE now == seed[importer[i].from]
             e == ReviewedSeedPayload(now.files)
             k == [stage |-> "loaded", edition |-> e]
  <1>1. /\ importer' = [importer EXCEPT ![i] = k] /\ UNCHANGED <<catalog, editions>>
        /\ ReadsTables(now)
    BY DEF ReadTables
  <1>2. Even(e)
    BY <1>1, PayloadIsEven
  <1>3. k.stage = "loaded" /\ k.edition = e
    OBVIOUS
  <1> HIDE DEF k, e
  <1> QED  BY <1>1, <1>2, <1>3, ImporterMoves

LEMMA OrderIsAll ==
    Order \in Seq(CatalogTables) /\ \A t \in CatalogTables : t \in Elements(Order)
  <1>1. Len(Order) = 5 /\ Order \in Seq(CatalogTables)
    BY DEF Order, CatalogTables
  <1>2. /\ Order[1] = "policy" /\ Order[2] = "question" /\ Order[3] = "policy_rule"
        /\ Order[4] = "policy_document" /\ Order[5] = "policy_relation"
    BY DEF Order
  <1>3. {Order[1], Order[2], Order[3], Order[4], Order[5]} \subseteq Elements(Order)
    BY <1>1 DEF Elements
  <1> QED  BY <1>1, <1>2, <1>3 DEF CatalogTables

LEMMA UpsertCategoriesInv ==
    ASSUME ImportInv, NEW i \in Importers, UpsertCategories(i)
    PROVE  ImportInv'
  <1> DEFINE k == [ stage |-> "upserting", edition |-> importer[i].edition, left |-> Order,
                    written |-> catalog ]
  <1>1. /\ importer' = [importer EXCEPT ![i] = k] /\ UNCHANGED <<catalog, editions>>
        /\ importer[i].stage = "loaded" /\ \A j \in Importers : importer[j].stage # "upserting"
    BY DEF UpsertCategories
  <1>2. /\ k.stage = "upserting" /\ k.edition = importer[i].edition
        /\ k.left = Order /\ k.written = catalog
    OBVIOUS
  <1>3. Even(k.edition)
    BY <1>1, <1>2 DEF ImportInv, ImporterOK
  <1>4. catalog = [t \in CatalogTables |-> catalog[t]]
    BY DEF ImportInv
  <1>5. Upserting(k)
    <2>1. k = Transaction(k.edition, k.left, k.written)
      BY DEF Transaction
    <2> HIDE DEF k
    <2> QED  BY <1>2, <1>4, <2>1, OrderIsAll DEF Upserting
  <1> HIDE DEF k
  <1> QED  BY <1>1, <1>2, <1>3, <1>5, ImporterMoves

LEMMA HeadOrTail ==
    ASSUME NEW S, NEW s \in Seq(S), s # <<>>
    PROVE  /\ Head(s) \in S /\ Tail(s) \in Seq(S)
           /\ \A x : x \in Elements(s) => x = Head(s) \/ x \in Elements(Tail(s))
  <1>1. Len(s) \in Nat /\ Len(s) > 0 /\ Head(s) = s[1] /\ Head(s) \in S /\ Tail(s) \in Seq(S)
    OBVIOUS
  <1>2. Len(Tail(s)) = Len(s) - 1 /\ \A k \in 1..Len(s) - 1 : Tail(s)[k] = s[k + 1]
    OBVIOUS
  <1>3. ASSUME NEW k \in 1..Len(s), k # 1 PROVE s[k] \in Elements(Tail(s))
    <2>1. k - 1 \in 1..Len(s) - 1 /\ Tail(s)[k - 1] = s[k]
      BY <1>1, <1>2, <1>3
    <2> QED  BY <2>1, <1>2 DEF Elements
  <1> QED  BY <1>1, <1>3 DEF Elements

Advanced(j, left, written) == [j EXCEPT !.left = left, !.written = written]

LEMMA AdvancedFields ==
    ASSUME NEW j, j = Transaction(j.edition, j.left, j.written), NEW left, NEW written
    PROVE  Advanced(j, left, written) = Transaction(j.edition, left, written)
  <1>1. [j EXCEPT !.left = left] = Transaction(j.edition, left, j.written)
    BY DEF Transaction
  <1> DEFINE m == Transaction(j.edition, left, j.written)
  <1>2. [m EXCEPT !.written = written] = Transaction(j.edition, left, written)
    BY DEF Transaction
  <1> QED  BY <1>1, <1>2 DEF Advanced

LEMMA UpsertTableInv ==
    ASSUME ImportInv, NEW i \in Importers, UpsertTable(i)
    PROVE  ImportInv'
  <1> DEFINE j == importer[i]
             t == Head(j.left)
             tables == [j.written EXCEPT ![t] = UpsertRows(@, j.edition[t])]
             k == Transaction(j.edition, Tail(j.left), tables)
  <1>1. j.stage = "upserting" /\ j.left # <<>> /\ Even(j.edition) /\ Upserting(j)
    BY DEF UpsertTable, ImportInv, ImporterOK
  <1>2. importer' = [importer EXCEPT ![i] = Advanced(j, Tail(j.left), tables)]
    BY DEF UpsertTable, Advanced
  <1>3. Advanced(j, Tail(j.left), tables) = k
    <2>1. j = Transaction(j.edition, j.left, j.written)
      BY <1>1 DEF Upserting
    <2> HIDE DEF j, tables
    <2> QED  BY <2>1, AdvancedFields
  <1>4. importer' = [importer EXCEPT ![i] = k] /\ UNCHANGED <<catalog, editions>>
    <2>1. UNCHANGED <<catalog, editions>>
      BY DEF UpsertTable, CommittedMeanwhile
    <2> HIDE DEF tables, k, j
    <2> QED  BY <1>2, <1>3, <2>1
  <1>5. /\ k.stage = "upserting" /\ k.edition = j.edition
        /\ k.left = Tail(j.left) /\ k.written = tables
    BY DEF Transaction
  <1>6. /\ j.left \in Seq(CatalogTables) /\ j.written = [u \in CatalogTables |-> j.written[u]]
        /\ \A u \in CatalogTables :
             /\ j.written[u] \in {catalog[u], UpsertRows(catalog[u], j.edition[u])}
             /\ u \notin Elements(j.left) => j.written[u] = UpsertRows(catalog[u], j.edition[u])
    BY <1>1 DEF Upserting
  <1>7. /\ t \in CatalogTables /\ Tail(j.left) \in Seq(CatalogTables)
        /\ \A u : u \in Elements(j.left) => u = t \/ u \in Elements(Tail(j.left))
    BY <1>1, <1>6, HeadOrTail
  <1> HIDE DEF j, t
  <1>8. /\ tables = [u \in CatalogTables |-> tables[u]]
        /\ tables[t] = UpsertRows(j.written[t], j.edition[t])
        /\ \A u \in CatalogTables \ {t} : tables[u] = j.written[u]
    BY <1>6, <1>7
  <1> HIDE DEF tables
  <1>9. tables[t] = UpsertRows(catalog[t], j.edition[t])
    BY <1>6, <1>7, <1>8, UpsertTwice
  <1>10. ASSUME NEW u \in CatalogTables
         PROVE  /\ tables[u] \in {catalog[u], UpsertRows(catalog[u], j.edition[u])}
                /\ u \notin Elements(Tail(j.left)) =>
                     tables[u] = UpsertRows(catalog[u], j.edition[u])
    BY <1>6, <1>7, <1>8, <1>9
  <1>11. Upserting(k)
    <2>1. k = Transaction(k.edition, k.left, k.written)
      BY <1>5
    <2> HIDE DEF k
    <2> QED  BY <1>5, <1>7, <1>8, <1>10, <2>1 DEF Upserting
  <1>12. \A m \in Importers \ {i} : importer[m].stage # "upserting"
    BY <1>1 DEF ImportInv, j
  <1> HIDE DEF k
  <1> QED  BY <1>1, <1>4, <1>5, <1>11, <1>12, ImporterMoves

LEMMA CommitInv ==
    ASSUME ImportInv, NEW i \in Importers, Commit(i)
    PROVE  ImportInv'
  <1> DEFINE j == importer[i]
  <1>1. /\ j.stage = "upserting" /\ j.left = <<>>
        /\ catalog' = j.written /\ editions' = Append(editions, j.edition)
        /\ importer' = [importer EXCEPT ![i] = Waiting]
    BY DEF Commit
  <1>2. Even(j.edition) /\ Upserting(j)
    BY <1>1 DEF ImportInv, ImporterOK
  <1>3. Elements(j.left) = {}
    BY <1>1 DEF Elements
  <1>4. /\ j.written = [t \in CatalogTables |-> j.written[t]]
        /\ \A t \in CatalogTables : j.written[t] = UpsertRows(catalog[t], j.edition[t])
    BY <1>2, <1>3 DEF Upserting
  <1>5. /\ importer' = [m \in Importers |-> importer'[m]]
        /\ importer'[i] = Waiting /\ \A m \in Importers \ {i} : importer'[m] = importer[m]
    BY <1>1 DEF ImportInv
  <1>6. \A m \in Importers : importer'[m].stage # "upserting"
    BY <1>1, <1>5 DEF ImportInv, Waiting
  <1>7. ASSUME NEW m \in Importers PROVE ImporterOK(m)'
    <2>1. CASE m = i
      BY <2>1, <1>5 DEF ImporterOK, Waiting
    <2>2. CASE m # i
      BY <2>2, <1>5, <1>6 DEF ImportInv, ImporterOK
    <2> QED  BY <2>1, <2>2
  <1>8. PICK S : editions \in Seq(S)
    BY DEF ImportInv
  <1>9. (\E T : editions \in Seq(T))'
    <2>1. editions \in Seq(S \cup {j.edition})
      BY <1>8
    <2>2. editions' \in Seq(S \cup {j.edition})
      BY <1>1, <2>1
    <2> QED  BY <2>2
  <1>10. Whole(j.written, Append(editions, j.edition))
    BY <1>2, <1>4, <1>8, WholeAfterCommit DEF ImportInv
  <1>11. Whole(catalog, editions)'
    BY <1>1, <1>10
  <1> QED  BY <1>1, <1>4, <1>5, <1>6, <1>7, <1>9, <1>11 DEF ImportInv

LEMMA RollBackInv ==
    ASSUME ImportInv, NEW i \in Importers, RollBack(i)
    PROVE  ImportInv'
  <1>1. /\ importer' = [importer EXCEPT ![i] = Waiting] /\ UNCHANGED <<catalog, editions>>
        /\ Waiting.stage = "waiting"
    BY DEF RollBack, Waiting
  <1> QED  BY <1>1, ImporterMoves

LEMMA ImportNextInv == ImportInv /\ [Next]_vars => ImportInv'
  <1> SUFFICES ASSUME ImportInv, [Next]_vars PROVE ImportInv'
    OBVIOUS
  <1>1. ASSUME NEW i \in Importers, Import(i) PROVE ImportInv'
    BY <1>1, VerifyInv, ReadTablesInv, UpsertCategoriesInv, UpsertTableInv, CommitInv, RollBackInv DEF Import
  <1>2. ASSUME UNCHANGED importVars PROVE ImportInv'
    <2>1. UNCHANGED <<catalog, importer, editions>>
      BY <1>2 DEF importVars
    <2>2. ASSUME NEW i \in Importers PROVE ImporterOK(i)'
      BY <2>1 DEF ImportInv, ImporterOK, Upserting
    <2>3. Whole(catalog, editions)'
      BY <2>1 DEF ImportInv
    <2> QED  BY <2>1, <2>2, <2>3 DEF ImportInv
  <1> QED  BY <1>1, <1>2 DEF Next, vars

-----------------------------------------------------------------------------
(* Types.                                                                  *)

Lefts == SUBSET UNION PatchSets

JobTyped(j) == j \in Jobs \/ (j.stage = "writing" /\ j.left \in Lefts)

Counts ==
    /\ maker \in [Directories -> Reports \cup {Nobody}]
    /\ starts \in 0..MaxStarts
    /\ crashes \in 0..MaxCrashes
    /\ imports \in 0..MaxImports

ChangeTypes ==
    /\ \A r \in Reports : report[r] # NoReport => report[r].status = "APPROVED"
    /\ \A r \in Reports : JobTyped(job[r])
    /\ Counts

LEMMA Patching ==
    ASSUME NEW d \in Directories, NEW left \in Lefts
    PROVE  JobTyped([stage |-> "patching", to |-> d, left |-> left])
  BY DEF JobTyped, Jobs, Lefts

LEMMA Copying ==
    ASSUME NEW from \in Directories, NEW to \in Directories, NEW left \in SUBSET Entries,
           NEW raises \in BOOLEAN
    PROVE  JobTyped([ stage |-> "copying", from |-> from, to |-> to, left |-> left,
                      raises |-> raises ])
  BY DEF JobTyped, Jobs

LEMMA OneFileLess ==
    ASSUME NEW k, k.stage = "copying", k.from \in Directories, k.to \in Directories,
           k.left \in SUBSET Entries,
           k = [ stage |-> k.stage, from |-> k.from, to |-> k.to, left |-> k.left,
                 raises |-> k.raises ],
           NEW name, NEW raises \in BOOLEAN
    PROVE  JobTyped([k EXCEPT !.left = @ \ {name}, !.raises = raises])
  <1> DEFINE j == [k EXCEPT !.left = @ \ {name}, !.raises = raises]
  <1>1. j = [field \in {"stage", "from", "to", "left", "raises"} |-> j[field]]
    OBVIOUS
  <1>2. /\ j.stage = "copying" /\ j.from = k.from /\ j.to = k.to
        /\ j.left = k.left \ {name} /\ j.raises = raises
    OBVIOUS
  <1>3. k.left \ {name} \in SUBSET Entries
    OBVIOUS
  <1> HIDE DEF j
  <1>4. j = [ stage |-> "copying", from |-> k.from, to |-> k.to, left |-> k.left \ {name},
              raises |-> raises ]
    BY <1>1, <1>2
  <1>5. JobTyped(j)
    BY <1>3, <1>4, Copying
  <1> QED  BY <1>5 DEF j

LEMMA WithDirectory ==
    ASSUME NEW d \in Directories, NEW stage \in {"summing", "loading", "failed"}
    PROVE  JobTyped([stage |-> stage, to |-> d])
  BY DEF JobTyped, Jobs

LEMMA LeftOf ==
    ASSUME NEW j, JobTyped(j), j.stage \in {"patching", "writing"}
    PROVE  j.left \in Lefts
  BY DEF JobTyped, Jobs, Lefts, Idle

\* What a process does next.
LEMMA JobsAreTyped ==
    ASSUME ChangeInv, ChangeTypes, NEW r \in Reports, Regenerate(r)
    PROVE  \A q \in Reports : JobTyped(job'[q])
  <1>0. /\ \A q \in Reports : JobTyped(job[q])
        /\ JobTyped(Idle)
    BY DEF ChangeTypes, JobTyped, Jobs
  <1>1. ASSUME NEW j, Goes(r, j), JobTyped(j) PROVE \A q \in Reports : JobTyped(job'[q])
    BY <1>0, <1>1 DEF Goes, ChangeInv, Shapes
  <1>2. ASSUME Goes(r, Idle) PROVE \A q \in Reports : JobTyped(job'[q])
    BY <1>0, <1>1, <1>2
  <1>3. active \in Directories /\ (job[r].stage # "idle" => job[r].to \in Directories)
    BY DEF ChangeInv, Shapes, JobOK
  <1>4. ASSUME NEW d \in Directories, StartRegeneration(r, d)
        PROVE  \A q \in Reports : JobTyped(job'[q])
    <2> DEFINE j == [stage |-> "hashed", from |-> active, to |-> d]
    <2>1. Goes(r, j) /\ JobTyped(j)
      BY <1>3, <1>4 DEF StartRegeneration, JobTyped, Jobs
    <2> HIDE DEF j
    <2> QED  BY <1>1, <2>1
  <1>5. CASE MakeDirectory(r)
    <2>1. CASE Goes(r, Idle)
      BY <1>2, <2>1
    <2>2. CASE ~ Goes(r, Idle)
      <3>1. PICK left \in SUBSET Entries :
              Goes(r, [ stage |-> "copying", from |-> job[r].from, to |-> job[r].to,
                        left |-> left, raises |-> FALSE ])
        BY <1>5, <2>2 DEF MakeDirectory
      <3>2. job[r].from \in Directories /\ job[r].to \in Directories
        BY <1>5 DEF ChangeInv, JobOK, MakeDirectory
      <3>3. JobTyped([ stage |-> "copying", from |-> job[r].from, to |-> job[r].to,
                       left |-> left, raises |-> FALSE ])
        BY <3>2, Copying
      <3> QED  BY <1>1, <3>1, <3>3
    <2> QED  BY <2>1, <2>2
  <1>13. CASE CopyFile(r)
    <2> DEFINE k == job[r]
    <2>1. \E name \in Entries : \E b \in BOOLEAN :
            Goes(r, [k EXCEPT !.left = @ \ {name}, !.raises = b])
      <3>1. PICK name \in Entries :
              Goes(r, [k EXCEPT !.left = @ \ {name},
                                !.raises = @ \/ \/ seed[k.from] = NoSeed
                                                \/ Content(seed[k.from], name) = NoFile])
        BY <1>13 DEF CopyFile
      <3> DEFINE b == k.raises \/ \/ seed[k.from] = NoSeed
                                 \/ Content(seed[k.from], name) = NoFile
      <3>2. b \in BOOLEAN
        OBVIOUS
      <3>3. Goes(r, [k EXCEPT !.left = @ \ {name}, !.raises = b])
        BY <3>1
      <3> HIDE DEF b, k
      <3> QED  BY <3>2, <3>3
    <2>2. PICK name \in Entries : \E b \in BOOLEAN :
            Goes(r, [k EXCEPT !.left = @ \ {name}, !.raises = b])
      BY <2>1
    <2>3. PICK b \in BOOLEAN : Goes(r, [k EXCEPT !.left = @ \ {name}, !.raises = b])
      BY <2>2
    <2>4. /\ k.stage = "copying" /\ k.from \in Directories /\ k.to \in Directories
          /\ k.left \subseteq Entries
      <3>1. k.stage = "copying" /\ JobTyped(k)
        BY <1>0, <1>13 DEF CopyFile
      <3> HIDE DEF k
      <3> QED  BY <3>1 DEF JobTyped, Jobs, Idle
    <2>5. k = [ stage |-> k.stage, from |-> k.from, to |-> k.to, left |-> k.left,
                raises |-> k.raises ]
      BY <2>4 DEF ChangeInv, JobOK, Copied
    <2> DEFINE j == [k EXCEPT !.left = @ \ {name}, !.raises = b]
    <2>6. JobTyped(j)
      <3> HIDE DEF k
      <3> QED  BY <2>4, <2>5, OneFileLess
    <2> HIDE DEF j
    <2> QED  BY <1>1, <2>3, <2>6 DEF j
  <1>14. CASE EndCopy(r)
    <2>1. CASE Goes(r, Idle)
      BY <1>2, <2>1
    <2>2. CASE ~ Goes(r, Idle)
      <3> DEFINE j == [stage |-> "patching", to |-> job[r].to, left |-> report[r].patches]
      <3>1. Goes(r, j) /\ job[r].to \in Directories
        BY <1>3, <1>14, <2>2 DEF EndCopy
      <3>2. report[r] # NoReport
        BY <1>14 DEF ChangeInv, JobOK, EndCopy
      <3>3. report[r].patches \in Lefts
        BY <3>2 DEF ChangeInv, ReportsOK, ReportOK, Lefts
      <3>4. JobTyped(j)
        BY <3>1, <3>3, Patching
      <3> HIDE DEF j
      <3> QED  BY <1>1, <3>1, <3>4
    <2> QED  BY <2>1, <2>2
  <1>6. CASE OpenPatchedFile(r)
    <2>1. job[r].left \in Lefts /\ job[r].to \in Directories
      BY <1>0, <1>3, <1>6, LeftOf DEF OpenPatchedFile
    <2>2. CASE Goes(r, [stage |-> "failed", to |-> job[r].to])
      <3>1. JobTyped([stage |-> "failed", to |-> job[r].to])
        BY <2>1, WithDirectory
      <3> QED  BY <1>1, <2>2, <3>1
    <2>3. CASE ~ Goes(r, [stage |-> "failed", to |-> job[r].to])
      <3>1. PICK p \in job[r].left :
              Goes(r, [ stage |-> "writing", to |-> job[r].to, left |-> job[r].left \ {p},
                        filename |-> p.filename,
                        rows |-> Patched(Target(r).files[p.filename], p) ])
        BY <1>6, <2>3 DEF OpenPatchedFile
      <3> DEFINE j == [ stage |-> "writing", to |-> job[r].to, left |-> job[r].left \ {p},
                        filename |-> p.filename,
                        rows |-> Patched(Target(r).files[p.filename], p) ]
      <3>2. j.stage = "writing" /\ j.left \in Lefts
        BY <2>1 DEF Lefts
      <3> HIDE DEF j
      <3>3. JobTyped(j)
        BY <3>2 DEF JobTyped
      <3> QED  BY <1>1, <3>1, <3>3 DEF j
    <2> QED  BY <2>2, <2>3
  <1>7. CASE WritePatchedFile(r)
    <2> DEFINE j == [stage |-> "patching", to |-> job[r].to, left |-> job[r].left]
    <2>1. Goes(r, j)
      BY <1>7 DEF WritePatchedFile
    <2>2. job[r].left \in Lefts /\ job[r].to \in Directories
      BY <1>0, <1>3, <1>7, LeftOf DEF WritePatchedFile
    <2>3. JobTyped(j)
      BY <2>2, Patching
    <2> HIDE DEF j
    <2> QED  BY <1>1, <2>1, <2>3
  <1>8. ASSUME NEW stage \in {"summing", "loading", "failed"},
               Goes(r, [stage |-> stage, to |-> job[r].to]), job[r].stage # "idle"
        PROVE  \A q \in Reports : JobTyped(job'[q])
    <2>1. JobTyped([stage |-> stage, to |-> job[r].to])
      BY <1>3, <1>8, WithDirectory
    <2> QED  BY <1>1, <1>8, <2>1
  <1>9. CASE OpenChecksums(r)
    BY <1>8, <1>9 DEF OpenChecksums
  <1>10. CASE WriteChecksums(r)
    BY <1>8, <1>10 DEF WriteChecksums
  <1>11. CASE Validate(r)
    <2>1. CASE Goes(r, Idle)
      BY <1>2, <2>1
    <2>2. CASE ~ Goes(r, Idle)
      BY <1>8, <1>11, <2>2 DEF Validate
    <2> QED  BY <2>1, <2>2
  <1>12. CASE RemoveTree(r) \/ CrashInCopy(r) \/ CrashInRemoval(r) \/ CrashBetweenWrites(r)
    BY <1>2, <1>12 DEF RemoveTree, CrashInCopy, CrashInRemoval, CrashBetweenWrites, EndProcess
  <1> QED  BY <1>4, <1>5, <1>6, <1>7, <1>9, <1>10, <1>11, <1>12, <1>13, <1>14
           DEF Regenerate

LEMMA CountsStay ==
    ASSUME ChangeInv, Counts, [Next]_vars
    PROVE  Counts'
  <1>1. ASSUME NEW r \in Reports, Regenerate(r), UNCHANGED importVars PROVE Counts'
    <2>1. imports' = imports
      BY <1>1 DEF importVars
    <2>2. ASSUME NEW d, NEW part, maker' = [maker EXCEPT ![d] = r]
          PROVE  maker' \in [Directories -> Reports \cup {Nobody}]
      BY <2>2 DEF Counts
    <2>3. maker' \in [Directories -> Reports \cup {Nobody}]
      BY <1>1, <2>2 DEF Counts, Regenerate, StartRegeneration, MakeDirectory, CopyFile, EndCopy, CopyRaises,
         OpenPatchedFile, WritePatchedFile, OpenChecksums, WriteChecksums, Validate, RemoveTree,
         CrashInCopy, CrashInRemoval, CrashBetweenWrites
    <2>4. /\ starts' = starts \/ (starts < MaxStarts /\ starts' = starts + 1)
          /\ crashes' = crashes \/ (crashes < MaxCrashes /\ crashes' = crashes + 1)
      BY <1>1 DEF Regenerate, StartRegeneration, MakeDirectory, CopyFile, EndCopy, OpenPatchedFile, WritePatchedFile,
         OpenChecksums, WriteChecksums, Validate, RemoveTree, CrashInCopy, CrashInRemoval,
         CrashBetweenWrites, EndProcess
    <2>5. starts' \in 0..MaxStarts /\ crashes' \in 0..MaxCrashes
      BY <2>4, PolicyChangesAssumption DEF Counts
    <2> QED  BY <2>1, <2>3, <2>5 DEF Counts
  <1>2. ASSUME UNCHANGED <<maker, starts, crashes, imports>> PROVE Counts'
    BY <1>2 DEF Counts
  <1>3. ASSUME NEW i \in Importers, Import(i) PROVE Counts'
    <2>1. UNCHANGED <<maker, starts, crashes>>
      BY <1>3 DEF Import, Verify, ReadTables, UpsertCategories, UpsertTable, Commit, RollBack, changeVars
    <2>2. imports' \in 0..MaxImports
      BY <1>3, SeedImportAssumption DEF Counts, Import, Verify, ReadTables, UpsertCategories, UpsertTable,
         Commit, RollBack
    <2> QED  BY <2>1, <2>2 DEF Counts
  <1>4. ASSUME \/ \E r \in Reports : Review(r)
               \/ \E d \in Directories : Deploy(d)
               \/ UNCHANGED changeVars,
               UNCHANGED importVars
        PROVE  Counts'
    BY <1>2, <1>4 DEF Review, Deploy, changeVars, importVars
  <1> QED  BY <1>1, <1>3, <1>4 DEF Next, ChangeNext, vars

LEMMA TypesStay ==
    ASSUME ChangeInv, ChangeTypes, [Next]_vars
    PROVE  ChangeTypes'
  <1>1. Counts'
    BY CountsStay DEF ChangeTypes
  <1>2. ASSUME UNCHANGED <<report, job>> PROVE ChangeTypes'
    BY <1>1, <1>2 DEF ChangeTypes
  <1>3. ASSUME NEW r \in Reports, Regenerate(r) PROVE ChangeTypes'
    <2>1. report' = report
      BY <1>3 DEF Regenerate, StartRegeneration, MakeDirectory, CopyFile, EndCopy, OpenPatchedFile, WritePatchedFile,
         OpenChecksums, WriteChecksums, Validate, RemoveTree, CrashInCopy, CrashInRemoval,
         CrashBetweenWrites, EndProcess
    <2>2. \A q \in Reports : JobTyped(job'[q])
      BY <1>3, JobsAreTyped
    <2> QED  BY <1>1, <2>1, <2>2 DEF ChangeTypes
  <1>4. ASSUME NEW r \in Reports, Review(r) PROVE ChangeTypes'
    <2>1. PICK baseline \in Baselines, snapshot \in Snapshots, patches \in PatchSets :
            LET built == BuildReviewReport(baseline, snapshot)
            IN  report' = [report EXCEPT ![r] = ApproveReport(BeginReview(built), patches)]
      BY <1>4 DEF Review
    <2> DEFINE rep == ApproveReport(BeginReview(BuildReviewReport(baseline, snapshot)), patches)
    <2>2. report' = [report EXCEPT ![r] = rep] /\ rep.status = "APPROVED"
      BY <2>1 DEF ApproveReport, BeginReview, BuildReviewReport
    <2> HIDE DEF rep
    <2>3. \A q \in Reports : report'[q] # NoReport => report'[q].status = "APPROVED"
      BY <2>2 DEF ChangeInv, Shapes, ChangeTypes
    <2> QED  BY <1>1, <1>4, <2>3 DEF Review, ChangeTypes
  <1>5. ASSUME \/ \E d \in Directories : Deploy(d)
               \/ UNCHANGED changeVars
        PROVE  UNCHANGED <<report, job>>
    BY <1>5 DEF Deploy, changeVars
  <1>6. ASSUME NEW i \in Importers, Import(i) PROVE UNCHANGED <<report, job>>
    BY <1>6 DEF Import, Verify, ReadTables, UpsertCategories, UpsertTable, Commit, RollBack, changeVars
  <1> QED  BY <1>2, <1>3, <1>4, <1>5, <1>6 DEF Next, ChangeNext, vars

LEMMA TypesInitially == Init => ChangeTypes
  BY PolicyChangesAssumption, SeedImportAssumption
  DEF Init, ChangeInit, ImportInit, ChangeTypes, Counts, JobTyped, Jobs

LEMMA TypesFollow == ChangeInv /\ ChangeTypes /\ ImportInv => TypeOK
  <1> SUFFICES ASSUME ChangeInv, ChangeTypes, ImportInv PROVE TypeOK
    OBVIOUS
  <1>1. ASSUME NEW d \in Directories, seed[d] # NoSeed PROVE DOMAIN seed[d].files = Files
    BY <1>1 DEF ChangeInv, SeedsOK, IsSeed
  <1>2. ChangeTypeOK
    BY <1>1 DEF ChangeTypes, Counts, JobTyped, ChangeTypeOK, ChangeInv, Shapes
  <1>3. DOMAIN catalog = CatalogTables
    BY DEF ImportInv
  <1> QED  BY <1>2, <1>3 DEF TypeOK, ImportInv, ImporterOK, ChangeTypes, Counts

-----------------------------------------------------------------------------
(* Theorems.                                                               *)

\* Importers read the directories and never write them, so that what is proved of the
\* workflow holds beside them.
THEOREM ImportersOnlyRead == Spec => ChangeSpec
  <1>1. Init => ChangeInit
    BY DEF Init
  <1>2. [Next]_vars => [ChangeNext]_changeVars
    BY DEF Next, vars, Import, Verify, ReadTables, UpsertCategories, UpsertTable, Commit, RollBack
  <1> QED  BY <1>1, <1>2, PTL DEF Spec, ChangeSpec

THEOREM ImportInvariant == Spec => []ImportInv
  BY ImportInitInv, ImportNextInv, PTL DEF Spec

\* Every variable has its type, the jobs and the directories they work on included.
THEOREM TypeCorrect == Spec => []TypeOK
  <1>1. Spec => [](ChangeInv /\ ImportInv)
    BY ImportersOnlyRead, ChangeInvariant, ImportInvariant, PTL
  <1>2. ChangeInv /\ ChangeTypes /\ [Next]_vars => ChangeTypes'
    BY TypesStay
  <1> QED  BY <1>1, <1>2, TypesInitially, TypesFollow, PTL DEF Spec

\* The catalogue holds the last edition, and every other policy as one edition had it.
THEOREM CatalogsAreWhole == Spec => []CatalogIsOfWholeEditions
  <1>1. ImportInv => CatalogIsOfWholeEditions
    <2> SUFFICES ASSUME ImportInv PROVE CatalogIsOfWholeEditions
      OBVIOUS
    <2>1. Whole(catalog, editions)
      BY DEF ImportInv
    <2>2. \A n \in DOMAIN editions : editions[n] \in Seen
      BY DEF Seen
    <2> QED  BY <2>1, <2>2 DEF Whole, CatalogIsOfWholeEditions
  <1> QED  BY <1>1, ImportInvariant, PTL

=============================================================================
