------------------------------ MODULE Outputs -------------------------------
(* How the program writes a file of its own: an export (safe_export.py) or a *)
(* thumbnail (thumbnails.py), through the POSIX installer of secure_write.py *)
(* under the source-tree and the operational authority of the catalogue.     *)
(*                                                                           *)
(* A folder or a file is a file-system object; a path names a folder, and a  *)
(* folder has names for files. A descriptor stays on its object. Writer w    *)
(* makes file w, in folder w if it had to make the folder. Several writers   *)
(* run at once: the desktop, its thumbnails, and the command line. Between   *)
(* any two of their system calls people move folders and photographs.        *)
EXTENDS Naturals, FiniteSets

CONSTANTS
    Exports, Thumbs,        \* operations that write one file
    Folders, Photos,        \* objects of the people
    Paths, LibraryPaths,    \* places of folders; those in a library
    Placed,                 \* where the folders are at first
    None,
    MaxOutside              \* bound: what people do

Writers == Exports \cup Thumbs
Output == <<"output", None>>
Temp(w) == <<"temp", w>>
Spare(w) == <<"rollback", w>>
Names == {Output} \cup {Temp(w) : w \in Writers} \cup {Spare(w) : w \in Writers}
AllFolders == Folders \cup Writers
AllFiles == Photos \cup Writers

ASSUME OutputsAssumption ==
    /\ LibraryPaths \subseteq Paths
    /\ Placed \in [Paths -> Folders \cup {None}]
    /\ None \notin AllFolders \cup AllFiles
    /\ Exports \cap Thumbs = {} /\ Writers \cap (Folders \cup Photos) = {}
    /\ MaxOutside \in Nat

VARIABLES
    at,         \* the folder at each path
    entry,      \* the file at each name of each folder
    whole,      \* files of the program that are completely written
    observed,   \* library_directory_identities: folders ever seen in a library
    complete,   \* libraries.source_tree_identity_complete
    enrolled,   \* operational_directories
    owned,      \* operational_files
    job,        \* what each writer is doing
    outside     \* how often people acted

disk == <<at, entry, whole>>
authority == <<observed, complete, enrolled, owned>>
vars == <<disk, authority, job, outside>>

Steps == {"idle", "binding", "bound", "admitted", "writing", "written", "checked",
          "parking", "parked", "ready", "acquired", "attested",
          "restoring", "done", "refused", "dead"}

NoJob == [step |-> "idle", path |-> None, folder |-> None, made |-> FALSE,
          forbidden |-> {}, expected |-> None, spared |-> FALSE]

TypeOK ==
    /\ at \in [Paths -> AllFolders \cup {None}]
    /\ entry \in [AllFolders -> [Names -> AllFiles \cup {None}]]
    /\ whole \subseteq Writers
    /\ observed \subseteq AllFolders /\ complete \in BOOLEAN
    /\ enrolled \in [Paths -> AllFolders \cup {None}]
    /\ owned \in [Paths -> Writers \cup {None}]
    /\ job \in [Writers -> [step : Steps, path : Paths \cup {None},
                            folder : AllFolders \cup {None}, made : BOOLEAN,
                            forbidden : SUBSET AllFolders,
                            expected : Writers \cup {None}, spared : BOOLEAN]]
    /\ outside \in 0..MaxOutside

\* A photograph lies in each library folder; the program has written nothing.
Init ==
    /\ at = Placed
    /\ \E photo \in [Folders -> Photos] :
         entry = [d \in AllFolders |-> [n \in Names |->
                    IF n = Output /\ d \in {at[p] : p \in LibraryPaths}
                    THEN photo[d] ELSE None]]
    /\ whole = {}
    /\ observed = {at[p] : p \in LibraryPaths} \ {None}
    /\ complete = TRUE
    /\ enrolled = [p \in Paths |-> None] /\ owned = [p \in Paths |-> None]
    /\ job = [w \in Writers |-> NoJob]
    /\ outside = 0

(***************************************************************************)
(* Primitives                                                               *)
(***************************************************************************)
\* The file a path names now: nothing where there is no folder.
Named(p) == IF at[p] = None THEN None ELSE entry[at[p]][Output]

\* Ordinary rename(): what is at the new name is lost.
RenameOver(d, from, to) ==
    /\ entry[d][from] # None
    /\ entry' = [entry EXCEPT ![d] = [@ EXCEPT ![from] = None, ![to] = entry[d][from]]]

\* renameat2(RENAME_NOREPLACE): the new name is free at that very moment.
Rename(d, from, to) ==
    /\ entry[d][from] # None /\ entry[d][to] = None
    /\ entry' = [entry EXCEPT ![d] = [@ EXCEPT ![from] = None, ![to] = entry[d][from]]]

\* The place is outside the libraries, and its file is no catalogued one.
Exportable(p) == p \notin LibraryPaths /\ Named(p) \notin Photos

\* The folder is still at its path, and the temporary file at its name.
Intact(w) ==
    /\ at[job[w].path] = job[w].folder
    /\ entry[job[w].folder][Temp(w)] = w

\* No catalogued path is aliased: for a thumbnail there is nothing to check.
Valid(w) == w \in Exports => Exportable(job[w].path)

To(w, step) == job' = [job EXCEPT ![w].step = step]
At(w, step) == job[w].step = step

(***************************************************************************)
(* Choosing the folder                                                      *)
(***************************************************************************)
\* One snapshot of what belongs to the libraries: refused unless a complete
\* scan says so (validate_export_destination, from_connection).
Begin(w) ==
    /\ At(w, "idle") /\ complete
    /\ \E p \in Paths \ LibraryPaths :
         /\ w \in Exports => Exportable(p)
         /\ job' = [job EXCEPT ![w].step = "binding", ![w].path = p,
                               ![w].forbidden = observed]
    /\ UNCHANGED <<disk, authority, outside>>

\* The folder that is there, unless it was ever seen in a library.
Bind(w) ==
    LET d == at[job[w].path] IN
    /\ At(w, "binding") /\ d # None
    /\ d \notin job[w].forbidden /\ Valid(w)
    /\ job' = [job EXCEPT ![w].step = "bound", ![w].folder = d]
    /\ UNCHANGED <<disk, authority, outside>>

\* mkdir: exclusively, through the descriptor of the parent.
Make(w) ==
    /\ At(w, "binding") /\ at[job[w].path] = None
    /\ at' = [at EXCEPT ![job[w].path] = w]
    /\ job' = [job EXCEPT ![w].step = "bound", ![w].folder = w, ![w].made = TRUE]
    /\ UNCHANGED <<entry, whole, authority, outside>>

\* Mutant: the record of the path is enough, whichever folder is there now.
AdmitKnownPath(w) ==
    LET j == job[w] IN
    /\ At(w, "bound") /\ at[j.path] = j.folder
    /\ \/ enrolled[j.path] # None /\ UNCHANGED enrolled
       \/ /\ enrolled[j.path] = None /\ j.made
          /\ \A p \in Paths : enrolled[p] # j.folder
          /\ enrolled' = [enrolled EXCEPT ![j.path] = j.folder]
    /\ w \in Exports => Named(j.path) \in {None, owned[j.path]}
    /\ To(w, "admitted")
    /\ UNCHANGED <<disk, observed, complete, owned, outside>>

\* require_directory: the recorded folder of the path, or one made just now.
\* What an export finds there must be an export the program owns.
Admit(w) ==
    LET j == job[w] IN
    /\ At(w, "bound") /\ at[j.path] = j.folder
    /\ \/ enrolled[j.path] = j.folder /\ UNCHANGED enrolled
       \/ /\ enrolled[j.path] = None /\ j.made
          /\ \A p \in Paths : enrolled[p] # j.folder
          /\ enrolled' = [enrolled EXCEPT ![j.path] = j.folder]
    /\ w \in Exports => Named(j.path) \in {None, owned[j.path]}
    /\ To(w, "admitted")
    /\ UNCHANGED <<disk, observed, complete, owned, outside>>

(***************************************************************************)
(* Writing                                                                  *)
(***************************************************************************)
\* A new file in the authorised folder, which must be at its path.
Create(w) ==
    LET d == job[w].folder IN
    /\ At(w, "admitted") /\ at[job[w].path] = d /\ entry[d][Temp(w)] = None
    /\ entry' = [entry EXCEPT ![d][Temp(w)] = w]
    /\ To(w, "writing")
    /\ UNCHANGED <<at, whole, authority, outside>>

\* The bytes go to the descriptor; fsync, and everything is still in place.
Write(w) ==
    /\ At(w, "writing") /\ Intact(w)
    /\ whole' = whole \cup {w}
    /\ To(w, "written")
    /\ UNCHANGED <<at, entry, authority, outside>>

\* Mutant: an error of the body does not keep the file from being installed.
CheckUnfinished(w) ==
    LET p == job[w].path IN
    /\ At(w, "written") \/ At(w, "writing")
    /\ Valid(w)
    /\ Named(p) \in {None, owned[p]}
    /\ job' = [job EXCEPT ![w].step = "checked", ![w].expected = Named(p)]
    /\ UNCHANGED <<disk, authority, outside>>

\* What may be replaced: the owned file, if the path names it now.
Check(w) ==
    LET p == job[w].path IN
    /\ At(w, "written") /\ Valid(w)
    /\ Named(p) \in {None, owned[p]}
    /\ job' = [job EXCEPT ![w].step = "checked", ![w].expected = Named(p)]
    /\ UNCHANGED <<disk, authority, outside>>

(***************************************************************************)
(* BoundTemporaryFile.install                                               *)
(***************************************************************************)
Look(w) ==
    LET j == job[w] IN
    /\ At(w, "checked") /\ Intact(w)
    /\ entry[j.folder][Output] = j.expected
    /\ To(w, IF j.expected = None THEN "parked" ELSE "parking")
    /\ UNCHANGED <<disk, authority, outside>>

\* What has the name goes aside. If it is not what was expected the writer
\* gives up and leaves it there.
Park(w) ==
    LET j == job[w] IN
    /\ At(w, "parking")
    /\ Rename(j.folder, Output, Spare(w))
    /\ job' = IF entry[j.folder][Output] = j.expected
              THEN [job EXCEPT ![w].step = "parked", ![w].spared = TRUE]
              ELSE [job EXCEPT ![w].step = "refused"]
    /\ UNCHANGED <<at, whole, authority, outside>>

Ready(w) ==
    /\ At(w, "parked") /\ Intact(w)
    /\ To(w, "ready")
    /\ UNCHANGED <<disk, authority, outside>>

Acquire(w) ==
    /\ At(w, "ready")
    /\ Rename(job[w].folder, Temp(w), Output)
    /\ To(w, "acquired")
    /\ UNCHANGED <<at, whole, authority, outside>>

Attest(w) ==
    /\ At(w, "acquired") /\ entry[job[w].folder][Output] = w
    /\ To(w, "attested")
    /\ UNCHANGED <<disk, authority, outside>>

\* Mutant: the record is learnt from what the path names.
RecordByPath(w) ==
    LET p == job[w].path IN
    /\ At(w, "attested") /\ Named(p) # None
    /\ owned' = [owned EXCEPT ![p] = Named(p)]
    /\ To(w, "done")
    /\ UNCHANGED <<disk, observed, complete, enrolled, outside>>

\* record_owned_file_identity: the object that was installed, not the one
\* that has its name by now.
Record(w) ==
    /\ At(w, "attested")
    /\ owned' = [owned EXCEPT ![job[w].path] = w]
    /\ To(w, "done")
    /\ UNCHANGED <<disk, observed, complete, enrolled, outside>>

(***************************************************************************)
(* Failure                                                                  *)
(***************************************************************************)
\* Any check that fails, any error.
Fail(w) ==
    /\ job[w].step \notin {"idle", "restoring", "done", "refused", "dead"}
    /\ To(w, IF job[w].spared /\ ~At(w, "attested") THEN "restoring" ELSE "refused")
    /\ UNCHANGED <<disk, authority, outside>>

\* The old file gets its name back if nobody has it.
Restore(w) ==
    /\ At(w, "restoring")
    /\ \/ Rename(job[w].folder, Spare(w), Output)
       \/ /\ entry[job[w].folder][Spare(w)] = None \/ entry[job[w].folder][Output] # None
          /\ UNCHANGED entry
    /\ To(w, "refused")
    /\ UNCHANGED <<at, whole, authority, outside>>

\* The process dies. Nothing is cleaned up, then or later.
Die(w) ==
    /\ job[w].step \notin {"idle", "done", "refused", "dead"}
    /\ To(w, "dead")
    /\ UNCHANGED <<disk, authority, outside>>

(***************************************************************************)
(* Scans and people                                                         *)
(***************************************************************************)
ScanOpen ==
    /\ complete /\ complete' = FALSE
    /\ UNCHANGED <<disk, observed, enrolled, owned, job, outside>>

\* Directories are added, never forgotten.
ScanCommit ==
    /\ ~complete /\ complete' = TRUE
    /\ observed' = observed \cup ({at[p] : p \in LibraryPaths} \ {None})
    /\ UNCHANGED <<disk, enrolled, owned, job, outside>>

Outsider ==
    /\ outside < MaxOutside /\ outside' = outside + 1
    /\ UNCHANGED <<whole, observed, complete, owned, job>>

\* A person trusts an existing folder with exports.
Enroll ==
    /\ Outsider /\ complete
    /\ \E p \in Paths \ LibraryPaths :
         /\ at[p] \notin observed \cup {None} /\ enrolled[p] = None
         /\ Exportable(p)
         /\ \A q \in Paths : enrolled[q] # at[p]
         /\ enrolled' = [enrolled EXCEPT ![p] = at[p]]
    /\ UNCHANGED <<at, entry>>

MoveFolder ==
    /\ Outsider
    /\ \E p, q \in Paths :
         /\ at[p] # None /\ at[q] = None
         /\ at' = [at EXCEPT ![p] = None, ![q] = at[p]]
    /\ UNCHANGED <<entry, enrolled>>

\* A photograph is moved to a free name, PPA's own names included.
MovePhoto ==
    /\ Outsider
    /\ \E d, e \in AllFolders : \E n, m \in Names :
         /\ entry[d][n] \in Photos /\ entry[e][m] = None
         /\ \E p, q \in Paths : at[p] = d /\ at[q] = e
         /\ entry' = [entry EXCEPT ![d][n] = None, ![e][m] = entry[d][n]]
    /\ UNCHANGED <<at, enrolled>>

\* A file of the program is deleted.
Delete ==
    /\ Outsider
    /\ \E d \in AllFolders : \E n \in Names :
         /\ entry[d][n] \in Writers
         /\ entry' = [entry EXCEPT ![d][n] = None]
    /\ UNCHANGED <<at, enrolled>>

Choosing(w) == Bind(w) \/ Make(w) \/ Admit(w)
Writing(w) == Create(w) \/ Write(w) \/ Check(w)
Installing(w) == Look(w) \/ Park(w) \/ Ready(w) \/ Acquire(w) \/ Attest(w) \/ Record(w)

Operation(w) ==
    \/ Begin(w) \/ Choosing(w) \/ Writing(w) \/ Installing(w)
    \/ Fail(w) \/ Restore(w) \/ Die(w)

Next ==
    \/ \E w \in Writers : Operation(w)
    \/ ScanOpen \/ ScanCommit
    \/ Enroll \/ MoveFolder \/ MovePhoto \/ Delete

Spec == Init /\ [][Next]_vars

-----------------------------------------------------------------------------
(* Properties                                                                *)

\* No step of the program makes a file leave its folder or lose its last name,
\* whatever arrived at any name after the program had looked: renames never
\* replace, rollback never deletes, and debris stays (secure_write).
NothingDestroyed ==
    [][outside' = outside =>
        \A d \in AllFolders : \A n \in Names :
            entry[d][n] # None => \E m \in Names : entry'[d][m] = entry[d][n]]_vars

\* The program changes the entries of a folder only if that very object is
\* recorded as the program's and was in no library when the operation began,
\* wherever people have moved it, or another folder to its path.
OnlyOwnFolders ==
    [][outside' = outside =>
        \A d \in AllFolders : entry'[d] # entry[d] =>
            /\ \E p \in Paths : enrolled[p] = d
            /\ \E w \in Writers : job'[w] # job[w] /\ d \notin job[w].forbidden]_vars

\* The program comes to own only what it made itself or a person entrusted:
\* the installed file, and the folder its own mkdir made.
OwnershipEarned ==
    [][\A p \in Paths :
        /\ owned'[p] # owned[p] => owned'[p] \in whole
        /\ enrolled'[p] # enrolled[p] => enrolled'[p] \in Writers \/ outside' # outside]_vars

\* The output name of a folder never shows a half-written file, although
\* writers die at any step.
WholeOutput == \A d \in AllFolders : entry[d][Output] \in whole \cup Photos \cup {None}

\* A writer that gave up has put aside nothing but what it was allowed to
\* replace: what it displaced by mistake has its name again
\* (docs/PHASE14_1_15_POSITIVE_OWNERSHIP_PROOF_BINDING.md: "rollback restores
\* the displaced object and installation fails").
DisplacedIsRestored ==
    \A w \in Writers : job[w].step = "refused" /\ job[w].folder # None =>
        entry[job[w].folder][Spare(w)] \in {None, job[w].expected}
=============================================================================
