---------------------------- MODULE OutputsProofs ----------------------------
(***************************************************************************)
(* What the writers of outputs never do, for any number of writers, paths, *)
(* folders and photographs, and whatever people do in between.             *)
(*                                                                         *)
(* The argument: what a name may show is a matter of the name. A temporary *)
(* name shows its writer's file or a photograph, a rollback name a file    *)
(* that was an output; and a writer is let past the authority check only   *)
(* with a folder that its path is enrolled for, and enrolment is for ever. *)
(***************************************************************************)
EXTENDS Outputs, TLAPS

Late == {"written", "checked", "parking", "parked", "ready", "acquired", "attested"}
Trusted == {"admitted", "writing", "restoring"} \cup Late

\* A job that may change the entries of its folder.
Granted(j) ==
    /\ j.path \in Paths /\ enrolled[j.path] = j.folder
    /\ j.folder \in AllFolders /\ j.folder \notin j.forbidden

Fits(w, j) ==
    /\ j.step \in Late => w \in whole
    /\ j.step \in {"binding", "bound"} => j.path \in Paths
    /\ j.step = "bound" => j.folder \in AllFolders /\ j.folder \notin j.forbidden
    /\ j.step \in Trusted \/ j.spared => Granted(j)
    /\ j.made => j.folder = w
    /\ j.step = "binding" => w \notin j.forbidden
    /\ j.step = "idle" => j = NoJob
    /\ j.step \in {"idle", "binding"} =>
          /\ w \notin observed /\ \A p \in Paths : at[p] # w
          /\ ~j.made /\ ~j.spared

WritersFit == \A w \in Writers : Fits(w, job[w])

\* What each name of a folder may show.
Shows == \A d \in AllFolders :
    /\ entry[d][Output] \in whole \cup Photos \cup {None}
    /\ \A w \in Writers :
        /\ entry[d][Temp(w)] \in {w} \cup Photos \cup {None}
        /\ entry[d][Spare(w)] \in whole \cup Photos \cup {None}

Inv == TypeOK /\ WritersFit /\ Shows

USE OutputsAssumption

Jobs == [step : Steps, path : Paths \cup {None}, folder : AllFolders \cup {None},
         made : BOOLEAN, forbidden : SUBSET AllFolders,
         expected : Writers \cup {None}, spared : BOOLEAN]

\* Temporary, rollback and output names never coincide.
LEMMA NamesApart ==
    /\ Output \in Names
    /\ \A w \in Writers : /\ Temp(w) \in Names /\ Spare(w) \in Names
                          /\ Temp(w) # Output /\ Spare(w) # Output
                          /\ \A u \in Writers : /\ Temp(w) # Spare(u)
                                                /\ Temp(w) = Temp(u) => w = u
                                                /\ Spare(w) = Spare(u) => w = u
    /\ \A n \in Names : n = Output \/ \E w \in Writers : n = Temp(w) \/ n = Spare(w)
BY DEF Names, Output, Temp, Spare

-----------------------------------------------------------------------------
LEMMA InitInv == Init => Inv
<1> SUFFICES ASSUME Init PROVE Inv
  OBVIOUS
<1> PICK photo \in [Folders -> Photos] :
      entry = [d \in AllFolders |-> [n \in Names |->
                 IF n = Output /\ d \in {at[p] : p \in LibraryPaths}
                 THEN photo[d] ELSE None]]
  BY DEF Init
<1>1. ASSUME NEW d \in AllFolders, NEW n \in Names
      PROVE  /\ entry[d][n] \in Photos \cup {None}
             /\ n # Output => entry[d][n] = None
  <2>1. d \in {at[p] : p \in LibraryPaths} => d \in Folders
    BY DEF Init, AllFolders
  <2> QED BY <2>1
<1>2. entry \in [AllFolders -> [Names -> AllFiles \cup {None}]]
  BY <1>1 DEF AllFiles
<1>3. NoJob \in Jobs
  BY DEF NoJob, Jobs, Steps
<1>4. TypeOK
  BY <1>2, <1>3 DEF Init, TypeOK, Jobs, AllFolders
<1>5. Shows
  BY <1>1, NamesApart DEF Shows
<1>6. ASSUME NEW w \in Writers PROVE Fits(w, job[w])
  <2>1. job[w] = NoJob
    BY DEF Init
  <2>2. w \notin observed /\ \A p \in Paths : at[p] # w
    BY DEF Init, AllFolders, AllFiles, Writers
  <2> QED BY <2>1, <2>2 DEF Fits, NoJob, Late, Trusted
<1> QED BY <1>4, <1>5, <1>6 DEF Inv, WritersFit

-----------------------------------------------------------------------------
(* One step of one writer.                                                   *)

\* Renaming to a free name moves one file and keeps what the names may show.
LEMMA RenameMoves ==
    ASSUME Inv, NEW d \in AllFolders, NEW from \in Names, NEW to \in Names,
           Rename(d, from, to)
    PROVE  /\ from # to
           /\ entry' \in [AllFolders -> [Names -> AllFiles \cup {None}]]
           /\ entry'[d][to] = entry[d][from] /\ entry'[d][from] = None
           /\ \A n \in Names \ {from, to} : entry'[d][n] = entry[d][n]
           /\ \A e \in AllFolders \ {d} : entry'[e] = entry[e]
           /\ \A n \in Names : entry[d][n] # None =>
                  \E m \in Names : entry'[d][m] = entry[d][n]
<1>1. from # to
  BY DEF Rename
<1>2. /\ entry[d] \in [Names -> AllFiles \cup {None}]
      /\ entry \in [AllFolders -> [Names -> AllFiles \cup {None}]]
  BY DEF Inv, TypeOK
<1> DEFINE new == [entry[d] EXCEPT ![from] = None, ![to] = entry[d][from]]
<1>3. /\ new \in [Names -> AllFiles \cup {None}]
      /\ new[to] = entry[d][from] /\ new[from] = None
      /\ \A n \in Names \ {from, to} : new[n] = entry[d][n]
  BY <1>1, <1>2
<1>4. entry' = [entry EXCEPT ![d] = new]
  BY DEF Rename
<1> HIDE DEF new
<1>5. /\ entry' \in [AllFolders -> [Names -> AllFiles \cup {None}]]
      /\ entry'[d] = new
      /\ \A e \in AllFolders \ {d} : entry'[e] = entry[e]
  BY <1>2, <1>3, <1>4
<1>6. entry[d][to] = None
  BY DEF Rename
<1>7. ASSUME NEW n \in Names, entry[d][n] # None
      PROVE  \E m \in Names : entry'[d][m] = entry[d][n]
  <2>1. CASE n = from
    BY <1>3, <1>5, <2>1
  <2>2. CASE n # from
    BY <1>3, <1>5, <1>6, <1>7, <2>2
  <2> QED BY <2>1, <2>2
<1> QED BY <1>1, <1>3, <1>5, <1>7

\* A job that only takes another step keeps the rest.
LEMMA StepChanges ==
    ASSUME Inv, NEW w \in Writers, NEW s \in Steps, To(w, s)
    PROVE  /\ job' \in [Writers -> Jobs]
           /\ job'[w].step = s
           /\ job'[w].path = job[w].path /\ job'[w].folder = job[w].folder
           /\ job'[w].made = job[w].made /\ job'[w].spared = job[w].spared
           /\ job'[w].forbidden = job[w].forbidden
           /\ \A v \in Writers \ {w} : job'[v] = job[v]
<1>1. job \in [Writers -> Jobs]
  BY DEF Inv, TypeOK, Jobs
<1>2. job[w] \in Jobs /\ [job[w] EXCEPT !.step = s] \in Jobs
  BY <1>1 DEF Jobs
<1>3. job' = [job EXCEPT ![w] = [job[w] EXCEPT !.step = s]]
  BY DEF To
<1> QED BY <1>1, <1>2, <1>3 DEF Jobs

\* Nothing that a job of another writer rests on is ever taken back.
LEMMA OthersFit ==
    ASSUME Inv, NEW v \in Writers, job'[v] = job[v], whole \subseteq whole',
           \A p \in Paths : enrolled[p] # None => enrolled'[p] = enrolled[p],
           (v \notin observed /\ \A p \in Paths : at[p] # v)
             => (v \notin observed' /\ \A p \in Paths : at'[p] # v)
    PROVE  Fits(v, job[v])'
<1>1. Fits(v, job[v])
  BY DEF Inv, WritersFit
<1>2. None \notin AllFolders
  OBVIOUS
<1>3. Granted(job[v]) => Granted(job[v])'
  BY <1>2 DEF Granted
<1> QED BY <1>1, <1>3 DEF Fits

\* A step that leaves folders and records alone.
LEMMA StepFits ==
    ASSUME Inv, NEW w \in Writers, NEW s \in Steps, To(w, s),
           ~At(w, "idle"), s \notin {"idle", "binding", "bound"},
           s \in Trusted => job[w].step \in Trusted \/ job[w].spared,
           s \in Late => w \in whole', whole \subseteq whole',
           UNCHANGED <<at, observed, enrolled>>
    PROVE  WritersFit'
<1>1. /\ job'[w].step = s
      /\ job'[w].path = job[w].path /\ job'[w].folder = job[w].folder
      /\ job'[w].made = job[w].made /\ job'[w].spared = job[w].spared
      /\ job'[w].forbidden = job[w].forbidden
      /\ \A v \in Writers \ {w} : job'[v] = job[v]
  BY StepChanges
<1>2. UNCHANGED <<at, observed, enrolled>>
  OBVIOUS
<1>3. ASSUME NEW v \in Writers \ {w} PROVE Fits(v, job[v])'
  BY <1>1, <1>2, <1>3, OthersFit
<1>4. Fits(w, job[w])'
  <2>1. Fits(w, job[w])
    BY DEF Inv, WritersFit
  <2> DEFINE trusted == s \in Trusted \/ job[w].spared
  <2>2. trusted => Granted(job[w])
    BY <2>1 DEF Fits
  <2>3. trusted => Granted(job[w])'
    BY <1>1, <1>2, <2>2 DEF Granted
  <2> QED BY <1>1, <1>2, <2>1, <2>3 DEF Fits
<1> QED BY <1>3, <1>4 DEF WritersFit

\* Renaming inside one folder by a step of its writer.
LEMMA RenameKeepsTypes ==
    ASSUME Inv, job' \in [Writers -> Jobs],
           entry' \in [AllFolders -> [Names -> AllFiles \cup {None}]],
           UNCHANGED <<at, authority, outside>>, whole' \subseteq Writers
    PROVE  TypeOK'
BY DEF Inv, TypeOK, Jobs, authority

\* A file that may be an output may also be put aside, and back.
LEMMA RenameShows ==
    ASSUME Inv, NEW d \in AllFolders, NEW from \in Names, NEW to \in Names,
           Rename(d, from, to), UNCHANGED whole,
           entry[d][from] \in whole \cup Photos, \A u \in Writers : to # Temp(u)
    PROVE  Shows'
<1>1. /\ entry'[d][to] = entry[d][from] /\ entry'[d][from] = None
      /\ \A n \in Names \ {from, to} : entry'[d][n] = entry[d][n]
      /\ \A e \in AllFolders \ {d} : entry'[e] = entry[e]
  BY RenameMoves
<1> SUFFICES ASSUME NEW e \in AllFolders, NEW u \in Writers
             PROVE  /\ entry'[e][Output] \in whole \cup Photos \cup {None}
                    /\ entry'[e][Temp(u)] \in {u} \cup Photos \cup {None}
                    /\ entry'[e][Spare(u)] \in whole \cup Photos \cup {None}
  <2>1. ASSUME NEW e \in AllFolders PROVE entry'[e][Output] \in whole \cup Photos \cup {None}
    BY <1>1, NamesApart DEF Inv, Shows
  <2> QED BY <2>1 DEF Shows
<1>2. /\ entry[e][Output] \in whole \cup Photos \cup {None}
      /\ entry[e][Temp(u)] \in {u} \cup Photos \cup {None}
      /\ entry[e][Spare(u)] \in whole \cup Photos \cup {None}
  BY DEF Inv, Shows
<1>3. CASE e # d
  BY <1>1, <1>2, <1>3
<1>4. CASE e = d
  BY <1>1, <1>2, <1>4, NamesApart
<1> QED BY <1>3, <1>4

\* Shows is a matter of the entries and of what is whole.
LEMMA SameEntriesShow ==
    ASSUME Inv, UNCHANGED entry, whole \subseteq whole' PROVE Shows'
BY DEF Inv, Shows

-----------------------------------------------------------------------------
(* Choosing the folder.                                                      *)

LEMMA BeginInv == ASSUME Inv, NEW w \in Writers, Begin(w) PROVE Inv'
<1> PICK p \in Paths \ LibraryPaths :
      job' = [job EXCEPT ![w].step = "binding", ![w].path = p, ![w].forbidden = observed]
  BY DEF Begin
<1>1. UNCHANGED <<at, entry, whole, observed, complete, enrolled, owned, outside>>
  BY DEF Begin, disk, authority
<1>2. job \in [Writers -> Jobs] /\ observed \subseteq AllFolders
  BY DEF Inv, TypeOK, Jobs
<1> DEFINE j == [job[w] EXCEPT !.step = "binding", !.path = p, !.forbidden = observed]
<1>3. /\ j \in Jobs /\ j.step = "binding" /\ j.path = p /\ j.forbidden = observed
      /\ j.made = job[w].made /\ j.spared = job[w].spared
  <2>1. job[w] \in Jobs /\ p \in Paths /\ "binding" \in Steps
    BY <1>2 DEF Steps
  <2> QED BY <1>2, <2>1 DEF Jobs
<1>4. job' = [job EXCEPT ![w] = j]
  BY <1>2
<1> HIDE DEF j
<1>5. job' \in [Writers -> Jobs]
  BY <1>2, <1>3, <1>4
<1>6. TypeOK'
  BY <1>1, <1>5 DEF Inv, TypeOK, Jobs
<1>7. ASSUME NEW v \in Writers \ {w} PROVE Fits(v, job[v])'
  <2>1. job'[v] = job[v]
    BY <1>2, <1>4
  <2> QED BY <1>1, <2>1, OthersFit
<1>8. Fits(w, job[w])'
  <2>1. Fits(w, job[w]) /\ job[w].step = "idle"
    BY DEF Inv, WritersFit, Begin, At
  <2>2. job'[w] = j
    BY <1>2, <1>4
  <2> QED BY <1>1, <1>3, <2>1, <2>2 DEF Fits, Late, Trusted
<1>9. Shows'
  BY <1>1, SameEntriesShow
<1> QED BY <1>6, <1>7, <1>8, <1>9 DEF Inv, WritersFit

LEMMA BindInv == ASSUME Inv, NEW w \in Writers, Bind(w) PROVE Inv'
<1> DEFINE j == [job[w] EXCEPT !.step = "bound", !.folder = at[job[w].path]]
<1>1. UNCHANGED <<at, entry, whole, observed, complete, enrolled, owned, outside>>
  BY DEF Bind, disk, authority
<1>2. /\ job \in [Writers -> Jobs] /\ at \in [Paths -> AllFolders \cup {None}]
      /\ Fits(w, job[w]) /\ job[w].step = "binding"
  BY DEF Inv, TypeOK, Jobs, WritersFit, Bind, At
<1>3. at[job[w].path] \in AllFolders \ job[w].forbidden
  BY <1>2 DEF Bind, Fits
<1>4. /\ j \in Jobs /\ j.step = "bound" /\ j.folder = at[job[w].path]
      /\ j.path = job[w].path /\ j.forbidden = job[w].forbidden
      /\ j.made = job[w].made /\ j.spared = job[w].spared
  BY <1>2, <1>3 DEF Jobs, Steps
<1>5. job' = [job EXCEPT ![w] = j]
  BY <1>2 DEF Bind
<1> HIDE DEF j
<1>6. job' \in [Writers -> Jobs]
  BY <1>2, <1>4, <1>5
<1>7. TypeOK'
  BY <1>1, <1>6 DEF Inv, TypeOK, Jobs
<1>8. ASSUME NEW v \in Writers \ {w} PROVE Fits(v, job[v])'
  <2>1. job'[v] = job[v]
    BY <1>2, <1>5
  <2> QED BY <1>1, <2>1, OthersFit
<1>9. Fits(w, job[w])'
  <2>1. job'[w] = j
    BY <1>2, <1>5
  <2> QED BY <1>1, <1>2, <1>3, <1>4, <2>1 DEF Fits, Late, Trusted
<1>10. Shows'
  BY <1>1, SameEntriesShow
<1> QED BY <1>7, <1>8, <1>9, <1>10 DEF Inv, WritersFit

LEMMA MakeInv == ASSUME Inv, NEW w \in Writers, Make(w) PROVE Inv'
<1> DEFINE j == [job[w] EXCEPT !.step = "bound", !.folder = w, !.made = TRUE]
<1>1. /\ UNCHANGED <<entry, whole, observed, complete, enrolled, owned, outside>>
      /\ at' = [at EXCEPT ![job[w].path] = w]
  BY DEF Make, authority
<1>2. /\ job \in [Writers -> Jobs] /\ at \in [Paths -> AllFolders \cup {None}]
      /\ Fits(w, job[w]) /\ job[w].step = "binding" /\ job[w].path \in Paths
  BY DEF Inv, TypeOK, Jobs, WritersFit, Make, At, Fits
<1>3. /\ j \in Jobs /\ j.step = "bound" /\ j.folder = w /\ j.made
      /\ j.path = job[w].path /\ j.forbidden = job[w].forbidden
      /\ j.spared = job[w].spared
  <2>1. job[w] \in Jobs /\ w \in AllFolders /\ "bound" \in Steps
    BY <1>2 DEF Steps, AllFolders
  <2> QED BY <2>1 DEF Jobs
<1>4. job' = [job EXCEPT ![w] = j]
  BY <1>2 DEF Make
<1> HIDE DEF j
<1>5. job' \in [Writers -> Jobs] /\ at' \in [Paths -> AllFolders \cup {None}]
  BY <1>1, <1>2, <1>3, <1>4 DEF AllFolders
<1>6. TypeOK'
  BY <1>1, <1>5 DEF Inv, TypeOK, Jobs
<1>7. ASSUME NEW v \in Writers \ {w} PROVE Fits(v, job[v])'
  <2>1. job'[v] = job[v]
    BY <1>2, <1>4
  <2>2. (\A p \in Paths : at[p] # v) => \A p \in Paths : at'[p] # v
    BY <1>1, <1>2
  <2> QED BY <1>1, <2>1, <2>2, OthersFit
<1>8. Fits(w, job[w])'
  <2>1. job'[w] = j
    BY <1>2, <1>4
  <2> QED BY <1>1, <1>2, <1>3, <2>1 DEF Fits, Late, Trusted, AllFolders
<1>9. Shows'
  BY <1>1, SameEntriesShow
<1> QED BY <1>6, <1>7, <1>8, <1>9 DEF Inv, WritersFit

LEMMA AdmitInv == ASSUME Inv, NEW w \in Writers, Admit(w) PROVE Inv'
<1>1. /\ UNCHANGED <<at, entry, whole, observed, complete, owned, outside>>
      /\ To(w, "admitted") /\ job[w].step = "bound"
  BY DEF Admit, disk, At
<1>2. /\ job \in [Writers -> Jobs] /\ enrolled \in [Paths -> AllFolders \cup {None}]
      /\ Fits(w, job[w])
      /\ job[w].path \in Paths /\ job[w].folder \in AllFolders \ job[w].forbidden
  BY <1>1 DEF Inv, TypeOK, Jobs, WritersFit, Fits
<1>3. /\ enrolled' \in [Paths -> AllFolders \cup {None}]
      /\ enrolled'[job[w].path] = job[w].folder
      /\ \A p \in Paths : enrolled[p] # None => enrolled'[p] = enrolled[p]
  BY <1>2 DEF Admit
<1>4. /\ job' \in [Writers -> Jobs] /\ job'[w].step = "admitted"
      /\ job'[w].path = job[w].path /\ job'[w].folder = job[w].folder
      /\ job'[w].made = job[w].made /\ job'[w].spared = job[w].spared
      /\ job'[w].forbidden = job[w].forbidden
      /\ \A v \in Writers \ {w} : job'[v] = job[v]
  BY <1>1, StepChanges DEF Steps
<1>5. TypeOK'
  BY <1>1, <1>3, <1>4 DEF Inv, TypeOK, Jobs
<1>6. ASSUME NEW v \in Writers \ {w} PROVE Fits(v, job[v])'
  BY <1>1, <1>3, <1>4, OthersFit
<1>7. Fits(w, job[w])'
  BY <1>1, <1>2, <1>3, <1>4 DEF Fits, Granted, Late, Trusted
<1>8. Shows'
  BY <1>1, SameEntriesShow
<1> QED BY <1>5, <1>6, <1>7, <1>8 DEF Inv, WritersFit

-----------------------------------------------------------------------------
(* Writing and installing.                                                   *)

\* A step that only looks.
LEMMA LookingInv ==
    ASSUME Inv, NEW w \in Writers, NEW s \in Steps, To(w, s),
           ~At(w, "idle"), s \notin {"idle", "binding", "bound"},
           s \in Trusted => job[w].step \in Trusted \/ job[w].spared,
           s \in Late => w \in whole,
           UNCHANGED <<disk, authority, outside>>
    PROVE  Inv'
<1>1. UNCHANGED <<at, entry, whole, observed, complete, enrolled, owned, outside>>
  BY DEF disk, authority
<1>2. WritersFit'
  BY <1>1, StepFits
<1>3. TypeOK'
  BY <1>1, StepChanges DEF Inv, TypeOK, Jobs
<1> QED BY <1>1, <1>2, <1>3, SameEntriesShow DEF Inv

LEMMA CreateInv == ASSUME Inv, NEW w \in Writers, Create(w) PROVE Inv'
<1>1. /\ UNCHANGED <<at, whole, observed, complete, enrolled, owned, outside>>
      /\ To(w, "writing") /\ job[w].step = "admitted"
      /\ entry' = [entry EXCEPT ![job[w].folder][Temp(w)] = w]
  BY DEF Create, authority, At
<1>2. /\ job[w].folder \in AllFolders
      /\ entry \in [AllFolders -> [Names -> AllFiles \cup {None}]]
  BY <1>1 DEF Inv, WritersFit, Fits, Trusted, Granted, TypeOK
<1>3. WritersFit'
  BY <1>1, StepFits DEF Steps, Late, Trusted, At
<1>4. job' \in [Writers -> Jobs]
  BY <1>1, StepChanges DEF Steps
<1>5. entry' \in [AllFolders -> [Names -> AllFiles \cup {None}]]
  BY <1>1, <1>2 DEF AllFiles
<1>6. TypeOK'
  BY <1>1, <1>4, <1>5 DEF Inv, TypeOK, Jobs
<1>7. ASSUME NEW d \in AllFolders, NEW n \in Names
      PROVE  entry'[d][n] = entry[d][n] \/ (n = Temp(w) /\ entry'[d][n] = w)
  <2>1. entry[job[w].folder] \in [Names -> AllFiles \cup {None}]
    BY <1>2
  <2>2. /\ entry'[job[w].folder] = [entry[job[w].folder] EXCEPT ![Temp(w)] = w]
        /\ d # job[w].folder => entry'[d] = entry[d]
    BY <1>1, <1>2
  <2> QED BY <2>1, <2>2
<1>8. Shows'
  BY <1>1, <1>7, NamesApart DEF Inv, Shows
<1> QED BY <1>3, <1>6, <1>8 DEF Inv

LEMMA WriteInv == ASSUME Inv, NEW w \in Writers, Write(w) PROVE Inv'
<1>1. /\ UNCHANGED <<at, entry, observed, complete, enrolled, owned, outside>>
      /\ To(w, "written") /\ job[w].step = "writing"
      /\ whole' = whole \cup {w}
  BY DEF Write, authority, At
<1>2. WritersFit'
  BY <1>1, StepFits DEF Steps, Late, Trusted, At
<1>3. TypeOK'
  BY <1>1, StepChanges DEF Steps, Inv, TypeOK, Jobs
<1> QED BY <1>1, <1>2, <1>3, SameEntriesShow DEF Inv

LEMMA CheckInv == ASSUME Inv, NEW w \in Writers, Check(w) PROVE Inv'
<1> DEFINE j == [job[w] EXCEPT !.step = "checked", !.expected = Named(job[w].path)]
<1>1. UNCHANGED <<at, entry, whole, observed, complete, enrolled, owned, outside>>
  BY DEF Check, disk, authority
<1>2. /\ job \in [Writers -> Jobs] /\ owned \in [Paths -> Writers \cup {None}]
      /\ Fits(w, job[w]) /\ job[w].step = "written"
  BY DEF Inv, TypeOK, Jobs, WritersFit, Check, At
<1>3. job[w].path \in Paths /\ Granted(job[w]) /\ w \in whole
  BY <1>2 DEF Fits, Granted, Trusted, Late
<1>4. Named(job[w].path) \in Writers \cup {None}
  BY <1>2, <1>3 DEF Check
<1>5. /\ j \in Jobs /\ j.step = "checked" /\ j.folder = job[w].folder
      /\ j.path = job[w].path /\ j.forbidden = job[w].forbidden
      /\ j.made = job[w].made /\ j.spared = job[w].spared
  <2>1. job[w] \in Jobs /\ "checked" \in Steps
    BY <1>2 DEF Steps
  <2> QED BY <1>4, <2>1 DEF Jobs
<1>6. job' = [job EXCEPT ![w] = j]
  BY <1>2 DEF Check
<1> HIDE DEF j
<1>7. TypeOK'
  <2>1. job' \in [Writers -> Jobs]
    BY <1>2, <1>5, <1>6
  <2> QED BY <1>1, <2>1 DEF Inv, TypeOK, Jobs
<1>8. ASSUME NEW v \in Writers \ {w} PROVE Fits(v, job[v])'
  <2>1. job'[v] = job[v]
    BY <1>2, <1>6
  <2> QED BY <1>1, <2>1, OthersFit
<1>9. Fits(w, job[w])'
  <2>1. job'[w] = j
    BY <1>2, <1>6
  <2> QED BY <1>1, <1>2, <1>3, <1>5, <2>1 DEF Fits, Granted, Trusted, Late
<1>10. Shows'
  BY <1>1, SameEntriesShow
<1> QED BY <1>7, <1>8, <1>9, <1>10 DEF Inv, WritersFit

\* What a job displaces, installs or puts back is a whole file.
LEMMA MovedIsWhole ==
    ASSUME Inv, NEW w \in Writers, job[w].step \in {"parking", "ready", "restoring"}
    PROVE  LET d == job[w].folder IN
           /\ d \in AllFolders
           /\ entry[d][Output] # None => entry[d][Output] \in whole \cup Photos
           /\ entry[d][Spare(w)] # None => entry[d][Spare(w)] \in whole \cup Photos
           /\ At(w, "ready") /\ entry[d][Temp(w)] # None =>
                  entry[d][Temp(w)] \in whole \cup Photos
<1>1. job[w].folder \in AllFolders /\ (At(w, "ready") => w \in whole)
  BY DEF Inv, WritersFit, Fits, Trusted, Late, Granted, At
<1> QED BY <1>1 DEF Inv, Shows

LEMMA AcquireInv == ASSUME Inv, NEW w \in Writers, Acquire(w) PROVE Inv'
<1>1. /\ UNCHANGED <<at, whole, observed, complete, enrolled, owned, authority, outside>>
      /\ To(w, "acquired") /\ job[w].step = "ready" /\ At(w, "ready")
      /\ Rename(job[w].folder, Temp(w), Output)
  BY DEF Acquire, authority, At
<1>2. w \in whole
  BY <1>1 DEF Inv, WritersFit, Fits, Late
<1>3. WritersFit'
  BY <1>1, <1>2, StepFits DEF Steps, Late, Trusted, At
<1>4. /\ job[w].folder \in AllFolders
      /\ entry[job[w].folder][Temp(w)] \in whole \cup Photos
  BY <1>1, MovedIsWhole DEF Rename
<1>5. entry' \in [AllFolders -> [Names -> AllFiles \cup {None}]]
  BY <1>1, <1>4, NamesApart, RenameMoves
<1>6. TypeOK'
  BY <1>1, <1>5, StepChanges DEF Steps, Inv, TypeOK, Jobs
<1>7. Shows'
  BY <1>1, <1>4, NamesApart, RenameShows
<1> QED BY <1>3, <1>6, <1>7 DEF Inv

LEMMA RestoreInv == ASSUME Inv, NEW w \in Writers, Restore(w) PROVE Inv'
<1>1. /\ UNCHANGED <<at, whole, observed, complete, enrolled, owned, authority, outside>>
      /\ To(w, "refused") /\ job[w].step = "restoring"
  BY DEF Restore, authority, At
<1>2. WritersFit'
  BY <1>1, StepFits DEF Steps, Late, Trusted, At
<1>3. CASE Rename(job[w].folder, Spare(w), Output)
  <2>1. /\ job[w].folder \in AllFolders
        /\ entry[job[w].folder][Spare(w)] \in whole \cup Photos
    BY <1>1, <1>3, MovedIsWhole DEF Rename
  <2>2. entry' \in [AllFolders -> [Names -> AllFiles \cup {None}]]
    BY <1>3, <2>1, NamesApart, RenameMoves
  <2>3. TypeOK'
    BY <1>1, <2>2, StepChanges DEF Steps, Inv, TypeOK, Jobs
  <2>4. Shows'
    BY <1>1, <1>3, <2>1, NamesApart, RenameShows
  <2> QED BY <1>2, <2>3, <2>4 DEF Inv
<1>4. CASE UNCHANGED entry
  <2>1. TypeOK'
    BY <1>1, <1>4, StepChanges DEF Steps, Inv, TypeOK, Jobs
  <2> QED BY <1>1, <1>2, <1>4, <2>1, SameEntriesShow DEF Inv
<1> QED BY <1>3, <1>4 DEF Restore

LEMMA ParkInv == ASSUME Inv, NEW w \in Writers, Park(w) PROVE Inv'
<1> DEFINE d == job[w].folder
           j == IF entry[d][Output] = job[w].expected
                THEN [job[w] EXCEPT !.step = "parked", !.spared = TRUE]
                ELSE [job[w] EXCEPT !.step = "refused"]
<1>1. /\ UNCHANGED <<at, whole, observed, complete, enrolled, owned, outside>>
      /\ job[w].step = "parking" /\ Rename(d, Output, Spare(w))
  BY DEF Park, authority, At
<1>2. job \in [Writers -> Jobs] /\ Fits(w, job[w])
  BY DEF Inv, TypeOK, Jobs, WritersFit
<1>3. Granted(job[w]) /\ w \in whole
  BY <1>1, <1>2 DEF Fits, Trusted, Late
<1>4. job' = [job EXCEPT ![w] = j]
  BY <1>2 DEF Park
<1>5. /\ j \in Jobs /\ j.step \in {"parked", "refused"}
      /\ j.path = job[w].path /\ j.folder = d
      /\ j.made = job[w].made /\ j.forbidden = job[w].forbidden
  <2>1. job[w] \in Jobs /\ {"parked", "refused"} \subseteq Steps
    BY <1>2 DEF Steps
  <2> QED BY <2>1 DEF Jobs
<1>6. d \in AllFolders /\ entry[d][Output] \in whole \cup Photos
  BY <1>1, MovedIsWhole DEF Rename
<1> HIDE DEF d, j
<1>7. entry' \in [AllFolders -> [Names -> AllFiles \cup {None}]]
  BY <1>1, <1>6, NamesApart, RenameMoves
<1>8. TypeOK'
  <2>1. job' \in [Writers -> Jobs]
    BY <1>2, <1>4, <1>5
  <2> QED BY <1>1, <1>7, <2>1 DEF Inv, TypeOK, Jobs
<1>9. ASSUME NEW v \in Writers \ {w} PROVE Fits(v, job[v])'
  <2>1. job'[v] = job[v]
    BY <1>2, <1>4
  <2> QED BY <1>1, <2>1, OthersFit
<1>10. Fits(w, job[w])'
  <2>1. job'[w] = j
    BY <1>2, <1>4
  <2> QED BY <1>1, <1>2, <1>3, <1>5, <2>1 DEF Fits, Granted, Trusted, Late, d
<1>11. Shows'
  BY <1>1, <1>6, NamesApart, RenameShows
<1> QED BY <1>8, <1>9, <1>10, <1>11 DEF Inv, WritersFit

\* Every step of a writer keeps the invariant.
LEMMA OperationInv == ASSUME Inv, NEW w \in Writers, Operation(w) PROVE Inv'
<1>1. CASE Look(w)
  <2> DEFINE s == IF job[w].expected = None THEN "parked" ELSE "parking"
  <2>1. /\ s \in Steps /\ To(w, s) /\ job[w].step = "checked"
        /\ UNCHANGED <<disk, authority, outside>>
        /\ s \notin {"idle", "binding", "bound"} /\ s \in Trusted
    BY <1>1 DEF Look, Steps, At, Trusted, Late
  <2>2. w \in whole /\ ~At(w, "idle") /\ job[w].step \in Trusted
    BY <2>1 DEF Inv, WritersFit, Fits, Late, Trusted, At
  <2> HIDE DEF s
  <2> QED BY <2>1, <2>2, LookingInv
<1>2. CASE Ready(w)
  <2>1. /\ To(w, "ready") /\ job[w].step = "parked"
        /\ UNCHANGED <<disk, authority, outside>>
    BY <1>2 DEF Ready, At
  <2>2. w \in whole /\ ~At(w, "idle") /\ job[w].step \in Trusted
    BY <2>1 DEF Inv, WritersFit, Fits, Late, Trusted, At
  <2> QED BY <2>1, <2>2, LookingInv DEF Steps
<1>6. CASE Attest(w)
  <2>1. /\ To(w, "attested") /\ job[w].step = "acquired"
        /\ UNCHANGED <<disk, authority, outside>>
    BY <1>6 DEF Attest, At
  <2>2. w \in whole /\ ~At(w, "idle") /\ job[w].step \in Trusted
    BY <2>1 DEF Inv, WritersFit, Fits, Late, Trusted, At
  <2> QED BY <2>1, <2>2, LookingInv DEF Steps
<1>3. CASE Record(w)
  <2>1. /\ UNCHANGED <<at, entry, whole, observed, complete, enrolled, outside>>
        /\ To(w, "done") /\ job[w].step = "attested"
        /\ owned' = [owned EXCEPT ![job[w].path] = w]
    BY <1>3 DEF Record, disk, At
  <2>2. WritersFit'
    BY <2>1, StepFits DEF Steps, Late, Trusted, At
  <2>3. TypeOK'
    BY <2>1, StepChanges DEF Steps, Inv, TypeOK, Jobs
  <2> QED BY <2>1, <2>2, <2>3, SameEntriesShow DEF Inv
<1>4. CASE Fail(w)
  <2> DEFINE s == IF job[w].spared /\ ~At(w, "attested") THEN "restoring" ELSE "refused"
  <2>1. /\ s \in Steps /\ To(w, s) /\ ~At(w, "idle")
        /\ UNCHANGED <<disk, authority, outside>>
        /\ s \notin {"idle", "binding", "bound"} \cup Late
    BY <1>4 DEF Fail, Steps, At, Late
  <2>2. s \in Trusted => job[w].spared
    BY DEF Trusted, Late
  <2> QED BY <2>1, <2>2, LookingInv
<1>5. CASE Die(w)
  <2>1. /\ To(w, "dead") /\ ~At(w, "idle") /\ UNCHANGED <<disk, authority, outside>>
    BY <1>5 DEF Die, At
  <2> QED BY <2>1, LookingInv DEF Steps, Late, Trusted
<1> QED BY <1>1, <1>2, <1>3, <1>4, <1>5, <1>6, BeginInv, BindInv, MakeInv, AdmitInv,
        CreateInv, WriteInv, CheckInv, ParkInv, AcquireInv, RestoreInv DEF Operation, Choosing, Writing, Installing

-----------------------------------------------------------------------------
(* Scans and people.                                                         *)

LEMMA OutsiderKeeps ==
    ASSUME Inv, UNCHANGED <<whole, owned, job>>, outside' \in 0..MaxOutside,
           observed' \subseteq AllFolders, complete' \in BOOLEAN,
           at' \in [Paths -> AllFolders \cup {None}],
           enrolled' \in [Paths -> AllFolders \cup {None}],
           entry' \in [AllFolders -> [Names -> AllFiles \cup {None}]],
           \A p \in Paths : enrolled[p] # None => enrolled'[p] = enrolled[p],
           \A v \in Writers : (v \notin observed /\ \A p \in Paths : at[p] # v)
               => (v \notin observed' /\ \A p \in Paths : at'[p] # v),
           \A d \in AllFolders : \A n \in Names :
               entry'[d][n] \in {entry[d][n], None} \cup Photos
    PROVE  Inv'
<1>1. TypeOK'
  BY DEF Inv, TypeOK
<1>2. WritersFit'
  BY OthersFit DEF WritersFit
<1>3. Shows'
  BY NamesApart DEF Inv, Shows
<1> QED BY <1>1, <1>2, <1>3 DEF Inv

LEMMA OutsideInv ==
    ASSUME Inv, ScanOpen \/ ScanCommit \/ Enroll \/ MoveFolder \/ MovePhoto \/ Delete
    PROVE  Inv'
<1>1. /\ at \in [Paths -> AllFolders \cup {None}] /\ LibraryPaths \subseteq Paths
      /\ enrolled \in [Paths -> AllFolders \cup {None}]
      /\ entry \in [AllFolders -> [Names -> AllFiles \cup {None}]]
      /\ observed \subseteq AllFolders /\ complete \in BOOLEAN
      /\ outside \in 0..MaxOutside
  BY DEF Inv, TypeOK
<1>2. Outsider => /\ outside' \in 0..MaxOutside
                  /\ UNCHANGED <<whole, observed, complete, owned, job>>
  BY <1>1 DEF Outsider
<1>3. CASE ScanOpen
  <2>1. UNCHANGED <<at, entry, whole, observed, enrolled, owned, job, outside>> /\ complete' = FALSE
    BY <1>3 DEF ScanOpen, disk
  <2> QED BY <1>1, <2>1, OutsiderKeeps
<1>4. CASE ScanCommit
  <2>1. /\ UNCHANGED <<at, entry, whole, enrolled, owned, job, outside>> /\ complete' = TRUE
        /\ observed' = observed \cup ({at[p] : p \in LibraryPaths} \ {None})
    BY <1>4 DEF ScanCommit, disk
  <2>2. observed' \subseteq AllFolders
    BY <1>1, <2>1
  <2> QED BY <1>1, <2>1, <2>2, OutsiderKeeps
<1>5. CASE Enroll
  <2>1. PICK p \in Paths \ LibraryPaths :
          /\ at[p] \notin observed \cup {None} /\ enrolled[p] = None
          /\ enrolled' = [enrolled EXCEPT ![p] = at[p]]
    BY <1>5 DEF Enroll
  <2>2. UNCHANGED <<at, entry>> /\ Outsider
    BY <1>5 DEF Enroll
  <2> QED BY <1>1, <1>2, <2>1, <2>2, OutsiderKeeps
<1>6. CASE MoveFolder
  <2>1. PICK p \in Paths, q \in Paths : at' = [at EXCEPT ![p] = None, ![q] = at[p]]
    BY <1>6 DEF MoveFolder
  <2>2. UNCHANGED <<entry, enrolled>> /\ Outsider
    BY <1>6 DEF MoveFolder
  <2>3. /\ at' \in [Paths -> AllFolders \cup {None}]
        /\ \A v \in Writers : (\A r \in Paths : at[r] # v) => \A r \in Paths : at'[r] # v
    <3>1. \A v \in Writers : v # None
      BY DEF AllFolders
    <3> QED BY <1>1, <2>1, <3>1
  <2> QED BY <1>1, <1>2, <2>2, <2>3, OutsiderKeeps
<1>7. CASE MovePhoto
  <2>1. PICK d \in AllFolders, e \in AllFolders : \E n, m \in Names :
          /\ entry[d][n] \in Photos
          /\ entry' = [entry EXCEPT ![d][n] = None, ![e][m] = entry[d][n]]
    BY <1>7 DEF MovePhoto
  <2>2. PICK n \in Names, m \in Names :
          /\ entry[d][n] \in Photos
          /\ entry' = [entry EXCEPT ![d][n] = None, ![e][m] = entry[d][n]]
    BY <2>1
  <2>3. UNCHANGED <<at, enrolled>> /\ Outsider
    BY <1>7 DEF MovePhoto
  <2> DEFINE mid == [entry EXCEPT ![d][n] = None]
  <2>4. /\ mid \in [AllFolders -> [Names -> AllFiles \cup {None}]]
        /\ \A f \in AllFolders : \A k \in Names : mid[f][k] \in {entry[f][k], None}
    BY <1>1
  <2>5. entry' = [mid EXCEPT ![e][m] = entry[d][n]]
    BY <2>2
  <2> HIDE DEF mid
  <2>6. /\ entry' \in [AllFolders -> [Names -> AllFiles \cup {None}]]
        /\ \A f \in AllFolders : \A k \in Names :
              entry'[f][k] \in {mid[f][k]} \cup Photos
    <3> DEFINE x == entry[d][n]
    <3>1. x \in Photos /\ x \in AllFiles
      BY <2>2 DEF AllFiles
    <3>2. entry' = [mid EXCEPT ![e][m] = x]
      BY <2>5
    <3> HIDE DEF x
    <3> QED BY <2>4, <3>1, <3>2
  <2>7. \A f \in AllFolders : \A k \in Names :
          entry'[f][k] \in {entry[f][k], None} \cup Photos
    BY <2>4, <2>6
  <2> QED BY <1>1, <1>2, <2>3, <2>6, <2>7, OutsiderKeeps
<1>8. CASE Delete
  <2>1. PICK d \in AllFolders, n \in Names : entry' = [entry EXCEPT ![d][n] = None]
    BY <1>8 DEF Delete
  <2>2. UNCHANGED <<at, enrolled>> /\ Outsider
    BY <1>8 DEF Delete
  <2>3. /\ entry' \in [AllFolders -> [Names -> AllFiles \cup {None}]]
        /\ \A f \in AllFolders : \A k \in Names :
              entry'[f][k] \in {entry[f][k], None} \cup Photos
    BY <1>1, <2>1
  <2> QED BY <1>1, <1>2, <2>2, <2>3, OutsiderKeeps
<1> QED BY <1>3, <1>4, <1>5, <1>6, <1>7, <1>8

LEMMA NextInv == Inv /\ [Next]_vars => Inv'
<1> SUFFICES ASSUME Inv, [Next]_vars PROVE Inv'
  OBVIOUS
<1>1. CASE UNCHANGED vars
  BY <1>1 DEF vars, disk, authority, Inv, TypeOK, WritersFit, Fits, Granted, Shows
<1>2. CASE Next
  BY <1>2, OperationInv, OutsideInv DEF Next
<1> QED BY <1>1, <1>2

\* The invariant holds in every state.
THEOREM AlwaysInv == Spec => []Inv
BY InitInv, NextInv, PTL DEF Spec

-----------------------------------------------------------------------------
(* Results.                                                                  *)

\* The output name never shows a half-written file, whoever dies when.
THEOREM OutputIsAlwaysWhole == Spec => []WholeOutput
<1>1. Inv => WholeOutput
  BY DEF Inv, Shows, WholeOutput
<1> QED BY <1>1, AlwaysInv, PTL

\* The program owns what it made or what it was entrusted with, nothing else.
THEOREM OwnershipIsEarned == Spec => OwnershipEarned
<1>1. ASSUME Inv, [Next]_vars, NEW p \in Paths
      PROVE  /\ owned'[p] # owned[p] => owned'[p] \in whole
             /\ enrolled'[p] # enrolled[p] => enrolled'[p] \in Writers \/ outside' # outside
  <2>1. ASSUME NEW w \in Writers, Record(w) PROVE owned'[p] # owned[p] => owned'[p] \in whole
    BY <1>1, <2>1 DEF Record, At, Inv, TypeOK, WritersFit, Fits, Late
  <2>2. ASSUME NEW w \in Writers, Admit(w) PROVE enrolled'[p] # enrolled[p] => enrolled'[p] \in Writers
    BY <1>1, <2>2 DEF Admit, At, Inv, TypeOK, WritersFit, Fits
  <2>3. Enroll => outside' # outside
    BY <1>1 DEF Enroll, Outsider, Inv, TypeOK
  <2>4. (\A w \in Writers : ~Record(w)) => UNCHANGED owned
    BY <1>1 DEF Next, Operation, Choosing, Writing, Installing, vars, authority, Outsider, Begin, Bind, Make, Admit, Create,
         Write, Check, Look, Park, Ready, Acquire, Attest, Fail, Restore, Die,
         ScanOpen, ScanCommit, Enroll, MoveFolder, MovePhoto, Delete
  <2>5. (\A w \in Writers : ~Admit(w)) /\ ~Enroll => UNCHANGED enrolled
    BY <1>1 DEF Next, Operation, Choosing, Writing, Installing, vars, authority, Outsider, Begin, Bind, Make, Record, Create,
         Write, Check, Look, Park, Ready, Acquire, Attest, Fail, Restore, Die,
         ScanOpen, ScanCommit, MoveFolder, MovePhoto, Delete
  <2> QED BY <2>1, <2>2, <2>3, <2>4, <2>5
<1>2. Inv /\ [Next]_vars =>
        [\A p \in Paths :
            /\ owned'[p] # owned[p] => owned'[p] \in whole
            /\ enrolled'[p] # enrolled[p] => enrolled'[p] \in Writers \/ outside' # outside]_vars
  BY <1>1
<1> QED BY <1>2, AlwaysInv, PTL DEF Spec, OwnershipEarned

\* What one step of the program does to entries: one writer, in a folder it
\* was granted, moves one file to a free name or makes one at a free name.
LEMMA EntryStep ==
    ASSUME Inv, [Next]_vars, outside' = outside
    PROVE  \/ UNCHANGED entry
           \/ \E w \in Writers :
                /\ job[w].step \in Trusted /\ job'[w] # job[w]
                /\ \/ Create(w)
                   \/ \E from, to \in Names : Rename(job[w].folder, from, to)
<1>1. ASSUME NEW w \in Writers, NEW s \in Steps, To(w, s), job[w].step # s
      PROVE  job'[w] # job[w]
  BY <1>1, StepChanges
<1>2. CASE \E w \in Writers : Create(w)
  <2>1. PICK w \in Writers : Create(w)
    BY <1>2
  <2>2. job[w].step = "admitted" /\ To(w, "writing")
    BY <2>1 DEF Create, At
  <2> QED BY <1>1, <2>1, <2>2 DEF Trusted, Steps
<1>3. CASE \E w \in Writers : Park(w)
  <2>1. PICK w \in Writers : Park(w)
    BY <1>3
  <2>2. /\ job[w].step = "parking" /\ job \in [Writers -> Jobs]
        /\ Rename(job[w].folder, Output, Spare(w))
        /\ job' = IF entry[job[w].folder][Output] = job[w].expected
                  THEN [job EXCEPT ![w].step = "parked", ![w].spared = TRUE]
                  ELSE [job EXCEPT ![w].step = "refused"]
    BY <2>1 DEF Park, At, Inv, TypeOK, Jobs
  <2>3. job'[w] # job[w]
    <3>1. job'[w].step # "parking"
      BY <2>2 DEF Jobs
    <3> QED BY <2>2, <3>1
  <2> QED BY <2>2, <2>3, NamesApart DEF Trusted, Late
<1>4. CASE \E w \in Writers : Acquire(w)
  <2>1. PICK w \in Writers : Acquire(w)
    BY <1>4
  <2>2. /\ job[w].step = "ready" /\ To(w, "acquired")
        /\ Rename(job[w].folder, Temp(w), Output)
    BY <2>1 DEF Acquire, At
  <2> QED BY <1>1, <2>2, NamesApart DEF Trusted, Late, Steps
<1>5. CASE \E w \in Writers : Restore(w)
  <2>1. PICK w \in Writers : Restore(w)
    BY <1>5
  <2>2. /\ job[w].step = "restoring" /\ To(w, "refused")
        /\ Rename(job[w].folder, Spare(w), Output) \/ UNCHANGED entry
    BY <2>1 DEF Restore, At
  <2> QED BY <1>1, <2>2, NamesApart DEF Trusted, Steps
<1>6. Enroll \/ MoveFolder \/ MovePhoto \/ Delete => outside' # outside
  BY DEF Enroll, MoveFolder, MovePhoto, Delete, Outsider, Inv, TypeOK
<1>7. (\A w \in Writers : ~Create(w) /\ ~Park(w) /\ ~Acquire(w) /\ ~Restore(w))
        => UNCHANGED entry
  BY <1>6 DEF Next, Operation, Choosing, Writing, Installing, vars, disk, Begin, Bind, Make, Admit, Write, Check,
       Look, Ready, Attest, Record, Fail, Die, ScanOpen, ScanCommit
<1> QED BY <1>2, <1>3, <1>4, <1>5, <1>7

\* Making a file at a free name changes nothing else.
LEMMA CreateAdds ==
    ASSUME Inv, NEW w \in Writers, Create(w)
    PROVE  /\ \A e \in AllFolders \ {job[w].folder} : entry'[e] = entry[e]
           /\ \A e \in AllFolders : \A n \in Names :
                  entry[e][n] # None => entry'[e][n] = entry[e][n]
<1>1. /\ entry' = [entry EXCEPT ![job[w].folder][Temp(w)] = w]
      /\ entry[job[w].folder][Temp(w)] = None
      /\ entry \in [AllFolders -> [Names -> AllFiles \cup {None}]]
  BY DEF Create, Inv, TypeOK
<1> QED BY <1>1

\* Nobody's file ever leaves its folder because of the program, whatever
\* arrived there after the program had looked.
THEOREM NothingIsDestroyed == Spec => NothingDestroyed
<1>1. ASSUME Inv, [Next]_vars, outside' = outside,
             NEW d \in AllFolders, NEW n \in Names, entry[d][n] # None
      PROVE  \E m \in Names : entry'[d][m] = entry[d][n]
  <2>1. CASE UNCHANGED entry
    BY <2>1
  <2>2. ASSUME NEW w \in Writers, Create(w)
        PROVE  \E m \in Names : entry'[d][m] = entry[d][n]
    BY <1>1, <2>2, CreateAdds
  <2>3. ASSUME NEW w \in Writers, job[w].step \in Trusted,
               NEW from \in Names, NEW to \in Names, Rename(job[w].folder, from, to)
        PROVE  \E m \in Names : entry'[d][m] = entry[d][n]
    <3>1. job[w].folder \in AllFolders
      BY <1>1, <2>3 DEF Inv, WritersFit, Fits, Granted
    <3>2. CASE d = job[w].folder
      BY <1>1, <2>3, <3>1, <3>2, RenameMoves
    <3>3. CASE d # job[w].folder
      BY <1>1, <2>3, <3>1, <3>3, RenameMoves
    <3> QED BY <3>2, <3>3
  <2> QED BY <1>1, <2>1, <2>2, <2>3, EntryStep
<1>2. Inv /\ [Next]_vars =>
        [outside' = outside =>
            \A d \in AllFolders : \A n \in Names :
                entry[d][n] # None => \E m \in Names : entry'[d][m] = entry[d][n]]_vars
  BY <1>1
<1> QED BY <1>2, AlwaysInv, PTL DEF Spec, NothingDestroyed

\* The program writes only in folders recorded as its own, which were in no
\* library when it began.
THEOREM WritesOnlyInOwnFolders == Spec => OnlyOwnFolders
<1>1. ASSUME Inv, [Next]_vars, outside' = outside,
             NEW d \in AllFolders, entry'[d] # entry[d]
      PROVE  /\ \E p \in Paths : enrolled[p] = d
             /\ \E w \in Writers : job'[w] # job[w] /\ d \notin job[w].forbidden
  <2>1. PICK w \in Writers :
          /\ job[w].step \in Trusted /\ job'[w] # job[w]
          /\ \/ Create(w)
             \/ \E from, to \in Names : Rename(job[w].folder, from, to)
    BY <1>1, EntryStep
  <2>2. Granted(job[w])
    BY <1>1, <2>1 DEF Inv, WritersFit, Fits
  <2>3. d = job[w].folder
    BY <1>1, <2>1, <2>2, CreateAdds, RenameMoves DEF Granted
  <2> QED BY <2>1, <2>2, <2>3 DEF Granted
<1>2. Inv /\ [Next]_vars =>
        [outside' = outside =>
            \A d \in AllFolders : entry'[d] # entry[d] =>
                /\ \E p \in Paths : enrolled[p] = d
                /\ \E w \in Writers : job'[w] # job[w] /\ d \notin job[w].forbidden]_vars
  BY <1>1
<1> QED BY <1>2, AlwaysInv, PTL DEF Spec, OnlyOwnFolders
=============================================================================
