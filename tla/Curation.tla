----------------------------- MODULE Curation ------------------------------
(* What people make of the photographs: albums and tags of Photos           *)
(* (organization.py), Events of Files (events.py), lineage between Photos   *)
(* (duplicate_lineage.py), suggested tags (organization_suggestions.py),    *)
(* and the library that is forgotten with all of it (forget_library).       *)
(*                                                                          *)
(* Except for a suggestion, an operation reads and checks in autocommit,    *)
(* takes its time, and only then begins a transaction, which sqlite gives   *)
(* the write lock at its first statement. So Start and Commit are two       *)
(* steps, and what was checked at Start may be stale: at Commit only        *)
(* triggers, foreign keys and unique indexes speak (migrations 013 to 026). *)
EXTENDS PhotoIdentity

CONSTANTS
    Labels,     \* values of a name or text
    Standing,   \* collections that exist at first, as made, with their members
    Catalogued, \* Files that have a row at first
    Assigned,   \* how they may be assigned to Photos at first
    Kinds,      \* bound: the curations sessions make
    MaxItems,   \* bound: members one operation adds or removes
    MinGroup, MinTagged, MinCoverage    \* when a tag is suggested; per cent

Made == {Standing[i].of : i \in DOMAIN Standing}

ASSUME CurationAssumption ==
    /\ Catalogued \subseteq Files
    /\ Assigned \subseteq [Catalogued -> Photos]
    /\ Labels \cap Photos = {} /\ Files \cap Photos = {} /\ None \notin Collections

\* What stands at first is as the triggers would have it.
ASSUME StandingAssumption ==
    /\ Standing \in Seq([of : Collections, items : SUBSET (Files \cup Photos)])
    /\ \A i, j \in DOMAIN Standing : Standing[i].of = Standing[j].of => i = j
    /\ \A i \in DOMAIN Standing, h \in Assigned : \A x \in Standing[i].items :
          \E f \in Catalogued :
              /\ LibOf[f] = LibOf[Standing[i].of]
              /\ x = IF Standing[i].of \in Events THEN f ELSE h[f]

Exists(c) == c \in DOMAIN members
Extended(map, c, v) == [x \in DOMAIN map \cup {c} |-> IF x = c THEN v ELSE map[x]]
Home(c) == LibOf[c]

\* A File of the library, or a Photo with one (the library guard triggers).
Belongs(x, c) ==
    IF c \in Events THEN x \in Rows /\ LibOf[x] = Home(c) ELSE Represented(x, Home(c))

Candidates(c) == {x \in IF c \in Events THEN Files ELSE photos : Belongs(x, c)}

Entry(s, act) ==
    [of |-> task[s].of, act |-> act, items |-> task[s].items, at |-> task[s].now]

Curating(op, c, items) == [at |-> "curating", op |-> op, of |-> c, items |-> items, now |-> clock]

Start(s, record) ==
    /\ task[s] = Idle /\ Timely(record.op) /\ record.op \in Kinds
    /\ task' = [task EXCEPT ![s] = record]
    /\ clock' = clock + 1
    /\ UNCHANGED <<identity, evidence, disk, curated, lock, envs>>

\* Ready to write: the operation of the session can have the lock.
Writing(s, op) == task[s].at = "curating" /\ task[s].op = op /\ lock = None

Finish(s) ==
    /\ task' = [task EXCEPT ![s] = Idle]
    /\ UNCHANGED <<disk, lock, clock, envs>>

(***************************************************************************)
(* Collections                                                              *)
(***************************************************************************)
\* A shelf begins empty; an Event with the Files of its cluster. A second
\* Event of a cluster is refused, by the check or by the unique index.
StartCreate(s) ==
    \E c \in Collections \ DOMAIN members :
      /\ Home(c) \in libs
      /\ \E seeds \in IF c \in Events THEN SUBSET Candidates(c) \ {{}} ELSE {{}} :
            Start(s, Curating("create", c, seeds))

CommitCreate(s) ==
    LET c == task[s].of IN
    /\ Writing(s, "create")
    /\ ~Exists(c) /\ Home(c) \in libs
    /\ \A x \in task[s].items : Belongs(x, c)
    /\ members' = Extended(members, c, task[s].items)
    /\ shown' = Extended(shown, c, Plain)
    /\ \E v \in Labels :
          /\ label' = Extended(label, c, v)
          /\ history' = Append(Append(history, Entry(s, "add")),
                              [Entry(s, "label") EXCEPT !.items = {v}])
    /\ Finish(s)
    /\ UNCHANGED <<identity, evidence, kinship, verdicts>>

\* What is new of the chosen Photos, or one File.
StartAdd(s) ==
    \E c \in DOMAIN members : \E items \in SUBSET (Candidates(c) \ members[c]) \ {{}} :
        /\ Cardinality(items) <= IF c \in Events THEN 1 ELSE MaxItems
        /\ Start(s, Curating("add", c, items))

\* The whole set or nothing: a member that is there already breaks the key.
CommitAdd(s) ==
    LET c == task[s].of IN
    /\ Writing(s, "add")
    /\ Exists(c) /\ task[s].items \cap members[c] = {}
    /\ \A x \in task[s].items : Belongs(x, c)
    /\ members' = [members EXCEPT ![c] = @ \cup task[s].items]
    /\ shown' = [shown EXCEPT ![c].order = None]
    /\ history' = Append(history, Entry(s, "add"))
    /\ Finish(s)
    /\ UNCHANGED <<identity, evidence, label, kinship, verdicts>>

\* An Event must keep a member: the check is of what was read.
StartRemove(s) ==
    \E c \in DOMAIN members : \E items \in SUBSET members[c] \ {{}} :
        /\ Cardinality(items) <= IF c \in Events THEN 1 ELSE MaxItems
        /\ c \in Events => Cardinality(members[c]) > 1
        /\ Start(s, Curating("remove", c, items))

\* Mutant: the audit row is forgotten.
CommitRemoveUnaudited(s) ==
    LET c == task[s].of IN
    /\ Writing(s, "remove") /\ Exists(c)
    /\ members' = [members EXCEPT ![c] = @ \ task[s].items]
    /\ shown' = [shown EXCEPT ![c] = ShownWithout(c, task[s].items)]
    /\ Finish(s)
    /\ UNCHANGED <<identity, evidence, label, history, kinship, verdicts>>

\* Rows that are gone already are recorded as removed all the same. A cover
\* goes with its membership (presentation cleanup triggers).
CommitRemove(s) ==
    LET c == task[s].of IN
    /\ Writing(s, "remove") /\ Exists(c)
    /\ members' = [members EXCEPT ![c] = @ \ task[s].items]
    /\ shown' = [shown EXCEPT ![c] = ShownWithout(c, task[s].items)]
    /\ history' = Append(history, Entry(s, "remove"))
    /\ Finish(s)
    /\ UNCHANGED <<identity, evidence, label, kinship, verdicts>>

\* A name, note, description or context: an unchanged one is not written.
StartLabel(s) ==
    \E c \in DOMAIN members : \E v \in Labels \ {label[c]} :
        Start(s, Curating("label", c, {v}))

CommitLabel(s) ==
    LET c == task[s].of IN
    /\ Writing(s, "label") /\ Exists(c)
    /\ \E v \in task[s].items : label' = [label EXCEPT ![c] = v]
    /\ history' = Append(history, Entry(s, "label"))
    /\ Finish(s)
    /\ UNCHANGED <<identity, evidence, members, shown, kinship, verdicts>>

\* A stored order counts while it lists exactly the members.
Order(c) == IF shown[c].order = members[c] THEN shown[c].order ELSE None

\* Tags have no presentation. The cover is a member when it is chosen, an
\* order lists every member; a reset takes both away.
Presentable == DOMAIN members \ Tags

StartCover(s) ==
    \E c \in Presentable : \E x \in members[c] \cup {None} :
        shown[c].cover # x /\ Start(s, Curating("cover", c, {x}))

\* The triggers want the cover to be a member when it is stored.
CommitCover(s) ==
    LET c == task[s].of IN
    /\ Writing(s, "cover") /\ Exists(c)
    /\ \E x \in task[s].items :
          /\ x = None \/ x \in members[c]
          /\ shown' = [shown EXCEPT ![c].cover = x]
    /\ Finish(s)
    /\ UNCHANGED <<identity, evidence, members, label, history, kinship, verdicts>>

StartArrange(s) ==
    \E c \in Presentable :
        members[c] # {} /\ Order(c) = None /\ Start(s, Curating("arrange", c, members[c]))

\* Nothing looks at the members again: an order may be stored stale.
CommitArrange(s) ==
    LET c == task[s].of IN
    /\ Writing(s, "arrange") /\ Exists(c)
    /\ shown' = [shown EXCEPT ![c].order = task[s].items]
    /\ Finish(s)
    /\ UNCHANGED <<identity, evidence, members, label, history, kinship, verdicts>>

StartReset(s) ==
    \E c \in Presentable :
        (shown[c].cover # None \/ Order(c) # None) /\ Start(s, Curating("reset", c, {}))

CommitReset(s) ==
    LET c == task[s].of IN
    /\ Writing(s, "reset") /\ Exists(c)
    /\ shown' = [shown EXCEPT ![c] = Plain]
    /\ Finish(s)
    /\ UNCHANGED <<identity, evidence, members, label, history, kinship, verdicts>>

(***************************************************************************)
(* Suggestions                                                              *)
(***************************************************************************)
\* The Photos of an album or Event.
Peers(g) == IF g \in Events THEN {photoOf[f] : f \in members[g]} ELSE members[g]

\* Nearly all of the group has the tag: the rest may want it.
Suggested ==
    {x \in {[tag |-> t, group |-> g, peers |-> Peers(g), targets |-> Peers(g) \ members[t]] :
                t \in Tags \cap DOMAIN members, g \in (Albums \cup Events) \cap DOMAIN members} :
        LET tagged == Cardinality(x.peers \ x.targets)
            all    == Cardinality(x.peers)
        IN  /\ Home(x.tag) = Home(x.group) /\ x.targets # {}
            /\ all >= MinGroup /\ tagged >= MinTagged
            /\ 100 * tagged >= MinCoverage * all}

\* One that was dismissed is not offered again, until it is restored.
ReviewSuggestion(s) ==
    /\ task[s] = Idle
    /\ \E x \in Suggested :
          /\ [of |-> x, says |-> "dismissed"] \notin verdicts
          /\ task' = [task EXCEPT ![s] = [at |-> "suggested", plan |-> x]]
    /\ UNCHANGED <<identity, evidence, disk, curated, lock, clock, envs>>

Judged(x, says) == {v \in verdicts : v.of # x} \cup {[of |-> x, says |-> says]}

\* Accepted under BEGIN IMMEDIATE, if it would still be made, word for word.
ApplySuggestion(s) ==
    /\ task[s].at = "suggested" /\ lock = None /\ Timely("accept")
    /\ LET x == task[s].plan IN
       /\ x \in Suggested
       /\ \A p \in x.targets : Belongs(p, x.tag)
       /\ members' = [members EXCEPT ![x.tag] = @ \cup x.targets]
       /\ history' = Append(history, [of |-> x.tag, act |-> "add", items |-> x.targets, at |-> clock])
       /\ verdicts' = Judged(x, "accepted")
    /\ task' = [task EXCEPT ![s] = Idle] /\ clock' = clock + 1
    /\ UNCHANGED <<identity, evidence, disk, shown, label, kinship, lock, envs>>

DismissSuggestion(s) ==
    /\ task[s].at = "suggested" /\ lock = None /\ Timely("dismiss")
    /\ task[s].plan \in Suggested
    /\ verdicts' = Judged(task[s].plan, "dismissed")
    /\ task' = [task EXCEPT ![s] = Idle] /\ clock' = clock + 1
    /\ UNCHANGED <<identity, evidence, disk, members, shown, label, history, kinship, lock, envs>>

\* The verdict is read before the transaction that takes it back, whatever it
\* says by then.
StartRestore(s) ==
    \E v \in verdicts : v.says = "dismissed" /\ Start(s, Curating("restore", v.of.tag, {v.of}))

CommitRestore(s) ==
    /\ Writing(s, "restore") /\ Home(task[s].of) \in libs
    /\ verdicts' = {v \in verdicts : v.of \notin task[s].items}
    /\ Finish(s)
    /\ UNCHANGED <<identity, evidence, members, shown, label, history, kinship>>

(***************************************************************************)
(* Lineage                                                                  *)
(***************************************************************************)
SameBytes(p, q) == \E f \in FilesOf(p), g \in FilesOf(q) :
    Verified(f) # None /\ Verified(f) = Verified(g)

StartRelate(s) ==
    \E p, q \in photos :
        /\ p # q /\ ~SameBytes(p, q) /\ <<p, q>> \notin lineage
        /\ Start(s, Curating("relate", <<p, q>>, {}))

\* The Photos derived from p, over the few Photos there are.
Children(S) == S \cup {e[2] : e \in {d \in lineage : d[1] \in S}}
Descends[n \in Nat] ==
    [p \in Photos |-> IF n = 0 THEN {p} ELSE Children(Descends[n - 1][p])]

\* The cycle trigger, the unique pair and the foreign keys.
CommitRelate(s) ==
    LET e == task[s].of IN
    /\ Writing(s, "relate")
    /\ {e[1], e[2]} \subseteq photos /\ e \notin lineage
    /\ e[1] \notin Descends[Cardinality(photos)][e[2]]
    /\ lineage' = lineage \cup {e}
    /\ lineageLog' = lineageLog \cup {[parent |-> e[1], child |-> e[2], at |-> task[s].now]}
    /\ Finish(s)
    /\ UNCHANGED <<identity, evidence, members, shown, label, history, verdicts>>

StartUnrelate(s) == \E e \in lineage : Start(s, Curating("unrelate", e, {}))

CommitUnrelate(s) ==
    LET e == task[s].of IN
    /\ Writing(s, "unrelate")
    /\ lineage' = lineage \ {e}
    /\ lineageLog' = lineageLog \cup {[parent |-> e[1], child |-> e[2], at |-> task[s].now]}
    /\ Finish(s)
    /\ UNCHANGED <<identity, evidence, members, shown, label, history, verdicts>>

(***************************************************************************)
(* forget_library                                                           *)
(***************************************************************************)
\* The Files and their Photos are read before the transaction begins.
StartForget(s) ==
    \E l \in libs :
        LET files == {f \in Rows : LibOf[f] = l} IN
        Start(s, [at |-> "curating", op |-> "forget", of |-> l, items |-> files,
                  photos |-> {photoOf[f] : f \in files}, now |-> clock])

\* Mutant: a File catalogued after the read does not hold the library back.
ForgetUnread(l, files) ==
    \/ \E r \in splits \cup merges : r.lib = l
    \/ \E r \in proposed : LibOf[r.file] = l

\* Foreign keys and triggers that refuse: revisions of a File that was not
\* read, audits of identity decisions, recovery proposals.
ForgetBlocked(l, files) ==
    \/ {f \in Rows : LibOf[f] = l} \ files # {}
    \/ \E r \in splits \cup merges : r.lib = l
    \/ \E r \in proposed : LibOf[r.file] = l

\* The ids of audit rows are never given again (AUTOINCREMENT).
Erased == [of |-> None, act |-> "erased", items |-> {}, at |-> 0]

CommitForget(s) ==
    LET l    == task[s].of
        gone == {f \in Rows : LibOf[f] = l}
        bare == {p \in task[s].photos : FilesOf(p) \subseteq gone}
        kept == {c \in DOMAIN members : Home(c) # l}
    IN
    /\ Writing(s, "forget")
    /\ ~ForgetBlocked(l, task[s].items)
    /\ \A r \in proposed : r.photo \notin bare
    /\ libs' = libs \ {l}
    /\ photoOf' = [f \in Files |-> IF f \in gone THEN None ELSE photoOf[f]]
    /\ photos' = photos \ bare
    /\ members' = [c \in kept |-> members[c] \ (gone \cup bare)]
    /\ shown' = [c \in kept |-> ShownWithout(c, gone \cup bare)]
    /\ label' = [c \in kept |-> label[c]]
    /\ history' = [i \in DOMAIN history |->
                    IF history[i].of \in kept THEN history[i] ELSE Erased]
    /\ lineage' = {e \in lineage : {e[1], e[2]} \cap bare = {}}
    /\ verdicts' = {v \in verdicts : Home(v.of.tag) # l}
    /\ Finish(s)
    /\ UNCHANGED <<issued, splits, recovered, merges, evidence, lineageLog>>

(***************************************************************************)
(* The composition                                                          *)
(***************************************************************************)
Init ==
    /\ libs = Libs
    /\ \E h \in Assigned :
          photoOf = [f \in Files |-> IF f \in Catalogued THEN h[f] ELSE None]
    /\ photos = {photoOf[f] : f \in Catalogued} /\ issued = photos
    /\ current \in [Files -> [n : {0}, sha : Contents]]
    /\ sound = [f \in Files |-> f \in Catalogued]
    /\ disk = [f \in Files |-> current[f].sha]
    /\ proposed = {}
    /\ members = [c \in Made |-> {x \in Files \cup Photos : \E i \in DOMAIN Standing :
                                    Standing[i].of = c /\ x \in Standing[i].items}]
    /\ shown = [c \in Made |-> Plain]
    /\ \E v \in Labels : label = [c \in Made |-> v]
    /\ history = [i \in DOMAIN Standing |->
                    [of |-> Standing[i].of, act |-> "add", items |-> Standing[i].items, at |-> 0]]
    /\ lineage = {} /\ lineageLog = {} /\ verdicts = {}
    /\ splits = {} /\ recovered = {} /\ merges = {}
    /\ lock = None /\ task = [s \in Sessions |-> Idle]
    /\ clock = 1 /\ envs = 0

Identify(s) ==
    \/ Review(s) \/ Begin(s) \/ Reattest(s)
    \/ SplitCommit(s) \/ RecoveryCommit(s) \/ MergeCommit(s)

Curate(s) ==
    \/ StartCreate(s) \/ CommitCreate(s)
    \/ StartAdd(s) \/ CommitAdd(s)
    \/ StartRemove(s) \/ CommitRemove(s)
    \/ StartLabel(s) \/ CommitLabel(s)
    \/ StartCover(s) \/ CommitCover(s)
    \/ StartArrange(s) \/ CommitArrange(s)
    \/ StartReset(s) \/ CommitReset(s)
    \/ ReviewSuggestion(s) \/ ApplySuggestion(s) \/ DismissSuggestion(s)
    \/ StartRestore(s) \/ CommitRestore(s)
    \/ StartRelate(s) \/ CommitRelate(s)
    \/ StartUnrelate(s) \/ CommitUnrelate(s)
    \/ StartForget(s) \/ CommitForget(s)

Elsewhere ==
    \/ Edit
    \/ \E f \in Files : Verify(f) \/ Adopt(f) \/ Appear(f) \/ Propose(f)

Next ==
    \/ \E s \in Sessions : Identify(s) \/ Curate(s) \/ Abandon(s)
    \/ Elsewhere

Spec == Init /\ [][Next]_vars

(***************************************************************************)
(* Properties                                                               *)
(***************************************************************************)
TypeOK ==
    /\ libs \subseteq Libs /\ photos \subseteq issued /\ issued \subseteq Photos
    /\ photoOf \in [Files -> Photos \cup {None}]
    /\ current \in [Files -> [n : Nat, sha : Contents]]
    /\ sound \in [Files -> BOOLEAN] /\ disk \in [Files -> Contents \cup {None}]
    /\ proposed \subseteq [file : Files, photo : Photos]
    /\ DOMAIN members \subseteq Collections
    /\ \A c \in DOMAIN members :
          members[c] \subseteq (IF c \in Events THEN Files ELSE Photos)
    /\ DOMAIN shown = DOMAIN members /\ label \in [DOMAIN members -> Labels]
    /\ \A i \in DOMAIN history : history[i].of \in DOMAIN members \cup {None}
    /\ lineage \subseteq Photos \X Photos
    /\ lineageLog \subseteq [parent : Photos, child : Photos, at : Nat]
    /\ recovered \subseteq splits
    /\ lock \in Sessions \cup {None}
    /\ \A s \in Sessions : lock = s <=> task[s].at \in {"begun", "attested"}
    /\ clock \in 1 .. MaxOps + MaxUndo /\ envs \in 0 .. MaxEnv

\* Every Photo has a File and every File a Photo: no split, merge, recovery or
\* forgotten library leaves an empty Photo behind or takes a used one away,
\* although forget_library lists Files and Photos before its transaction.
NoGhostPhoto == photos = {photoOf[f] : f \in Rows}

\* A member of a collection is in the collection's library by a File of its
\* own, and a cover is a member, however identity changes under a curation
\* that was checked before it could write.
MembershipBacked ==
    \A c \in DOMAIN members :
        /\ Home(c) \in libs
        /\ \A x \in members[c] : Belongs(x, c)
        /\ shown[c].cover \in members[c] \cup {None}

Latest(c, i, acts, x) ==
    /\ history[i].of = c /\ history[i].act \in acts /\ x \in history[i].items
    /\ \A j \in (i + 1) .. Len(history) :
          history[j].of = c /\ history[j].act \in acts => x \notin history[j].items

\* The audit tells what is: whoever replays the rows of a collection in order
\* has its members and its label, whatever stale reads their writers made.
AuditReplays ==
    \A c \in DOMAIN members :
        /\ members[c] = {x \in Files \cup Photos : \E i \in DOMAIN history :
                            history[i].act = "add" /\ Latest(c, i, {"add", "remove"}, x)}
        /\ \A i \in DOMAIN history :
              /\ history[i].of = c /\ history[i].act = "label"
              /\ \A j \in (i + 1) .. Len(history) :
                    history[j].of = c => history[j].act # "label"
              => label[c] \in history[i].items

\* A Photo that a merge or a recovery retires takes nothing with it: no
\* membership, no lineage, no File.
RetiredPhotoIsBare ==
    [][\A p \in photos \ photos' : libs' = libs =>
          /\ ShelvesWith(p) = {}
          /\ \A e \in lineage : p \notin {e[1], e[2]}
          /\ \A f \in Files : photoOf'[f] # p]_vars

\* A File changes Photo only by the plan a person reviewed, on the catalogue
\* state that was reviewed, and with every File of both Photos holding its
\* verified bytes when they were last read, inside the transaction.
ReassignedOnReviewedBytes ==
    [][\A f \in Rows : photoOf'[f] \notin {None, photoOf[f]} =>
          \E s \in Sessions :
              /\ task[s].at = "attested" /\ f \in task[s].plan.files
              /\ Fingerprint(task[s].plan) = task[s].print
              /\ \A g \in Concerned(task[s].plan) :
                    g \in task[s].late \/ disk[g] = Verified(g)]_vars

\* A recovery gives back what the split took apart: every File of the divided
\* Photo, and every File that joined the new one since, has the old Photo again
\* or is no longer catalogued.
RecoveryReunites ==
    [][\A r \in recovered' \ recovered : \A f \in r.files \cup r.kin \cup FilesOf(r.new) :
          photoOf'[f] \in {r.src, None}]_vars

\* A split is recovered only if "no later Album/Tag curation touched either
\* logical Photo, even if later removed" (PHASE10_4_IDENTITY_RESOLUTION_RECOVERY.md).
RecoveryHonoursLaterCuration ==
    [][\A r \in recovered' \ recovered : \A i \in DOMAIN history :
          i > r.before /\ history[i].of \in Shelves =>
              history[i].items \cap {r.src, r.new} = {}]_vars

\* An Event retains at least one member (PHASE8_5_EVENT_CURATION.md:16).
EventKeepsMember == \A c \in Events \cap DOMAIN members : members[c] # {}

=============================================================================
