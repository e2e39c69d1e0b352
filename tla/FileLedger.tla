------------------------------ MODULE FileLedger ------------------------------
(***************************************************************************)
(* What the catalogue promises of each File, without disks, transactions   *)
(* or stale rows: the contents it has had, in order and the current one    *)
(* last, whether it is there, and whether its bytes are healthy.  A scan   *)
(* or a Verify that commits takes every File one step at most, and no      *)
(* history is ever shortened or rewritten.  Only a scan makes Files and    *)
(* only it and a reviewer add contents: the scan never to a flagged File,  *)
(* the reviewer to nothing but a flagged one.                              *)
(***************************************************************************)
EXTENDS Naturals, Sequences

CONSTANTS FileIds, Contents, None,
          Legacies      \* Files catalogued without their contents at first

VARIABLE file        \* [FileIds -> entries]

Healths == {"ok", "hash_mismatch", "unreadable"}

Entries == [history  : Seq(Contents \cup {None}),
            presence : {"none", "present", "missing"},
            health   : Healths]

Entry(q, p, h) == [history |-> q, presence |-> p, health |-> h]

Unborn == Entry(<<>>, "none", "ok")

Init == file = [f \in FileIds |-> IF f \in Legacies THEN Entry(<<None>>, "present", "ok")
                                  ELSE Unborn]

-----------------------------------------------------------------------------
(* What one step may make of an entry e: the entry n.                      *)

Latest(e) == e.history[Len(e.history)]

Born(e, n) == e = Unborn /\ \E c \in Contents : n = Entry(<<c>>, "present", "ok")

\* A File known without its contents gets them.
Completed(e, n, h) ==
    /\ e.presence = "present" /\ Latest(e) = None
    /\ \E c \in Contents :
        n = Entry([e.history EXCEPT ![Len(e.history)] = c], "present", h)

\* Other contents from now on.
Renewed(e, n) ==
    /\ e.presence # "none" /\ Latest(e) # None
    /\ \E c \in Contents \ {Latest(e)} :
        n = Entry(Append(e.history, c), "present", "ok")

Seen(e, n) ==
    /\ e.presence # "none"
    /\ \E h \in {e.health, "unreadable"} : n = Entry(e.history, "present", h)

Gone(e, n) == e.presence = "present" /\ n = Entry(e.history, "missing", e.health)

Judged(e, n) ==
    /\ e.presence = "present"
    /\ \E h \in Healths : /\ h = "hash_mismatch" => Latest(e) # None
                          /\ n = Entry(e.history, "present", h)

-----------------------------------------------------------------------------
Scanned(e, n) ==
    \/ n = e
    \/ Born(e, n)
    \/ Completed(e, n, e.health)
    \/ Renewed(e, n) /\ e.presence = "present" /\ e.health # "hash_mismatch"
    \/ Seen(e, n)
    \/ Gone(e, n)

Verified(e, n) ==
    \/ n = e
    \/ Completed(e, n, "ok")
    \/ Judged(e, n)
    \/ Gone(e, n)

Scan   == \A f \in FileIds : Scanned(file[f], file'[f])
Verify == \A f \in FileIds : Verified(file[f], file'[f])

Adopt(f) ==
    /\ file[f].health = "hash_mismatch" /\ Renewed(file[f], file'[f])
    /\ \A g \in FileIds \ {f} : file'[g] = file[g]

Next ==
    /\ file' \in [FileIds -> Entries]
    /\ Scan \/ Verify \/ \E f \in FileIds : Adopt(f)

Spec == Init /\ [][Next]_file

===============================================================================
