---------------------------- MODULE TaskVersions ----------------------------
(***************************************************************************)
(* The versions of one task (task_rest_handlers.go): an update or a        *)
(* restore first copies the row to task_versions and then overwrites it,   *)
(* in one transaction at READ COMMITTED, so that two requests may copy the *)
(* same row.  A link overwrites the dependency without a copy, and the     *)
(* deletion of a parent clears it.                                         *)
(*                                                                         *)
(* The UPDATE holds the row until COMMIT, which follows at once: the two   *)
(* are one step, a failed one leaves nothing behind.                       *)
(***************************************************************************)
EXTENDS Naturals

CONSTANTS
    Prompt,            \* prompts, with the columns that come with them
    Upstream, NoUpstream,  \* tasks it may depend on
    Editor             \* requests under way together

ASSUME VersionsAssumption == NoUpstream \notin Upstream

Config == [prompt : Prompt, parent : Upstream \cup {NoUpstream}]

VARIABLES
    current,     \* the row
    versions,    \* the rows of task_versions
    upstream,    \* tasks of Upstream that exist
    draft,       \* draft[m]: the copy editor m has made, not yet committed
    ever,        \* prompts the task had (history)
    overlapped   \* two requests overlapped (history)

wvars == <<current, versions, upstream, draft, ever, overlapped>>

NoDraft == [taken |-> FALSE, copy |-> current]
Nothing(m) == draft' = [draft EXCEPT ![m] = [@ EXCEPT !.taken = FALSE]]

VersionsInit ==
    /\ current \in [prompt : Prompt, parent : {NoUpstream}]
    /\ versions = {} /\ upstream = Upstream
    /\ draft = [m \in Editor |-> NoDraft]
    /\ ever = {current.prompt} /\ overlapped = FALSE

(* CreateTaskVersion: INSERT ... SELECT of the committed row.              *)
TakeVersion(m) ==
    /\ ~draft[m].taken
    /\ draft' = [draft EXCEPT ![m] = [taken |-> TRUE, copy |-> current]]
    /\ UNCHANGED <<current, versions, upstream, ever, overlapped>>

(* The row is written and the transaction committed.                       *)
Commit(m, config) ==
    /\ draft[m].taken
    /\ current' = config
    /\ versions' = versions \cup {draft[m].copy}
    /\ Nothing(m)
    /\ ever' = ever \cup {config.prompt}
    /\ overlapped' = (overlapped \/ \E n \in Editor \ {m} : draft[n].taken)
    /\ UNCHANGED upstream

(* UpdateTaskAgentPromptAndPolicy: a request without a dependency, or with *)
(* a malformed one, clears it; a parent that is gone is refused.           *)
UpdateTask(m) ==
    \E prompt \in Prompt : \E p \in upstream \cup {NoUpstream} :
        Commit(m, [prompt |-> prompt, parent |-> p])

RestoreInPlace(m) ==   \* mutant: the row is not copied before the restore
    /\ draft[m].taken
    /\ \E v \in versions : /\ v.parent \in upstream \cup {NoUpstream}
                           /\ current' = v
    /\ Nothing(m)
    /\ UNCHANGED <<versions, upstream, ever, overlapped>>

(* A version whose parent is gone is refused by the foreign key; with an   *)
(* id that is no version of the task only the copy is committed.           *)
RestoreTask(m) ==
    \/ \E v \in versions :
          v.parent \in upstream \cup {NoUpstream} /\ Commit(m, v)
    \/ Commit(m, current)

(* An error or a client that goes away rolls the transaction back.         *)
Rollback(m) ==
    /\ draft[m].taken
    /\ Nothing(m)
    /\ UNCHANGED <<current, versions, upstream, ever, overlapped>>

Relink(p) ==
    /\ current' = [current EXCEPT !.parent = p]
    /\ UNCHANGED <<versions, upstream, draft, ever, overlapped>>

LinkTask == \E p \in upstream \cup {NoUpstream} : Relink(p)

DeleteKeepingLink(p) ==   \* mutant: no ON DELETE SET NULL
    /\ p \in upstream /\ upstream' = upstream \ {p}
    /\ UNCHANGED <<current, versions, draft, ever, overlapped>>

DeleteUpstream(p) ==
    /\ p \in upstream
    /\ upstream' = upstream \ {p}
    /\ current' = [current EXCEPT !.parent = IF @ = p THEN NoUpstream ELSE @]
    /\ UNCHANGED <<versions, draft, ever, overlapped>>

VersionsNext ==
    \/ \E m \in Editor : TakeVersion(m) \/ UpdateTask(m) \/ RestoreTask(m) \/ Rollback(m)
    \/ LinkTask
    \/ \E p \in Upstream : DeleteUpstream(p)

VersionsSpec == VersionsInit /\ [][VersionsNext]_wvars

----------------------------------------------------------------------------
(* No statement leaves a dependency on a task that is gone.                *)
VersionsTypeOK ==
    /\ current \in [prompt : Prompt, parent : upstream \cup {NoUpstream}]
    /\ versions \subseteq Config
    /\ upstream \subseteq Upstream
    /\ draft \in [Editor -> [taken : BOOLEAN, copy : Config]]
    /\ ever \subseteq Prompt /\ overlapped \in BOOLEAN

(* "Every time you update a task's prompt or configuration, the system     *)
(* automatically creates an immutable snapshot" (Docs.jsx:203): a prompt   *)
(* the task ever had is its prompt now or in one of its versions, through  *)
(* updates, restores, restores of what a restore replaced, and rollbacks,  *)
(* until two requests overlap, which may both copy the same row.           *)
PromptsRecoverable ==
    ~overlapped => \A x \in ever : \/ current.prompt = x
                                   \/ \E v \in versions : v.prompt = x
=============================================================================
