------------------------- MODULE TaskVersionsProofs -------------------------
(***************************************************************************)
(* The versions of a task, for every set of prompts, of tasks it may       *)
(* depend on and of requests under way together.                           *)
(***************************************************************************)
EXTENDS TaskVersions, TLAPS

(* Until two requests overlap, a copy that is yet to be committed has the  *)
(* prompt of the row: whatever replaces the prompt commits that copy.      *)
CopiesAreCurrent ==
    ~overlapped => \A m \in Editor : draft[m].taken => draft[m].copy.prompt = current.prompt

VersionsInv == VersionsTypeOK /\ CopiesAreCurrent /\ PromptsRecoverable

----------------------------------------------------------------------------
Draft == [taken : BOOLEAN, copy : Config]

(* The row is one of the configurations a version may hold.                *)
LEMMA CurrentIsConfig ==
    ASSUME VersionsTypeOK
    PROVE  current \in Config /\ current.prompt \in Prompt
BY DEF VersionsTypeOK, Config

(* A draft that is given up is a draft, and nobody else's changes.         *)
LEMMA NothingDrafted ==
    ASSUME VersionsTypeOK, NEW m \in Editor, Nothing(m)
    PROVE  /\ draft' \in [Editor -> Draft] /\ ~draft'[m].taken
           /\ \A n \in Editor \ {m} : draft'[n] = draft[n]
<1>1. draft \in [Editor -> Draft] /\ draft[m] \in Draft
  BY DEF VersionsTypeOK, Draft
<1> DEFINE d == [draft[m] EXCEPT !.taken = FALSE]
<1>2. d \in Draft /\ ~d.taken
  BY <1>1 DEF Draft
<1>3. draft' = [draft EXCEPT ![m] = d]
  BY DEF Nothing
<1> HIDE DEF d
<1>4. QED BY <1>1, <1>2, <1>3

(* At the start the task has its first prompt and no version.              *)
LEMMA VersionsInvInit == VersionsInit => VersionsInv
<1> SUFFICES ASSUME VersionsInit PROVE VersionsInv
  OBVIOUS
<1>1. /\ current \in [prompt : Prompt, parent : {NoUpstream}]
      /\ versions = {} /\ upstream = Upstream /\ ever = {current.prompt} /\ overlapped = FALSE
      /\ draft = [m \in Editor |-> [taken |-> FALSE, copy |-> current]]
  BY DEF VersionsInit, NoDraft
<1>2. VersionsTypeOK
  BY <1>1 DEF VersionsTypeOK, Config
<1>3. CopiesAreCurrent /\ PromptsRecoverable
  BY <1>1 DEF CopiesAreCurrent, PromptsRecoverable
<1>4. QED BY <1>2, <1>3 DEF VersionsInv

(* A commit: the prompt that goes is in the copy that is committed with    *)
(* it, unless another request copied the row as well.                      *)
LEMMA CommitStep ==
    ASSUME VersionsInv, NEW m \in Editor,
           NEW config \in [prompt : Prompt, parent : upstream \cup {NoUpstream}],
           Commit(m, config)
    PROVE  VersionsInv'
<1> USE DEF VersionsInv
<1>1. /\ draft[m].taken /\ current' = config /\ versions' = versions \cup {draft[m].copy}
      /\ ever' = ever \cup {config.prompt} /\ upstream' = upstream
      /\ overlapped' = (overlapped \/ \E n \in Editor \ {m} : draft[n].taken)
      /\ draft' \in [Editor -> Draft] /\ ~draft'[m].taken
      /\ \A n \in Editor \ {m} : draft'[n] = draft[n]
  BY NothingDrafted DEF Commit
<1>2. draft[m].copy \in Config
  BY DEF VersionsTypeOK
<1>3. overlapped' \in BOOLEAN
  BY <1>1, Zenon DEF VersionsTypeOK
<1>4. VersionsTypeOK'
  BY <1>1, <1>2, <1>3 DEF VersionsTypeOK, Draft
<1>5. CopiesAreCurrent'
  <2>1. ASSUME ~overlapped', NEW n \in Editor PROVE ~draft'[n].taken
    BY <1>1, <2>1
  <2>2. QED BY <2>1 DEF CopiesAreCurrent
<1>6. PromptsRecoverable'
  <2>1. ASSUME ~overlapped', NEW x \in ever'
        PROVE  current'.prompt = x \/ \E v \in versions' : v.prompt = x
    <3>1. ~overlapped /\ draft[m].copy.prompt = current.prompt
      BY <1>1, <2>1 DEF CopiesAreCurrent
    <3>2. CASE x = config.prompt
      BY <1>1, <3>2
    <3>3. CASE x \in ever
      BY <1>1, <3>1, <3>3 DEF PromptsRecoverable
    <3>4. QED BY <1>1, <2>1, <3>2, <3>3
  <2>2. QED BY <2>1 DEF PromptsRecoverable
<1>7. QED BY <1>4, <1>5, <1>6

(* A step of one request.                                                  *)
LEMMA EditorStep ==
    ASSUME VersionsInv, NEW m \in Editor,
           TakeVersion(m) \/ UpdateTask(m) \/ RestoreTask(m) \/ Rollback(m)
    PROVE  VersionsInv'
<1> USE DEF VersionsInv
<1>1. CASE TakeVersion(m)
  <2>1. /\ draft' = [draft EXCEPT ![m] = [taken |-> TRUE, copy |-> current]]
        /\ UNCHANGED <<current, versions, upstream, ever, overlapped>>
    BY <1>1 DEF TakeVersion
  <2>2. VersionsTypeOK'
    BY <2>1, CurrentIsConfig DEF VersionsTypeOK
  <2>3. CopiesAreCurrent' /\ PromptsRecoverable'
    BY <2>1 DEF VersionsTypeOK, CopiesAreCurrent, PromptsRecoverable
  <2>4. QED BY <2>2, <2>3
<1>2. CASE UpdateTask(m)
  <2>1. PICK prompt \in Prompt, p \in upstream \cup {NoUpstream} :
           Commit(m, [prompt |-> prompt, parent |-> p])
    BY <1>2 DEF UpdateTask
  <2>2. [prompt |-> prompt, parent |-> p] \in [prompt : Prompt, parent : upstream \cup {NoUpstream}]
    OBVIOUS
  <2>3. QED BY <2>1, <2>2, CommitStep
<1>3. CASE RestoreTask(m)
  <2>1. PICK v \in versions \cup {current} :
           (v \in versions => v.parent \in upstream \cup {NoUpstream}) /\ Commit(m, v)
    <3>1. CASE Commit(m, current)
      BY <3>1 DEF VersionsTypeOK
    <3>2. CASE \E v \in versions : v.parent \in upstream \cup {NoUpstream} /\ Commit(m, v)
      BY <3>2
    <3>3. QED BY <1>3, <3>1, <3>2 DEF RestoreTask
  <2>2. v \in [prompt : Prompt, parent : upstream \cup {NoUpstream}]
    BY <2>1 DEF VersionsTypeOK, Config
  <2>3. QED BY <2>1, <2>2, CommitStep
<1>4. CASE Rollback(m)
  <2>1. /\ draft' \in [Editor -> Draft] /\ ~draft'[m].taken
        /\ \A n \in Editor \ {m} : draft'[n] = draft[n]
        /\ UNCHANGED <<current, versions, upstream, ever, overlapped>>
    BY <1>4, NothingDrafted DEF Rollback
  <2>2. VersionsTypeOK'
    BY <2>1 DEF VersionsTypeOK, Draft
  <2>3. CopiesAreCurrent' /\ PromptsRecoverable'
    BY <2>1 DEF CopiesAreCurrent, PromptsRecoverable
  <2>4. QED BY <2>2, <2>3
<1>5. QED BY <1>1, <1>2, <1>3, <1>4

(* A link and the deletion of a parent leave the prompt alone.             *)
LEMMA LinkingStep ==
    ASSUME VersionsInv, LinkTask \/ \E p \in Upstream : DeleteUpstream(p)
    PROVE  VersionsInv'
<1> USE DEF VersionsInv
<1>1. /\ current' \in [prompt : Prompt, parent : upstream' \cup {NoUpstream}]
      /\ current'.prompt = current.prompt
      /\ upstream' \subseteq upstream
      /\ UNCHANGED <<versions, draft, ever, overlapped>>
  <2>1. CASE LinkTask
    BY <2>1 DEF LinkTask, Relink, VersionsTypeOK
  <2>2. CASE \E p \in Upstream : DeleteUpstream(p)
    BY <2>2 DEF DeleteUpstream, VersionsTypeOK
  <2>3. QED BY <2>1, <2>2
<1>2. VersionsTypeOK'
  BY <1>1 DEF VersionsTypeOK
<1>3. CopiesAreCurrent' /\ PromptsRecoverable'
  BY <1>1 DEF CopiesAreCurrent, PromptsRecoverable
<1>4. QED BY <1>2, <1>3

(* The strengthening: copies are current until two requests overlap.       *)
LEMMA VersionsInvHolds == VersionsSpec => []VersionsInv
<1>1. VersionsInv /\ [VersionsNext]_wvars => VersionsInv'
  <2> SUFFICES ASSUME VersionsInv, [VersionsNext]_wvars PROVE VersionsInv'
    OBVIOUS
  <2>1. CASE UNCHANGED wvars
    BY <2>1 DEF wvars, VersionsInv, VersionsTypeOK, CopiesAreCurrent, PromptsRecoverable
  <2>2. QED BY <2>1, EditorStep, LinkingStep DEF VersionsNext
<1>2. QED BY <1>1, VersionsInvInit, PTL DEF VersionsSpec

(* Row, versions and copies are of their types, and no statement leaves a  *)
(* dependency on a task that is gone.                                      *)
THEOREM VersionsTypeCorrect == VersionsSpec => []VersionsTypeOK
<1>1. VersionsInv => VersionsTypeOK
  BY DEF VersionsInv
<1>2. QED BY <1>1, VersionsInvHolds, PTL

(* A prompt the task ever had can be restored, through any sequence of     *)
(* updates, restores, links and rollbacks that do not overlap.             *)
THEOREM PromptsStayRecoverable == VersionsSpec => []PromptsRecoverable
<1>1. VersionsInv => PromptsRecoverable
  BY DEF VersionsInv
<1>2. QED BY <1>1, VersionsInvHolds, PTL
=============================================================================
