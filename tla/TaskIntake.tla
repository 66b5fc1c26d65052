----------------------------- MODULE TaskIntake -----------------------------
(***************************************************************************)
(* How tasks of one user come into being and are linked to each other: the *)
(* REST handler and the MCP tool that create one task after a look at the  *)
(* quota, the import of a bundle (task_transfer.go), which creates the     *)
(* tasks one statement at a time and links them afterwards, and the        *)
(* deployment of a blueprint (template_handlers.go), one transaction.      *)
(* Requests run side by side; each step is one committed statement or      *)
(* transaction.                                                            *)
(***************************************************************************)
EXTENDS Integers, FiniteSets

CONSTANTS
    Id, NoId,    \* ids a task may get; a bound on the tasks there are
    QuotaLimit,  \* tasks the user's tier allows
    Caller,      \* requests under way together
    Items,       \* tasks in a bundle or blueprint, numbered from 1
    DependsOn    \* DependsOn[k]: the item k depends on, 0: none, beyond
                 \* Items: an id that is not in the bundle

ASSUME IntakeAssumption ==
    /\ NoId \notin Id /\ IsFiniteSet(Id) /\ IsFiniteSet(Caller)
    /\ QuotaLimit \in Nat \ {0} /\ Items \in Nat \ {0}
    /\ DependsOn \in [1 .. Items -> 0 .. Items + 1]

VARIABLES
    tasks,     \* ids of the rows there are
    parent,    \* their depends_on_task_id
    intake,    \* intake[m]: request m, its next item, the ids of its items
    unmetered  \* rows of bundles and blueprints (history)

ivars == <<tasks, parent, intake, unmetered>>

Item == 1 .. Items
NoIntake == [pc |-> "idle", at |-> 1, made |-> [k \in Item |-> NoId]]
IntakeState == {"idle", "counted", "creating", "linking", "imported", "deployed"}

IntakeInit ==
    /\ tasks = {} /\ unmetered = {}
    /\ parent = [i \in Id |-> NoId]
    /\ intake = [m \in Caller |-> NoIntake]

(* A UUID is never given twice, and somebody may still know an old one.    *)
Fresh == {i \in Id \ tasks : \A m \in Caller : \A k \in Item : intake[m].made[k] # i}

Insert(i, p) ==
    /\ tasks' = tasks \cup {i}
    /\ parent' = [parent EXCEPT ![i] = p]

Goto(m, pc) == intake' = [intake EXCEPT ![m].pc = pc, ![m].at = 1]

(* The next item, or the first one of what comes next.                     *)
Advance(m, next, made) ==
    LET at == intake[m].at IN
    intake' = [intake EXCEPT
                 ![m] = IF at < Items THEN [pc |-> @.pc, at |-> at + 1, made |-> made]
                                      ELSE [pc |-> next, at |-> 1, made |-> made]]

----------------------------------------------------------------------------
BelowOrAtQuota == Cardinality(tasks) <= QuotaLimit   \* mutant

(* CheckUserQuota: SELECT COUNT, compared with the limit of the tier.      *)
WithinQuota == Cardinality(tasks) < QuotaLimit

CountTasks(m) ==
    /\ intake[m].pc = "idle" /\ WithinQuota
    /\ Goto(m, "counted")
    /\ UNCHANGED <<tasks, parent, unmetered>>

CreateTask(m) ==
    /\ intake[m].pc = "counted"
    /\ \E i \in Fresh : \E p \in tasks \cup {NoId} : Insert(i, p)
    /\ Goto(m, "idle")
    /\ UNCHANGED unmetered

(* importUserTasks: all items first, none of them linked; no quota.        *)
BeginImport(m) ==
    /\ intake[m].pc = "idle"
    /\ Goto(m, "creating")
    /\ UNCHANGED <<tasks, parent, unmetered>>

ImportItem(m) ==
    LET r == intake[m] IN
    /\ r.pc = "creating"
    /\ \E i \in Fresh :
          /\ Insert(i, NoId)
          /\ unmetered' = unmetered \cup {i}
          /\ Advance(m, "linking", [r.made EXCEPT ![r.at] = i])

LinkBackwards(m) ==   \* mutant: an item can only depend on an earlier one
    LET r == intake[m]
        d == DependsOn[r.at]
    IN /\ r.pc = "linking"
       /\ parent' = IF d \in 1 .. r.at - 1 /\ r.made[r.at] \in tasks
                       /\ r.made[d] \in tasks
                    THEN [parent EXCEPT ![r.made[r.at]] = r.made[d]] ELSE parent
       /\ Advance(m, "imported", r.made)
       /\ UNCHANGED <<tasks, unmetered>>

(* An unknown dependency, or a parent that was deleted meanwhile (a        *)
(* foreign key), ends the import where it is; a child that was deleted is  *)
(* an UPDATE of no row.                                                    *)
ImportLink(m) ==
    LET r == intake[m]
        d == DependsOn[r.at]
    IN /\ r.pc = "linking"
       /\ \/ d = 0 /\ Advance(m, "imported", r.made) /\ UNCHANGED parent
          \/ d \in Item /\ r.made[r.at] \notin tasks
             /\ Advance(m, "imported", r.made) /\ UNCHANGED parent
          \/ /\ d \in Item /\ r.made[r.at] \in tasks /\ r.made[d] \in tasks
             /\ parent' = [parent EXCEPT ![r.made[r.at]] = r.made[d]]
             /\ Advance(m, "imported", r.made)
          \/ /\ d > Items \/ (d \in Item /\ r.made[r.at] \in tasks /\ r.made[d] \notin tasks)
             /\ intake' = [intake EXCEPT ![m] = NoIntake] /\ UNCHANGED parent
       /\ UNCHANGED <<tasks, unmetered>>

(* apiDeployBlueprintHandler: one transaction, no quota; a dependency on a *)
(* later item, or on none of the blueprint, is dropped.                    *)
Deploy(m) ==
    /\ intake[m].pc = "idle"
    /\ \E made \in [Item -> Fresh] :
          /\ \A j, k \in Item : made[j] = made[k] => j = k
          /\ tasks' = tasks \cup {made[k] : k \in Item}
          /\ unmetered' = unmetered \cup {made[k] : k \in Item}
          /\ parent' = [i \in Id |->
                IF \E k \in Item : made[k] = i /\ DependsOn[k] \in 1 .. k - 1
                THEN made[DependsOn[CHOOSE k \in Item : made[k] = i]] ELSE parent[i]]
          /\ intake' = [intake EXCEPT ![m] = [pc |-> "deployed", at |-> 1, made |-> made]]

(* The response, an item that is refused, a client that goes away.         *)
EndRequest(m) ==
    /\ intake[m].pc # "idle"
    /\ intake' = [intake EXCEPT ![m] = NoIntake]
    /\ UNCHANGED <<tasks, parent, unmetered>>

RemoveKeepingLinks(i) ==   \* mutant: no ON DELETE SET NULL
    /\ i \in tasks
    /\ tasks' = tasks \ {i} /\ unmetered' = unmetered \ {i}
    /\ parent' = [parent EXCEPT ![i] = NoId]
    /\ UNCHANGED intake

(* DeleteTask, ON DELETE SET NULL.                                         *)
RemoveTask(i) ==
    /\ i \in tasks
    /\ tasks' = tasks \ {i} /\ unmetered' = unmetered \ {i}
    /\ parent' = [k \in Id |-> IF k = i \/ parent[k] = i THEN NoId ELSE parent[k]]
    /\ UNCHANGED intake

IntakeNext ==
    \/ \E m \in Caller :
          \/ CountTasks(m) \/ CreateTask(m) \/ EndRequest(m)
          \/ BeginImport(m) \/ ImportItem(m) \/ ImportLink(m)
          \/ Deploy(m)
    \/ \E i \in Id : RemoveTask(i)

IntakeSpec == IntakeInit /\ [][IntakeNext]_ivars

----------------------------------------------------------------------------
IntakeTypeOK ==
    /\ tasks \subseteq Id /\ unmetered \subseteq tasks
    /\ parent \in [Id -> tasks \cup {NoId}]
    /\ \A i \in Id \ tasks : parent[i] = NoId
    /\ intake \in [Caller -> [pc : IntakeState, at : Item, made : [Item -> Id \cup {NoId}]]]

(* "Centralized quota logic ensures API users cannot bypass tier-based     *)
(* task limits" (SECURITY.md:27): the tasks created one by one stay within *)
(* the limit but for those whose requests counted before one another's     *)
(* INSERT, one less than the requests there are.  Bundles and blueprints   *)
(* are not counted at all.                                                 *)
QuotaOvershoot ==
    Cardinality(tasks \ unmetered) <= QuotaLimit + Cardinality(Caller) - 1

(* A bundle that was imported to the end has the links of the original, in *)
(* whatever order it lists its tasks and whatever was deleted meanwhile; a *)
(* blueprint has those to earlier tasks.                                   *)
BundleKeepsShape ==
    \A m \in Caller : intake[m].pc \in {"imported", "deployed"} =>
        \A k \in Item :
            LET d == DependsOn[k]
                made == intake[m].made
            IN /\ d \in Item /\ (d < k \/ intake[m].pc = "imported")
               /\ made[k] \in tasks /\ made[d] \in tasks
               => parent[made[k]] = made[d]
=============================================================================
