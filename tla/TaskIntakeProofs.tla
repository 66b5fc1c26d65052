-------------------------- MODULE TaskIntakeProofs --------------------------
(***************************************************************************)
(* The creation of tasks, for every number of requests under way, every    *)
(* quota, every length of a bundle and every graph of its dependencies.    *)
(***************************************************************************)
EXTENDS TaskIntake, FiniteSetTheorems, TLAPS

(* The tasks the quota is about, and the requests that have counted and    *)
(* not yet inserted.                                                       *)
Metered == tasks \ unmetered
HasCounted == {m \in Caller : intake[m].pc = "counted"}

(* A request that has counted holds a place that no other request sees.    *)
PlacesTaken ==
    Cardinality(Metered) + Cardinality(HasCounted) <= QuotaLimit + Cardinality(Caller) - 1

(* No id was given to two items, of one request or of two.                 *)
MadeOnce ==
    \A m, n \in Caller : \A j, k \in Item :
        /\ intake[m].made[j] = intake[n].made[k]
        /\ intake[m].made[j] # NoId
        => m = n /\ j = k

(* Item k of request m has the link its bundle gives it, if both are there.*)
LinkedTo(m, k) ==
    /\ DependsOn[k] \in Item
    /\ intake[m].made[k] \in tasks
    /\ intake[m].made[DependsOn[k]] \in tasks
    => parent[intake[m].made[k]] = intake[m].made[DependsOn[k]]

(* An import that is linking has linked the items before the next one.     *)
LinkedSoFar ==
    \A m \in Caller : intake[m].pc = "linking" =>
        \A k \in Item : k < intake[m].at => LinkedTo(m, k)

IntakeInv == IntakeTypeOK /\ MadeOnce /\ LinkedSoFar /\ BundleKeepsShape

----------------------------------------------------------------------------
Request == [pc : IntakeState, at : Item, made : [Item -> Id \cup {NoId}]]

(* A step of request m gives it a new record and leaves the others theirs. *)
LEMMA RequestMoves ==
    ASSUME IntakeTypeOK, NEW m \in Caller, NEW r \in Request,
           intake' = [intake EXCEPT ![m] = r]
    PROVE  /\ intake' \in [Caller -> Request] /\ intake'[m] = r
           /\ \A n \in Caller \ {m} : intake'[n] = intake[n]
BY DEF IntakeTypeOK, Request

(* The records the steps give are requests.                                *)
LEMMA RequestRecords ==
    ASSUME IntakeTypeOK, NEW m \in Caller
    PROVE  /\ intake[m] \in Request /\ NoIntake \in Request
           /\ \A pc \in IntakeState :
                 Goto(m, pc) =>
                    \E r \in Request : /\ intake' = [intake EXCEPT ![m] = r]
                                       /\ r.pc = pc /\ r.made = intake[m].made
<1>1. 1 \in Item
  BY IntakeAssumption DEF Item
<1>2. intake[m] \in Request
  BY DEF IntakeTypeOK, Request
<1>3. NoIntake \in Request
  BY <1>1 DEF NoIntake, Request, IntakeState
<1>4. ASSUME NEW pc \in IntakeState, Goto(m, pc)
      PROVE  \E r \in Request : /\ intake' = [intake EXCEPT ![m] = r]
                                /\ r.pc = pc /\ r.made = intake[m].made
  <2> DEFINE r == [intake[m] EXCEPT !.pc = pc, !.at = 1]
  <2>1. r \in Request /\ r.pc = pc /\ r.made = intake[m].made
    BY <1>1, <1>2 DEF Request
  <2>2. intake' = [intake EXCEPT ![m] = r]
    BY <1>4 DEF Goto, IntakeTypeOK
  <2> HIDE DEF r
  <2>3. QED BY <2>1, <2>2
<1>5. QED BY <1>2, <1>3, <1>4

(* Advance goes on with the next item, or to the start of what is next.    *)
LEMMA AdvanceRecord ==
    ASSUME IntakeTypeOK, NEW m \in Caller, NEW next \in IntakeState,
           NEW made \in [Item -> Id \cup {NoId}], Advance(m, next, made)
    PROVE  \E r \in Request :
              /\ intake' = [intake EXCEPT ![m] = r] /\ r.made = made
              /\ \/ r.pc = intake[m].pc /\ r.at = intake[m].at + 1
                 \/ r.pc = next /\ r.at = 1 /\ intake[m].at = Items
<1>1. intake[m] \in Request /\ intake \in [Caller -> Request]
  BY DEF IntakeTypeOK, Request
<1>2. Items \in Nat \ {0} /\ intake[m].at \in 1 .. Items
  BY <1>1, IntakeAssumption DEF Request, Item
<1>3. CASE intake[m].at < Items
  <2> DEFINE r == [pc |-> intake[m].pc, at |-> intake[m].at + 1, made |-> made]
  <2>2. intake[m].at + 1 \in Item
    BY <1>2, <1>3 DEF Item
  <2>3. r \in Request /\ r.made = made /\ r.pc = intake[m].pc /\ r.at = intake[m].at + 1
    BY <1>1, <2>2 DEF Request
  <2>4. intake' = [intake EXCEPT ![m] = r]
    BY <1>3 DEF Advance
  <2> HIDE DEF r
  <2>5. QED BY <2>3, <2>4
<1>4. CASE ~(intake[m].at < Items)
  <2> DEFINE r == [pc |-> next, at |-> 1, made |-> made]
  <2>1. r \in Request /\ r.made = made /\ r.pc = next /\ r.at = 1 /\ intake[m].at = Items
    BY <1>2, <1>4 DEF Request, Item
  <2>2. intake' = [intake EXCEPT ![m] = r]
    BY <1>1, <1>4 DEF Advance
  <2> HIDE DEF r
  <2>3. QED BY <2>1, <2>2
<1>5. QED BY <1>3, <1>4

(* Giving a request no id it had not keeps ids from being made twice.      *)
LEMMA NothingMade ==
    ASSUME IntakeTypeOK, MadeOnce, NEW m \in Caller, NEW r \in Request,
           intake' = [intake EXCEPT ![m] = r],
           \A k \in Item : r.made[k] \in {intake[m].made[k], NoId}
    PROVE  MadeOnce'
<1>1. ASSUME NEW n \in Caller, NEW k \in Item
      PROVE  intake'[n].made[k] \in {intake[n].made[k], NoId}
  BY RequestMoves
<1>2. QED BY <1>1 DEF MadeOnce

(* A link survives a step that brings no row of the bundle back and leaves *)
(* the child's link alone as long as its parent is there.                  *)
LEMMA LinkSurvives ==
    ASSUME IntakeTypeOK, NEW n \in Caller, NEW k \in Item, LinkedTo(n, k),
           intake'[n].made = intake[n].made,
           \A j \in Item : intake[n].made[j] \in tasks' => intake[n].made[j] \in tasks,
           LET i == intake[n].made[k]
           IN i \in tasks' /\ parent[i] \in tasks' => parent'[i] = parent[i]
    PROVE  LinkedTo(n, k)'
BY DEF LinkedTo

(* What is left to show of a step of request m: the links of the others    *)
(* survive it, and those it claims for itself are there.                   *)
LEMMA OneRequest ==
    ASSUME IntakeInv, NEW m \in Caller, NEW r \in Request,
           intake' = [intake EXCEPT ![m] = r],
           \A n \in Caller \ {m} : \A k \in Item : LinkedTo(n, k) => LinkedTo(n, k)',
           r.pc = "linking" => \A k \in Item : k < r.at => LinkedTo(m, k)',
           r.pc \in {"imported", "deployed"} =>
             \A k \in Item : DependsOn[k] < k \/ r.pc = "imported" => LinkedTo(m, k)'
    PROVE  LinkedSoFar' /\ BundleKeepsShape'
<1>1. intake'[m] = r /\ \A n \in Caller \ {m} : intake'[n] = intake[n]
  BY RequestMoves DEF IntakeInv
<1>2. LinkedSoFar'
  BY <1>1 DEF IntakeInv, LinkedSoFar
<1>3. ASSUME NEW n \in Caller, NEW k \in Item,
             intake'[n].pc \in {"imported", "deployed"},
             DependsOn[k] \in Item, DependsOn[k] < k \/ intake'[n].pc = "imported",
             intake'[n].made[k] \in tasks', intake'[n].made[DependsOn[k]] \in tasks'
      PROVE  parent'[intake'[n].made[k]] = intake'[n].made[DependsOn[k]]
  <2>1. LinkedTo(n, k)'
    <3>1. CASE n = m
      BY <1>1, <1>3, <3>1
    <3>2. CASE n # m
      <4>1. LinkedTo(n, k)
        BY <1>1, <1>3, <3>2 DEF IntakeInv, BundleKeepsShape, LinkedTo
      <4>2. QED BY <3>2, <4>1
    <3>3. QED BY <3>1, <3>2
  <2>2. QED BY <1>3, <2>1 DEF LinkedTo
<1>4. BundleKeepsShape'
  BY <1>3 DEF BundleKeepsShape
<1>5. QED BY <1>2, <1>4

----------------------------------------------------------------------------
(* Inserting a fresh row keeps the type of the rows and every link.        *)
LEMMA InsertStep ==
    ASSUME IntakeInv, NEW i \in Fresh, NEW p \in tasks \cup {NoId}, Insert(i, p)
    PROVE  /\ tasks' = tasks \cup {i} /\ tasks' \subseteq Id
           /\ parent' \in [Id -> tasks' \cup {NoId}]
           /\ \A j \in Id \ tasks' : parent'[j] = NoId
           /\ \A n \in Caller : \A k \in Item :
                 LinkedTo(n, k) /\ intake'[n].made = intake[n].made => LinkedTo(n, k)'
<1>1. /\ tasks' = tasks \cup {i} /\ parent' = [parent EXCEPT ![i] = p]
      /\ i \in Id \ tasks /\ \A n \in Caller : \A k \in Item : intake[n].made[k] # i
  BY DEF Insert, Fresh
<1>2. /\ tasks' \subseteq Id /\ parent' \in [Id -> tasks' \cup {NoId}]
      /\ \A j \in Id \ tasks' : parent'[j] = NoId
  BY <1>1 DEF IntakeInv, IntakeTypeOK
<1>3. ASSUME NEW n \in Caller, NEW k \in Item, LinkedTo(n, k),
             intake'[n].made = intake[n].made
      PROVE  LinkedTo(n, k)'
  <2>1. \A j \in Item : intake[n].made[j] \in tasks' => intake[n].made[j] \in tasks
    BY <1>1
  <2>2. ASSUME intake[n].made[k] \in tasks'
        PROVE  parent'[intake[n].made[k]] = parent[intake[n].made[k]]
    BY <1>1, <2>2 DEF IntakeInv, IntakeTypeOK
  <2>3. QED BY <1>3, <2>1, <2>2, LinkSurvives DEF IntakeInv
<1>4. QED BY <1>1, <1>2, <1>3

(* Steps that change no row and make no id.                                *)
LEMMA RequestStep ==
    ASSUME IntakeInv, NEW m \in Caller,
           CountTasks(m) \/ BeginImport(m) \/ EndRequest(m)
    PROVE  IntakeInv'
<1>1. UNCHANGED <<tasks, parent, unmetered>>
  BY DEF CountTasks, BeginImport, EndRequest
<1>2. PICK r \in Request :
         /\ intake' = [intake EXCEPT ![m] = r]
         /\ r.pc \in {"counted", "creating", "idle"}
         /\ \A k \in Item : r.made[k] \in {intake[m].made[k], NoId}
  <2>1. CASE CountTasks(m)
    BY <2>1, RequestRecords DEF CountTasks, IntakeInv, IntakeState
  <2>2. CASE BeginImport(m)
    BY <2>2, RequestRecords DEF BeginImport, IntakeInv, IntakeState
  <2>3. CASE EndRequest(m)
    BY <2>3, RequestRecords DEF EndRequest, IntakeInv, NoIntake
  <2>4. QED BY <2>1, <2>2, <2>3
<1>3. IntakeTypeOK'
  BY <1>1, <1>2, RequestMoves DEF IntakeInv, IntakeTypeOK, Request
<1>4. MadeOnce'
  BY <1>2, NothingMade DEF IntakeInv
<1>5. \A n \in Caller \ {m} : \A k \in Item : LinkedTo(n, k) => LinkedTo(n, k)'
  BY <1>1, <1>2, RequestMoves DEF IntakeInv, LinkedTo
<1>6. LinkedSoFar' /\ BundleKeepsShape'
  BY <1>2, <1>5, OneRequest
<1>7. QED BY <1>3, <1>4, <1>6 DEF IntakeInv

(* One task is created.                                                    *)
LEMMA CreateStep ==
    ASSUME IntakeInv, NEW m \in Caller, CreateTask(m)
    PROVE  IntakeInv'
<1>1. PICK i \in Fresh : \E p \in tasks \cup {NoId} : Insert(i, p)
  BY DEF CreateTask
<1>2. PICK r \in Request :
         /\ intake' = [intake EXCEPT ![m] = r] /\ r.pc = "idle"
         /\ r.made = intake[m].made
  BY RequestRecords DEF CreateTask, IntakeInv, IntakeState
<1>3. intake' \in [Caller -> Request] /\ \A n \in Caller : intake'[n].made = intake[n].made
  BY <1>2, RequestMoves DEF IntakeInv
<1>4. /\ tasks' = tasks \cup {i} /\ tasks' \subseteq Id
      /\ parent' \in [Id -> tasks' \cup {NoId}]
      /\ \A j \in Id \ tasks' : parent'[j] = NoId
      /\ \A n \in Caller : \A k \in Item : LinkedTo(n, k) => LinkedTo(n, k)'
  BY <1>1, <1>3, InsertStep
<1>5. IntakeTypeOK'
  BY <1>3, <1>4 DEF CreateTask, IntakeInv, IntakeTypeOK, Request
<1>6. MadeOnce'
  BY <1>2, NothingMade DEF IntakeInv
<1>7. LinkedSoFar' /\ BundleKeepsShape'
  BY <1>2, <1>4, OneRequest
<1>8. QED BY <1>5, <1>6, <1>7 DEF IntakeInv

(* An item of a bundle is created; the import may start linking.           *)
LEMMA ImportStep ==
    ASSUME IntakeInv, NEW m \in Caller, ImportItem(m)
    PROVE  IntakeInv'
<1> DEFINE at == intake[m].at
<1>1. PICK i \in Fresh :
         /\ Insert(i, NoId) /\ unmetered' = unmetered \cup {i}
         /\ Advance(m, "linking", [intake[m].made EXCEPT ![at] = i])
  BY DEF ImportItem
<1> DEFINE made == [intake[m].made EXCEPT ![at] = i]
<1>2. /\ intake[m] \in Request /\ i \in Id /\ at \in Item
      /\ intake[m].pc = "creating"
  BY RequestRecords DEF IntakeInv, Request, ImportItem, Fresh
<1>3. made \in [Item -> Id \cup {NoId}]
  BY <1>2 DEF Request
<1>4. PICK r \in Request :
         /\ intake' = [intake EXCEPT ![m] = r] /\ r.made = made
         /\ r.pc = "creating" \/ (r.pc = "linking" /\ r.at = 1)
  <2>1. Advance(m, "linking", made) /\ "linking" \in IntakeState
    BY <1>1 DEF IntakeState
  <2> HIDE DEF made
  <2>2. PICK r \in Request :
           /\ intake' = [intake EXCEPT ![m] = r] /\ r.made = made
           /\ \/ r.pc = intake[m].pc /\ r.at = intake[m].at + 1
              \/ r.pc = "linking" /\ r.at = 1 /\ intake[m].at = Items
    BY <1>3, <2>1, AdvanceRecord DEF IntakeInv
  <2>3. QED BY <1>2, <2>2
<1>5. /\ intake' \in [Caller -> Request] /\ intake'[m] = r
      /\ \A n \in Caller \ {m} : intake'[n] = intake[n]
  BY <1>4, RequestMoves DEF IntakeInv
<1>6. /\ tasks' = tasks \cup {i} /\ tasks' \subseteq Id
      /\ parent' \in [Id -> tasks' \cup {NoId}]
      /\ \A j \in Id \ tasks' : parent'[j] = NoId
      /\ \A n \in Caller \ {m} : \A k \in Item : LinkedTo(n, k) => LinkedTo(n, k)'
  BY <1>1, <1>5, InsertStep
<1>7. IntakeTypeOK'
  BY <1>1, <1>5, <1>6 DEF IntakeInv, IntakeTypeOK, Request
<1>8. MadeOnce'
  <2>1. \A n \in Caller : \A k \in Item :
           intake'[n].made[k] = IF n = m /\ k = at THEN i ELSE intake[n].made[k]
    BY <1>2, <1>4, <1>5 DEF Request
  <2>2. \A n \in Caller : \A k \in Item : intake[n].made[k] # i
    BY DEF Fresh
  <2> HIDE DEF at
  <2>3. QED BY <2>1, <2>2 DEF IntakeInv, MadeOnce
<1>9. \A k \in Item : ~(k < 1)
  BY DEF Item
<1> HIDE DEF made
<1>10. /\ r.pc = "linking" => \A k \in Item : k < r.at => LinkedTo(m, k)'
       /\ r.pc \notin {"imported", "deployed"}
  BY <1>4, <1>9
<1>11. LinkedSoFar' /\ BundleKeepsShape'
  BY <1>4, <1>6, <1>10, OneRequest
<1>12. QED BY <1>7, <1>8, <1>11 DEF IntakeInv

(* An item is linked, needs no link, or has lost its row; or the import    *)
(* ends with an error.                                                     *)
LEMMA LinkStep ==
    ASSUME IntakeInv, NEW m \in Caller, ImportLink(m)
    PROVE  IntakeInv'
<1>0. PICK at \in Item : at = intake[m].at
  BY RequestRecords DEF IntakeInv, Request
<1> DEFINE d == DependsOn[at]
           made == intake[m].made
<1>1. /\ intake[m] \in Request /\ at \in Item /\ made \in [Item -> Id \cup {NoId}]
      /\ intake[m].pc = "linking" /\ UNCHANGED <<tasks, unmetered>>
      /\ Items \in Nat \ {0} /\ at \in 1 .. Items /\ NoId \notin Id
  BY RequestRecords, IntakeAssumption DEF IntakeInv, Request, ImportLink, Item
<1>2. CASE Advance(m, "imported", made)
  <2>1. PICK r \in Request :
           /\ intake' = [intake EXCEPT ![m] = r] /\ r.made = made
           /\ \/ r.pc = "linking" /\ r.at = at + 1
              \/ r.pc = "imported" /\ at = Items
    <3>1. "imported" \in IntakeState
      BY DEF IntakeState
    <3>2. QED BY <1>0, <1>1, <1>2, <3>1, AdvanceRecord DEF IntakeInv
  <2>2. /\ intake' \in [Caller -> Request] /\ intake'[m] = r
        /\ \A n \in Caller : intake'[n].made = intake[n].made
    BY <2>1, RequestMoves DEF IntakeInv
  <2>3. MadeOnce'
    BY <2>1, NothingMade DEF IntakeInv
  <2>4. \/ UNCHANGED parent /\ LinkedTo(m, at)'
        \/ /\ made[at] \in tasks /\ made[d] \in tasks /\ d \in Item
           /\ parent' = [parent EXCEPT ![made[at]] = made[d]]
    <3>1. CASE d = 0 \/ (d \in Item /\ made[at] \notin tasks)
      <4>1. d \notin Item \/ made[at] \notin tasks
        BY <1>1, <3>1 DEF Item
      <4>2. ~(d > Items)
        BY <1>1, <3>1 DEF Item
      <4>3. UNCHANGED parent
        BY <1>0, <3>1, <4>1, <4>2 DEF ImportLink
      <4>4. LinkedTo(m, at)'
        <5>1. intake'[m].made = made /\ tasks' = tasks
          BY <1>1, <2>2
        <5>2. QED BY <4>1, <5>1 DEF LinkedTo
      <4>5. QED BY <4>3, <4>4
    <3>2. CASE d \in Item /\ made[at] \in tasks
      <4>1. intake'[m] # NoIntake
        BY <2>1, <2>2 DEF NoIntake
      <4>2. [intake EXCEPT ![m] = NoIntake][m] = NoIntake
        BY DEF IntakeInv, IntakeTypeOK
      <4>3. d \notin {0} /\ ~(d > Items)
        BY <1>1, <3>2 DEF Item
      <4>4. QED BY <1>0, <3>2, <4>1, <4>2, <4>3 DEF ImportLink
    <3>3. CASE d > Items
      <4>1. intake'[m] # NoIntake
        BY <2>1, <2>2 DEF NoIntake
      <4>2. [intake EXCEPT ![m] = NoIntake][m] = NoIntake
        BY DEF IntakeInv, IntakeTypeOK
      <4>3. d # 0 /\ d \notin Item
        BY <1>1, <3>3 DEF Item
      <4>4. QED BY <1>0, <4>1, <4>2, <4>3 DEF ImportLink
    <3>4. d \in 0 .. Items + 1
      BY <1>1, IntakeAssumption DEF Item
    <3>5. QED BY <1>1, <3>1, <3>2, <3>3, <3>4 DEF Item
  <2>5. /\ parent' \in [Id -> tasks' \cup {NoId}]
        /\ \A i \in Id \ tasks' : parent'[i] = NoId
    BY <1>1, <2>4 DEF IntakeInv, IntakeTypeOK
  <2>6. IntakeTypeOK'
    BY <1>1, <2>2, <2>5 DEF IntakeInv, IntakeTypeOK, Request
  <2>7. LinkedTo(m, at)'
    BY <1>1, <2>2, <2>4 DEF LinkedTo, IntakeInv, IntakeTypeOK
  <2>8. ASSUME NEW n \in Caller, NEW k \in Item, n # m \/ k # at, LinkedTo(n, k)
        PROVE  LinkedTo(n, k)'
    <3>1. \A j \in Item : intake[n].made[j] \in tasks' => intake[n].made[j] \in tasks
      BY <1>1
    <3>2. ASSUME intake[n].made[k] \in tasks'
          PROVE  parent'[intake[n].made[k]] = parent[intake[n].made[k]]
      <4>1. intake[n].made[k] \in Id /\ intake[n].made[k] # NoId
        BY <1>1, <3>2 DEF IntakeInv, IntakeTypeOK
      <4>2. intake[n].made[k] # made[at]
        BY <1>1, <2>8, <4>1 DEF IntakeInv, MadeOnce
      <4>3. QED BY <2>4, <4>1, <4>2 DEF IntakeInv, IntakeTypeOK
    <3>3. QED BY <2>2, <2>8, <3>1, <3>2, LinkSurvives DEF IntakeInv
  <2>9. ASSUME NEW k \in Item, k < at \/ k = at PROVE LinkedTo(m, k)'
    <3>1. CASE k = at
      BY <2>7, <3>1
    <3>2. CASE k < at /\ k # at
      <4>1. LinkedTo(m, k)
        BY <1>0, <1>1, <3>2 DEF IntakeInv, LinkedSoFar
      <4>2. QED BY <2>8, <3>2, <4>1
    <3>3. QED BY <2>9, <3>1, <3>2
  <2>10. r.pc = "linking" => \A k \in Item : k < r.at => LinkedTo(m, k)'
    BY <1>1, <2>1, <2>9 DEF Item
  <2>11. r.pc \in {"imported", "deployed"} => \A k \in Item : LinkedTo(m, k)'
    BY <1>1, <2>1, <2>9 DEF Item
  <2>12. \A n \in Caller \ {m} : \A k \in Item : LinkedTo(n, k) => LinkedTo(n, k)'
    BY <2>8
  <2>13. LinkedSoFar' /\ BundleKeepsShape'
    BY <2>1, <2>10, <2>11, <2>12, OneRequest
  <2>14. QED BY <2>3, <2>6, <2>13 DEF IntakeInv
<1>3. CASE intake' = [intake EXCEPT ![m] = NoIntake] /\ UNCHANGED parent
  <2>1. NoIntake \in Request /\ NoIntake.pc = "idle"
    BY RequestRecords DEF IntakeInv, NoIntake
  <2>2. \A k \in Item : NoIntake.made[k] \in {intake[m].made[k], NoId}
    BY DEF NoIntake
  <2>3. IntakeTypeOK'
    BY <1>1, <1>3, <2>1, RequestMoves DEF IntakeInv, IntakeTypeOK, Request
  <2>4. MadeOnce'
    BY <1>3, <2>1, <2>2, NothingMade DEF IntakeInv
  <2>5. \A n \in Caller \ {m} : \A k \in Item : LinkedTo(n, k) => LinkedTo(n, k)'
    BY <1>1, <1>3, <2>1, RequestMoves DEF IntakeInv, LinkedTo
  <2>6. LinkedSoFar' /\ BundleKeepsShape'
    BY <1>3, <2>1, <2>5, OneRequest
  <2>7. QED BY <2>3, <2>4, <2>6 DEF IntakeInv
<1>4. QED BY <1>0, <1>2, <1>3 DEF ImportLink

(* A blueprint is deployed: all its tasks and links at once.               *)
LEMMA DeployStep ==
    ASSUME IntakeInv, NEW m \in Caller, Deploy(m)
    PROVE  IntakeInv'
<1>1. PICK made \in [Item -> Fresh] :
         /\ \A j, k \in Item : made[j] = made[k] => j = k
         /\ tasks' = tasks \cup {made[k] : k \in Item}
         /\ unmetered' = unmetered \cup {made[k] : k \in Item}
         /\ parent' = [i \in Id |->
                IF \E k \in Item : made[k] = i /\ DependsOn[k] \in 1 .. k - 1
                THEN made[DependsOn[CHOOSE k \in Item : made[k] = i]] ELSE parent[i]]
         /\ intake' = [intake EXCEPT ![m] = [pc |-> "deployed", at |-> 1, made |-> made]]
  BY DEF Deploy
<1> DEFINE r == [pc |-> "deployed", at |-> 1, made |-> made]
<1>2. /\ \A k \in Item : /\ made[k] \in Id \ tasks /\ made[k] # NoId
                         /\ \A n \in Caller : \A j \in Item : intake[n].made[j] # made[k]
      /\ made \in [Item -> Id \cup {NoId}]
  BY IntakeAssumption DEF Fresh
<1>3. r \in Request
  BY <1>2, IntakeAssumption DEF Request, IntakeState, Item
<1>4. /\ intake' \in [Caller -> Request] /\ intake'[m] = r
      /\ \A n \in Caller \ {m} : intake'[n] = intake[n]
  BY <1>1, <1>3, RequestMoves DEF IntakeInv
<1>5. \A k \in Item : (CHOOSE j \in Item : made[j] = made[k]) = k
  BY <1>1
<1>6. ASSUME NEW k \in Item, DependsOn[k] \in 1 .. k - 1
      PROVE  parent'[made[k]] = made[DependsOn[k]]
  BY <1>1, <1>2, <1>5, <1>6
<1>7. \A k \in Item : 1 .. k - 1 \subseteq Item
  BY IntakeAssumption DEF Item
<1>8. \A i \in Id : (\A k \in Item : made[k] # i) => parent'[i] = parent[i]
  BY <1>1
<1>9. IntakeTypeOK'
  <2>1. tasks' \subseteq Id /\ unmetered' \subseteq tasks'
    BY <1>1, <1>2 DEF IntakeInv, IntakeTypeOK
  <2>2. ASSUME NEW i \in Id PROVE parent'[i] \in tasks' \cup {NoId}
    <3>1. CASE \E k \in Item : made[k] = i /\ DependsOn[k] \in 1 .. k - 1
      <4>1. PICK k \in Item : made[k] = i /\ DependsOn[k] \in 1 .. k - 1
        BY <3>1
      <4>2. parent'[i] = made[DependsOn[k]] /\ DependsOn[k] \in Item
        BY <1>6, <1>7, <4>1
      <4>3. QED BY <1>1, <4>2
    <3>2. CASE ~ \E k \in Item : made[k] = i /\ DependsOn[k] \in 1 .. k - 1
      BY <1>1, <3>2 DEF IntakeInv, IntakeTypeOK
    <3>3. QED BY <3>1, <3>2
  <2>3. parent' \in [Id -> tasks' \cup {NoId}]
    BY <1>1, <2>2
  <2>4. \A i \in Id \ tasks' : parent'[i] = NoId
    BY <1>1, <1>8 DEF IntakeInv, IntakeTypeOK
  <2>5. QED BY <1>4, <2>1, <2>3, <2>4 DEF IntakeTypeOK, Request
<1>10. MadeOnce'
  <2>1. \A n \in Caller : \A k \in Item :
           intake'[n].made[k] = IF n = m THEN made[k] ELSE intake[n].made[k]
    BY <1>4
  <2>2. QED BY <1>1, <1>2, <2>1 DEF IntakeInv, MadeOnce
<1>11. ASSUME NEW n \in Caller \ {m}, NEW k \in Item, LinkedTo(n, k)
       PROVE  LinkedTo(n, k)'
  <2>1. \A j \in Item : intake[n].made[j] \in tasks' => intake[n].made[j] \in tasks
    BY <1>1, <1>2
  <2>2. ASSUME intake[n].made[k] \in tasks'
        PROVE  parent'[intake[n].made[k]] = parent[intake[n].made[k]]
    BY <1>2, <1>8, <2>1, <2>2 DEF IntakeInv, IntakeTypeOK
  <2>3. QED BY <1>4, <1>11, <2>1, <2>2, LinkSurvives DEF IntakeInv
<1>12. ASSUME NEW k \in Item, DependsOn[k] < k PROVE LinkedTo(m, k)'
  <2>1. DependsOn[k] \in Item => DependsOn[k] \in 1 .. k - 1
    BY <1>12, IntakeAssumption DEF Item
  <2>2. QED BY <1>4, <1>6, <2>1 DEF LinkedTo
<1>13. r.pc = "deployed"
  OBVIOUS
<1>14. intake' = [intake EXCEPT ![m] = r]
  BY <1>1
<1> HIDE DEF r
<1>15. LinkedSoFar' /\ BundleKeepsShape'
  BY <1>3, <1>11, <1>12, <1>13, <1>14, OneRequest
<1>16. QED BY <1>9, <1>10, <1>15 DEF IntakeInv

(* A task is deleted, and its children lose their links to it.             *)
LEMMA RemoveStep ==
    ASSUME IntakeInv, NEW i \in Id, RemoveTask(i)
    PROVE  IntakeInv'
<1>1. /\ tasks' = tasks \ {i} /\ unmetered' = unmetered \ {i} /\ intake' = intake
      /\ parent' = [k \in Id |-> IF k = i \/ parent[k] = i THEN NoId ELSE parent[k]]
  BY DEF RemoveTask
<1>2. IntakeTypeOK'
  BY <1>1 DEF IntakeInv, IntakeTypeOK
<1>3. MadeOnce'
  BY <1>1 DEF IntakeInv, MadeOnce
<1>4. ASSUME NEW n \in Caller, NEW k \in Item, LinkedTo(n, k) PROVE LinkedTo(n, k)'
  <2>1. \A j \in Item : intake[n].made[j] \in tasks' => intake[n].made[j] \in tasks
    BY <1>1
  <2>2. ASSUME intake[n].made[k] \in tasks', parent[intake[n].made[k]] \in tasks'
        PROVE  parent'[intake[n].made[k]] = parent[intake[n].made[k]]
    BY <1>1, <2>2 DEF IntakeInv, IntakeTypeOK
  <2>3. QED BY <1>1, <1>4, <2>1, <2>2, LinkSurvives DEF IntakeInv
<1>5. LinkedSoFar'
  BY <1>1, <1>4 DEF IntakeInv, LinkedSoFar
<1>6. BundleKeepsShape'
  <2>1. ASSUME NEW n \in Caller, NEW k \in Item, intake[n].pc \in {"imported", "deployed"},
               DependsOn[k] \in Item, DependsOn[k] < k \/ intake[n].pc = "imported"
        PROVE  LinkedTo(n, k)'
    <3>1. LinkedTo(n, k)
      BY <2>1 DEF IntakeInv, BundleKeepsShape, LinkedTo
    <3>2. QED BY <1>4, <3>1
  <2>2. QED BY <1>1, <2>1 DEF BundleKeepsShape, LinkedTo
<1>7. QED BY <1>2, <1>3, <1>5, <1>6 DEF IntakeInv

(* Every step of the intake preserves the invariant.                       *)
LEMMA IntakeInvStep == IntakeInv /\ [IntakeNext]_ivars => IntakeInv'
<1> SUFFICES ASSUME IntakeInv, [IntakeNext]_ivars PROVE IntakeInv'
  OBVIOUS
<1>1. ASSUME NEW m \in Caller, CountTasks(m) \/ BeginImport(m) \/ EndRequest(m)
      PROVE  IntakeInv'
  BY <1>1, RequestStep
<1>2. ASSUME NEW m \in Caller, CreateTask(m) PROVE IntakeInv'
  BY <1>2, CreateStep
<1>3. ASSUME NEW m \in Caller, ImportItem(m) PROVE IntakeInv'
  BY <1>3, ImportStep
<1>4. ASSUME NEW m \in Caller, ImportLink(m) PROVE IntakeInv'
  BY <1>4, LinkStep
<1>5. ASSUME NEW m \in Caller, Deploy(m) PROVE IntakeInv'
  BY <1>5, DeployStep
<1>6. ASSUME NEW i \in Id, RemoveTask(i) PROVE IntakeInv'
  BY <1>6, RemoveStep
<1>7. CASE UNCHANGED ivars
  <2>1. UNCHANGED <<tasks, parent, intake, unmetered>>
    BY <1>7 DEF ivars
  <2>2. QED BY <2>1 DEF IntakeInv, IntakeTypeOK, MadeOnce, LinkedSoFar, LinkedTo,
                        BundleKeepsShape
<1>8. QED BY <1>1, <1>2, <1>3, <1>4, <1>5, <1>6, <1>7 DEF IntakeNext

(* At the start there is no task and no request.                           *)
LEMMA IntakeInvInit == IntakeInit => IntakeInv
<1> SUFFICES ASSUME IntakeInit PROVE IntakeInv
  OBVIOUS
<1>1. /\ tasks = {} /\ unmetered = {} /\ parent = [i \in Id |-> NoId]
      /\ intake = [m \in Caller |-> NoIntake] /\ NoIntake \in Request
      /\ NoIntake.pc = "idle" /\ \A k \in Item : NoIntake.made[k] = NoId
  BY IntakeAssumption DEF IntakeInit, NoIntake, Request, IntakeState, Item
<1>2. IntakeTypeOK
  BY <1>1 DEF IntakeTypeOK, Request
<1>3. MadeOnce
  BY <1>1 DEF MadeOnce
<1>4. LinkedSoFar /\ BundleKeepsShape
  BY <1>1 DEF LinkedSoFar, BundleKeepsShape
<1>5. QED BY <1>2, <1>3, <1>4 DEF IntakeInv

(* The strengthening: ids are made once, and links so far are there.       *)
LEMMA IntakeInvHolds == IntakeSpec => []IntakeInv
<1>1. QED BY IntakeInvInit, IntakeInvStep, PTL DEF IntakeSpec

(* Rows, links and requests are of their types: a link leads to a row there*)
(* is (the foreign key), and a row that is not there has none.             *)
THEOREM IntakeTypeCorrect == IntakeSpec => []IntakeTypeOK
<1>1. IntakeInv => IntakeTypeOK
  BY DEF IntakeInv
<1>2. QED BY <1>1, IntakeInvHolds, PTL

(* A bundle imported to the end, or a blueprint deployed, has its links,   *)
(* whatever is created, imported, deployed or deleted next to it.          *)
THEOREM BundlesKeepShape == IntakeSpec => []BundleKeepsShape
<1>1. IntakeInv => BundleKeepsShape
  BY DEF IntakeInv
<1>2. QED BY <1>1, IntakeInvHolds, PTL

----------------------------------------------------------------------------
(* Sets of tasks and of requests are finite.                               *)
LEMMA IntakeIsFinite ==
    /\ \A S \in SUBSET Id : IsFiniteSet(S) /\ Cardinality(S) \in Nat
    /\ \A S \in SUBSET Caller : IsFiniteSet(S) /\ Cardinality(S) \in Nat
                             /\ Cardinality(S) <= Cardinality(Caller)
    /\ Cardinality(Caller) \in Nat
BY IntakeAssumption, FS_Subset, FS_CardinalityType

(* The places do not grow when neither the metered tasks nor the requests  *)
(* that have counted do.                                                   *)
LEMMA PlacesShrink ==
    ASSUME IntakeTypeOK, PlacesTaken, Metered' \subseteq Metered,
           HasCounted' \subseteq HasCounted
    PROVE  PlacesTaken'
<1>1. Metered \in SUBSET Id /\ HasCounted \in SUBSET Caller
  BY DEF Metered, HasCounted, IntakeTypeOK
<1>2. /\ IsFiniteSet(Metered) /\ Cardinality(Metered) \in Nat
      /\ IsFiniteSet(HasCounted) /\ Cardinality(HasCounted) \in Nat
      /\ Cardinality(Metered') \in Nat /\ Cardinality(HasCounted') \in Nat
  BY <1>1, IntakeIsFinite
<1>3. /\ Cardinality(Metered') <= Cardinality(Metered)
      /\ Cardinality(HasCounted') <= Cardinality(HasCounted)
  BY <1>2, FS_Subset
<1>4. QED BY <1>2, <1>3, IntakeIsFinite, IntakeAssumption DEF PlacesTaken

(* A request that moves anywhere but to "counted" adds no place.           *)
LEMMA CountedElsewhere ==
    ASSUME IntakeTypeOK, NEW m \in Caller, NEW r \in Request,
           intake' = [intake EXCEPT ![m] = r], r.pc # "counted"
    PROVE  HasCounted' = HasCounted \ {m}
BY RequestMoves DEF HasCounted

(* Counting takes a place while there is one, whoever counts with it.      *)
LEMMA CountTakesPlace ==
    ASSUME IntakeTypeOK, PlacesTaken, NEW m \in Caller, CountTasks(m)
    PROVE  PlacesTaken'
<1>1. Metered' = Metered /\ Metered \in SUBSET tasks /\ tasks \in SUBSET Id
  BY DEF CountTasks, Metered, IntakeTypeOK
<1>2. Cardinality(tasks) < QuotaLimit /\ Cardinality(tasks) \in Nat
  BY <1>1, IntakeIsFinite DEF CountTasks, WithinQuota
<1>3. Cardinality(Metered) <= Cardinality(tasks) /\ Cardinality(Metered) \in Nat
  BY <1>1, IntakeIsFinite, FS_Subset
<1>4. HasCounted' \in SUBSET Caller
  BY DEF HasCounted
<1>5. Cardinality(HasCounted') \in Nat /\ Cardinality(HasCounted') <= Cardinality(Caller)
  BY <1>4, IntakeIsFinite
<1>6. QED BY <1>1, <1>2, <1>3, <1>5, IntakeIsFinite, IntakeAssumption DEF PlacesTaken

(* Creating a task turns the place of its request into a metered task.     *)
LEMMA CreateUsesPlace ==
    ASSUME IntakeTypeOK, PlacesTaken, NEW m \in Caller, CreateTask(m)
    PROVE  PlacesTaken'
<1>1. PICK i \in Fresh : tasks' = tasks \cup {i} /\ unmetered' = unmetered
  BY DEF CreateTask, Insert
<1>2. i \in Id \ tasks
  BY DEF Fresh
<1>3. Metered' = Metered \cup {i} /\ i \notin Metered /\ Metered \in SUBSET Id
  BY <1>1, <1>2 DEF Metered, IntakeTypeOK
<1>4. PICK r \in Request : intake' = [intake EXCEPT ![m] = r] /\ r.pc = "idle"
  BY RequestRecords DEF CreateTask, IntakeState
<1>5. HasCounted' = HasCounted \ {m} /\ m \in HasCounted /\ HasCounted \in SUBSET Caller
  BY <1>4, CountedElsewhere DEF HasCounted, CreateTask
<1>6. /\ IsFiniteSet(Metered) /\ Cardinality(Metered) \in Nat
      /\ IsFiniteSet(HasCounted) /\ Cardinality(HasCounted) \in Nat
  BY <1>3, <1>5, IntakeIsFinite
<1>7. Cardinality(Metered') = Cardinality(Metered) + 1
  BY <1>3, <1>6, FS_AddElement
<1>8. Cardinality(HasCounted') = Cardinality(HasCounted) - 1
  BY <1>5, <1>6, FS_RemoveElement
<1>9. QED BY <1>6, <1>7, <1>8, IntakeIsFinite, IntakeAssumption DEF PlacesTaken

(* No step of the intake takes a place that is not there.                  *)
LEMMA PlacesStep == IntakeTypeOK /\ PlacesTaken /\ [IntakeNext]_ivars => PlacesTaken'
<1> SUFFICES ASSUME IntakeTypeOK, PlacesTaken, [IntakeNext]_ivars PROVE PlacesTaken'
  OBVIOUS
<1>1. ASSUME NEW m \in Caller, CountTasks(m) PROVE PlacesTaken'
  BY <1>1, CountTakesPlace
<1>2. ASSUME NEW m \in Caller, CreateTask(m) PROVE PlacesTaken'
  BY <1>2, CreateUsesPlace
<1>3. ASSUME NEW m \in Caller, EndRequest(m) \/ BeginImport(m) PROVE PlacesTaken'
  <2>1. \E r \in Request : intake' = [intake EXCEPT ![m] = r] /\ r.pc # "counted"
    BY <1>3, RequestRecords DEF EndRequest, BeginImport, NoIntake, IntakeState
  <2>2. HasCounted' \subseteq HasCounted
    BY <2>1, CountedElsewhere
  <2>3. Metered' = Metered
    BY <1>3 DEF EndRequest, BeginImport, Metered
  <2>4. QED BY <2>2, <2>3, PlacesShrink
<1>4. ASSUME NEW m \in Caller, ImportItem(m) PROVE PlacesTaken'
  <2>1. PICK i \in Fresh :
           /\ tasks' = tasks \cup {i} /\ unmetered' = unmetered \cup {i}
           /\ Advance(m, "linking", [intake[m].made EXCEPT ![intake[m].at] = i])
    BY <1>4 DEF ImportItem, Insert
  <2>2. Metered' \subseteq Metered
    BY <2>1 DEF Metered
  <2> DEFINE made == [intake[m].made EXCEPT ![intake[m].at] = i]
  <2>3. made \in [Item -> Id \cup {NoId}] /\ "linking" \in IntakeState
    BY RequestRecords DEF Request, Fresh, IntakeState
  <2>4. Advance(m, "linking", made)
    BY <2>1
  <2> HIDE DEF made
  <2>5. \E r \in Request : intake' = [intake EXCEPT ![m] = r] /\ r.pc # "counted"
    BY <1>4, <2>3, <2>4, AdvanceRecord DEF ImportItem
  <2>6. HasCounted' \subseteq HasCounted
    BY <2>5, CountedElsewhere
  <2>7. QED BY <2>2, <2>6, PlacesShrink
<1>5. ASSUME NEW m \in Caller, ImportLink(m) PROVE PlacesTaken'
  <2>1. Metered' = Metered
    BY <1>5 DEF ImportLink, Metered
  <2>2. Advance(m, "imported", intake[m].made) \/ intake' = [intake EXCEPT ![m] = NoIntake]
    BY <1>5 DEF ImportLink
  <2>3. /\ intake[m].made \in [Item -> Id \cup {NoId}] /\ "imported" \in IntakeState
        /\ NoIntake \in Request /\ NoIntake.pc = "idle"
    BY RequestRecords DEF Request, IntakeState, NoIntake
  <2>4. \E r \in Request : intake' = [intake EXCEPT ![m] = r] /\ r.pc # "counted"
    BY <1>5, <2>2, <2>3, AdvanceRecord DEF ImportLink
  <2>5. HasCounted' \subseteq HasCounted
    BY <2>4, CountedElsewhere
  <2>6. QED BY <2>1, <2>5, PlacesShrink
<1>6. ASSUME NEW m \in Caller, Deploy(m) PROVE PlacesTaken'
  <2>1. PICK made \in [Item -> Fresh] :
           /\ tasks' = tasks \cup {made[k] : k \in Item}
           /\ unmetered' = unmetered \cup {made[k] : k \in Item}
           /\ intake' = [intake EXCEPT ![m] = [pc |-> "deployed", at |-> 1, made |-> made]]
    BY <1>6 DEF Deploy
  <2>2. Metered' \subseteq Metered
    BY <2>1 DEF Metered
  <2>3. [pc |-> "deployed", at |-> 1, made |-> made] \in Request
    BY IntakeAssumption DEF Request, IntakeState, Item, Fresh
  <2>4. HasCounted' \subseteq HasCounted
    BY <2>1, <2>3, CountedElsewhere
  <2>5. QED BY <2>2, <2>4, PlacesShrink
<1>7. ASSUME NEW i \in Id, RemoveTask(i) PROVE PlacesTaken'
  <2>1. Metered' \subseteq Metered /\ HasCounted' = HasCounted
    BY <1>7 DEF RemoveTask, Metered, HasCounted
  <2>2. QED BY <2>1, PlacesShrink
<1>8. CASE UNCHANGED ivars
  BY <1>8 DEF ivars, PlacesTaken, Metered, HasCounted
<1>9. QED BY <1>1, <1>2, <1>3, <1>4, <1>5, <1>6, <1>7, <1>8 DEF IntakeNext

(* The tasks created one by one exceed the quota by less than the requests *)
(* there are: each of those counted before the others inserted.            *)
THEOREM QuotaIsOvershotByRequestsOnly == IntakeSpec => []QuotaOvershoot
<1>1. IntakeInit => PlacesTaken
  <2> SUFFICES ASSUME IntakeInit PROVE PlacesTaken
    OBVIOUS
  <2>1. Metered = {} /\ HasCounted = {}
    BY DEF IntakeInit, Metered, HasCounted, NoIntake
  <2>2. QED BY <2>1, FS_EmptySet, IntakeIsFinite, IntakeAssumption DEF PlacesTaken
<1>2. ASSUME IntakeTypeOK, PlacesTaken PROVE QuotaOvershoot
  <2>1. Metered \in SUBSET Id /\ HasCounted \in SUBSET Caller
    BY <1>2 DEF Metered, HasCounted, IntakeTypeOK
  <2>2. Cardinality(Metered) \in Nat /\ Cardinality(HasCounted) \in Nat
    BY <2>1, IntakeIsFinite
  <2>3. QED BY <1>2, <2>2, IntakeIsFinite, IntakeAssumption
             DEF PlacesTaken, Metered, QuotaOvershoot
<1>3. QED BY <1>1, <1>2, PlacesStep, IntakeTypeCorrect, PTL DEF IntakeSpec
=============================================================================
