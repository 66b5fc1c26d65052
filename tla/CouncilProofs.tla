--------------------------- MODULE CouncilProofs ---------------------------
(***************************************************************************)
(* The vote of a council, for every number of agents and keys, every order *)
(* in which the agents answer and every order in which the map is walked.  *)
(***************************************************************************)
EXTENDS Council, FiniteSetTheorems, TLAPS

(* The map holds the answers of the agents that have ended: under distinct *)
(* names no agent overwrites another's.                                    *)
ResponsesAreBallots ==
    /\ DistinctNames => \A a \in Agent : responses[NameOf[a]] = ballot[a]
    /\ \A n \in Responded : \E a \in Agent : NameOf[a] = n
    /\ \A a \in asked : ballot[a] = NoChoice

(* Names the counting loop has visited that hold key c.                    *)
Tallied(c) == {n \in Responded \ uncounted : responses[n] = c}

(* The counts are those of the names visited; nothing is counted while an  *)
(* agent is out.                                                           *)
CountsAreTallies ==
    /\ asked = {} => \A c \in Choice : counts[c] = Cardinality(Tallied(c))
    /\ asked # {} => /\ uncounted = {} /\ ~resolved
                     /\ \A c \in Choice : counts[c] = 0
    /\ resolved => uncounted = {}

(* The running maximum is one, and until the test for ties the choice is a *)
(* key that has it.                                                        *)
RunningMaximum ==
    /\ \A c \in Choice : counts[c] <= maxCount
    /\ maxCount = 0 => finalChoice = NoChoice
    /\ maxCount > 0 => \/ finalChoice \in Choice /\ counts[finalChoice] = maxCount
                       \/ resolved /\ finalChoice = NoChoice
    /\ maxCount > 0 /\ resolved => (Tie <=> finalChoice = NoChoice)

CouncilInv ==
    CouncilTypeOK /\ ResponsesAreBallots /\ CountsAreTallies /\ RunningMaximum

----------------------------------------------------------------------------
(* There are no more names that responded than agents.                     *)
LEMMA RespondentsAreFinite ==
    ASSUME CouncilTypeOK, ResponsesAreBallots
    PROVE  \A S \in SUBSET Responded : IsFiniteSet(S) /\ Cardinality(S) \in Nat
<1> DEFINE Named == {NameOf[a] : a \in Agent}
           f == [a \in Agent |-> NameOf[a]]
<1>1. f \in Surjection(Agent, Named)
  BY DEF Surjection
<1>2. IsFiniteSet(Named)
  BY <1>1, CouncilAssumption, FS_Surjection
<1>3. Responded \subseteq Named
  BY DEF ResponsesAreBallots
<1>4. QED BY <1>2, <1>3, FS_Subset, FS_CardinalityType

(* Under distinct names as many names hold a key as agents chose it.       *)
LEMMA TallyOfVotes ==
    ASSUME CouncilTypeOK, ResponsesAreBallots, DistinctNames, uncounted = {},
           NEW c \in Choice
    PROVE  /\ Cardinality(Tallied(c)) = Cardinality(Votes(c))
           /\ IsFiniteSet(Votes(c)) /\ Cardinality(Votes(c)) \in Nat
<1> DEFINE f == [a \in Votes(c) |-> NameOf[a]]
<1>1. IsFiniteSet(Votes(c)) /\ Cardinality(Votes(c)) \in Nat
  BY CouncilAssumption, FS_Subset, FS_CardinalityType DEF Votes
<1>2. Tallied(c) = {NameOf[a] : a \in Votes(c)}
  <2>1. ASSUME NEW a \in Votes(c) PROVE NameOf[a] \in Tallied(c)
    BY CouncilAssumption DEF Votes, Tallied, Responded, ResponsesAreBallots
  <2>2. ASSUME NEW n \in Tallied(c) PROVE \E a \in Votes(c) : NameOf[a] = n
    <3>1. n \in Responded /\ responses[n] = c
      BY DEF Tallied
    <3>2. PICK a \in Agent : NameOf[a] = n
      BY <3>1 DEF ResponsesAreBallots
    <3>3. ballot[a] = c
      BY <3>1, <3>2 DEF ResponsesAreBallots
    <3>4. QED BY <3>2, <3>3 DEF Votes
  <2>3. QED BY <2>1, <2>2
<1>3. f \in Bijection(Votes(c), Tallied(c))
  <2>1. f \in Surjection(Votes(c), Tallied(c))
    BY <1>2 DEF Surjection
  <2>2. \A a, b \in Votes(c) : f[a] = f[b] => a = b
    BY DEF DistinctNames, Votes
  <2>3. f \in Injection(Votes(c), Tallied(c))
    BY <2>1, <2>2 DEF Surjection, Injection, IsInjective
  <2>4. QED BY <2>1, <2>3 DEF Bijection
<1>4. ExistsBijection(Votes(c), Tallied(c))
  BY <1>3 DEF ExistsBijection
<1>5. QED BY <1>1, <1>4, FS_Bijection

(* Before any answer.                                                      *)
LEMMA CouncilInvInit == CouncilInit => CouncilInv
<1> SUFFICES ASSUME CouncilInit PROVE CouncilInv
  OBVIOUS
<1> USE DEF CouncilInit
<1>1. Responded = {} /\ \A c \in Choice : Tallied(c) = {}
  BY DEF Responded, Tallied
<1>2. CouncilTypeOK
  BY <1>1 DEF CouncilTypeOK
<1>3. ResponsesAreBallots
  BY <1>1, CouncilAssumption DEF ResponsesAreBallots
<1>4. CountsAreTallies
  BY <1>1, FS_EmptySet DEF CountsAreTallies
<1>5. RunningMaximum
  BY DEF RunningMaximum
<1>6. QED BY <1>2, <1>3, <1>4, <1>5 DEF CouncilInv

(* And again when the council is reconvened.                               *)
LEMMA ReconveneStep == Reconvene => CouncilInv'
<1>1. Reconvene => CouncilInit'
  BY DEF Reconvene, CouncilInit
<1>2. QED BY <1>1, CouncilInvInit, PTL

(* An agent ends: its answer, if it has one, is in the map.                *)
LEMMA AnswerStep ==
    ASSUME CouncilInv, NEW a \in Agent, NEW choice \in Choice \cup {NoChoice},
           Answer(a, choice)
    PROVE  CouncilInv'
<1> USE DEF CouncilInv
<1>1. /\ a \in asked /\ asked' = asked \ {a} /\ ~resolved /\ uncounted = {}
      /\ ballot' = [ballot EXCEPT ![a] = choice]
      /\ uncounted' = IF asked = {a} THEN Responded' ELSE {}
      /\ UNCHANGED <<counts, maxCount, finalChoice, resolved>>
      /\ \A c \in Choice : counts[c] = 0
  BY DEF Answer, CountsAreTallies
<1>2. responses' = IF choice = NoChoice THEN responses
                   ELSE [responses EXCEPT ![NameOf[a]] = choice]
  BY DEF Answer
<1>3. CouncilTypeOK'
  <2>1. responses' \in [AgentName -> Choice \cup {NoChoice}]
    BY <1>2 DEF CouncilTypeOK
  <2>2. QED BY <1>1, <2>1 DEF CouncilTypeOK
<1>4. NameOf \in [Agent -> AgentName] /\ NoChoice \notin Choice
  BY CouncilAssumption
<1>5. ResponsesAreBallots'
  <2>1. ASSUME DistinctNames, NEW b \in Agent
        PROVE  responses'[NameOf[b]] = ballot'[b]
    BY <1>1, <1>2, <1>4, <2>1 DEF ResponsesAreBallots, CouncilTypeOK, DistinctNames
  <2>2. ASSUME NEW n \in Responded' PROVE \E b \in Agent : NameOf[b] = n
    BY <1>2, <1>4, <2>2 DEF ResponsesAreBallots, Responded, CouncilTypeOK
  <2>3. \A b \in asked' : ballot'[b] = NoChoice
    BY <1>1 DEF ResponsesAreBallots, CouncilTypeOK
  <2>4. QED BY <2>1, <2>2, <2>3 DEF ResponsesAreBallots, DistinctNames
<1>6. CountsAreTallies'
  <2>1. asked' = {} => asked = {a}
    BY <1>1
  <2>2. asked' = {} => \A c \in Choice : Tallied(c)' = {}
    BY <1>1, <2>1 DEF Tallied
  <2>3. asked' # {} => uncounted' = {}
    BY <1>1
  <2>4. QED BY <1>1, <2>2, <2>3, FS_EmptySet DEF CountsAreTallies
<1>7. RunningMaximum'
  BY <1>1 DEF RunningMaximum
<1>8. QED BY <1>3, <1>5, <1>6, <1>7

(* A name is counted: its key has one more, and the running maximum is one *)
(* whether or not the key takes it over.                                   *)
LEMMA CountStep ==
    ASSUME CouncilInv, NEW n \in AgentName, CountVote(n)
    PROVE  CouncilInv'
<1> USE DEF CouncilInv
<1> DEFINE c == responses[n]
           count == counts[c] + 1
<1>1. /\ n \in uncounted /\ uncounted' = uncounted \ {n}
      /\ counts' = [counts EXCEPT ![c] = count]
      /\ IF count > maxCount THEN maxCount' = count /\ finalChoice' = c
                             ELSE UNCHANGED <<maxCount, finalChoice>>
      /\ UNCHANGED <<ballot, asked, responses, resolved>>
  BY DEF CountVote
<1>2. /\ n \in Responded /\ c \in Choice /\ counts[c] \in Nat /\ count \in Nat
      /\ counts \in [Choice -> Nat] /\ maxCount \in Nat /\ NoChoice \notin Choice
  BY <1>1, CouncilAssumption DEF CouncilTypeOK, Responded
<1>3. asked = {} /\ ~resolved
  BY <1>1 DEF CountsAreTallies
<1>4. /\ counts' \in [Choice -> Nat] /\ counts'[c] = count
      /\ \A d \in Choice \ {c} : counts'[d] = counts[d]
  BY <1>1, <1>2
<1>5. Responded' = Responded
  BY <1>1 DEF Responded
<1>6. CouncilTypeOK'
  <2>1. maxCount' \in Nat /\ finalChoice' \in Choice \cup {NoChoice}
    BY <1>1, <1>2 DEF CouncilTypeOK
  <2>2. QED BY <1>1, <1>4, <1>5, <2>1 DEF CouncilTypeOK
<1>7. ResponsesAreBallots'
  BY <1>1, <1>5 DEF ResponsesAreBallots, DistinctNames
<1>8. CountsAreTallies'
  <2>1. ASSUME NEW d \in Choice PROVE counts'[d] = Cardinality(Tallied(d)')
    <3>1. Tallied(d)' = {k \in Responded \ (uncounted \ {n}) : responses[k] = d}
      BY <1>1, <1>5 DEF Tallied
    <3>2. IsFiniteSet(Tallied(d)) /\ Cardinality(Tallied(d)) \in Nat
      BY RespondentsAreFinite DEF Tallied
    <3>3. CASE d = c
      <4>1. Tallied(d)' = Tallied(d) \cup {n} /\ n \notin Tallied(d)
        BY <1>1, <1>2, <3>1, <3>3 DEF Tallied
      <4>2. Cardinality(Tallied(d)') = Cardinality(Tallied(d)) + 1
        BY <3>2, <4>1, FS_AddElement
      <4>3. QED BY <1>3, <1>4, <3>3, <4>2 DEF CountsAreTallies
    <3>4. CASE d # c
      <4>1. Tallied(d)' = Tallied(d)
        BY <1>1, <1>2, <3>1, <3>4 DEF Tallied
      <4>2. QED BY <1>3, <1>4, <3>4, <4>1 DEF CountsAreTallies
    <3>5. QED BY <3>3, <3>4
  <2>2. QED BY <1>1, <1>3, <2>1 DEF CountsAreTallies
<1>9. RunningMaximum'
  <2>1. \A d \in Choice : counts[d] <= maxCount
    BY DEF RunningMaximum
  <2>2. CASE count > maxCount
    <3>1. maxCount' = count /\ finalChoice' = c /\ ~resolved'
      BY <1>1, <1>3, <2>2
    <3> HIDE DEF c, count
    <3>2. \A d \in Choice : counts'[d] <= maxCount'
      BY <1>2, <1>4, <2>1, <2>2, <3>1
    <3>3. maxCount' > 0
      BY <1>2, <2>2, <3>1
    <3>4. QED BY <1>2, <1>4, <3>1, <3>2, <3>3 DEF RunningMaximum
  <2>3. CASE ~(count > maxCount)
    <3>1. maxCount' = maxCount /\ finalChoice' = finalChoice /\ ~resolved' /\ ~resolved
      BY <1>1, <1>3, <2>3
    <3>2. \A d \in Choice : counts'[d] <= maxCount'
      BY <1>2, <1>4, <2>1, <2>3, <3>1
    <3>3. maxCount > 0 /\ counts[c] < maxCount
      BY <1>2, <2>3
    <3>4. finalChoice \in Choice /\ counts[finalChoice] = maxCount
      BY <3>1, <3>3 DEF RunningMaximum
    <3>5. finalChoice # c
      BY <1>2, <3>3, <3>4
    <3> HIDE DEF c, count
    <3>6. counts'[finalChoice'] = maxCount'
      BY <1>4, <3>1, <3>4, <3>5
    <3>7. QED BY <3>1, <3>2, <3>3, <3>4, <3>6 DEF RunningMaximum
  <2>4. QED BY <2>2, <2>3
<1>10. QED BY <1>6, <1>7, <1>8, <1>9

(* The test for ties.                                                      *)
LEMMA ResolveStep ==
    ASSUME CouncilInv, Resolve
    PROVE  CouncilInv'
<1> USE DEF CouncilInv
<1>1. /\ asked = {} /\ uncounted = {} /\ ~resolved /\ resolved' = TRUE
      /\ finalChoice' = IF Tie THEN NoChoice ELSE finalChoice
      /\ UNCHANGED <<ballot, asked, responses, uncounted, counts, maxCount>>
  BY DEF Resolve
<1>2. Responded' = Responded /\ Tie' = Tie /\ \A c \in Choice : Tallied(c)' = Tallied(c)
  BY <1>1 DEF Responded, Tie, Tallied
<1>3. CouncilTypeOK'
  BY <1>1, <1>2 DEF CouncilTypeOK
<1>4. ResponsesAreBallots'
  BY <1>1, <1>2 DEF ResponsesAreBallots, DistinctNames
<1>5. CountsAreTallies'
  BY <1>1, <1>2 DEF CountsAreTallies
<1>6. RunningMaximum'
  <2>1. CASE maxCount = 0
    <3>1. finalChoice' = NoChoice /\ maxCount' = 0 /\ counts' = counts
      BY <1>1, <2>1 DEF RunningMaximum
    <3>2. QED BY <2>1, <3>1 DEF RunningMaximum
  <2>2. CASE maxCount # 0
    <3>1. maxCount > 0 /\ finalChoice \in Choice /\ counts[finalChoice] = maxCount
      BY <1>1, <2>2 DEF RunningMaximum, CouncilTypeOK
    <3>2. Tie' <=> finalChoice' = NoChoice
      BY <1>1, <1>2, <3>1, CouncilAssumption
    <3>3. finalChoice' \in {finalChoice, NoChoice}
      BY <1>1
    <3>4. QED BY <1>1, <2>2, <3>1, <3>2, <3>3 DEF RunningMaximum
  <2>3. QED BY <2>1, <2>2
<1>7. QED BY <1>3, <1>4, <1>5, <1>6

(* Every step of the council preserves the invariant.                      *)
LEMMA CouncilInvStep == CouncilInv /\ [CouncilNext]_cvars => CouncilInv'
<1> SUFFICES ASSUME CouncilInv, [CouncilNext]_cvars PROVE CouncilInv'
  OBVIOUS
<1>1. ASSUME NEW a \in Agent, NEW c \in Choice \cup {NoChoice}, Answer(a, c)
      PROVE  CouncilInv'
  BY <1>1, AnswerStep
<1>2. ASSUME NEW n \in AgentName, CountVote(n) PROVE CouncilInv'
  BY <1>2, CountStep
<1>3. CASE Resolve
  BY <1>3, ResolveStep
<1>4. CASE Reconvene
  BY <1>4, ReconveneStep
<1>5. CASE UNCHANGED cvars
  <2>1. UNCHANGED <<ballot, asked, responses, uncounted, counts, maxCount, finalChoice, resolved>>
    BY <1>5 DEF cvars
  <2>2. Responded' = Responded /\ Tie' = Tie /\ \A c \in Choice : Tallied(c)' = Tallied(c)
    BY <2>1 DEF Responded, Tie, Tallied
  <2>3. QED BY <2>1, <2>2 DEF CouncilInv, CouncilTypeOK, ResponsesAreBallots, DistinctNames,
                               CountsAreTallies, RunningMaximum
<1>6. QED BY <1>1, <1>2, <1>3, <1>4, <1>5 DEF CouncilNext

(* The strengthening: the counts are tallies of the ballots, and the choice*)
(* has the running maximum.                                                *)
LEMMA CouncilInvHolds == CouncilSpec => []CouncilInv
<1>1. QED BY CouncilInvInit, CouncilInvStep, PTL DEF CouncilSpec

(* The map, the counts and the choice are of their types, and only names   *)
(* that responded are to be counted.                                       *)
THEOREM CouncilTypeCorrect == CouncilSpec => []CouncilTypeOK
<1>1. CouncilInv => CouncilTypeOK
  BY DEF CouncilInv
<1>2. QED BY <1>1, CouncilInvHolds, PTL

(* The consensus is the plurality, in whatever order the agents answer and *)
(* the map is walked.                                                      *)
THEOREM ConsensusIsThePlurality == CouncilSpec => []ConsensusIsPlurality
<1>1. ASSUME CouncilInv, resolved, DistinctNames, NEW c \in Choice
      PROVE  finalChoice = c <=> Wins(c)
  <2>1. asked = {} /\ uncounted = {}
    BY <1>1 DEF CouncilInv, CountsAreTallies
  <2>2. \A d \in Choice : /\ counts[d] = Cardinality(Votes(d)) /\ counts[d] \in Nat
                          /\ Votes(d) # {} <=> counts[d] > 0
    <3>1. ASSUME NEW d \in Choice
          PROVE  /\ counts[d] = Cardinality(Votes(d)) /\ counts[d] \in Nat
                 /\ Votes(d) # {} <=> counts[d] > 0
      <4>1. counts[d] = Cardinality(Votes(d)) /\ IsFiniteSet(Votes(d)) /\ counts[d] \in Nat
        BY <1>1, <2>1, TallyOfVotes DEF CouncilInv, CountsAreTallies
      <4>2. QED BY <4>1, FS_EmptySet
    <3>2. QED BY <3>1
  <2>3. /\ \A d \in Choice : counts[d] <= maxCount
        /\ maxCount \in Nat /\ NoChoice \notin Choice
    BY <1>1, CouncilAssumption DEF CouncilInv, RunningMaximum, CouncilTypeOK
  <2>4. Wins(c) <=> counts[c] > 0 /\ \A d \in Choice \ {c} : counts[d] < counts[c]
    BY <2>2 DEF Wins
  <2>5. ASSUME finalChoice = c PROVE Wins(c)
    <3>1. maxCount > 0 /\ counts[c] = maxCount /\ ~Tie
      BY <1>1, <2>3, <2>5 DEF CouncilInv, RunningMaximum
    <3>2. \A d \in Choice \ {c} : counts[d] # maxCount
      BY <3>1 DEF Tie
    <3>3. \A d \in Choice \ {c} : counts[d] < counts[c]
      BY <2>2, <2>3, <3>1, <3>2
    <3>4. QED BY <2>4, <3>1, <3>3
  <2>6. ASSUME Wins(c) PROVE finalChoice = c
    <3>1. counts[c] > 0 /\ maxCount > 0 /\ \A d \in Choice \ {c} : counts[d] < maxCount
      BY <2>2, <2>3, <2>4, <2>6
    <3>2. ~Tie
      BY <2>2, <2>3, <3>1 DEF Tie
    <3>3. finalChoice \in Choice /\ counts[finalChoice] = maxCount
      BY <1>1, <3>1, <3>2 DEF CouncilInv, RunningMaximum
    <3>4. QED BY <2>2, <2>3, <3>1, <3>3
  <2>7. QED BY <2>5, <2>6
<1>2. CouncilInv => ConsensusIsPlurality
  BY <1>1 DEF ConsensusIsPlurality
<1>3. QED BY <1>2, CouncilInvHolds, PTL
=============================================================================
