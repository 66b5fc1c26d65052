------------------------------ MODULE Council ------------------------------
(***************************************************************************)
(* The council of a swarm router in voting mode (scheduler.go,             *)
(* executeSwarmRouter): every agent is asked in a goroutine of its own,    *)
(* the answers are kept in a map under the agents' names, and once all     *)
(* goroutines have ended the votes are counted in the map's iteration      *)
(* order, which Go leaves open, with a running maximum and a test for ties *)
(* at the end.  What becomes of the choice is in Routing.                  *)
(***************************************************************************)
EXTENDS Integers, FiniteSets

CONSTANTS
    Agent,    \* the agents of the council
    AgentName, NameOf,  \* NameOf[a]: the name the configuration gives a
    Choice,   \* keys an agent may answer with
    NoChoice  \* the empty string: the call failed, or no key in the answer

ASSUME CouncilAssumption ==
    /\ IsFiniteSet(Agent)
    /\ NameOf \in [Agent -> AgentName]
    /\ NoChoice \notin Choice

(* The wizard numbers new agents by the length of the list (TaskWizard.jsx *)
(* line 476), and the user may rename them: nothing keeps names distinct.  *)
DistinctNames == \A a, b \in Agent : NameOf[a] = NameOf[b] => a = b

VARIABLES
    ballot,     \* ballot[a]: what agent a answered (history)
    asked,      \* agents whose goroutine has yet to end
    responses,  \* the map agentResponses; NoChoice where it has no entry
    uncounted,  \* names the counting loop has yet to visit
    counts, maxCount, finalChoice,
    resolved    \* the choice is final

cvars == <<ballot, asked, responses, uncounted, counts, maxCount, finalChoice, resolved>>

CouncilInit ==
    /\ ballot = [a \in Agent |-> NoChoice]
    /\ asked = Agent
    /\ responses = [n \in AgentName |-> NoChoice]
    /\ uncounted = {}
    /\ counts = [c \in Choice |-> 0]
    /\ maxCount = 0 /\ finalChoice = NoChoice
    /\ resolved = FALSE

Responded == {n \in AgentName : responses[n] # NoChoice}

AnswerCountingAll(a, choice) ==   \* mutant: agents that failed are counted too
    /\ a \in asked
    /\ asked' = asked \ {a}
    /\ ballot' = [ballot EXCEPT ![a] = choice]
    /\ responses' = [responses EXCEPT ![NameOf[a]] = choice]
    /\ uncounted' = IF asked = {a} THEN AgentName ELSE {}
    /\ UNCHANGED <<counts, maxCount, finalChoice, resolved>>

(* The goroutine of agent a ends; wg.Wait returns with the last.           *)
Answer(a, choice) ==
    /\ a \in asked
    /\ asked' = asked \ {a}
    /\ ballot' = [ballot EXCEPT ![a] = choice]
    /\ responses' = IF choice = NoChoice THEN responses
                    ELSE [responses EXCEPT ![NameOf[a]] = choice]
    /\ uncounted' = IF asked = {a} THEN Responded' ELSE {}
    /\ UNCHANGED <<counts, maxCount, finalChoice, resolved>>

CountVote(n) ==
    LET c == responses[n]
        count == counts[c] + 1
    IN /\ n \in uncounted
       /\ uncounted' = uncounted \ {n}
       /\ counts' = [counts EXCEPT ![c] = count]
       /\ IF count > maxCount THEN maxCount' = count /\ finalChoice' = c
                              ELSE UNCHANGED <<maxCount, finalChoice>>
       /\ UNCHANGED <<ballot, asked, responses, resolved>>

NoTie == FALSE   \* mutant: the first choice to reach the maximum wins

(* tieCount > 1: another choice has the maximum as well.                   *)
Tie == \E c, d \in Choice : c # d /\ counts[c] = maxCount /\ counts[d] = maxCount
                            /\ maxCount > 0

Resolve ==
    /\ asked = {} /\ uncounted = {} /\ ~resolved
    /\ finalChoice' = IF Tie THEN NoChoice ELSE finalChoice
    /\ resolved' = TRUE
    /\ UNCHANGED <<ballot, asked, responses, uncounted, counts, maxCount>>

(* The next execution of the router starts from nothing.                   *)
Reconvene ==
    /\ resolved
    /\ ballot' = [a \in Agent |-> NoChoice]
    /\ asked' = Agent
    /\ responses' = [n \in AgentName |-> NoChoice]
    /\ uncounted' = {}
    /\ counts' = [c \in Choice |-> 0]
    /\ maxCount' = 0 /\ finalChoice' = NoChoice
    /\ resolved' = FALSE

CouncilNext ==
    \/ \E a \in Agent : \E c \in Choice \cup {NoChoice} : Answer(a, c)
    \/ \E n \in AgentName : CountVote(n)
    \/ Resolve \/ Reconvene

CouncilSpec == CouncilInit /\ [][CouncilNext]_cvars

----------------------------------------------------------------------------
CouncilTypeOK ==
    /\ ballot \in [Agent -> Choice \cup {NoChoice}]
    /\ asked \subseteq Agent
    /\ responses \in [AgentName -> Choice \cup {NoChoice}]
    /\ uncounted \subseteq Responded
    /\ counts \in [Choice -> Nat] /\ maxCount \in Nat
    /\ finalChoice \in Choice \cup {NoChoice}
    /\ resolved \in BOOLEAN

Votes(c) == {a \in Agent : ballot[a] = c}

(* Strictly more agents chose c than any other key.                        *)
Wins(c) ==
    /\ Votes(c) # {}
    /\ \A d \in Choice \ {c} : Cardinality(Votes(d)) < Cardinality(Votes(c))

(* Whatever the order of the answers and of the map, the council agrees on *)
(* the key with the most votes and on none when there is a tie ("Tie,      *)
(* force fallback", scheduler.go:1495), provided its names are distinct:   *)
(* of two agents with one name only the later answer counts.               *)
ConsensusIsPlurality ==
    resolved /\ DistinctNames =>
        \A c \in Choice : finalChoice = c <=> Wins(c)
=============================================================================
