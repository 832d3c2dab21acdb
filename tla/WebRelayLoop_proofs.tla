------------------------- MODULE WebRelayLoop_proofs -------------------------
(***************************************************************************)
(* Proofs about WebRelayLoop, for any number of loops, prompts, replies and*)
(* rounds, and any time limits.                                            *)
(***************************************************************************)
EXTENDS WebRelayLoop, OutboundPromptStore_proofs, FiniteSetTheorems

-----------------------------------------------------------------------------
(* The inductive invariant.                                                *)

\* One loop's own books: rounds are paid for by different replies, and one that
\* goes on had progress in one round at least.
LoopOk(loop) ==
    /\ loop \in Loop
    /\ IsFiniteSet(loop.seen)
    /\ loop.round <= Cardinality(loop.seen) + 1
    /\ loop.status = "absent" => loop.round = 0
    /\ loop.noProgress <= loop.round
    /\ loop.status \in {"running", "paused"} => loop.noProgress < loop.round

LoopsOk == \A l \in Loops : LoopOk(loops[l]) /\ LoopOk(disk.loops[l])

\* A loop in memory is the saved one, or the failed one the recovery after the
\* next restart makes of it again; a prompt is saved as its loop's, but for the
\* one that a create which threw left behind.
SavedOrRecovered ==
    /\ \A i \in PromptIds :
         \/ disk.loopOf[i] = loopOf[i]
         \/ /\ disk.loopOf[i] = NoLoop
            /\ loopOf[i] \in Loops
            /\ loops[loopOf[i]].status = "absent"
    /\ \A l \in Loops :
         /\ loops[l].round = disk.loops[l].round
         /\ loops[l].current = disk.loops[l].current
         /\ \/ loops[l].status = disk.loops[l].status
            \/ loops[l].status = "failed" /\ Interrupted(disk.loops[l], disk.prompts)

\* A loop that exists has one prompt per round, one that does not exist at most
\* the prompt of a create that threw.
PromptsOwned ==
    /\ \A i \in PromptIds : i > created => loopOf[i] = NoLoop
    /\ \A l \in Loops : loops[l].status = "absent" => \A i, j \in PromptsOf(l) : i = j
    /\ \A l \in Loops : loops[l].status # "absent" =>
         /\ loops[l].current \in PromptIds
         /\ loopOf[loops[l].current] = l
         /\ Cardinality(PromptsOf(l)) = loops[l].round

\* Of prompts `ps', in memory or on disk: those of earlier rounds are returned.
EarlierReturned(ps) ==
    \A i \in PromptIds :
        (/\ loopOf[i] # NoLoop
         /\ loops[loopOf[i]].status # "absent"
         /\ i # loops[loopOf[i]].current) => ps[i].status = "returned"

LoopInv ==
    /\ TypeOK
    /\ LoopsOk
    /\ SavedOrRecovered
    /\ PromptsOwned
    /\ EarlierReturned(prompts)
    /\ EarlierReturned(disk.prompts)

-----------------------------------------------------------------------------
(* Loops and prompts.                                                      *)

\* A set whose members are equal has at most one.
LEMMA AtMostOne ==
    ASSUME NEW S, \A i, j \in S : i = j
    PROVE  Cardinality(S) <= 1
  <1>1. CASE S = {}
    BY <1>1, FS_EmptySet
  <1>2. CASE S # {}
    <2>1. PICK i \in S : TRUE
      BY <1>2
    <2>2. S = {i}
      BY <2>1
    <2>3. Cardinality({i}) = 1
      BY FS_Singleton
    <2> QED
      BY <2>2, <2>3
  <1> QED
    BY <1>1, <1>2

LEMMA PromptIdsFacts == PromptIds \in SUBSET Nat /\ IsFiniteSet(PromptIds)
  BY LoopAssumption, FS_Interval DEF PromptIds

\* A loop's prompts are finitely many.
LEMMA PromptsOfFinite ==
    ASSUME NEW l \in Loops
    PROVE  IsFiniteSet(PromptsOf(l))
  <1>1. PromptsOf(l) \subseteq PromptIds
    BY DEF PromptsOf
  <1> QED
    BY <1>1, PromptIdsFacts, FS_Subset

\* What any step may do to the prompts of earlier rounds: nothing.
ReturnedKept == \A i \in PromptIds : prompts[i].status = "returned" => prompts'[i].status = "returned"

\* A handler persists, or changes nothing on disk, and leaves the loops alone.
LEMMA PromptsChange ==
    ASSUME LoopInv, UNCHANGED <<loops, loopOf, created>>,
           prompts' \in [PromptIds -> OutboundPrompt], ReturnedKept,
           Persist \/ disk' = disk
    PROVE  LoopInv'
  <1> USE DEF LoopInv
  <1>1. PromptsOwned'
    BY DEF PromptsOwned, PromptsOf
  <1>2. EarlierReturned(prompts)'
    BY DEF EarlierReturned, ReturnedKept
  <1>3. CASE Persist
    <2>1. disk' = [prompts |-> prompts', loopOf |-> loopOf, loops |-> loops]
      BY <1>3 DEF Persist
    <2>2. TypeOK'
      BY <2>1 DEF TypeOK, Snapshot
    <2>3. LoopsOk' /\ SavedOrRecovered' /\ EarlierReturned(disk.prompts)'
      BY <1>2, <2>1 DEF LoopsOk, SavedOrRecovered, EarlierReturned
    <2> QED
      BY <1>1, <1>2, <2>2, <2>3
  <1>4. CASE disk' = disk
    <2>1. TypeOK'
      BY <1>4 DEF TypeOK
    <2>2. LoopsOk' /\ SavedOrRecovered' /\ EarlierReturned(disk.prompts)'
      BY <1>4 DEF LoopsOk, SavedOrRecovered, EarlierReturned
    <2> QED
      BY <1>1, <1>2, <2>1, <2>2
  <1> QED
    BY <1>3, <1>4

\* The outbound handlers: what was returned stays returned.
LEMMA OutboundKeeps ==
    ASSUME LoopInv, OutboundNext \/ \E i \in PromptIds : OutboundCall(i)
    PROVE  LoopInv'
  <1>1. prompts \in [PromptIds -> OutboundPrompt]
    BY DEF LoopInv, TypeOK
  <1>2. CASE OutboundNext
    <2>1. prompts' = claimNext(prompts, Token) /\ Token \in Nat
      BY <1>2 DEF OutboundNext, Token
    <2>2. prompts' \in [PromptIds -> OutboundPrompt] /\ ReturnedKept
      BY <1>1, <2>1, PromptIdsFacts, ClaimNextFacts DEF ReturnedKept, TerminalOutbound
    <2> QED
      BY <1>2, <2>2, PromptsChange DEF OutboundNext
  <1>3. ASSUME NEW i \in PromptIds, OutboundCall(i)
        PROVE  LoopInv'
    <2> DEFINE p == prompts[i]
    <2>1. p \in OutboundPrompt
      BY <1>1
    <2>2. PICK q \in OutboundPrompt : /\ prompts' = [prompts EXCEPT ![i] = q]
                                      /\ p.status = "returned" => q = p
      <3>1. CASE OutboundAck(i)
        <4>1. PICK delivered \in BOOLEAN :
                 prompts' = [prompts EXCEPT ![i] = acknowledge(p, delivered)]
          BY <3>1 DEF OutboundAck
        <4>2. acknowledge(p, delivered) \in OutboundPrompt /\ p.status # "returned"
          BY <2>1, <3>1, AcknowledgeFacts DEF OutboundAck, canAcknowledge
        <4> QED
          BY <4>1, <4>2
      <3>2. CASE OutboundSubmitted(i)
        <4>1. prompts' = [prompts EXCEPT ![i] = markSubmitted(p)] /\ p.status # "returned"
          BY <3>2 DEF OutboundSubmitted
        <4>2. markSubmitted(p) \in OutboundPrompt
          BY <2>1, MarkSubmittedFacts
        <4> QED
          BY <4>1, <4>2
      <3>3. CASE OutboundCancel(i)
        <4>1. /\ prompts' = [prompts EXCEPT ![i] = Ended("cancelled")]
              /\ p.status # "returned"
          BY <3>3 DEF OutboundCancel, cancel, canCancel, PreSubmission
        <4>2. Ended("cancelled") \in OutboundPrompt
          BY AbsentPromptFacts DEF OutboundPromptStatus
        <4> QED
          BY <4>1, <4>2
      <3>4. CASE OutboundStage(i)
        <4>1. CASE canMarkFailed(p) /\ prompts' = [prompts EXCEPT ![i] = markFailed(p)]
          <5>1. p.status # "returned" /\ markFailed(p) = Ended("failed")
            BY <4>1 DEF canMarkFailed, TerminalOutbound, markFailed
          <5>2. Ended("failed") \in OutboundPrompt
            BY AbsentPromptFacts DEF OutboundPromptStatus
          <5> QED
            BY <4>1, <5>1, <5>2
        <4>2. ASSUME NEW stage \in DOMAIN StageFrom, p.status = StageFrom[stage],
                     prompts' = [prompts EXCEPT ![i].status = stage]
              PROVE  \E q \in OutboundPrompt : /\ prompts' = [prompts EXCEPT ![i] = q]
                                               /\ p.status = "returned" => q = p
          <5>1. stage \in OutboundPromptStatus /\ p.status # "returned"
            BY <4>2 DEF StageFrom, OutboundPromptStatus
          <5>2. [p EXCEPT !.status = stage] \in OutboundPrompt
            BY <2>1, <5>1 DEF OutboundPrompt
          <5>3. prompts' = [prompts EXCEPT ![i] = [p EXCEPT !.status = stage]]
            BY <1>1, <4>2
          <5> HIDE DEF p
          <5> QED
            BY <5>1, <5>2, <5>3
        <4> QED
          BY <3>4, <4>1, <4>2 DEF OutboundStage
      <3> QED
        BY <1>3, <3>1, <3>2, <3>3, <3>4 DEF OutboundCall
    <2>3. prompts' \in [PromptIds -> OutboundPrompt] /\ ReturnedKept
      BY <1>1, <2>2 DEF ReturnedKept
    <2>4. UNCHANGED <<loops, loopOf, created>> /\ (Persist \/ disk' = disk)
      BY <1>3
      DEF OutboundCall, OutboundAck, OutboundSubmitted, OutboundStage, OutboundCancel
    <2> QED
      BY <2>3, <2>4, PromptsChange
  <1> QED
    BY <1>2, <1>3

-----------------------------------------------------------------------------
(* The loops' own handlers.                                                *)

\* A handler that changes one loop but not its round.
LEMMA LoopChange ==
    ASSUME LoopInv, Persist, UNCHANGED <<loopOf, created>>, NEW l \in Loops, NEW new,
           loops' = [loops EXCEPT ![l] = new], loops[l].status # "absent",
           LoopOk(new), new.status # "absent",
           new.round = loops[l].round, new.current = loops[l].current,
           prompts' \in [PromptIds -> OutboundPrompt], ReturnedKept
    PROVE  LoopInv'
  <1> USE DEF LoopInv
  <1>1. loops \in [Loops -> Loop] /\ new \in Loop /\ loopOf \in [PromptIds -> Loops \cup {NoLoop}]
    BY DEF TypeOK, LoopOk
  <1>2. /\ loops' \in [Loops -> Loop] /\ loops'[l] = new
        /\ \A m \in Loops : /\ m # l => loops'[m] = loops[m]
                            /\ loops'[m].round = loops[m].round
                            /\ loops'[m].current = loops[m].current
                            /\ loops'[m].status = "absent" <=> loops[m].status = "absent"
    BY <1>1
  <1>3. disk' = [prompts |-> prompts', loopOf |-> loopOf', loops |-> loops']
    BY DEF Persist
  <1>4. TypeOK'
    BY <1>2, <1>3 DEF TypeOK, Snapshot
  <1>5. \A m \in Loops : LoopOk(loops'[m])
    BY <1>2 DEF LoopsOk
  <1>6. LoopsOk' /\ SavedOrRecovered'
    BY <1>3, <1>5 DEF LoopsOk, SavedOrRecovered
  <1>7. PromptsOwned'
    <2>1. \A m \in Loops : PromptsOf(m)' = PromptsOf(m)
      BY <1>1 DEF PromptsOf
    <2> QED
      BY <1>1, <1>2, <2>1 DEF PromptsOwned
  <1>8. EarlierReturned(prompts)' /\ EarlierReturned(disk.prompts)'
    BY <1>1, <1>2, <1>3 DEF EarlierReturned, ReturnedKept
  <1> QED
    BY <1>4, <1>6, <1>7, <1>8

\* A handler that starts a round: the round before it, if any, is returned.
LEMMA RoundStarts ==
    ASSUME LoopInv, Persist, NEW l \in Loops, NewPrompt(l), NEW new,
           loops' = [loops EXCEPT ![l] = new],
           LoopOk(new), new.status # "absent",
           new.round = loops[l].round + 1, new.current = created + 1,
           \/ IsFresh(l)
           \/ loops[l].status # "absent" /\ prompts[loops[l].current].status = "returned"
    PROVE  LoopInv'
  <1> USE DEF LoopInv
  <1> DEFINE n == created + 1
  <1>1. /\ loops \in [Loops -> Loop] /\ new \in Loop
        /\ loopOf \in [PromptIds -> Loops \cup {NoLoop}]
        /\ prompts \in [PromptIds -> OutboundPrompt]
        /\ created \in 0..MaxPrompts /\ created < MaxPrompts /\ created' = created + 1
    BY DEF TypeOK, LoopOk, NewPrompt
  <1>2. n \in PromptIds /\ created' \in 0..MaxPrompts /\ \A i \in PromptIds : i > created' => i > created
    BY <1>1, LoopAssumption DEF PromptIds
  <1>3. /\ prompts' = [prompts EXCEPT ![n] = createOutboundPrompt]
        /\ loopOf' = [loopOf EXCEPT ![n] = l]
    BY DEF NewPrompt
  <1>4. /\ prompts' \in [PromptIds -> OutboundPrompt]
        /\ \A i \in PromptIds : i # n => prompts'[i] = prompts[i]
    BY <1>1, <1>3, AbsentPromptFacts
  <1>5. /\ loopOf' \in [PromptIds -> Loops \cup {NoLoop}] /\ loopOf'[n] = l
        /\ \A i \in PromptIds : i # n => loopOf'[i] = loopOf[i]
    BY <1>1, <1>2, <1>3
  <1>6. /\ loops' \in [Loops -> Loop] /\ loops'[l] = new
        /\ \A m \in Loops : m # l => loops'[m] = loops[m]
    BY <1>1
  <1>7. disk' = [prompts |-> prompts', loopOf |-> loopOf', loops |-> loops']
    BY DEF Persist
  <1>8. loopOf[n] = NoLoop
    BY <1>1, <1>2 DEF PromptsOwned, PromptIds
  <1> HIDE DEF n
  <1>9. TypeOK'
    BY <1>2, <1>4, <1>5, <1>6, <1>7 DEF TypeOK, Snapshot
  <1>10. \A m \in Loops : LoopOk(loops'[m])
    BY <1>6 DEF LoopsOk
  <1>11. LoopsOk' /\ SavedOrRecovered'
    BY <1>7, <1>10 DEF LoopsOk, SavedOrRecovered
  <1>12. PromptsOwned'
    <2>1. \A i \in PromptIds : i > created' => loopOf'[i] = NoLoop
      <3> SUFFICES ASSUME NEW i \in PromptIds, i > created' PROVE loopOf'[i] = NoLoop
        OBVIOUS
      <3>1. i # n /\ i > created
        BY <1>1, <1>2 DEF n, PromptIds
      <3> QED
        BY <1>5, <3>1 DEF PromptsOwned
    <2>2. \A m \in Loops : m # l => PromptsOf(m)' = PromptsOf(m)
      BY <1>5, <1>8, LoopAssumption DEF PromptsOf
    <2>3. \A m \in Loops : loops'[m].status # "absent" =>
             loops'[m].current \in PromptIds /\ loopOf'[loops'[m].current] = m
      <3>1. loops'[l].current = n
        BY <1>6 DEF n
      <3>2. ASSUME NEW m \in Loops, m # l, loops[m].status # "absent"
            PROVE  loops[m].current \in PromptIds /\ loopOf'[loops[m].current] = m
        <4>1. loops[m].current \in PromptIds /\ loopOf[loops[m].current] = m
          BY <3>2 DEF PromptsOwned
        <4>2. loops[m].current # n
          BY <1>8, <4>1, LoopAssumption
        <4> QED
          BY <1>5, <4>1, <4>2
      <3> QED
        BY <1>2, <1>5, <1>6, <3>1, <3>2
    <2>4. \A m \in Loops : loops'[m].status # "absent" =>
             Cardinality(PromptsOf(m)') = loops'[m].round
      <3>1. PromptsOf(l)' = PromptsOf(l) \cup {n} /\ n \notin PromptsOf(l)
        BY <1>2, <1>5, <1>8, LoopAssumption DEF PromptsOf
      <3>2. Cardinality(PromptsOf(l)') = Cardinality(PromptsOf(l)) + 1
        BY <3>1, PromptsOfFinite, FS_AddElement
      <3>3. Cardinality(PromptsOf(l)) = loops[l].round
        <4>1. CASE IsFresh(l)
          BY <4>1, FS_EmptySet DEF IsFresh, LoopsOk, LoopOk
        <4> QED
          BY <4>1 DEF PromptsOwned
      <3>4. Cardinality(PromptsOf(l)') = loops'[l].round
        BY <1>6, <3>2, <3>3
      <3> QED
        BY <1>6, <2>2, <3>4 DEF PromptsOwned
    <2>5. \A m \in Loops : loops'[m].status = "absent" =>
             \A i, j \in PromptsOf(m)' : i = j
      BY <1>6, <2>2 DEF PromptsOwned
    <2> QED
      BY <2>1, <2>3, <2>4, <2>5 DEF PromptsOwned
  <1>13. EarlierReturned(prompts)'
    <2> SUFFICES ASSUME NEW i \in PromptIds, loopOf'[i] # NoLoop,
                        loops'[loopOf'[i]].status # "absent",
                        i # loops'[loopOf'[i]].current
                 PROVE  prompts'[i].status = "returned"
      BY DEF EarlierReturned
    <2>1. i # n
      BY <1>5, <1>6 DEF n
    <2>2. loopOf'[i] = loopOf[i] /\ prompts'[i] = prompts[i] /\ loopOf[i] \in Loops
      BY <1>1, <1>4, <1>5, <2>1
    <2>3. CASE loopOf[i] # l
      BY <1>6, <2>2, <2>3 DEF EarlierReturned
    <2>4. CASE loopOf[i] = l
      <3>1. loops[l].status # "absent" /\ prompts[loops[l].current].status = "returned"
        BY <2>2, <2>4 DEF IsFresh, PromptsOf
      <3> QED
        BY <2>2, <2>4, <3>1 DEF EarlierReturned
    <2> QED
      BY <2>3, <2>4
  <1>14. EarlierReturned(disk.prompts)'
    BY <1>7, <1>13 DEF EarlierReturned
  <1> QED
    BY <1>9, <1>11, <1>12, <1>13, <1>14

\* A create that throws leaves a prompt, and no loop.
LEMMA ThrowKeeps ==
    ASSUME LoopInv, NEW l \in Loops, CreateThrows(l)
    PROVE  LoopInv'
  <1> USE DEF LoopInv
  <1> DEFINE n == created + 1
  <1>1. /\ loops \in [Loops -> Loop]
        /\ loopOf \in [PromptIds -> Loops \cup {NoLoop}]
        /\ prompts \in [PromptIds -> OutboundPrompt]
        /\ created \in 0..MaxPrompts /\ created < MaxPrompts /\ created' = created + 1
        /\ loops[l].status = "absent" /\ PromptsOf(l) = {}
        /\ UNCHANGED <<loops, disk>>
    BY DEF TypeOK, NewPrompt, CreateThrows, IsFresh
  <1>2. n \in PromptIds /\ created' \in 0..MaxPrompts /\ \A i \in PromptIds : i > created' => i > created
    BY <1>1, LoopAssumption DEF PromptIds
  <1>3. /\ prompts' = [prompts EXCEPT ![n] = createOutboundPrompt]
        /\ loopOf' = [loopOf EXCEPT ![n] = l]
    BY DEF NewPrompt, CreateThrows
  <1>4. /\ prompts' \in [PromptIds -> OutboundPrompt]
        /\ \A i \in PromptIds : i # n => prompts'[i] = prompts[i]
    BY <1>1, <1>3, AbsentPromptFacts
  <1>5. /\ loopOf' \in [PromptIds -> Loops \cup {NoLoop}] /\ loopOf'[n] = l
        /\ \A i \in PromptIds : i # n => loopOf'[i] = loopOf[i]
    BY <1>1, <1>2, <1>3
  <1>6. loopOf[n] = NoLoop
    BY <1>1, <1>2 DEF PromptsOwned, PromptIds
  <1>7. \A i \in PromptIds : i > created' => i # n /\ i > created
    BY <1>1, <1>2 DEF n, PromptIds
  <1> HIDE DEF n
  <1>8. /\ PromptsOf(l)' = {n}
        /\ \A m \in Loops : m # l => PromptsOf(m)' = PromptsOf(m)
    BY <1>1, <1>2, <1>5, <1>6, LoopAssumption DEF PromptsOf
  <1>9. TypeOK' /\ LoopsOk'
    BY <1>1, <1>2, <1>4, <1>5 DEF TypeOK, LoopsOk
  <1>10. SavedOrRecovered'
    <2>1. disk.loopOf[n] = NoLoop
      BY <1>2, <1>6, LoopAssumption DEF SavedOrRecovered
    <2>2. \A i \in PromptIds :
             \/ disk'.loopOf[i] = loopOf'[i]
             \/ /\ disk'.loopOf[i] = NoLoop
                /\ loopOf'[i] \in Loops
                /\ loops'[loopOf'[i]].status = "absent"
      BY <1>1, <1>5, <2>1 DEF SavedOrRecovered
    <2> QED
      BY <1>1, <2>2 DEF SavedOrRecovered
  <1>11. PromptsOwned'
    <2>1. \A i \in PromptIds : i > created' => loopOf'[i] = NoLoop
      BY <1>5, <1>7 DEF PromptsOwned
    <2>2. \A m \in Loops : loops[m].status # "absent" => loopOf'[loops[m].current] = m
      BY <1>5, <1>6, LoopAssumption DEF PromptsOwned
    <2> QED
      BY <1>1, <1>8, <2>1, <2>2 DEF PromptsOwned
  <1>12. EarlierReturned(prompts)' /\ EarlierReturned(disk.prompts)'
    BY <1>1, <1>4, <1>5 DEF EarlierReturned
  <1> QED
    BY <1>9, <1>10, <1>11, <1>12

\* Create, and the handlers that pause, resume and cancel.
LEMMA OperatorKeeps ==
    ASSUME LoopInv, NEW l \in Loops, Create(l) \/ Pause(l) \/ Resume(l) \/ Cancel(l)
    PROVE  LoopInv'
  <1> DEFINE old == loops[l]
  <1>1. /\ loops \in [Loops -> Loop] /\ LoopOk(old)
        /\ prompts \in [PromptIds -> OutboundPrompt]
    BY DEF LoopInv, TypeOK, LoopsOk
  <1>2. CASE Create(l)
    <2> DEFINE new == [AbsentLoop EXCEPT !.status = "running", !.round = 1, !.current = created + 1]
    <2>1. /\ old.status = "absent" /\ IsFresh(l) /\ NewPrompt(l) /\ Persist
          /\ loops' = [loops EXCEPT ![l] = new]
      BY <1>2 DEF Create, IsFresh
    <2>2. created + 1 \in PromptIds
      BY <2>1, LoopAssumption DEF NewPrompt, LoopInv, TypeOK, PromptIds
    <2>3. /\ new \in Loop /\ new.seen = {} /\ new.round = 1 /\ new.noProgress = 0
          /\ new.status = "running" /\ new.current = created + 1
      <3>1. /\ 0 \in 0..MaxRounds /\ 1 \in 0..MaxRounds /\ 0 \in 0..(DeadlineTTL + 1)
            /\ 0 \in 0..(MaxRounds + 1)
        BY LoopAssumption
      <3>2. AbsentLoop \in Loop /\ AbsentLoop.seen = {} /\ AbsentLoop.noProgress = 0
        BY <3>1 DEF AbsentLoop, Loop, LoopStatus
      <3> QED
        BY <2>2, <3>1, <3>2 DEF Loop, LoopStatus
    <2>4. LoopOk(new)
      BY <2>3, FS_EmptySet DEF LoopOk
    <2>5. old.round = 0
      BY <1>1, <2>1 DEF LoopOk
    <2>6. new.round = old.round + 1
      BY <2>3, <2>5
    <2> HIDE DEF new
    <2> QED
      BY <2>1, <2>3, <2>4, <2>6, RoundStarts
  <1>3. ASSUME NEW status \in LoopStatus \ {"absent"}, old.status \in {"running", "paused"},
               loops' = [loops EXCEPT ![l].status = status], Persist,
               UNCHANGED <<loopOf, created>>,
               prompts' \in [PromptIds -> OutboundPrompt], ReturnedKept
        PROVE  LoopInv'
    <2> DEFINE new == [old EXCEPT !.status = status]
    <2>1. /\ new \in Loop /\ new.status = status /\ new.round = old.round
          /\ new.current = old.current /\ new.seen = old.seen /\ new.noProgress = old.noProgress
      BY <1>1 DEF LoopOk, Loop
    <2>2. LoopOk(new)
      BY <1>1, <1>3, <2>1 DEF LoopOk
    <2>3. loops' = [loops EXCEPT ![l] = new]
      BY <1>1, <1>3
    <2> HIDE DEF new
    <2> QED
      BY <1>3, <2>1, <2>2, <2>3, LoopChange
  <1>4. CASE Pause(l) \/ Resume(l)
    <2>1. PICK status \in {"running", "paused"} : loops' = [loops EXCEPT ![l].status = status]
      BY <1>4 DEF Pause, Resume
    <2>2. /\ old.status \in {"running", "paused"} /\ Persist
          /\ UNCHANGED <<prompts, loopOf, created>>
      BY <1>4 DEF Pause, Resume
    <2> QED
      BY <1>1, <1>3, <2>1, <2>2 DEF LoopStatus, ReturnedKept
  <1>5. CASE Cancel(l)
    <2>1. /\ old.status \in {"running", "paused"} /\ Persist /\ UNCHANGED <<loopOf, created>>
          /\ loops' = [loops EXCEPT ![l].status = "cancelled"]
      BY <1>5 DEF Cancel
    <2>2. prompts' = [i \in PromptIds |->
                       IF i = old.current /\ canCancel(prompts[i])
                         THEN Ended("cancelled") ELSE prompts[i]]
      BY <1>5 DEF Cancel, cancel
    <2>3. Ended("cancelled") \in OutboundPrompt
      BY AbsentPromptFacts DEF OutboundPromptStatus
    <2>4. prompts' \in [PromptIds -> OutboundPrompt] /\ ReturnedKept
      BY <1>1, <2>2, <2>3 DEF ReturnedKept, canCancel, PreSubmission
    <2> QED
      BY <1>3, <2>1, <2>4 DEF LoopStatus
  <1> QED
    BY <1>2, <1>4, <1>5

\* What observing a reply that was not seen before does to a loop's books.
LEMMA ObservedFacts ==
    ASSUME NEW loop, LoopOk(loop), loop.status = "running",
           NEW reply \in Replies \ loop.seen, NEW progress \in ProgressHashes
    PROVE  LET o == Observed(loop, reply, progress)
           IN  /\ o \in Loop /\ o.status = "running"
               /\ o.round = loop.round /\ o.current = loop.current
               /\ o.seen = loop.seen \cup {reply}
               /\ IsFiniteSet(o.seen) /\ o.round <= Cardinality(o.seen)
               /\ o.noProgress <= o.round
  <1> DEFINE o == Observed(loop, reply, progress)
             n == IF loop.lastProgress = progress THEN loop.noProgress + 1 ELSE 0
  <1>1. /\ loop \in Loop /\ loop.round \in 0..MaxRounds /\ loop.noProgress \in 0..(MaxRounds + 1)
        /\ loop.noProgress < loop.round /\ loop.seen \in SUBSET Replies
        /\ IsFiniteSet(loop.seen) /\ loop.round <= Cardinality(loop.seen) + 1
    BY DEF LoopOk, Loop
  <1>2. n \in 0..(MaxRounds + 1) /\ n <= loop.round
    BY <1>1, LoopAssumption
  <1>3. /\ IsFiniteSet(loop.seen \cup {reply})
        /\ Cardinality(loop.seen \cup {reply}) = Cardinality(loop.seen) + 1
    BY <1>1, FS_AddElement
  <1>4. o = [loop EXCEPT !.seen = loop.seen \cup {reply}, !.lastProgress = progress,
                         !.noProgress = n]
    BY DEF Observed
  <1> HIDE DEF n
  <1>5. /\ o \in Loop /\ o.status = loop.status /\ o.round = loop.round
        /\ o.current = loop.current /\ o.seen = loop.seen \cup {reply} /\ o.noProgress = n
    <2>1. loop.seen \cup {reply} \in SUBSET Replies /\ progress \in ProgressHashes \cup {NoProgressHash}
      BY <1>1
    <2> HIDE DEF o
    <2> QED
      BY <1>1, <1>2, <1>4, <2>1 DEF Loop
  <1> HIDE DEF o
  <1> QED
    BY <1>1, <1>2, <1>3, <1>5 DEF o

\* An advance: it ends the loop, or starts the next round after one whose
\* prompt is returned with a reply the loop has not seen.
LEMMA AdvanceKeeps ==
    ASSUME LoopInv, NEW l \in Loops, AdvanceFails(l) \/ Advance(l)
    PROVE  LoopInv'
  <1> DEFINE old == loops[l]
  <1>1. /\ loops \in [Loops -> Loop] /\ LoopOk(old) /\ old.status = "running"
        /\ prompts \in [PromptIds -> OutboundPrompt] /\ Persist
    BY DEF LoopInv, TypeOK, LoopsOk, AdvanceFails, Advance
  <1>2. CASE AdvanceFails(l)
    <2> DEFINE new == [old EXCEPT !.status = "failed"]
    <2>1. /\ new \in Loop /\ new.status = "failed" /\ new.round = old.round
          /\ new.current = old.current /\ new.seen = old.seen /\ new.noProgress = old.noProgress
      BY <1>1 DEF LoopOk, Loop, LoopStatus
    <2>2. LoopOk(new)
      BY <1>1, <2>1 DEF LoopOk
    <2>3. loops' = [loops EXCEPT ![l] = new] /\ UNCHANGED <<prompts, loopOf, created>>
      BY <1>1, <1>2 DEF AdvanceFails
    <2> HIDE DEF new
    <2> QED
      BY <1>1, <2>1, <2>2, <2>3, LoopChange DEF ReturnedKept
  <1>3. CASE Advance(l)
    <2>1. PICK reply \in Replies : \E progress \in {reply, SameProgress} :
             /\ ~RoundFails(old, reply)
             /\ \/ \E next \in BOOLEAN : AdvanceEnds(l, reply, progress, next)
                \/ NextRound(l, reply, progress)
      BY <1>3 DEF Advance
    <2>2. PICK progress \in ProgressHashes :
             \/ \E next \in BOOLEAN : AdvanceEnds(l, reply, progress, next)
             \/ NextRound(l, reply, progress)
      BY <2>1 DEF ProgressHashes
    <2>3. prompts[old.current].status = "returned" /\ reply \notin old.seen
      BY <1>3, <2>1 DEF Advance, RoundFails
    <2> DEFINE o == Observed(old, reply, progress)
    <2>4. /\ o \in Loop /\ o.status = "running"
          /\ o.round = old.round /\ o.current = old.current
          /\ IsFiniteSet(o.seen) /\ o.round <= Cardinality(o.seen) /\ o.noProgress <= o.round
      BY <1>1, <2>3, ObservedFacts
    <2>5. /\ o.round \in 0..MaxRounds /\ o.noProgress \in 0..(MaxRounds + 1)
          /\ Cardinality(o.seen) \in Nat
      BY <2>4, FS_CardinalityType DEF Loop
    <2>6. ASSUME NEW next \in BOOLEAN, AdvanceEnds(l, reply, progress, next)
          PROVE  LoopInv'
      <3> DEFINE status == IF o.noProgress >= NoProgressLimit THEN "failed" ELSE "done"
                 new == [o EXCEPT !.status = status]
      <3>1. /\ loops' = [loops EXCEPT ![l] = new] /\ UNCHANGED <<prompts, loopOf, created>>
        BY <2>6 DEF AdvanceEnds
      <3>2. status \in {"failed", "done"}
        OBVIOUS
      <3> HIDE DEF status, o
      <3>3. /\ new \in Loop /\ new.status = status /\ new.round = o.round
            /\ new.current = o.current /\ new.seen = o.seen /\ new.noProgress = o.noProgress
        BY <2>4, <3>2 DEF Loop, LoopStatus
      <3>4. LoopOk(new)
        BY <2>4, <2>5, <3>2, <3>3 DEF LoopOk
      <3> HIDE DEF new
      <3> QED
        BY <1>1, <2>4, <3>1, <3>2, <3>3, <3>4, LoopChange DEF ReturnedKept
    <2>7. CASE NextRound(l, reply, progress)
      <3> DEFINE new == [o EXCEPT !.round = o.round + 1, !.current = created + 1]
      <3>1. /\ o.round < MaxRounds /\ NewPrompt(l) /\ loops' = [loops EXCEPT ![l] = new]
        BY <2>7 DEF NextRound
      <3>2. created + 1 \in PromptIds /\ o.round + 1 \in 0..MaxRounds
        <4>1. created \in 0..MaxPrompts /\ created < MaxPrompts
          BY <3>1 DEF NewPrompt, LoopInv, TypeOK
        <4> HIDE DEF o
        <4> QED
          BY <2>5, <3>1, <4>1, LoopAssumption DEF PromptIds
      <3> HIDE DEF o
      <3>3. /\ new \in Loop /\ new.status = "running" /\ new.round = o.round + 1
            /\ new.current = created + 1 /\ new.seen = o.seen /\ new.noProgress = o.noProgress
        BY <2>4, <3>2 DEF Loop
      <3>4. LoopOk(new)
        BY <2>4, <2>5, <3>3 DEF LoopOk
      <3> HIDE DEF new
      <3> QED
        BY <1>1, <2>3, <2>4, <3>1, <3>3, <3>4, RoundStarts
    <2> QED
      BY <2>2, <2>6, <2>7
  <1> QED
    BY <1>2, <1>3

-----------------------------------------------------------------------------
(* Restart and time.                                                       *)

\* A restart with its recovery: interrupted loops fail in memory only, and
\* their prompts with them, unless they have ended.
LEMMA RestartKeeps ==
    ASSUME LoopInv, Restart
    PROVE  LoopInv'
  <1> USE DEF LoopInv
  <1> DEFINE stopped == {l \in Loops : Interrupted(disk.loops[l], disk.prompts)}
             hit == {disk.loops[l].current : l \in stopped}
  <1>1. /\ loops' = [l \in Loops |-> IF l \in stopped
                                       THEN [disk.loops[l] EXCEPT !.status = "failed"]
                                       ELSE disk.loops[l]]
        /\ prompts' = [i \in PromptIds |->
                         IF i \in hit /\ canMarkFailed(disk.prompts[i])
                           THEN Ended("failed") ELSE disk.prompts[i]]
        /\ loopOf' = disk.loopOf /\ disk' = disk /\ created' = created
    BY DEF Restart, markFailed
  <1>2. /\ disk.loops \in [Loops -> Loop] /\ disk.prompts \in [PromptIds -> OutboundPrompt]
        /\ disk.loopOf \in [PromptIds -> Loops \cup {NoLoop}]
        /\ Ended("failed") \in OutboundPrompt
    BY AbsentPromptFacts DEF TypeOK, Snapshot, SavedOrRecovered, OutboundPromptStatus
  <1>3. \A l \in Loops :
           /\ loops'[l] \in Loop /\ LoopOk(loops'[l])
           /\ loops'[l].round = disk.loops[l].round /\ loops'[l].current = disk.loops[l].current
           /\ l \notin stopped => loops'[l].status = disk.loops[l].status
           /\ l \in stopped => loops'[l].status = "failed"
    <2> SUFFICES ASSUME NEW l \in Loops
                 PROVE  /\ loops'[l] \in Loop /\ LoopOk(loops'[l])
                        /\ loops'[l].round = disk.loops[l].round
                        /\ loops'[l].current = disk.loops[l].current
                        /\ l \notin stopped => loops'[l].status = disk.loops[l].status
                        /\ l \in stopped => loops'[l].status = "failed"
      OBVIOUS
    <2> DEFINE new == [disk.loops[l] EXCEPT !.status = "failed"]
    <2>1. LoopOk(disk.loops[l]) /\ disk.loops[l] \in Loop
      BY <1>2 DEF LoopsOk
    <2>2. /\ new \in Loop /\ new.status = "failed" /\ new.round = disk.loops[l].round
          /\ new.current = disk.loops[l].current /\ new.seen = disk.loops[l].seen
          /\ new.noProgress = disk.loops[l].noProgress
      BY <2>1 DEF Loop, LoopStatus
    <2>3. LoopOk(new)
      BY <2>1, <2>2 DEF LoopOk
    <2> QED
      BY <1>1, <2>1, <2>2, <2>3
  <1>4. /\ prompts' \in [PromptIds -> OutboundPrompt]
        /\ \A i \in PromptIds : disk.prompts[i].status = "returned" => prompts'[i].status = "returned"
    BY <1>1, <1>2 DEF canMarkFailed, TerminalOutbound
  <1> HIDE DEF hit
  <1>5. TypeOK'
    <2>1. loops' \in [Loops -> Loop]
      BY <1>1, <1>3
    <2> QED
      BY <1>1, <1>2, <1>4, <2>1 DEF TypeOK
  <1>6. LoopsOk'
    BY <1>1, <1>3 DEF LoopsOk
  <1>7. SavedOrRecovered'
    BY <1>1, <1>2, <1>3 DEF SavedOrRecovered
  <1>8. \A l \in Loops :
           /\ loops'[l].round = loops[l].round /\ loops'[l].current = loops[l].current
           /\ loops'[l].status = "absent" <=> loops[l].status = "absent"
    BY <1>3 DEF SavedOrRecovered, Interrupted
  <1>9. PromptsOwned'
    <2>1. \A i \in PromptIds : i > created => loopOf'[i] = NoLoop
      BY <1>1 DEF PromptsOwned, SavedOrRecovered
    <2>2. \A l \in Loops : PromptsOf(l)' \subseteq PromptsOf(l)
      BY <1>1, LoopAssumption DEF SavedOrRecovered, PromptsOf
    <2>3. ASSUME NEW l \in Loops, loops[l].status # "absent"
          PROVE  PromptsOf(l)' = PromptsOf(l)
      BY <1>1, <2>2, <2>3 DEF SavedOrRecovered, PromptsOf
    <2>4. \A l \in Loops : loops[l].status # "absent" => loopOf'[loops[l].current] = l
      BY <1>1 DEF PromptsOwned, SavedOrRecovered
    <2> QED
      BY <1>1, <1>8, <2>1, <2>2, <2>3, <2>4 DEF PromptsOwned
  <1>10. EarlierReturned(prompts)' /\ EarlierReturned(disk.prompts)'
    <2>1. \A i \in PromptIds : loopOf'[i] # NoLoop => loopOf'[i] = loopOf[i] /\ loopOf[i] \in Loops
      BY <1>1, <1>2 DEF SavedOrRecovered
    <2> QED
      BY <1>1, <1>2, <1>4, <1>8, <2>1 DEF EarlierReturned
  <1> QED
    BY <1>5, <1>6, <1>7, <1>9, <1>10

\* Time changes ages only.
LEMMA TickKeeps ==
    ASSUME LoopInv, Tick
    PROVE  LoopInv'
  <1> USE DEF LoopInv
  <1>1. ASSUME NEW loop \in Loop
        PROVE  /\ LoopAge(loop) \in Loop /\ LoopAge(loop).status = loop.status
               /\ LoopAge(loop).round = loop.round /\ LoopAge(loop).current = loop.current
               /\ LoopAge(loop).seen = loop.seen /\ LoopAge(loop).noProgress = loop.noProgress
    <2>1. loop.age \in 0..(DeadlineTTL + 1) /\ Older(loop.age, DeadlineTTL) \in 0..(DeadlineTTL + 1)
      BY LoopAssumption, AgeRanges DEF Loop
    <2> QED
      BY <2>1 DEF LoopAge, Loop
  <1>2. /\ prompts' = [i \in PromptIds |-> Age(prompts[i])]
        /\ loops' = [l \in Loops |-> LoopAge(loops[l])]
        /\ disk' = [disk EXCEPT !.prompts = [i \in PromptIds |-> Age(disk.prompts[i])],
                                !.loops = [l \in Loops |-> LoopAge(disk.loops[l])]]
        /\ UNCHANGED <<loopOf, created>>
    BY DEF Tick
  <1>3. /\ loops \in [Loops -> Loop] /\ disk \in Snapshot
        /\ disk.loops \in [Loops -> Loop] /\ disk.prompts \in [PromptIds -> OutboundPrompt]
        /\ prompts \in [PromptIds -> OutboundPrompt]
        /\ loopOf \in [PromptIds -> Loops \cup {NoLoop}]
    BY DEF TypeOK, Snapshot
  <1>4. /\ disk'.prompts = [i \in PromptIds |-> Age(disk.prompts[i])]
        /\ disk'.loops = [l \in Loops |-> LoopAge(disk.loops[l])]
        /\ disk'.loopOf = disk.loopOf
    BY <1>2, <1>3 DEF Snapshot
  <1>5. /\ prompts' \in [PromptIds -> OutboundPrompt]
        /\ disk'.prompts \in [PromptIds -> OutboundPrompt]
        /\ \A i \in PromptIds : /\ prompts'[i].status = prompts[i].status
                                /\ disk'.prompts[i].status = disk.prompts[i].status
    BY <1>2, <1>3, <1>4, AgeFacts
  <1>6. /\ loops' \in [Loops -> Loop] /\ disk'.loops \in [Loops -> Loop]
        /\ \A l \in Loops :
             /\ loops'[l].status = loops[l].status /\ disk'.loops[l].status = disk.loops[l].status
             /\ loops'[l].round = loops[l].round /\ disk'.loops[l].round = disk.loops[l].round
             /\ loops'[l].current = loops[l].current
             /\ disk'.loops[l].current = disk.loops[l].current
    BY <1>1, <1>2, <1>3, <1>4
  <1>7. TypeOK'
    <2>1. disk' \in Snapshot
      BY <1>2, <1>3, <1>4, <1>5, <1>6 DEF Snapshot
    <2> QED
      BY <1>2, <1>5, <1>6, <2>1 DEF TypeOK
  <1>8. LoopsOk'
    <2> SUFFICES ASSUME NEW l \in Loops PROVE LoopOk(loops'[l]) /\ LoopOk(disk'.loops[l])
      BY DEF LoopsOk
    <2>1. ASSUME NEW loop \in Loop, LoopOk(loop) PROVE LoopOk(LoopAge(loop))
      BY <1>1, <2>1 DEF LoopOk
    <2> QED
      BY <1>2, <1>3, <1>4, <2>1 DEF LoopsOk
  <1>9. SavedOrRecovered'
    <2> SUFFICES ASSUME NEW l \in Loops, loops[l].status = "failed",
                        Interrupted(disk.loops[l], disk.prompts)
                 PROVE  Interrupted(disk'.loops[l], disk'.prompts)
      BY <1>2, <1>4, <1>6 DEF SavedOrRecovered
    <2>1. disk.loops[l].current \in PromptIds
      BY DEF SavedOrRecovered, PromptsOwned
    <2> QED
      BY <1>5, <1>6, <2>1 DEF Interrupted
  <1>10. PromptsOwned'
    <2>1. \A l \in Loops : PromptsOf(l)' = PromptsOf(l)
      BY <1>2 DEF PromptsOf
    <2> QED
      BY <1>2, <1>3, <1>6, <2>1 DEF PromptsOwned
  <1>11. EarlierReturned(prompts)' /\ EarlierReturned(disk.prompts)'
    <2> SUFFICES ASSUME NEW i \in PromptIds, loopOf[i] # NoLoop,
                        loops[loopOf[i]].status # "absent", i # loops[loopOf[i]].current
                 PROVE  prompts[i].status = "returned" /\ disk.prompts[i].status = "returned"
      <3>1. /\ loopOf' = loopOf
            /\ \A i \in PromptIds : loopOf[i] # NoLoop =>
                  /\ loops'[loopOf[i]].current = loops[loopOf[i]].current
                  /\ loops'[loopOf[i]].status = loops[loopOf[i]].status
        BY <1>2, <1>3, <1>6
      <3> QED
        BY <1>5, <3>1 DEF EarlierReturned
    <2> QED
      BY DEF EarlierReturned
  <1> QED
    BY <1>7, <1>8, <1>9, <1>10, <1>11

-----------------------------------------------------------------------------
(* The theorems.                                                           *)

LEMMA InitInv == Init => LoopInv
  <1> SUFFICES ASSUME Init PROVE LoopInv
    OBVIOUS
  <1> USE DEF Init
  <1>1. /\ AbsentLoop \in Loop /\ AbsentLoop.status = "absent" /\ AbsentLoop.round = 0
        /\ AbsentLoop.seen = {} /\ AbsentLoop.noProgress = 0
    BY LoopAssumption DEF AbsentLoop, Loop, LoopStatus
  <1>2. LoopOk(AbsentLoop)
    BY <1>1, FS_EmptySet DEF LoopOk
  <1>3. TypeOK
    BY <1>1, LoopAssumption, AbsentPromptFacts DEF TypeOK, Snapshot
  <1>4. LoopsOk /\ SavedOrRecovered
    BY <1>2 DEF LoopsOk, SavedOrRecovered
  <1>5. PromptsOwned
    <2>1. \A l \in Loops : PromptsOf(l) = {}
      BY LoopAssumption DEF PromptsOf
    <2> QED
      BY <1>1, <2>1, FS_EmptySet DEF PromptsOwned
  <1>6. EarlierReturned(prompts) /\ EarlierReturned(disk.prompts)
    BY DEF EarlierReturned
  <1> QED
    BY <1>3, <1>4, <1>5, <1>6 DEF LoopInv

LEMMA OtherPersistsKeeps ==
    ASSUME LoopInv, OtherPersists
    PROVE  LoopInv'
  <1> USE DEF LoopInv
  <1>1. /\ UNCHANGED <<prompts, loopOf, loops, created>>
        /\ disk' = [prompts |-> prompts, loopOf |-> loopOf, loops |-> loops]
    BY DEF OtherPersists, Persist
  <1>2. TypeOK' /\ LoopsOk' /\ SavedOrRecovered'
    BY <1>1 DEF TypeOK, Snapshot, LoopsOk, SavedOrRecovered
  <1>3. PromptsOwned' /\ EarlierReturned(prompts)' /\ EarlierReturned(disk.prompts)'
    BY <1>1 DEF PromptsOwned, PromptsOf, EarlierReturned
  <1> QED
    BY <1>2, <1>3

LEMMA NextInv == LoopInv /\ [Next]_vars => LoopInv'
  <1> SUFFICES ASSUME LoopInv, [Next]_vars PROVE LoopInv'
    OBVIOUS
  <1>1. ASSUME NEW l \in Loops, LoopCall(l) PROVE LoopInv'
    BY <1>1, ThrowKeeps, OperatorKeeps, AdvanceKeeps DEF LoopCall
  <1>2. CASE OutboundNext \/ \E i \in PromptIds : OutboundCall(i)
    BY <1>2, OutboundKeeps
  <1>3. CASE Restart
    BY <1>3, RestartKeeps
  <1>4. CASE Tick
    BY <1>4, TickKeeps
  <1>5. CASE UNCHANGED vars
    <2>1. /\ prompts' = prompts /\ loopOf' = loopOf /\ loops' = loops
          /\ disk' = disk /\ created' = created
      BY <1>5 DEF vars
    <2>2. \A l \in Loops : PromptsOf(l)' = PromptsOf(l)
      BY <2>1 DEF PromptsOf
    <2>3. PromptsOwned'
      BY <2>1, <2>2 DEF PromptsOwned, LoopInv
    <2>4. TypeOK' /\ LoopsOk' /\ SavedOrRecovered'
      BY <2>1 DEF LoopInv, TypeOK, LoopsOk, SavedOrRecovered
    <2>5. EarlierReturned(prompts)' /\ EarlierReturned(disk.prompts)'
      BY <2>1 DEF LoopInv, EarlierReturned
    <2> QED
      BY <2>3, <2>4, <2>5 DEF LoopInv
  <1>6. CASE OtherPersists
    BY <1>6, OtherPersistsKeeps
  <1> QED
    BY <1>1, <1>2, <1>3, <1>4, <1>5, <1>6 DEF Next

LEMMA AlwaysInv == Spec => []LoopInv
  BY InitInv, NextInv, PTL DEF Spec

\* The typing of loops, prompts and the snapshot (web-relay-loop-store.ts): in
\* particular no count outgrows the rounds.
THEOREM TypeCorrect == Spec => []TypeOK
  <1>1. LoopInv => TypeOK
    BY DEF LoopInv
  <1> QED
    BY <1>1, AlwaysInv, PTL

\* A loop never has two prompts that can still be claimed, submitted or
\* answered: all but its current one have been returned, and a loop that was
\* not created has at most one.
THEOREM OneRoundAtATime == Spec => []OneActiveRound
  <1>1. LoopInv => OneActiveRound
    <2> SUFFICES ASSUME LoopInv, NEW l \in Loops
                 PROVE  Cardinality({i \in PromptsOf(l) : Live(i)}) <= 1
      BY DEF OneActiveRound
    <2> DEFINE live == {i \in PromptsOf(l) : Live(i)}
    <2>1. CASE loops[l].status # "absent"
      <3>1. \A i \in live : i = loops[l].current
        BY <2>1, LoopAssumption DEF LoopInv, EarlierReturned, PromptsOf, Live, TerminalOutbound
      <3> QED
        BY <3>1, AtMostOne
    <2>2. CASE loops[l].status = "absent"
      <3>1. \A i, j \in live : i = j
        BY <2>2 DEF LoopInv, PromptsOwned
      <3> QED
        BY <3>1, AtMostOne
    <2> QED
      BY <2>1, <2>2
  <1> QED
    BY <1>1, AlwaysInv, PTL

\* As many prompts as rounds, no more than maxRounds, and each round after the
\* first bought with a reply of its own, across restarts and repeated calls; a
\* create that threw has one prompt and no loop, saved or not.
THEOREM RoundsPaidFor == Spec => []RoundsAccounted
  <1>1. LoopInv => RoundsAccounted
    <2> SUFFICES ASSUME LoopInv, NEW l \in Loops
                 PROVE  /\ IF loops[l].status = "absent"
                             THEN Cardinality(PromptsOf(l)) <= 1
                             ELSE Cardinality(PromptsOf(l)) = loops[l].round
                        /\ loops[l].round <= MaxRounds
                        /\ loops[l].round <= Cardinality(loops[l].seen) + 1
      BY DEF RoundsAccounted
    <2>1. LoopOk(loops[l]) /\ loops[l].round \in 0..MaxRounds
      BY DEF LoopInv, LoopsOk, LoopOk, Loop
    <2>2. loops[l].status = "absent" => Cardinality(PromptsOf(l)) <= 1
      BY AtMostOne DEF LoopInv, PromptsOwned
    <2> QED
      BY <2>1, <2>2, LoopAssumption DEF LoopInv, PromptsOwned, LoopOk
  <1> QED
    BY <1>1, AlwaysInv, PTL

\* An ended loop stays as it ended; the failures of a recovery, which are not
\* saved, are repeated by the next one.
THEOREM EndedStays == Spec => EndedLoopStaysEnded
  <1>1. ASSUME LoopInv, [Next]_vars, NEW l \in Loops, loops[l].status \in Terminal
        PROVE  loops'[l].status = loops[l].status /\ loops'[l].round = loops[l].round
    <2>1. loops \in [Loops -> Loop] /\ loops[l] \in Loop
      BY <1>1 DEF LoopInv, TypeOK
    <2>2. ASSUME NEW m \in Loops, LoopCall(m)
          PROVE  loops'[l] = loops[l]
      <3>1. m # l
        BY <1>1, <2>2
        DEF LoopCall, Create, CreateThrows, IsFresh, Pause, Resume, Cancel, AdvanceFails,
            Advance, Terminal
      <3> QED
        BY <2>1, <2>2, <3>1
        DEF LoopCall, Create, CreateThrows, Pause, Resume, Cancel, AdvanceFails, Advance,
            AdvanceEnds, NextRound
    <2>3. CASE \/ OutboundNext \/ \E i \in PromptIds : OutboundCall(i)
               \/ OtherPersists \/ UNCHANGED vars
      BY <2>3
      DEF OutboundNext, OutboundCall, OutboundAck, OutboundSubmitted, OutboundStage,
          OutboundCancel, OtherPersists, vars
    <2>4. CASE Restart
      <3>1. /\ disk.loops[l] \in Loop /\ loops[l].round = disk.loops[l].round
            /\ \/ loops[l].status = disk.loops[l].status
               \/ loops[l].status = "failed" /\ Interrupted(disk.loops[l], disk.prompts)
        BY <1>1 DEF LoopInv, TypeOK, Snapshot, SavedOrRecovered
      <3>2. loops'[l] = IF Interrupted(disk.loops[l], disk.prompts)
                          THEN [disk.loops[l] EXCEPT !.status = "failed"] ELSE disk.loops[l]
        BY <2>4 DEF Restart
      <3> QED
        BY <1>1, <3>1, <3>2 DEF Interrupted, Loop
    <2>5. CASE Tick
      <3>1. loops'[l] = LoopAge(loops[l])
        BY <2>5 DEF Tick
      <3> QED
        BY <2>1, <3>1 DEF LoopAge, Loop
    <2> QED
      BY <1>1, <2>2, <2>3, <2>4, <2>5 DEF Next
  <1>2. LoopInv /\ [Next]_vars =>
          [\A l \in Loops : loops[l].status \in Terminal =>
              /\ loops'[l].status = loops[l].status
              /\ loops'[l].round = loops[l].round]_vars
    BY <1>1
  <1> QED
    BY <1>2, AlwaysInv, PTL DEF Spec, EndedLoopStaysEnded

\* A loop alive after a restart has no prompt a page could still act on.
THEOREM RecoveryReplaysNothing == Spec => RestartReplaysNothing
  <1>1. ASSUME LoopInv, Restart, NEW l \in Loops, loops'[l].status \in {"running", "paused"}
        PROVE  prompts'[loops'[l].current].status \in {"returned", "expired", "failed"}
    <2>1. disk.loops[l] \in Loop
      BY <1>1 DEF LoopInv, TypeOK, Snapshot
    <2>2. loops'[l] = IF Interrupted(disk.loops[l], disk.prompts)
                        THEN [disk.loops[l] EXCEPT !.status = "failed"] ELSE disk.loops[l]
      BY <1>1 DEF Restart
    <2>3. ~Interrupted(disk.loops[l], disk.prompts) /\ loops'[l] = disk.loops[l]
      BY <1>1, <2>1, <2>2 DEF Loop
    <2> DEFINE c == disk.loops[l].current
    <2>4. disk.prompts[c].status \in {"returned", "expired", "failed"}
      BY <1>1, <2>3 DEF Interrupted, Terminal, TerminalOutbound
    <2>5. c \in PromptIds
      BY <1>1, <2>3 DEF LoopInv, SavedOrRecovered, PromptsOwned, Interrupted
    <2>6. prompts'[c] = disk.prompts[c]
      BY <1>1, <2>4, <2>5 DEF Restart, canMarkFailed, TerminalOutbound
    <2> QED
      BY <2>3, <2>4, <2>6
  <1>2. LoopInv /\ Restart => \A l \in Loops :
              loops'[l].status \in {"running", "paused"} =>
                 prompts'[loops'[l].current].status \in {"returned", "expired", "failed"}
    BY <1>1
  <1>3. LoopInv /\ [Next]_vars =>
          [Restart => \A l \in Loops :
              loops'[l].status \in {"running", "paused"} =>
                 prompts'[loops'[l].current].status \in {"returned", "expired", "failed"}]_vars
    BY <1>2
  <1> QED
    BY <1>3, AlwaysInv, PTL DEF Spec, RestartReplaysNothing

-----------------------------------------------------------------------------
(* Loops take turns: the refinement of TurnTaking.                         *)

\* The books of a loop that does not exist are empty.
AbsentUnheard ==
    \A l \in Loops : loops[l].status = "absent" => loops[l].seen = {} /\ loops[l].round = 0

\* What a loop has heard is saved, also when its failure is not.
HeardSaved == \A l \in Loops : loops[l].seen = disk.loops[l].seen

\* Of a loop that goes on, the current prompt is saved as it stands, but for one
\* that expired when its submission was reported: that is not persisted.
CurrentSaved ==
    \A l \in Loops : loops[l].status \in {"running", "paused"} =>
        \/ prompts[loops[l].current].status = disk.prompts[loops[l].current].status
        \/ /\ prompts[loops[l].current].status = "expired"
           /\ disk.prompts[loops[l].current].status = "waiting_manual_send"

TurnInv == LoopInv /\ AbsentUnheard /\ HeardSaved /\ CurrentSaved

\* Where a loop is, by cases.
LEMMA PhaseCases ==
    ASSUME NEW l \in Loops, loops[l].status \in LoopStatus
    PROVE  /\ loops[l].status = "absent" => PhaseOf(l) = "none"
           /\ loops[l].status \in Terminal => PhaseOf(l) = "over"
           /\ loops[l].status \in {"running", "paused"} =>
                /\ PhaseOf(l) = IF prompts[loops[l].current].status = "returned" THEN "answered"
                                ELSE IF prompts[loops[l].current].status \in TerminalOutbound
                                  THEN "unanswered" ELSE "asking"
                /\ PhaseOf(l) \in Turns!Alive
  BY DEF PhaseOf, Terminal, Turns!Alive

LEMMA PhaseCasesPrime ==
    ASSUME NEW l \in Loops, loops'[l].status \in LoopStatus
    PROVE  /\ loops'[l].status = "absent" => PhaseOf(l)' = "none"
           /\ loops'[l].status \in Terminal => PhaseOf(l)' = "over"
           /\ loops'[l].status \in {"running", "paused"} =>
                PhaseOf(l)' = IF prompts'[loops'[l].current].status = "returned" THEN "answered"
                              ELSE IF prompts'[loops'[l].current].status \in TerminalOutbound
                                THEN "unanswered" ELSE "asking"
  BY DEF PhaseOf, Terminal

\* A loop whose books a step leaves alone rests or is answered, if only the
\* step changes no prompt that has ended.
LEMMA UntouchedMoves ==
    ASSUME NEW l \in Loops, loops[l].status \in LoopStatus,
           loops'[l].status = loops[l].status, loops'[l].round = loops[l].round,
           loops'[l].seen = loops[l].seen, loops'[l].current = loops[l].current,
           loops[l].status \in {"running", "paused"} =>
             (prompts[loops[l].current].status \in TerminalOutbound =>
                prompts'[loops[l].current].status = prompts[loops[l].current].status)
    PROVE  Turns!Moves(l)
  <1>1. Turns!Quiet(l) /\ Turns!StillPaused(l)
    BY DEF Turns!Quiet, Turns!StillPaused
  <1>2. \/ PhaseOf(l)' = PhaseOf(l)
        \/ PhaseOf(l) = "asking" /\ PhaseOf(l)' \in {"answered", "unanswered"}
    <2>1. CASE loops[l].status \in {"absent"} \cup Terminal
      BY <2>1, PhaseCases, PhaseCasesPrime
    <2>2. CASE loops[l].status \in {"running", "paused"}
      BY <2>2, PhaseCases, PhaseCasesPrime DEF TerminalOutbound
    <2> QED
      BY <2>1, <2>2 DEF LoopStatus, Terminal
  <1> QED
    BY <1>1, <1>2 DEF Turns!Moves, Turns!Rests, Turns!Settles

\* What is persisted is saved.
LEMMA PersistedTurns ==
    ASSUME TurnInv, LoopInv', Persist,
           \A l \in Loops : loops'[l].status = "absent" => loops'[l] = loops[l]
    PROVE  TurnInv'
  <1>1. disk'.loops = loops' /\ disk'.prompts = prompts'
    BY DEF Persist
  <1>2. AbsentUnheard' /\ HeardSaved' /\ CurrentSaved'
    BY <1>1 DEF TurnInv, AbsentUnheard, HeardSaved, CurrentSaved
  <1> QED
    BY <1>2 DEF TurnInv

\* A handler of one loop leaves the others' prompts alone.
LEMMA OneLoopMoves ==
    ASSUME TurnInv, LoopInv', Persist, NEW l \in Loops, NEW new, new.status # "absent",
           loops' = [loops EXCEPT ![l] = new],
           \A i \in PromptIds : loopOf[i] \notin {l, NoLoop} => prompts'[i] = prompts[i],
           Turns!Moves(l)
    PROVE  TurnInv' /\ Turns!Next
  <1>1. loops \in [Loops -> Loop]
    BY DEF TurnInv, LoopInv, TypeOK
  <1>2. loops'[l] = new /\ \A m \in Loops : m # l => loops'[m] = loops[m]
    BY <1>1
  <1>3. TurnInv'
    BY <1>2, PersistedTurns
  <1>4. ASSUME NEW m \in Loops, m # l PROVE Turns!Moves(m)
    <2>1. loops'[m] = loops[m] /\ loops[m].status \in LoopStatus
      BY <1>1, <1>2, <1>4 DEF Loop
    <2>2. loops[m].status \in {"running", "paused"} =>
             prompts'[loops[m].current] = prompts[loops[m].current]
      BY <1>4, LoopAssumption DEF TurnInv, LoopInv, PromptsOwned
    <2>3. /\ loops'[m].status = loops[m].status /\ loops'[m].round = loops[m].round
          /\ loops'[m].seen = loops[m].seen /\ loops'[m].current = loops[m].current
      BY <2>1
    <2> QED
      BY <2>1, <2>2, <2>3, UntouchedMoves
  <1> QED
    BY <1>3, <1>4 DEF Turns!Next

\* A handler that starts a round changes no other loop's prompt.
LEMMA NewPromptTurns ==
    ASSUME LoopInv, NEW l \in Loops, NewPrompt(l)
    PROVE  /\ created + 1 \in PromptIds
           /\ prompts'[created + 1].status = "queued"
           /\ \A i \in PromptIds : loopOf[i] \notin {l, NoLoop} => prompts'[i] = prompts[i]
  <1> DEFINE n == created + 1
  <1>1. n \in PromptIds /\ n > created
    BY LoopAssumption DEF NewPrompt, LoopInv, TypeOK, PromptIds
  <1>2. loopOf[n] = NoLoop
    BY <1>1 DEF LoopInv, PromptsOwned
  <1>3. /\ prompts \in [PromptIds -> OutboundPrompt]
        /\ prompts' = [prompts EXCEPT ![n] = createOutboundPrompt]
    BY DEF NewPrompt, LoopInv, TypeOK
  <1>4. createOutboundPrompt.status = "queued"
    BY DEF createOutboundPrompt, AbsentPrompt
  <1> HIDE DEF n
  <1>5. prompts'[n].status = "queued"
    BY <1>1, <1>3, <1>4
  <1> QED
    BY <1>1, <1>2, <1>3, <1>5 DEF n

\* A create that throws asks nothing of any loop.
LEMMA ThrowTurns ==
    ASSUME TurnInv, LoopInv', NEW l \in Loops, CreateThrows(l)
    PROVE  TurnInv' /\ Turns!Next
  <1>1. /\ LoopInv /\ loops \in [Loops -> Loop]
        /\ NewPrompt(l) /\ loops[l].status = "absent"
        /\ UNCHANGED <<loops, disk>>
    BY DEF TurnInv, LoopInv, TypeOK, CreateThrows, IsFresh
  <1>2. \A m \in Loops : loops[m].status # "absent" =>
           /\ m # l
           /\ prompts'[loops[m].current] = prompts[loops[m].current]
    BY <1>1, NewPromptTurns, LoopAssumption DEF LoopInv, PromptsOwned
  <1>3. AbsentUnheard' /\ HeardSaved' /\ CurrentSaved'
    BY <1>1, <1>2 DEF TurnInv, AbsentUnheard, HeardSaved, CurrentSaved
  <1>4. ASSUME NEW m \in Loops PROVE Turns!Moves(m)
    <2>1. loops[m].status \in LoopStatus
      BY <1>1 DEF Loop
    <2> QED
      BY <1>1, <1>2, <2>1, UntouchedMoves
  <1> QED
    BY <1>3, <1>4 DEF TurnInv, Turns!Next

\* A loop asks for the first time when it is created, and goes on as it was when
\* it is paused or resumed; cancelling it ends it.
LEMMA OperatorTurns ==
    ASSUME TurnInv, LoopInv', NEW l \in Loops, Create(l) \/ Pause(l) \/ Resume(l) \/ Cancel(l)
    PROVE  TurnInv' /\ Turns!Next
  <1> DEFINE old == loops[l]
  <1>1. /\ LoopInv /\ loops \in [Loops -> Loop] /\ old \in Loop
        /\ prompts \in [PromptIds -> OutboundPrompt]
        /\ loops' \in [Loops -> Loop]
    BY DEF TurnInv, LoopInv, TypeOK
  <1>2. old.status \in LoopStatus /\ loops'[l].status \in LoopStatus
    BY <1>1 DEF Loop
  <1>3. CASE Create(l)
    <2> DEFINE new == [AbsentLoop EXCEPT !.status = "running", !.round = 1, !.current = created + 1]
    <2>1. /\ old.status = "absent" /\ NewPrompt(l) /\ Persist
          /\ loops' = [loops EXCEPT ![l] = new]
      BY <1>3 DEF Create, IsFresh
    <2>2. /\ new.status = "running" /\ new.round = 1 /\ new.seen = {}
          /\ new.current = created + 1
      BY DEF AbsentLoop
    <2> HIDE DEF new
    <2>3. loops'[l] = new
      BY <1>1, <2>1
    <2>4. PhaseOf(l) = "none"
      BY <1>2, <2>1, PhaseCases
    <2>5. PhaseOf(l)' = "asking"
      BY <1>1, <1>2, <2>1, <2>2, <2>3, NewPromptTurns, PhaseCasesPrime DEF TerminalOutbound
    <2>6. old.seen = {}
      BY <2>1 DEF TurnInv, AbsentUnheard
    <2>7. Turns!Asks(l)
      BY <2>2, <2>3, <2>4, <2>5, <2>6 DEF Turns!Asks
    <2> QED
      BY <1>1, <2>1, <2>2, <2>7, NewPromptTurns, OneLoopMoves DEF Turns!Moves
  <1>4. ASSUME old.status \in {"running", "paused"}, NEW status \in LoopStatus \ {"absent"},
               loops' = [loops EXCEPT ![l].status = status]
        PROVE  \E new \in Loop : /\ loops' = [loops EXCEPT ![l] = new] /\ loops'[l] = new
                                 /\ new.status = status /\ new.round = old.round
                                 /\ new.current = old.current /\ new.seen = old.seen
    <2> DEFINE new == [old EXCEPT !.status = status]
    <2>1. /\ new \in Loop /\ new.status = status /\ new.round = old.round
          /\ new.current = old.current /\ new.seen = old.seen
      BY <1>1 DEF Loop
    <2>2. loops' = [loops EXCEPT ![l] = new]
      BY <1>4
    <2> HIDE DEF new
    <2>3. loops'[l] = new
      BY <1>1, <2>2
    <2> QED
      BY <2>1, <2>2, <2>3
  <1>5. CASE Pause(l) \/ Resume(l)
    <2>1. PICK status \in {"running", "paused"} : loops' = [loops EXCEPT ![l].status = status]
      BY <1>5 DEF Pause, Resume
    <2>2. old.status \in {"running", "paused"} /\ Persist /\ prompts' = prompts
      BY <1>5 DEF Pause, Resume
    <2>3. status \in LoopStatus \ {"absent"}
      BY DEF LoopStatus
    <2>4. PICK new \in Loop : /\ loops' = [loops EXCEPT ![l] = new] /\ loops'[l] = new
                              /\ new.status = status /\ new.round = old.round
                              /\ new.current = old.current /\ new.seen = old.seen
      BY <1>4, <2>1, <2>2, <2>3
    <2>5. PhaseOf(l) \in Turns!Alive /\ PhaseOf(l)' = PhaseOf(l)
      BY <1>2, <2>2, <2>4, PhaseCases, PhaseCasesPrime
    <2>6. Turns!PausesOrResumes(l)
      BY <2>4, <2>5 DEF Turns!PausesOrResumes, Turns!Quiet
    <2> QED
      BY <2>2, <2>3, <2>4, <2>6, OneLoopMoves DEF Turns!Moves
  <1>6. CASE Cancel(l)
    <2>1. /\ old.status \in {"running", "paused"} /\ Persist
          /\ loops' = [loops EXCEPT ![l].status = "cancelled"]
          /\ \A i \in PromptIds : i # old.current => prompts'[i] = prompts[i]
      BY <1>6 DEF Cancel
    <2>2. "cancelled" \in LoopStatus \ {"absent"}
      BY DEF LoopStatus
    <2>3. PICK new \in Loop : /\ loops' = [loops EXCEPT ![l] = new] /\ loops'[l] = new
                              /\ new.status = "cancelled" /\ new.round = old.round
                              /\ new.current = old.current /\ new.seen = old.seen
      BY <1>4, <2>1, <2>2
    <2>4. PhaseOf(l) \in Turns!Alive /\ PhaseOf(l)' = "over"
      BY <1>2, <2>1, <2>3, PhaseCases, PhaseCasesPrime DEF Terminal
    <2>5. Turns!Ends(l)
      BY <2>3, <2>4 DEF Turns!Ends
    <2>6. loopOf[old.current] = l
      BY <1>1, <2>1 DEF LoopInv, PromptsOwned
    <2>7. \A i \in PromptIds : loopOf[i] \notin {l, NoLoop} => prompts'[i] = prompts[i]
      BY <2>1, <2>6
    <2> QED
      BY <2>1, <2>3, <2>5, <2>7, OneLoopMoves DEF Turns!Moves
  <1> QED
    BY <1>3, <1>5, <1>6

\* An advance ends the loop, or takes the next turn for a reply not heard before.
LEMMA AdvanceTurns ==
    ASSUME TurnInv, LoopInv', NEW l \in Loops, AdvanceFails(l) \/ Advance(l)
    PROVE  TurnInv' /\ Turns!Next
  <1> DEFINE old == loops[l]
  <1>1. /\ LoopInv /\ loops \in [Loops -> Loop] /\ LoopOk(old) /\ old \in Loop
        /\ loops' \in [Loops -> Loop] /\ old.status = "running" /\ Persist
    BY DEF TurnInv, LoopInv, TypeOK, LoopsOk, AdvanceFails, Advance
  <1>2. old.status \in LoopStatus /\ loops'[l].status \in LoopStatus
    BY <1>1 DEF Loop
  <1>3. CASE AdvanceFails(l)
    <2> DEFINE new == [old EXCEPT !.status = "failed"]
    <2>1. loops' = [loops EXCEPT ![l] = new] /\ prompts' = prompts
      BY <1>1, <1>3 DEF AdvanceFails
    <2>2. new.status = "failed" /\ new.round = old.round /\ new.seen = old.seen
      BY <1>1 DEF Loop
    <2> HIDE DEF new
    <2>3. loops'[l] = new
      BY <1>1, <2>1
    <2>4. PhaseOf(l) \in Turns!Alive /\ PhaseOf(l)' = "over"
      BY <1>1, <1>2, <2>2, <2>3, PhaseCases, PhaseCasesPrime DEF Terminal
    <2>5. Turns!Ends(l)
      BY <2>2, <2>3, <2>4 DEF Turns!Ends
    <2> QED
      BY <1>1, <2>1, <2>2, <2>5, OneLoopMoves DEF Turns!Moves
  <1>4. CASE Advance(l)
    <2>1. PICK reply \in Replies : \E progress \in {reply, SameProgress} :
             /\ ~RoundFails(old, reply)
             /\ \/ \E next \in BOOLEAN : AdvanceEnds(l, reply, progress, next)
                \/ NextRound(l, reply, progress)
      BY <1>4 DEF Advance
    <2>2. PICK progress \in ProgressHashes :
             \/ \E next \in BOOLEAN : AdvanceEnds(l, reply, progress, next)
             \/ NextRound(l, reply, progress)
      BY <2>1 DEF ProgressHashes
    <2>3. prompts[old.current].status = "returned" /\ reply \notin old.seen
      BY <1>4, <2>1 DEF Advance, RoundFails
    <2>4. PhaseOf(l) = "answered" /\ PhaseOf(l) \in Turns!Alive
      BY <1>1, <1>2, <2>3, PhaseCases
    <2> DEFINE o == Observed(old, reply, progress)
    <2>5. /\ o \in Loop /\ o.status = "running" /\ o.round = old.round
          /\ o.current = old.current /\ o.seen = old.seen \cup {reply}
      BY <1>1, <2>3, ObservedFacts
    <2>6. ASSUME NEW next \in BOOLEAN, AdvanceEnds(l, reply, progress, next)
          PROVE  TurnInv' /\ Turns!Next
      <3> DEFINE status == IF o.noProgress >= NoProgressLimit THEN "failed" ELSE "done"
                 new == [o EXCEPT !.status = status]
      <3>1. loops' = [loops EXCEPT ![l] = new] /\ prompts' = prompts
        BY <2>6 DEF AdvanceEnds
      <3>2. status \in {"failed", "done"}
        OBVIOUS
      <3> HIDE DEF status, o
      <3>3. new.status = status /\ new.round = o.round /\ new.seen = o.seen
        BY <2>5 DEF Loop
      <3> HIDE DEF new
      <3>4. loops'[l] = new
        BY <1>1, <3>1
      <3>5. PhaseOf(l)' = "over"
        BY <1>2, <3>2, <3>3, <3>4, PhaseCasesPrime DEF Terminal
      <3>6. Turns!HearsNew(l)
        BY <2>3, <2>5, <3>3, <3>4 DEF Turns!HearsNew
      <3>7. Turns!Ends(l)
        BY <1>1, <2>4, <2>5, <3>2, <3>3, <3>4, <3>5, <3>6 DEF Turns!Ends
      <3> QED
        BY <1>1, <3>1, <3>2, <3>3, <3>7, OneLoopMoves DEF Turns!Moves
    <2>7. CASE NextRound(l, reply, progress)
      <3> DEFINE new == [o EXCEPT !.round = o.round + 1, !.current = created + 1]
      <3>1. /\ o.round < MaxRounds /\ NewPrompt(l) /\ loops' = [loops EXCEPT ![l] = new]
        BY <2>7 DEF NextRound
      <3> HIDE DEF o
      <3>2. /\ new.status = "running" /\ new.round = o.round + 1
            /\ new.current = created + 1 /\ new.seen = o.seen
        BY <2>5 DEF Loop
      <3> HIDE DEF new
      <3>3. loops'[l] = new
        BY <1>1, <3>1
      <3>4. PhaseOf(l)' = "asking"
        BY <1>1, <1>2, <3>1, <3>2, <3>3, NewPromptTurns, PhaseCasesPrime DEF TerminalOutbound
      <3>5. Turns!HearsNew(l)
        BY <2>3, <2>5, <3>2, <3>3 DEF Turns!HearsNew
      <3>6. Turns!AsksAgain(l)
        BY <1>1, <2>4, <2>5, <3>1, <3>2, <3>3, <3>4, <3>5 DEF Turns!AsksAgain
      <3> QED
        BY <1>1, <3>1, <3>2, <3>6, NewPromptTurns, OneLoopMoves DEF Turns!Moves
    <2> QED
      BY <2>2, <2>6, <2>7
  <1> QED
    BY <1>3, <1>4

\* A prompt that has ended stays as it ended.
EndedKept ==
    \A i \in PromptIds :
        prompts[i].status \in TerminalOutbound => prompts'[i].status = prompts[i].status

\* The outbound handlers answer the loops' prompts, or leave them unanswered.
LEMMA OutboundTurns ==
    ASSUME TurnInv, LoopInv', OutboundNext \/ \E i \in PromptIds : OutboundCall(i)
    PROVE  TurnInv' /\ Turns!Next
  <1>1. /\ LoopInv /\ prompts \in [PromptIds -> OutboundPrompt] /\ loops \in [Loops -> Loop]
        /\ \A l \in Loops : loops[l].status \in {"running", "paused"} =>
              loops[l].current \in PromptIds
    BY DEF TurnInv, LoopInv, TypeOK, PromptsOwned
  <1>2. loops' = loops
    BY DEF OutboundNext, OutboundCall, OutboundAck, OutboundSubmitted, OutboundStage,
           OutboundCancel
  <1>3. EndedKept
    <2>1. CASE OutboundNext
      <3>1. prompts' = claimNext(prompts, Token) /\ Token \in Nat
        BY <2>1 DEF OutboundNext, Token
      <3> QED
        BY <1>1, <3>1, PromptIdsFacts, ClaimNextFacts DEF EndedKept
    <2>2. ASSUME NEW i \in PromptIds, OutboundCall(i) PROVE EndedKept
      <3>1. \A j \in PromptIds : j # i => prompts'[j] = prompts[j]
        BY <1>1, <2>2
        DEF OutboundCall, OutboundAck, OutboundSubmitted, OutboundStage, OutboundCancel
      <3>2. prompts[i].status \notin TerminalOutbound
        BY <2>2
        DEF OutboundCall, OutboundAck, OutboundSubmitted, OutboundStage, OutboundCancel,
            canAcknowledge, canCancel, canMarkFailed, PreSubmission, TerminalOutbound,
            StageFrom
      <3> QED
        BY <3>1, <3>2 DEF EndedKept
    <2> QED
      BY <2>1, <2>2
  <1>4. Turns!Next
    <2>1. ASSUME NEW l \in Loops PROVE Turns!Moves(l)
      <3>1. loops[l].status \in LoopStatus
        BY <1>1 DEF Loop
      <3>2. loops[l].status \in {"running", "paused"} =>
               (prompts[loops[l].current].status \in TerminalOutbound =>
                  prompts'[loops[l].current].status = prompts[loops[l].current].status)
        BY <1>1, <1>3 DEF EndedKept
      <3> QED
        BY <1>2, <3>1, <3>2, UntouchedMoves
    <2> QED
      BY <2>1 DEF Turns!Next
  <1>5. TurnInv'
    <2>1. CASE Persist
      BY <1>2, <2>1, PersistedTurns
    <2>2. CASE ~Persist
      <3>1. PICK i \in PromptIds : /\ OutboundSubmitted(i) /\ ~canMarkSubmitted(prompts[i])
                                   /\ disk' = disk
        BY <2>2 DEF OutboundNext, OutboundCall, OutboundAck, OutboundSubmitted, OutboundStage,
                    OutboundCancel
      <3>2. /\ prompts[i].status = "waiting_manual_send"
            /\ prompts' = [prompts EXCEPT ![i] = Ended("expired")]
        BY <3>1 DEF OutboundSubmitted, canMarkSubmitted, markSubmitted
      <3>3. Ended("expired").status = "expired"
        BY AbsentPromptFacts DEF OutboundPromptStatus
      <3>4. CurrentSaved'
        BY <1>1, <1>2, <3>1, <3>2, <3>3 DEF TurnInv, CurrentSaved
      <3>5. AbsentUnheard' /\ HeardSaved'
        BY <1>2, <3>1 DEF TurnInv, AbsentUnheard, HeardSaved
      <3> QED
        BY <3>4, <3>5 DEF TurnInv
    <2> QED
      BY <2>1, <2>2
  <1> QED
    BY <1>4, <1>5

\* A restart: a loop it brings back has a current prompt that had ended before,
\* so it comes back where it was; every other one that was going on ends.
LEMMA RestartTurns ==
    ASSUME TurnInv, LoopInv', Restart
    PROVE  TurnInv' /\ Turns!Next
  <1>1. /\ LoopInv /\ loops \in [Loops -> Loop] /\ disk.loops \in [Loops -> Loop]
        /\ loops' \in [Loops -> Loop]
        /\ prompts \in [PromptIds -> OutboundPrompt]
        /\ disk.prompts \in [PromptIds -> OutboundPrompt] /\ disk' = disk
    BY DEF TurnInv, LoopInv, TypeOK, Snapshot, Restart
  <1>2. ASSUME NEW l \in Loops
        PROVE  /\ loops'[l].round = loops[l].round /\ loops'[l].seen = loops[l].seen
               /\ loops'[l].current = loops[l].current
               /\ loops'[l].seen = disk.loops[l].seen
               /\ loops'[l].status = loops[l].status \/ loops'[l].status = "failed"
               /\ loops[l].status \in {"absent"} \cup Terminal =>
                    loops'[l].status = loops[l].status
    <2>1. loops'[l] = IF Interrupted(disk.loops[l], disk.prompts)
                        THEN [disk.loops[l] EXCEPT !.status = "failed"] ELSE disk.loops[l]
      BY DEF Restart
    <2>2. /\ disk.loops[l] \in Loop
          /\ loops[l].round = disk.loops[l].round /\ loops[l].current = disk.loops[l].current
          /\ loops[l].seen = disk.loops[l].seen
          /\ \/ loops[l].status = disk.loops[l].status
             \/ loops[l].status = "failed" /\ Interrupted(disk.loops[l], disk.prompts)
      BY <1>1 DEF LoopInv, SavedOrRecovered, TurnInv, HeardSaved
    <2>3. CASE Interrupted(disk.loops[l], disk.prompts)
      <3>1. /\ loops'[l].status = "failed" /\ loops'[l].round = disk.loops[l].round
            /\ loops'[l].seen = disk.loops[l].seen
            /\ loops'[l].current = disk.loops[l].current
        BY <2>1, <2>2, <2>3 DEF Loop
      <3> QED
        BY <2>2, <2>3, <3>1 DEF Interrupted
    <2>4. CASE ~Interrupted(disk.loops[l], disk.prompts)
      <3>1. loops'[l] = disk.loops[l]
        BY <2>1, <2>4
      <3> QED
        BY <2>2, <2>4, <3>1
    <2> QED
      BY <2>3, <2>4
  <1>3. ASSUME NEW l \in Loops, loops'[l].status \in {"running", "paused"}
        PROVE  /\ prompts'[loops[l].current] = disk.prompts[loops[l].current]
               /\ prompts'[loops[l].current].status = prompts[loops[l].current].status
    <2>1. loops[l].status \in {"running", "paused"} /\ disk.loops[l].current = loops[l].current
      BY <1>1, <1>2, <1>3 DEF LoopInv, SavedOrRecovered
    <2>2. ~Interrupted(disk.loops[l], disk.prompts) /\ disk.loops[l].status \in {"running", "paused"}
      <3>1. loops'[l] = IF Interrupted(disk.loops[l], disk.prompts)
                          THEN [disk.loops[l] EXCEPT !.status = "failed"] ELSE disk.loops[l]
        BY DEF Restart
      <3>2. disk.loops[l] \in Loop
        BY <1>1
      <3> QED
        BY <1>3, <3>1, <3>2 DEF Loop
    <2> DEFINE c == loops[l].current
    <2>3. disk.prompts[c].status \in TerminalOutbound \ {"cancelled"}
      BY <2>1, <2>2 DEF Interrupted, Terminal
    <2>4. c \in PromptIds
      BY <1>1, <2>1 DEF LoopInv, PromptsOwned
    <2>5. prompts'[c] = disk.prompts[c]
      BY <2>3, <2>4 DEF Restart, canMarkFailed
    <2>6. prompts[c].status = disk.prompts[c].status
      BY <2>1, <2>3 DEF TurnInv, CurrentSaved, TerminalOutbound
    <2> QED
      BY <2>5, <2>6
  <1>4. TurnInv'
    <2>1. AbsentUnheard'
      BY <1>2 DEF TurnInv, AbsentUnheard
    <2>2. HeardSaved'
      BY <1>1, <1>2 DEF HeardSaved
    <2>3. CurrentSaved'
      BY <1>1, <1>2, <1>3 DEF CurrentSaved
    <2> QED
      BY <2>1, <2>2, <2>3 DEF TurnInv
  <1>5. ASSUME NEW l \in Loops PROVE Turns!Moves(l)
    <2>1. loops[l].status \in LoopStatus /\ loops'[l].status \in LoopStatus
      BY <1>1 DEF Loop
    <2>2. CASE loops'[l].status = loops[l].status
      <3>1. loops[l].status \in {"running", "paused"} =>
               (prompts[loops[l].current].status \in TerminalOutbound =>
                  prompts'[loops[l].current].status = prompts[loops[l].current].status)
        BY <1>3, <2>2
      <3> QED
        BY <1>2, <2>1, <2>2, <3>1, UntouchedMoves
    <2>3. CASE loops'[l].status # loops[l].status
      <3>1. loops[l].status \in {"running", "paused"} /\ loops'[l].status = "failed"
        BY <1>2, <2>1, <2>3 DEF LoopStatus, Terminal
      <3>2. PhaseOf(l) \in Turns!Alive /\ PhaseOf(l)' = "over"
        BY <2>1, <3>1, PhaseCases, PhaseCasesPrime DEF Terminal
      <3>3. Turns!Ends(l)
        BY <1>2, <3>1, <3>2 DEF Turns!Ends
      <3> QED
        BY <3>3 DEF Turns!Moves
    <2> QED
      BY <2>2, <2>3
  <1> QED
    BY <1>4, <1>5 DEF Turns!Next

\* Time, and steps that change nothing: every loop rests.
LEMMA TickTurns ==
    ASSUME TurnInv, LoopInv', Tick \/ UNCHANGED vars
    PROVE  TurnInv' /\ Turns!Next
  <1>1. /\ LoopInv /\ loops \in [Loops -> Loop] /\ disk \in Snapshot
        /\ disk.loops \in [Loops -> Loop] /\ disk.prompts \in [PromptIds -> OutboundPrompt]
        /\ prompts \in [PromptIds -> OutboundPrompt]
        /\ \A l \in Loops : loops[l].status \in {"running", "paused"} =>
              loops[l].current \in PromptIds
    BY DEF TurnInv, LoopInv, TypeOK, Snapshot, PromptsOwned
  <1>2. ASSUME NEW loop \in Loop
        PROVE  /\ LoopAge(loop).status = loop.status /\ LoopAge(loop).round = loop.round
               /\ LoopAge(loop).current = loop.current /\ LoopAge(loop).seen = loop.seen
    BY DEF LoopAge, Loop
  <1>3. /\ \A i \in PromptIds : /\ prompts'[i].status = prompts[i].status
                                /\ disk'.prompts[i].status = disk.prompts[i].status
        /\ \A l \in Loops :
             /\ loops'[l].status = loops[l].status /\ loops'[l].round = loops[l].round
             /\ loops'[l].current = loops[l].current /\ loops'[l].seen = loops[l].seen
             /\ disk'.loops[l].seen = disk.loops[l].seen
    <2>1. CASE Tick
      <3>1. /\ prompts' = [i \in PromptIds |-> Age(prompts[i])]
            /\ loops' = [l \in Loops |-> LoopAge(loops[l])]
            /\ disk'.prompts = [i \in PromptIds |-> Age(disk.prompts[i])]
            /\ disk'.loops = [l \in Loops |-> LoopAge(disk.loops[l])]
        BY <1>1, <2>1 DEF Tick, Snapshot
      <3> QED
        BY <1>1, <1>2, <3>1, AgeFacts
    <2>2. CASE UNCHANGED vars
      BY <2>2 DEF vars
    <2> QED
      BY <2>1, <2>2
  <1>4. AbsentUnheard' /\ HeardSaved' /\ CurrentSaved'
    BY <1>1, <1>3 DEF TurnInv, AbsentUnheard, HeardSaved, CurrentSaved
  <1>5. ASSUME NEW l \in Loops PROVE Turns!Moves(l)
    <2>1. loops[l].status \in LoopStatus
      BY <1>1 DEF Loop
    <2>2. loops[l].status \in {"running", "paused"} =>
             (prompts[loops[l].current].status \in TerminalOutbound =>
                prompts'[loops[l].current].status = prompts[loops[l].current].status)
      BY <1>1, <1>3
    <2> QED
      BY <1>3, <2>1, <2>2, UntouchedMoves
  <1> QED
    BY <1>4, <1>5 DEF TurnInv, Turns!Next

\* To save what is in memory moves no loop.
LEMMA OtherPersistsTurns ==
    ASSUME TurnInv, LoopInv', OtherPersists
    PROVE  TurnInv' /\ Turns!Next
  <1>1. UNCHANGED <<prompts, loops>> /\ Persist
    BY DEF OtherPersists
  <1>2. TurnInv'
    BY <1>1, PersistedTurns
  <1>3. \A l \in Loops : loops[l].status \in LoopStatus
    BY DEF TurnInv, LoopInv, TypeOK, Loop
  <1>4. \A l \in Loops : Turns!Moves(l)
    BY <1>1, <1>3, UntouchedMoves
  <1> QED
    BY <1>2, <1>4 DEF Turns!Next

LEMMA NextTurns ==
    ASSUME TurnInv, [Next]_vars
    PROVE  TurnInv' /\ Turns!Next
  <1>1. LoopInv'
    BY NextInv DEF TurnInv
  <1>2. ASSUME NEW l \in Loops, LoopCall(l)
        PROVE  TurnInv' /\ Turns!Next
    BY <1>1, <1>2, ThrowTurns, OperatorTurns, AdvanceTurns DEF LoopCall
  <1>3. CASE OutboundNext \/ \E i \in PromptIds : OutboundCall(i)
    BY <1>1, <1>3, OutboundTurns
  <1>4. CASE Restart
    BY <1>1, <1>4, RestartTurns
  <1>5. CASE Tick \/ UNCHANGED vars
    BY <1>1, <1>5, TickTurns
  <1>6. CASE OtherPersists
    BY <1>1, <1>6, OtherPersistsTurns
  <1> QED
    BY <1>2, <1>3, <1>4, <1>5, <1>6 DEF Next

LEMMA InitTurns == Init => TurnInv /\ Turns!Init
  <1> SUFFICES ASSUME Init PROVE TurnInv /\ Turns!Init
    OBVIOUS
  <1>1. /\ disk.loops = loops /\ disk.prompts = prompts
        /\ \A l \in Loops : loops[l].status = "absent" /\ loops[l].round = 0 /\ loops[l].seen = {}
    BY DEF Init, AbsentLoop
  <1>2. TurnInv
    BY <1>1, InitInv DEF TurnInv, AbsentUnheard, HeardSaved, CurrentSaved
  <1>3. \A l \in Loops : PhaseOf(l) = "none"
    BY <1>1, PhaseCases DEF LoopStatus
  <1>4. Turns!Init
    BY <1>1, <1>3 DEF Turns!Init
  <1> QED
    BY <1>2, <1>4

\* Loops take turns (web-relay-loop-store.ts with its routes): a loop goes on
\* only from an answer it has not heard before, as often as it may, and not while
\* it is paused; time, a retry or a restart can only end it.
THEOREM RefinesTurnTaking == Spec => ImplementsTurnTaking
  <1>1. TurnInv /\ [Next]_vars => TurnInv' /\ [Turns!Next]_(Turns!vars)
    BY NextTurns
  <1> QED
    BY InitTurns, <1>1, PTL DEF Spec, ImplementsTurnTaking, Turns!Spec
=============================================================================
