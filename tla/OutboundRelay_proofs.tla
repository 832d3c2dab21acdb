------------------------ MODULE OutboundRelay_proofs ------------------------
(***************************************************************************)
(* Proofs about OutboundRelay, for any number of prompts, pages, sessions  *)
(* and late requests, and any time limits.                                 *)
(***************************************************************************)
EXTENDS OutboundRelay, OutboundPromptStore_proofs

-----------------------------------------------------------------------------
(* Type correctness, and what a request carries.                           *)

ServerTyped ==
    /\ prompts \in [PromptIds -> OutboundPrompt]
    /\ contexts \in [Sessions -> PromptIds \cup {NoId}]
    /\ inbound \in Seq(PromptIds)
    /\ pending \subseteq Sessions
    /\ disk \in Snapshot
    /\ tokens \in Nat

\* A call for a stage, an acknowledgement or a return names a prompt.
Carries(pc, id) == pc \notin {"idle", "next"} => id \in PromptIds

GoodRequest == {r \in Request : Carries(r.op, r.id)}
GoodTab == {tab \in Tab : Carries(tab.pc, tab.id)}

LEMMA PromptIdsNat == PromptIds \in SUBSET Nat
  BY DEF PromptIds

\* May a claim still hand out prompt i, now or after a restart?
MayClaim(i) == Fresh(prompts[i]) \/ Fresh(disk.prompts[i])

\* A step of the server puts no prompt (back) in the queue.
NothingFreed ==
    \A i \in PromptIds :
        /\ Fresh(prompts'[i]) => MayClaim(i)
        /\ Fresh(disk'.prompts[i]) => MayClaim(i)
        /\ Absent(prompts[i]) /\ Absent(disk.prompts[i]) =>
             Absent(prompts'[i]) /\ Absent(disk'.prompts[i])

\* persist() writes a snapshot of the new state.
LEMMA PersistFacts ==
    ASSUME Persist,
           prompts' \in [PromptIds -> OutboundPrompt],
           contexts' \in [Sessions -> PromptIds \cup {NoId}],
           inbound' \in Seq(PromptIds),
           pending' \subseteq Sessions
    PROVE  disk' \in Snapshot /\ disk'.prompts = prompts'
  BY DEF Persist, Snapshot

LEMMA NextServed ==
    ASSUME ServerTyped, NEW r \in GoodRequest, NEW ok \in BOOLEAN, OutboundNext(r, ok)
    PROVE  /\ ServerTyped' /\ NothingFreed
           /\ ok => LET n == NextClaim(prompts) IN
                      /\ n \in PromptIds
                      /\ Fresh(prompts[n])
                      /\ ~Fresh(prompts'[n]) /\ ~Fresh(disk'.prompts[n])
  <1>1. /\ prompts' = claimNext(prompts, tokens + 1)
        /\ tokens + 1 \in Nat
        /\ UNCHANGED <<contexts, inbound, pending>>
        /\ ok = (Claimable(prompts) # {})
        /\ tokens' \in Nat
    BY DEF OutboundNext, ServerTyped
  <1>2. prompts' \in [PromptIds -> OutboundPrompt]
    BY <1>1, PromptIdsNat, ClaimNextFacts DEF ServerTyped
  <1>3. disk' \in Snapshot /\ disk'.prompts = prompts'
    BY <1>1, <1>2, PersistFacts DEF OutboundNext, ServerTyped
  <1>4. ServerTyped'
    BY <1>1, <1>2, <1>3 DEF ServerTyped
  <1>5. NothingFreed
    <2>1. \A i \in PromptIds : /\ Fresh(prompts'[i]) => Fresh(prompts[i])
                               /\ Absent(prompts[i]) => Absent(prompts'[i])
      BY <1>1, PromptIdsNat, ClaimNextFacts DEF ServerTyped
    <2> QED
      BY <1>3, <2>1 DEF NothingFreed, MayClaim
  <1>6. ok => LET n == NextClaim(prompts) IN
                /\ n \in PromptIds
                /\ Fresh(prompts[n])
                /\ ~Fresh(prompts'[n])
    BY <1>1, PromptIdsNat, ClaimNextFacts DEF ServerTyped
  <1> QED
    BY <1>3, <1>4, <1>5, <1>6

LEMMA AckServed ==
    ASSUME ServerTyped, NEW r \in GoodRequest, NEW ok \in BOOLEAN, OutboundAck(r, ok)
    PROVE  ServerTyped' /\ NothingFreed
  <1>1. CASE ~ok
    BY <1>1 DEF OutboundAck, serverVars, ServerTyped, NothingFreed, MayClaim
  <1>2. CASE ok
    <2> DEFINE p == acknowledge(prompts[r.id], r.op = "ackOk")
    <2>1. /\ r.id \in PromptIds
          /\ prompts[r.id].status = "claimed"
          /\ prompts' = [prompts EXCEPT ![r.id] = p]
          /\ UNCHANGED <<inbound, pending, tokens>>
          /\ Persist
      BY <1>2 DEF OutboundAck, GoodRequest, Carries, canAcknowledge
    <2>2. p \in OutboundPrompt /\ ~Fresh(p)
      BY <2>1, AcknowledgeFacts DEF ServerTyped
    <2> HIDE DEF p
    <2>3. prompts' \in [PromptIds -> OutboundPrompt]
      BY <2>1, <2>2 DEF ServerTyped
    <2>4. contexts' \in [Sessions -> PromptIds \cup {NoId}]
      BY <1>2, <2>1 DEF OutboundAck, ServerTyped
    <2>5. disk' \in Snapshot /\ disk'.prompts = prompts'
      BY <2>1, <2>3, <2>4, PersistFacts DEF ServerTyped
    <2>6. NothingFreed
      BY <2>1, <2>2, <2>5 DEF NothingFreed, MayClaim, Absent, ServerTyped
    <2> QED
      BY <2>1, <2>3, <2>4, <2>5, <2>6 DEF ServerTyped
  <1> QED
    BY <1>1, <1>2

LEMMA StageServed ==
    ASSUME ServerTyped, NEW r \in GoodRequest, NEW ok \in BOOLEAN, OutboundStage(r, ok)
    PROVE  ServerTyped' /\ NothingFreed
  <1> DEFINE p == prompts[r.id]
             q == IF r.op = "submitted" THEN markSubmitted(p)
                  ELSE IF ~ok THEN p
                  ELSE IF r.op = "failed" THEN markFailed(p)
                  ELSE [p EXCEPT !.status = r.op]
  <1>1. /\ r.id \in PromptIds
        /\ r.op \in StageCalls
        /\ prompts' = [prompts EXCEPT ![r.id] = q]
        /\ UNCHANGED <<contexts, inbound, pending, tokens>>
        /\ IF ok THEN Persist ELSE UNCHANGED disk
    BY DEF OutboundStage, GoodRequest, Carries, StageCalls
  <1>2. p \in OutboundPrompt
    BY <1>1 DEF ServerTyped
  <1>3. q \in OutboundPrompt /\ (q = p \/ (~Absent(p) /\ ~Fresh(q)))
    <2>1. CASE r.op = "submitted"
      BY <1>2, <2>1, MarkSubmittedFacts DEF Fresh, Absent
    <2>2. CASE r.op # "submitted" /\ ~ok
      BY <1>2, <2>2
    <2>3. CASE r.op = "failed" /\ ok
      <3>1. ~Absent(p)
        BY <2>3 DEF OutboundStage, canMarkFailed, Absent
      <3> QED
        BY <1>2, <2>3, <3>1, AbsentPromptFacts
        DEF markFailed, Fresh, OutboundPromptStatus
    <2>4. CASE r.op \in {"responding", "response_ready", "returned"} /\ ok
      <3>1. p.status = StageFrom[r.op]
        BY <2>4 DEF OutboundStage
      <3>2. p.status \in {"submitted", "responding", "response_ready"}
        BY <2>4, <3>1 DEF StageFrom
      <3> QED
        BY <1>2, <2>4, <3>2 DEF OutboundPrompt, OutboundPromptStatus, Fresh, Absent
    <2> QED
      BY <1>1, <2>1, <2>2, <2>3, <2>4 DEF StageCalls
  <1> HIDE DEF p, q
  <1>4. prompts' \in [PromptIds -> OutboundPrompt]
    BY <1>1, <1>3 DEF ServerTyped
  <1>5. disk' \in Snapshot /\ disk'.prompts \in {disk.prompts, prompts'}
    BY <1>1, <1>4, PersistFacts DEF ServerTyped
  <1>6. NothingFreed
    BY <1>1, <1>3, <1>5 DEF NothingFreed, MayClaim, Absent, Fresh, ServerTyped, p
  <1> QED
    BY <1>1, <1>4, <1>5, <1>6 DEF ServerTyped

LEMMA ReturnServed ==
    ASSUME ServerTyped, NEW r \in GoodRequest, NEW ok \in BOOLEAN, ExtractReturn(r, ok)
    PROVE  ServerTyped' /\ NothingFreed
  <1>1. /\ r.id \in PromptIds
        /\ SessionOf[r.id] \in Sessions
        /\ UNCHANGED <<prompts, contexts, tokens>>
    BY RelayAssumption DEF ExtractReturn, GoodRequest, Carries, serverVars
  <1>2. CASE UNCHANGED serverVars
    BY <1>1, <1>2 DEF serverVars, ServerTyped, NothingFreed, MayClaim
  <1>3. CASE Persist /\ UNCHANGED <<inbound>>
             /\ pending' = pending \cup {SessionOf[r.id]}
    <2>1. pending' \subseteq Sessions
      BY <1>1, <1>3 DEF ServerTyped
    <2>2. disk' \in Snapshot /\ disk'.prompts = prompts'
      BY <1>1, <1>3, <2>1, PersistFacts DEF ServerTyped
    <2> QED
      BY <1>1, <1>3, <2>1, <2>2 DEF ServerTyped, NothingFreed, MayClaim
  <1>4. CASE Persist /\ UNCHANGED <<pending>>
             /\ inbound' = Append(inbound, r.id)
    <2>1. inbound' \in Seq(PromptIds)
      BY <1>1, <1>4 DEF ServerTyped
    <2>2. disk' \in Snapshot /\ disk'.prompts = prompts'
      BY <1>1, <1>4, <2>1, PersistFacts DEF ServerTyped
    <2> QED
      BY <1>1, <1>4, <2>1, <2>2 DEF ServerTyped, NothingFreed, MayClaim
  <1> QED
    BY <1>2, <1>3, <1>4 DEF ExtractReturn

LEMMA Served ==
    ASSUME ServerTyped, NEW r \in GoodRequest, NEW ok \in BOOLEAN, Serve(r, ok)
    PROVE  /\ ServerTyped' /\ NothingFreed
           /\ r.op = "next" /\ ok =>
                LET n == NextClaim(prompts) IN
                  /\ n \in PromptIds
                  /\ Fresh(prompts[n])
                  /\ ~Fresh(prompts'[n]) /\ ~Fresh(disk'.prompts[n])
  <1>1. CASE OutboundNext(r, ok)
    BY <1>1, NextServed
  <1>2. CASE OutboundAck(r, ok)
    BY <1>2, AckServed DEF OutboundAck
  <1>3. CASE OutboundStage(r, ok)
    BY <1>3, StageServed DEF OutboundStage, StageCalls
  <1>4. CASE ExtractReturn(r, ok)
    BY <1>4, ReturnServed DEF ExtractReturn
  <1> QED
    BY <1>1, <1>2, <1>3, <1>4 DEF Serve

-----------------------------------------------------------------------------
(* The poller's side.                                                      *)

\* Between its claim and its click, a page owns the prompt it claimed.
OwnPcs == {"fill", "ackOk", "submit"}

LEMMA IdleTabFacts == IdleTab \in GoodTab /\ IdleTab.pc = "idle"
  BY RelayAssumption DEF IdleTab, GoodTab, Tab, TabPcs, Carries, NoId, NoToken

\* A tick continues as an owner only from a claim or an acknowledgement.
LEMMA AfterFacts ==
    ASSUME NEW tab \in GoodTab, tab.pc \in CallPcs, NEW ok \in BOOLEAN,
           tokens \in Nat,
           tab.pc = "next" /\ ok => NextClaim(prompts) \in PromptIds
    PROVE  /\ After(tab, ok) \in GoodTab
           /\ After(tab, ok).pc \in OwnPcs =>
                \/ tab.pc = "next" /\ ok /\ After(tab, ok).id = NextClaim(prompts)
                \/ tab.pc = "ackOk" /\ ok /\ After(tab, ok).id = tab.id
  <1>1. /\ tab \in Tab /\ Carries(tab.pc, tab.id)
        /\ 0 \in 0..(ActiveTTL + 1)
        /\ PromptIds \subseteq PromptIds \cup {NoId}
    BY RelayAssumption DEF GoodTab
  <1>2. [IdleTab EXCEPT !.active = tab.active, !.activeAge = tab.activeAge] \in GoodTab
    BY <1>1, IdleTabFacts DEF GoodTab, Tab, Carries
  <1>3. CASE tab.pc = "next" /\ ok
    <2>1. After(tab, ok) =
            [tab EXCEPT !.pc = "fill", !.id = NextClaim(prompts), !.token = tokens + 1]
      BY <1>3 DEF After
    <2>2. NextClaim(prompts) \in PromptIds /\ tokens + 1 \in Nat
      BY <1>3
    <2>3. /\ After(tab, ok) \in Tab
          /\ After(tab, ok).pc = "fill" /\ After(tab, ok).id = NextClaim(prompts)
      BY <1>1, <2>1, <2>2 DEF Tab, TabPcs
    <2> QED
      BY <1>3, <2>2, <2>3 DEF GoodTab, Carries
  <1>4. CASE tab.pc = "ackOk" /\ ok
    <2>1. After(tab, ok) = [tab EXCEPT !.pc = "submit", !.active = tab.id, !.activeAge = 0]
      BY <1>4 DEF After
    <2> QED
      BY <1>1, <1>4, <2>1 DEF GoodTab, Tab, TabPcs, Carries
  <1>5. CASE tab.pc \in (StageCalls \ {"failed"}) \cup {"extract"} /\ ~ok
    <2>1. After(tab, ok) = [tab EXCEPT !.pc = "failed"]
      BY <1>5 DEF After, StageCalls
    <2> QED
      BY <1>1, <1>5, <2>1
      DEF GoodTab, Tab, TabPcs, CallPcs, StageCalls, Carries, OwnPcs
  <1>6. CASE tab.pc \in (StageCalls \ {"failed"}) \cup {"extract"} /\ ok
    <2>1. \/ After(tab, ok) = IdleTab
          \/ tab.pc = "submitted" /\ After(tab, ok) = [tab EXCEPT !.pc = "responding"]
          \/ tab.pc = "responding" /\ After(tab, ok) = [tab EXCEPT !.pc = "wait"]
          \/ tab.pc = "response_ready" /\ After(tab, ok) = [tab EXCEPT !.pc = "extract"]
          \/ tab.pc = "extract" /\ After(tab, ok) = [tab EXCEPT !.pc = "returned"]
      BY <1>6 DEF After, StageCalls
    <2>2. CASE After(tab, ok) = IdleTab
      BY <2>2, IdleTabFacts DEF OwnPcs
    <2>3. ASSUME NEW pc \in {"responding", "wait", "extract", "returned"},
                 After(tab, ok) = [tab EXCEPT !.pc = pc],
                 pc = "extract" => tab.pc = "response_ready"
          PROVE  After(tab, ok) \in GoodTab /\ After(tab, ok).pc \notin OwnPcs
      <3>1. After(tab, ok) \in Tab /\ After(tab, ok).pc = pc
        BY <1>1, <2>3 DEF Tab, TabPcs, CallPcs, StageCalls
      <3>2. Carries(pc, tab.id)
        BY <1>1, <1>6, <2>3 DEF Carries, StageCalls
      <3> QED
        BY <1>1, <2>3, <3>1, <3>2 DEF GoodTab, Tab, OwnPcs
    <2> QED
      BY <2>1, <2>2, <2>3
  <1>7. CASE \/ tab.pc \in {"next", "ackOk"} /\ ~ok
             \/ tab.pc \in {"ackFail", "failed"}
    <2>1. After(tab, ok) =
            [IdleTab EXCEPT !.active = tab.active, !.activeAge = tab.activeAge]
      BY <1>7 DEF After, StageCalls
    <2> QED
      BY <1>2, <2>1 DEF IdleTab, OwnPcs
  <1> QED
    BY <1>3, <1>4, <1>5, <1>6, <1>7 DEF CallPcs, StageCalls

\* The request a page sends is as good as its state.
LEMMA RequestOfFacts ==
    ASSUME NEW tab \in GoodTab, tab.pc \in CallPcs
    PROVE  RequestOf(tab) \in GoodRequest /\ RequestOf(tab).op = tab.pc
  BY DEF RequestOf, GoodRequest, Request, GoodTab, Tab, Carries

-----------------------------------------------------------------------------
(* Type correctness of every step.                                         *)

ClientTyped ==
    /\ created \in 0..MaxPrompts
    /\ pages \in [Tabs -> PageStates]
    /\ sends \in [PromptIds -> Nat]
    /\ tabs \in [Tabs -> GoodTab]
    /\ late \subseteq GoodRequest

WellFormed == ServerTyped /\ ClientTyped

LEMMA WellFormedTypeOK == WellFormed => TypeOK
  BY DEF WellFormed, ServerTyped, ClientTyped, TypeOK, GoodTab, GoodRequest

LEMMA InitWellFormed == Init => WellFormed
  <1> SUFFICES ASSUME Init PROVE WellFormed
    OBVIOUS
  <1>1. EmptySnapshot \in Snapshot /\ EmptySnapshot.inbound = << >>
    BY AbsentPromptFacts DEF EmptySnapshot, Snapshot, NoId
  <1>2. ServerTyped
    BY <1>1 DEF Init, ServerTyped, EmptySnapshot, Snapshot
  <1>3. ClientTyped
    BY RelayAssumption, IdleTabFacts DEF Init, ClientTyped, PageStates, NoId
  <1> QED
    BY <1>2, <1>3 DEF WellFormed

\* What the steps that call the server do to its state.
LEMMA CallTyped ==
    ASSUME WellFormed, NEW t \in Tabs, Call(t)
    PROVE  /\ WellFormed' /\ NothingFreed
           /\ UNCHANGED <<created, sends>>
           /\ \E tab \in GoodTab :
                /\ tabs' = [tabs EXCEPT ![t] = tab]
                /\ tab.pc \in OwnPcs =>
                     \/ /\ tab.id \in PromptIds
                        /\ Fresh(prompts[tab.id])
                        /\ ~Fresh(prompts'[tab.id]) /\ ~Fresh(disk'.prompts[tab.id])
                     \/ tabs[t].pc = "ackOk" /\ tab.id = tabs[t].id
  <1> DEFINE r == RequestOf(tabs[t])
  <1>0. ServerTyped /\ ClientTyped /\ tabs[t] \in GoodTab /\ tokens \in Nat
    BY DEF WellFormed, ServerTyped, ClientTyped
  <1>1. tabs[t].pc \in CallPcs /\ r \in GoodRequest /\ r.op = tabs[t].pc
    BY <1>0, RequestOfFacts DEF Call, Answered, AnswerLost, RequestLost
  <1> HIDE DEF r
  <1>2. ASSUME NEW ok \in BOOLEAN, NEW seen \in BOOLEAN, seen => ok, Serve(r, ok),
               tabs' = [tabs EXCEPT ![t] = After(tabs[t], seen)],
               UNCHANGED <<created, pages, late, sends>>
        PROVE  /\ WellFormed' /\ NothingFreed
               /\ UNCHANGED <<created, sends>>
               /\ \E tab \in GoodTab :
                    /\ tabs' = [tabs EXCEPT ![t] = tab]
                    /\ tab.pc \in OwnPcs =>
                         \/ /\ tab.id \in PromptIds
                            /\ Fresh(prompts[tab.id])
                            /\ ~Fresh(prompts'[tab.id]) /\ ~Fresh(disk'.prompts[tab.id])
                         \/ tabs[t].pc = "ackOk" /\ tab.id = tabs[t].id
    <2> DEFINE tab == After(tabs[t], seen)
               n == NextClaim(prompts)
    <2>1. /\ ServerTyped' /\ NothingFreed
          /\ r.op = "next" /\ ok =>
               /\ n \in PromptIds
               /\ Fresh(prompts[n])
               /\ ~Fresh(prompts'[n]) /\ ~Fresh(disk'.prompts[n])
      BY <1>0, <1>1, <1>2, Served
    <2>2. seen => ok
      BY <1>2
    <2>3. tabs[t].pc = "next" /\ seen => n \in PromptIds
      BY <1>1, <2>1, <2>2
    <2>4. /\ tab \in GoodTab
          /\ tab.pc \in OwnPcs =>
               \/ tabs[t].pc = "next" /\ seen /\ tab.id = n
               \/ tabs[t].pc = "ackOk" /\ seen /\ tab.id = tabs[t].id
      BY <1>0, <1>1, <2>2, <2>3, AfterFacts
    <2> HIDE DEF tab, n
    <2>5. tabs' = [tabs EXCEPT ![t] = tab]
      BY <1>2 DEF tab
    <2>6. ClientTyped'
      BY <1>0, <1>2, <2>4, <2>5 DEF ClientTyped
    <2>7. WellFormed'
      BY <2>1, <2>6 DEF WellFormed
    <2>8. tab.pc \in OwnPcs =>
            \/ /\ tab.id \in PromptIds
               /\ Fresh(prompts[tab.id])
               /\ ~Fresh(prompts'[tab.id]) /\ ~Fresh(disk'.prompts[tab.id])
            \/ tabs[t].pc = "ackOk" /\ tab.id = tabs[t].id
      BY <1>1, <2>1, <2>2, <2>4
    <2> QED
      BY <1>2, <2>1, <2>4, <2>5, <2>7, <2>8
  <1>3. CASE Answered(t)
    BY <1>2, <1>3 DEF Answered, r
  <1>4. CASE AnswerLost(t)
    BY <1>2, <1>4 DEF AnswerLost, r
  <1>5. CASE RequestLost(t)
    <2> DEFINE tab == After(tabs[t], FALSE)
    <2>1. /\ tab \in GoodTab
          /\ tab.pc \notin OwnPcs
      BY <1>0, <1>1, AfterFacts
    <2> HIDE DEF tab
    <2>2. /\ tabs' = [tabs EXCEPT ![t] = tab]
          /\ late' \subseteq late \cup {r}
          /\ UNCHANGED <<serverVars, created, tokens, pages, sends>>
      BY <1>5 DEF RequestLost, Abandon, tab, r
    <2>3. ServerTyped' /\ NothingFreed
      BY <1>0, <2>2 DEF ServerTyped, serverVars, NothingFreed, MayClaim
    <2>4. ClientTyped'
      BY <1>0, <1>1, <2>1, <2>2 DEF ClientTyped
    <2>5. WellFormed'
      BY <2>3, <2>4 DEF WellFormed
    <2> QED
      BY <2>1, <2>2, <2>3, <2>5
  <1> QED
    BY <1>3, <1>4, <1>5 DEF Call

\* A step that neither calls the server nor touches it frees nothing.
LEMMA ServerUntouched ==
    ASSUME WellFormed, UNCHANGED <<serverVars, tokens>>
    PROVE  ServerTyped' /\ NothingFreed
  BY DEF WellFormed, ServerTyped, serverVars, NothingFreed, MayClaim

LEMMA CreateTyped ==
    ASSUME WellFormed, OutboundCreate
    PROVE  WellFormed' /\ disk'.prompts = prompts'
  <1>1. /\ created + 1 \in PromptIds
        /\ prompts' = [prompts EXCEPT ![created + 1] = createOutboundPrompt]
        /\ UNCHANGED <<contexts, inbound, pending>>
        /\ Persist
    BY RelayAssumption DEF OutboundCreate, WellFormed, ClientTyped, PromptIds
  <1>2. prompts' \in [PromptIds -> OutboundPrompt]
    BY <1>1, AbsentPromptFacts DEF WellFormed, ServerTyped
  <1>3. disk' \in Snapshot /\ disk'.prompts = prompts'
    BY <1>1, <1>2, PersistFacts DEF WellFormed, ServerTyped
  <1>4. ServerTyped'
    BY <1>1, <1>2, <1>3 DEF WellFormed, ServerTyped, OutboundCreate
  <1>5. ClientTyped'
    BY <1>1, RelayAssumption DEF WellFormed, ClientTyped, OutboundCreate
  <1> QED
    BY <1>3, <1>4, <1>5 DEF WellFormed

LEMMA CancelTyped ==
    ASSUME WellFormed, NEW i \in PromptIds, OutboundCancel(i)
    PROVE  WellFormed' /\ NothingFreed
  <1>1. /\ ~Absent(prompts[i])
        /\ prompts' = [prompts EXCEPT ![i] = Ended("cancelled")]
        /\ UNCHANGED <<contexts, inbound, pending>>
        /\ Persist
    BY DEF OutboundCancel, canCancel, cancel, PreSubmission, Absent, WellFormed, ServerTyped
  <1>2. Ended("cancelled") \in OutboundPrompt /\ ~Fresh(Ended("cancelled"))
    BY AbsentPromptFacts DEF OutboundPromptStatus, Fresh
  <1>3. prompts' \in [PromptIds -> OutboundPrompt]
    BY <1>1, <1>2 DEF WellFormed, ServerTyped
  <1>4. disk' \in Snapshot /\ disk'.prompts = prompts'
    BY <1>1, <1>3, PersistFacts DEF WellFormed, ServerTyped
  <1>5. NothingFreed
    BY <1>1, <1>2, <1>4 DEF NothingFreed, MayClaim, WellFormed, ServerTyped
  <1> QED
    BY <1>1, <1>3, <1>4, <1>5 DEF WellFormed, ServerTyped, ClientTyped, OutboundCancel

LEMMA OtherPersistsTyped ==
    ASSUME WellFormed, OtherPersists
    PROVE  WellFormed' /\ NothingFreed
  <1>1. /\ UNCHANGED <<prompts, contexts, inbound, pending, created, tokens, tabs,
                      pages, late, sends>>
        /\ Persist
    BY DEF OtherPersists
  <1>2. disk' \in Snapshot /\ disk'.prompts = prompts'
    BY <1>1, PersistFacts DEF WellFormed, ServerTyped
  <1>3. NothingFreed
    BY <1>1, <1>2 DEF NothingFreed, MayClaim
  <1> QED
    BY <1>1, <1>2, <1>3 DEF WellFormed, ServerTyped, ClientTyped

LEMMA RestartTyped ==
    ASSUME WellFormed, Restart
    PROVE  WellFormed' /\ NothingFreed
  <1>1. /\ disk \in Snapshot /\ disk' = disk
        /\ prompts' = disk.prompts
    BY DEF WellFormed, ServerTyped, Restart
  <1>2. NothingFreed
    BY <1>1 DEF NothingFreed, MayClaim
  <1> QED
    BY <1>1, <1>2 DEF WellFormed, ServerTyped, ClientTyped, Restart, Snapshot

LEMMA TickTyped ==
    ASSUME WellFormed, Tick
    PROVE  /\ WellFormed' /\ NothingFreed
           /\ \A t \in Tabs : tabs'[t].pc = tabs[t].pc /\ tabs'[t].id = tabs[t].id
  <1>0. ServerTyped /\ ClientTyped
    BY DEF WellFormed
  <1>1. /\ prompts' \in [PromptIds -> OutboundPrompt]
        /\ \A i \in PromptIds : prompts'[i].status = prompts[i].status
    BY <1>0, AgeFacts DEF Tick, ServerTyped
  <1>2. /\ disk' \in Snapshot
        /\ \A i \in PromptIds : disk'.prompts[i].status = disk.prompts[i].status
    BY <1>0, AgeFacts DEF Tick, ServerTyped, Snapshot
  <1>3. \A t \in Tabs : /\ tabs'[t] \in GoodTab
                        /\ tabs'[t].pc = tabs[t].pc /\ tabs'[t].id = tabs[t].id
    <2> TAKE t \in Tabs
    <2>1. tabs[t] \in GoodTab /\ tabs[t].activeAge \in 0..(ActiveTTL + 1)
      BY <1>0 DEF ClientTyped, GoodTab, Tab
    <2> DEFINE age == IF tabs[t].active = NoId THEN tabs[t].activeAge
                      ELSE Older(tabs[t].activeAge, ActiveTTL)
    <2>2. age \in 0..(ActiveTTL + 1)
      BY <2>1, AgeRanges, RelayAssumption
    <2>3. tabs'[t] = [tabs[t] EXCEPT !.activeAge = age]
      BY DEF Tick
    <2> HIDE DEF age
    <2> QED
      BY <2>1, <2>2, <2>3 DEF GoodTab, Tab
  <1>4. tabs' \in [Tabs -> GoodTab]
    BY <1>3 DEF Tick
  <1>5. NothingFreed
    BY <1>1, <1>2 DEF NothingFreed, MayClaim, Fresh, Absent
  <1> QED
    BY <1>0, <1>1, <1>2, <1>3, <1>4, <1>5 DEF WellFormed, ServerTyped, ClientTyped, Tick

LEMMA LateTyped ==
    ASSUME WellFormed, NEW r \in late, ServeLate(r)
    PROVE  WellFormed' /\ NothingFreed
  <1>1. ServerTyped /\ ClientTyped /\ r \in GoodRequest
    BY DEF WellFormed, ClientTyped
  <1>2. ServerTyped' /\ NothingFreed
    BY <1>1, Served DEF ServeLate
  <1>3. ClientTyped'
    BY <1>1 DEF ClientTyped, ServeLate
  <1> QED
    BY <1>2, <1>3 DEF WellFormed

LEMMA PanelTyped ==
    ASSUME WellFormed, NEW t \in Tabs, PanelReturn(t)
    PROVE  /\ WellFormed' /\ NothingFreed
           /\ \A u \in Tabs : tabs'[u].pc = tabs[u].pc /\ tabs'[u].id = tabs[u].id
  <1>0. ServerTyped /\ ClientTyped
    BY DEF WellFormed
  <1>1. tabs[t] \in GoodTab
    BY <1>0 DEF ClientTyped
  <1> DEFINE r == [op |-> "extract", id |-> tabs[t].active, token |-> NoToken]
             tab == [tabs[t] EXCEPT !.active = NoId, !.activeAge = 0]
  <1>3. SubmitReturn(t, r)
    BY DEF PanelReturn
  <1>4. tabs[t].active \in PromptIds
    BY <1>1 DEF PanelReturn, ActiveFresh, GoodTab, Tab
  <1>5. r \in GoodRequest
    BY <1>4 DEF GoodRequest, Request, Carries, CallPcs, NoToken
  <1>6. tab \in GoodTab /\ tab.pc = tabs[t].pc /\ tab.id = tabs[t].id
    <2>1. 0 \in 0..(ActiveTTL + 1)
      BY RelayAssumption
    <2> QED
      BY <1>1, <2>1 DEF GoodTab, Tab, NoId
  <1> HIDE DEF r
  <1>7. ServerTyped' /\ NothingFreed /\ late' \subseteq late \cup {r}
    <2>1. CASE Abandon(r) /\ UNCHANGED <<serverVars, tokens>>
      BY <1>0, <2>1, ServerUntouched DEF Abandon
    <2> QED
      BY <1>0, <1>5, <1>3, <2>1, ReturnServed DEF SubmitReturn, r
  <1> HIDE DEF tab
  <1>8. tabs' = tabs \/ tabs' = [tabs EXCEPT ![t] = tab]
    BY <1>0, <1>3 DEF SubmitReturn, tab, ClientTyped
  <1>9. ClientTyped'
    BY <1>0, <1>5, <1>6, <1>7, <1>8 DEF ClientTyped, PanelReturn
  <1> QED
    BY <1>0, <1>6, <1>7, <1>8, <1>9 DEF WellFormed, ClientTyped

\* What happens on the page alone reaches neither the poller nor the server.
LEMMA ChatFrame ==
    ASSUME NEW t, Chat(t)
    PROVE  UNCHANGED <<serverVars, created, tokens, tabs, late, sends>>
  BY DEF Chat, ReplyStarts, ReplyEnds, ManualSend, OpenChat

\* The steps of a page that leave the server and the prompts sent alone.
LEMMA PageTyped ==
    ASSUME WellFormed, NEW t \in Tabs,
           StartTick(t) \/ Fill(t) \/ WaitReply(t) \/ Reload(t) \/ Chat(t)
    PROVE  /\ WellFormed' /\ NothingFreed
           /\ UNCHANGED <<created, sends>>
           /\ \A u \in Tabs : tabs'[u].pc \in OwnPcs =>
                tabs[u].pc \in OwnPcs /\ tabs'[u].id = tabs[u].id
  <1>0. /\ ServerTyped /\ ClientTyped
        /\ tabs[t] \in GoodTab /\ pages[t] \in PageStates
    BY DEF WellFormed, ClientTyped
  <1>1. /\ UNCHANGED <<serverVars, created, tokens, late, sends>>
        /\ ServerTyped' /\ NothingFreed
    BY <1>0, ServerUntouched, ChatFrame DEF StartTick, Fill, WaitReply, Reload, serverVars
  <1>2. ASSUME NEW tab \in GoodTab, tabs' = [tabs EXCEPT ![t] = tab], UNCHANGED pages,
               tab.pc \in OwnPcs => tabs[t].pc \in OwnPcs /\ tab.id = tabs[t].id
        PROVE  /\ ClientTyped'
               /\ \A u \in Tabs : tabs'[u].pc \in OwnPcs =>
                    tabs[u].pc \in OwnPcs /\ tabs'[u].id = tabs[u].id
    BY <1>0, <1>1, <1>2 DEF ClientTyped
  <1>3. CASE StartTick(t)
    <2>1. /\ [IdleTab EXCEPT !.pc = "next"] \in GoodTab
          /\ [IdleTab EXCEPT !.pc = "next"].pc = "next"
      BY IdleTabFacts DEF GoodTab, Tab, TabPcs, CallPcs, Carries, IdleTab
    <2> QED
      BY <1>1, <1>2, <1>3, <2>1 DEF StartTick, WellFormed, OwnPcs
  <1>4. CASE Fill(t)
    <2>1. PICK pc \in {"ackOk", "ackFail"} : tabs' = [tabs EXCEPT ![t].pc = pc]
      BY <1>4 DEF Fill
    <2> DEFINE tab == [tabs[t] EXCEPT !.pc = pc]
    <2>2. tabs' = [tabs EXCEPT ![t] = tab]
      BY <1>0, <2>1 DEF ClientTyped
    <2>3. /\ tab \in GoodTab
          /\ tabs[t].pc \in OwnPcs /\ tab.id = tabs[t].id
      BY <1>0, <1>4 DEF Fill, GoodTab, Tab, TabPcs, CallPcs, Carries, OwnPcs
    <2> HIDE DEF tab
    <2> QED
      BY <1>1, <1>2, <1>4, <2>2, <2>3 DEF Fill, WellFormed
  <1>5. CASE WaitReply(t)
    <2>1. PICK pc \in {"response_ready", "failed"} : tabs' = [tabs EXCEPT ![t].pc = pc]
      BY <1>5 DEF WaitReply
    <2> DEFINE tab == [tabs[t] EXCEPT !.pc = pc]
    <2>2. tab \in GoodTab /\ tab.pc = pc
      BY <1>0, <1>5, <2>1
      DEF WaitReply, GoodTab, Tab, TabPcs, CallPcs, StageCalls, Carries
    <2>3. tabs' = [tabs EXCEPT ![t] = tab]
      BY <1>0, <2>1 DEF ClientTyped
    <2> HIDE DEF tab
    <2> QED
      BY <1>1, <1>2, <1>5, <2>1, <2>2, <2>3 DEF WaitReply, WellFormed, OwnPcs
  <1>6. CASE Reload(t)
    BY <1>1, <1>2, <1>6, IdleTabFacts DEF Reload, WellFormed, OwnPcs
  <1>7. CASE Chat(t)
    <2>1. pages' \in [Tabs -> PageStates] /\ UNCHANGED tabs
      BY <1>0, <1>7, ChatFrame
      DEF Chat, ReplyStarts, ReplyEnds, ManualSend, OpenChat, ClientTyped, PageStates
    <2> QED
      BY <1>0, <1>1, <2>1 DEF WellFormed, ClientTyped
  <1> QED
    BY <1>3, <1>4, <1>5, <1>6, <1>7

LEMMA SubmitTyped ==
    ASSUME WellFormed, NEW t \in Tabs, Submit(t)
    PROVE  /\ WellFormed' /\ NothingFreed
           /\ UNCHANGED <<prompts, disk, created>>
           /\ tabs[t].pc = "submit" /\ tabs[t].id \in PromptIds
           /\ sends' \in {sends, [sends EXCEPT ![tabs[t].id] = @ + 1]}
           /\ tabs'[t].pc \notin OwnPcs
           /\ \A u \in Tabs : u # t => tabs'[u] = tabs[u]
  <1>0. /\ ServerTyped /\ ClientTyped
        /\ tabs[t] \in GoodTab /\ pages[t] \in PageStates
    BY DEF WellFormed, ClientTyped
  <1>1. /\ tabs[t].pc = "submit" /\ tabs[t].id \in PromptIds
        /\ UNCHANGED <<serverVars, created, tokens, late>>
        /\ ServerTyped' /\ NothingFreed
    BY <1>0, ServerUntouched DEF Submit, serverVars, GoodTab, Carries
  <1>2. PICK pc \in {"submitted", "failed"} : tabs' = [tabs EXCEPT ![t].pc = pc]
    BY DEF Submit
  <1> DEFINE tab == [tabs[t] EXCEPT !.pc = pc]
  <1>3. tab \in GoodTab /\ tab.pc \notin OwnPcs
    BY <1>0, <1>1 DEF GoodTab, Tab, TabPcs, CallPcs, StageCalls, Carries, OwnPcs
  <1>4. tabs' = [tabs EXCEPT ![t] = tab]
    BY <1>0, <1>2 DEF ClientTyped
  <1> HIDE DEF tab
  <1>5. sends' \in {sends, [sends EXCEPT ![tabs[t].id] = @ + 1]}
    BY DEF Submit
  <1>6. sends' \in [PromptIds -> Nat]
    BY <1>0, <1>1, <1>5 DEF ClientTyped
  <1>8. pages' \in [Tabs -> PageStates]
    BY <1>0 DEF Submit, ClientTyped, PageStates
  <1>9. ClientTyped'
    BY <1>0, <1>1, <1>3, <1>4, <1>6, <1>8 DEF ClientTyped
  <1> QED
    BY <1>0, <1>1, <1>3, <1>4, <1>5, <1>9 DEF WellFormed, ClientTyped, serverVars

LEMMA NextWellFormed == WellFormed /\ [Next]_vars => WellFormed'
  <1> SUFFICES ASSUME WellFormed, [Next]_vars PROVE WellFormed'
    OBVIOUS
  <1>1. CASE OutboundCreate
    BY <1>1, CreateTyped
  <1>2. CASE \E i \in PromptIds : OutboundCancel(i)
    BY <1>2, CancelTyped
  <1>3. ASSUME NEW t \in Tabs, PollerStep(t) \/ PageStep(t)
        PROVE  WellFormed'
    BY <1>3, CallTyped, PageTyped, SubmitTyped, PanelTyped DEF PollerStep, PageStep
  <1>4. CASE \E r \in late : ServeLate(r)
    BY <1>4, LateTyped
  <1>5. CASE Restart
    BY <1>5, RestartTyped
  <1>6. CASE Tick
    BY <1>6, TickTyped
  <1>7. CASE UNCHANGED vars
    BY <1>7 DEF vars, WellFormed, ServerTyped, ClientTyped
  <1>8. CASE OtherPersists
    BY <1>8, OtherPersistsTyped
  <1> QED
    BY <1>1, <1>2, <1>3, <1>4, <1>5, <1>6, <1>7, <1>8 DEF Next

LEMMA AlwaysWellFormed == Spec => []WellFormed
  BY InitWellFormed, NextWellFormed, PTL DEF Spec

\* Type correctness of every behaviour of the relay.
THEOREM TypeCorrect == Spec => []TypeOK
  BY AlwaysWellFormed, WellFormedTypeOK, PTL

-----------------------------------------------------------------------------
(* No prompt is submitted twice.                                           *)
(*                                                                         *)
(* The count of submissions alone is not inductive.  What keeps it at one  *)
(* is that the right to submit moves and is never doubled: it is the       *)
(* store's while the prompt may still be claimed - in memory, or on disk,  *)
(* where a restart would find it again - then it is with the one page that *)
(* claimed it, and it ends with the click.                                 *)

Owns(t, i) == tabs[t].pc \in OwnPcs /\ tabs[t].id = i

UnsentWhileClaimable == \A i \in PromptIds : MayClaim(i) => sends[i] = 0

UnsentWhileOwned ==
    \A t \in Tabs, i \in PromptIds : Owns(t, i) => sends[i] = 0 /\ ~MayClaim(i)

OneOwner == \A t, u \in Tabs, i \in PromptIds : Owns(t, i) /\ Owns(u, i) => t = u

\* An id not issued yet is free for the next prompt.
FutureAbsent ==
    \A i \in PromptIds : i > created => Absent(prompts[i]) /\ Absent(disk.prompts[i])

SendInv ==
    /\ WellFormed
    /\ SubmittedAtMostOnce
    /\ UnsentWhileClaimable
    /\ UnsentWhileOwned
    /\ OneOwner
    /\ FutureAbsent

LEMMA InitSendInv == Init => SendInv
  <1> SUFFICES ASSUME Init PROVE SendInv
    OBVIOUS
  <1>1. \A i \in PromptIds : Absent(prompts[i]) /\ Absent(disk.prompts[i]) /\ sends[i] = 0
    BY AbsentPromptFacts DEF Init, EmptySnapshot
  <1>2. \A t \in Tabs : tabs[t].pc \notin OwnPcs
    BY IdleTabFacts DEF Init, OwnPcs
  <1> QED
    BY <1>1, <1>2, InitWellFormed
    DEF SendInv, SubmittedAtMostOnce, UnsentWhileClaimable, UnsentWhileOwned, OneOwner,
        FutureAbsent, Owns

\* A step that frees no prompt, submits none and makes no page an owner.
LEMMA QuietStep ==
    ASSUME SendInv, WellFormed', NothingFreed, UNCHANGED <<created, sends>>,
           \A u \in Tabs : tabs'[u].pc \in OwnPcs =>
                tabs[u].pc \in OwnPcs /\ tabs'[u].id = tabs[u].id
    PROVE  SendInv'
  <1>1. \A i \in PromptIds : MayClaim(i)' => MayClaim(i)
    BY DEF NothingFreed, MayClaim
  <1>2. \A u \in Tabs, i \in PromptIds : Owns(u, i)' => Owns(u, i)
    BY DEF Owns
  <1>3. FutureAbsent'
    BY DEF SendInv, FutureAbsent, NothingFreed
  <1>4. UnsentWhileClaimable' /\ UnsentWhileOwned' /\ OneOwner'
    BY <1>1, <1>2 DEF SendInv, UnsentWhileClaimable, UnsentWhileOwned, OneOwner
  <1> QED
    BY <1>3, <1>4 DEF SendInv, SubmittedAtMostOnce

\* The new prompt's id was free, so it was neither submitted nor owned.
LEMMA CreateSendInv == SendInv /\ OutboundCreate => SendInv'
  <1> SUFFICES ASSUME SendInv, OutboundCreate PROVE SendInv'
    OBVIOUS
  <1> DEFINE n == created + 1
  <1>1. WellFormed' /\ disk'.prompts = prompts'
    BY CreateTyped DEF SendInv
  <1>2. /\ n \in PromptIds /\ n > created
        /\ created' = n
        /\ \A i \in PromptIds : i # n => prompts'[i] = prompts[i]
        /\ UNCHANGED <<tabs, sends>>
        /\ \A i \in PromptIds : i > n => i > created /\ i # n
    BY RelayAssumption
    DEF OutboundCreate, SendInv, WellFormed, ServerTyped, ClientTyped, PromptIds
  <1>3. MayClaim(n)
    BY <1>2 DEF SendInv, FutureAbsent, MayClaim, Fresh, Absent
  <1> HIDE DEF n
  <1>4. \A i \in PromptIds : MayClaim(i)' => MayClaim(i)
    BY <1>1, <1>2, <1>3 DEF MayClaim
  <1>5. \A u \in Tabs, i \in PromptIds : Owns(u, i)' => Owns(u, i)
    BY <1>2 DEF Owns
  <1>6. FutureAbsent'
    BY <1>1, <1>2 DEF SendInv, FutureAbsent
  <1>7. UnsentWhileClaimable' /\ UnsentWhileOwned' /\ OneOwner'
    BY <1>2, <1>4, <1>5 DEF SendInv, UnsentWhileClaimable, UnsentWhileOwned, OneOwner
  <1> QED
    BY <1>1, <1>2, <1>6, <1>7 DEF SendInv, SubmittedAtMostOnce

\* A page becomes an owner by a claim: nobody else can own what was claimable,
\* and once claimed it is claimable no more, after a restart neither.
LEMMA CallSendInv ==
    ASSUME SendInv, NEW t \in Tabs, Call(t)
    PROVE  SendInv'
  <1>1. /\ WellFormed' /\ NothingFreed
        /\ UNCHANGED <<created, sends>>
    BY CallTyped DEF SendInv
  <1>2. PICK tab \in GoodTab :
          /\ tabs' = [tabs EXCEPT ![t] = tab]
          /\ tab.pc \in OwnPcs =>
               \/ /\ tab.id \in PromptIds
                  /\ Fresh(prompts[tab.id])
                  /\ ~Fresh(prompts'[tab.id]) /\ ~Fresh(disk'.prompts[tab.id])
               \/ tabs[t].pc = "ackOk" /\ tab.id = tabs[t].id
    BY CallTyped DEF SendInv
  <1>3. \A u \in Tabs : tabs'[u] = IF u = t THEN tab ELSE tabs[u]
    BY <1>2 DEF SendInv, WellFormed, ClientTyped
  <1>4. CASE tab.pc \in OwnPcs => tabs[t].pc = "ackOk" /\ tab.id = tabs[t].id
    <2>1. \A u \in Tabs : tabs'[u].pc \in OwnPcs =>
                tabs[u].pc \in OwnPcs /\ tabs'[u].id = tabs[u].id
      BY <1>3, <1>4 DEF OwnPcs
    <2> QED
      BY <1>1, <2>1, QuietStep
  <1>5. CASE /\ tab.id \in PromptIds
             /\ Fresh(prompts[tab.id])
             /\ ~Fresh(prompts'[tab.id]) /\ ~Fresh(disk'.prompts[tab.id])
    <2>1. \A i \in PromptIds : MayClaim(i)' => MayClaim(i)
      BY <1>1 DEF NothingFreed, MayClaim
    <2>2. MayClaim(tab.id) /\ ~MayClaim(tab.id)'
      BY <1>5 DEF MayClaim
    <2>3. sends[tab.id] = 0 /\ \A u \in Tabs : ~Owns(u, tab.id)
      BY <1>5, <2>2 DEF SendInv, UnsentWhileClaimable, UnsentWhileOwned
    <2>4. \A u \in Tabs, i \in PromptIds :
            Owns(u, i)' => \/ u = t /\ i = tab.id
                           \/ u # t /\ Owns(u, i)
      BY <1>3 DEF Owns
    <2>5. UnsentWhileClaimable'
      BY <1>1, <2>1 DEF SendInv, UnsentWhileClaimable
    <2>6. UnsentWhileOwned'
      BY <1>1, <2>1, <2>2, <2>3, <2>4 DEF SendInv, UnsentWhileOwned
    <2>7. OneOwner'
      BY <2>3, <2>4 DEF SendInv, OneOwner
    <2>8. FutureAbsent'
      BY <1>1 DEF SendInv, FutureAbsent, NothingFreed
    <2> QED
      BY <1>1, <2>5, <2>6, <2>7, <2>8 DEF SendInv, SubmittedAtMostOnce
  <1> QED
    BY <1>2, <1>4, <1>5

\* The click ends the ownership of a prompt that was never submitted before.
LEMMA SubmitSendInv ==
    ASSUME SendInv, NEW t \in Tabs, Submit(t)
    PROVE  SendInv'
  <1> DEFINE n == tabs[t].id
  <1>1. /\ WellFormed' /\ NothingFreed
        /\ UNCHANGED <<prompts, disk, created>>
        /\ tabs[t].pc = "submit" /\ n \in PromptIds
        /\ sends' \in {sends, [sends EXCEPT ![n] = @ + 1]}
        /\ tabs'[t].pc \notin OwnPcs
        /\ \A u \in Tabs : u # t => tabs'[u] = tabs[u]
    BY SubmitTyped DEF SendInv
  <1>2. CASE sends' = sends
    BY <1>1, <1>2, QuietStep
  <1>3. CASE sends' = [sends EXCEPT ![n] = @ + 1]
    <2>1. Owns(t, n)
      BY <1>1 DEF Owns, OwnPcs
    <2> HIDE DEF n
    <2>2. sends[n] = 0 /\ ~MayClaim(n)
      BY <1>1, <2>1 DEF SendInv, UnsentWhileOwned
    <2>3. /\ sends'[n] = 1
          /\ \A i \in PromptIds : i # n => sends'[i] = sends[i]
      BY <1>1, <1>3, <2>2 DEF SendInv, WellFormed, ClientTyped
    <2>4. SubmittedAtMostOnce'
      BY <2>3 DEF SendInv, SubmittedAtMostOnce
    <2>5. \A i \in PromptIds : MayClaim(i)' <=> MayClaim(i)
      BY <1>1 DEF MayClaim
    <2>6. UnsentWhileClaimable'
      BY <2>2, <2>3, <2>5 DEF SendInv, UnsentWhileClaimable
    <2>7. \A u \in Tabs, i \in PromptIds : Owns(u, i)' => u # t /\ Owns(u, i)
      BY <1>1 DEF Owns
    <2>8. UnsentWhileOwned' /\ OneOwner'
      BY <1>1, <2>1, <2>3, <2>5, <2>7 DEF SendInv, UnsentWhileOwned, OneOwner
    <2>9. FutureAbsent'
      BY <1>1 DEF SendInv, FutureAbsent
    <2> QED
      BY <1>1, <2>4, <2>6, <2>8, <2>9 DEF SendInv
  <1> QED
    BY <1>1, <1>2, <1>3

LEMMA NextSendInv == SendInv /\ [Next]_vars => SendInv'
  <1> SUFFICES ASSUME SendInv, [Next]_vars PROVE SendInv'
    OBVIOUS
  <1>0. WellFormed
    BY DEF SendInv
  <1>1. CASE OutboundCreate
    BY <1>1, CreateSendInv
  <1>2. CASE \E i \in PromptIds : OutboundCancel(i)
    BY <1>0, <1>2, CancelTyped, QuietStep DEF OutboundCancel
  <1>3. ASSUME NEW t \in Tabs, PollerStep(t) PROVE SendInv'
    BY <1>0, <1>3, CallSendInv, SubmitSendInv, PageTyped, QuietStep DEF PollerStep
  <1>4. ASSUME NEW t \in Tabs, PageStep(t) PROVE SendInv'
    <2>1. CASE PanelReturn(t)
      BY <1>0, <2>1, PanelTyped, QuietStep DEF PanelReturn
    <2>2. CASE Reload(t) \/ Chat(t)
      BY <1>0, <2>2, PageTyped, QuietStep
    <2> QED
      BY <1>4, <2>1, <2>2 DEF PageStep
  <1>5. ASSUME NEW r \in late, ServeLate(r) PROVE SendInv'
    BY <1>0, <1>5, LateTyped, QuietStep DEF ServeLate
  <1>6. CASE Restart
    BY <1>0, <1>6, RestartTyped, QuietStep DEF Restart
  <1>7. CASE Tick
    BY <1>0, <1>7, TickTyped, QuietStep DEF Tick
  <1>8. CASE UNCHANGED vars
    <2>1. WellFormed' /\ NothingFreed
      BY <1>0, <1>8 DEF vars, WellFormed, ServerTyped, ClientTyped, NothingFreed, MayClaim
    <2> QED
      BY <1>8, <2>1, QuietStep DEF vars
  <1>9. CASE OtherPersists
    BY <1>0, <1>9, OtherPersistsTyped, QuietStep DEF OtherPersists
  <1> QED
    BY <1>1, <1>2, <1>3, <1>4, <1>5, <1>6, <1>7, <1>8, <1>9 DEF Next

\* No prompt is submitted to ChatGPT twice, for any number of pages, prompts
\* and late requests, however calls are lost or repeated, whatever the time
\* limits are, and wherever the server restarts.
THEOREM SubmittedOnce == Spec => []SubmittedAtMostOnce
  <1>1. SendInv => SubmittedAtMostOnce
    BY DEF SendInv
  <1> QED
    BY InitSendInv, NextSendInv, <1>1, PTL DEF Spec

-----------------------------------------------------------------------------
(* What a restart loses, what ends, and where replies are.                 *)
(*                                                                         *)
(* That memory and snapshot differ by expiries only is inductive; it makes *)
(* a restart harmless for what has ended.  That a returned prompt has its  *)
(* reply is not: the server takes the page's word for it, so the reply     *)
(* must be there before the page, or a late request of it, says so.        *)

HasReply(i) == Returned(i) # {} \/ SessionOf[i] \in pending

ReplyKnown ==
    /\ ReturnedHasReply
    /\ \A t \in Tabs : tabs[t].pc = "returned" => HasReply(tabs[t].id)
    /\ \A r \in late : r.op = "returned" => HasReply(r.id)

RelayInv == SendInv /\ OnlyExpiryUnsaved /\ OneInboundPerOutbound /\ ReplyKnown

EndedKept ==
    \A i \in PromptIds :
        prompts[i].status \in TerminalOutbound => prompts'[i].status = prompts[i].status

RepliesKept == \A i \in PromptIds : HasReply(i) => HasReply(i)'

\* What serving a request may do to what is said above.
ServedWell(r, ok) ==
    /\ OnlyExpiryUnsaved'
    /\ OneInboundPerOutbound'
    /\ EndedKept
    /\ RepliesKept
    /\ \A i \in PromptIds : prompts'[i].status = "returned" =>
         prompts[i].status = "returned" \/ (r.op = "returned" /\ i = r.id)
    /\ r.op = "extract" /\ ok => HasReply(r.id)'

LEMMA PersistedSaved == Persist => OnlyExpiryUnsaved'
  BY DEF Persist, OnlyExpiryUnsaved

LEMMA RepliesUntouched ==
    ASSUME UNCHANGED <<inbound, pending>>
    PROVE  RepliesKept /\ (OneInboundPerOutbound => OneInboundPerOutbound')
  BY DEF RepliesKept, HasReply, Returned, OneInboundPerOutbound

LEMMA ServerUntouchedWell ==
    ASSUME OnlyExpiryUnsaved, OneInboundPerOutbound, UNCHANGED serverVars
    PROVE  /\ OnlyExpiryUnsaved' /\ OneInboundPerOutbound' /\ EndedKept /\ RepliesKept
  <1>1. UNCHANGED <<prompts, contexts, inbound, pending, disk>>
    BY DEF serverVars
  <1> QED
    BY <1>1, RepliesUntouched DEF OnlyExpiryUnsaved, EndedKept

LEMMA NextServedWell ==
    ASSUME ServerTyped, OneInboundPerOutbound, NEW r \in GoodRequest, NEW ok \in BOOLEAN,
           OutboundNext(r, ok)
    PROVE  ServedWell(r, ok)
  <1>1. /\ prompts' = claimNext(prompts, tokens + 1)
        /\ tokens + 1 \in Nat
        /\ UNCHANGED <<inbound, pending>>
        /\ Persist
        /\ r.op = "next"
    BY DEF OutboundNext, ServerTyped
  <1>2. \A i \in PromptIds :
          /\ prompts[i].status \in TerminalOutbound => prompts'[i] = prompts[i]
          /\ prompts'[i].status = "returned" => prompts[i].status = "returned"
    <2>1. prompts \in [PromptIds -> OutboundPrompt] /\ PromptIds \in SUBSET Nat
      BY PromptIdsNat DEF ServerTyped
    <2>2. \A i \in PromptIds :
            /\ prompts[i].status \in TerminalOutbound =>
                 claimNext(prompts, tokens + 1)[i] = prompts[i]
            /\ claimNext(prompts, tokens + 1)[i].status = "returned" =>
                 prompts[i].status = "returned"
      BY <1>1, <2>1, ClaimNextFacts, SMTT(60)
    <2> QED
      BY <1>1, <2>2
  <1> QED
    BY <1>1, <1>2, PersistedSaved, RepliesUntouched DEF ServedWell, EndedKept

LEMMA AckServedWell ==
    ASSUME ServerTyped, OnlyExpiryUnsaved, OneInboundPerOutbound,
           NEW r \in GoodRequest, NEW ok \in BOOLEAN, OutboundAck(r, ok)
    PROVE  ServedWell(r, ok)
  <1>0. r.op \in {"ackOk", "ackFail"}
    BY DEF OutboundAck
  <1>1. CASE ~ok
    <2>1. UNCHANGED serverVars
      BY <1>1 DEF OutboundAck
    <2> QED
      BY <1>0, <1>1, <2>1, ServerUntouchedWell DEF ServedWell, serverVars
  <1>2. CASE ok
    <2> DEFINE p == acknowledge(prompts[r.id], r.op = "ackOk")
    <2>1. /\ r.id \in PromptIds
          /\ prompts[r.id].status = "claimed"
          /\ prompts' = [prompts EXCEPT ![r.id] = p]
          /\ UNCHANGED <<inbound, pending>>
          /\ Persist
      BY <1>2 DEF OutboundAck, GoodRequest, Carries, canAcknowledge
    <2>2. p.status \in {"waiting_manual_send", "failed"}
      BY DEF acknowledge, Ended, AbsentPrompt
    <2> HIDE DEF p
    <2>3. \A i \in PromptIds : prompts'[i] = IF i = r.id THEN p ELSE prompts[i]
      BY <2>1 DEF ServerTyped
    <2> QED
      BY <1>0, <2>1, <2>2, <2>3, PersistedSaved, RepliesUntouched
      DEF ServedWell, EndedKept, TerminalOutbound
  <1> QED
    BY <1>1, <1>2

\* A refused stage changes memory only where the authorization has lapsed.
LEMMA StageServedWell ==
    ASSUME ServerTyped, OnlyExpiryUnsaved, OneInboundPerOutbound,
           NEW r \in GoodRequest, NEW ok \in BOOLEAN, OutboundStage(r, ok)
    PROVE  ServedWell(r, ok)
  <1> DEFINE p == prompts[r.id]
             q == IF r.op = "submitted" THEN markSubmitted(p)
                  ELSE IF ~ok THEN p
                  ELSE IF r.op = "failed" THEN markFailed(p)
                  ELSE [p EXCEPT !.status = r.op]
  <1>1. /\ r.id \in PromptIds
        /\ r.op \in StageCalls
        /\ prompts' = [prompts EXCEPT ![r.id] = q]
        /\ UNCHANGED <<contexts, inbound, pending>>
        /\ IF ok THEN Persist ELSE UNCHANGED disk
    BY DEF OutboundStage, GoodRequest, Carries, StageCalls
  <1>2. p \in OutboundPrompt
    BY <1>1 DEF ServerTyped
  <1>3. /\ p.status \in TerminalOutbound => q = p
        /\ q.status = "returned" => p.status = "returned" \/ r.op = "returned"
        /\ ~ok => \/ q = p
                  \/ /\ p.status = "waiting_manual_send" /\ AuthorizationLapsed(p)
                     /\ q.status = "expired"
    <2>1. CASE r.op = "submitted"
      <3>1. ok = canMarkSubmitted(p)
        BY <2>1 DEF OutboundStage
      <3>2. q = markSubmitted(p)
        BY <2>1
      <3>3. /\ Ended("expired").status = "expired"
            /\ [AbsentPrompt EXCEPT !.status = "submitted"].status = "submitted"
        BY DEF Ended, AbsentPrompt
      <3> HIDE DEF p, q
      <3> QED
        BY <3>1, <3>2, <3>3 DEF markSubmitted, canMarkSubmitted, TerminalOutbound
    <2>2. CASE r.op # "submitted" /\ ~ok
      BY <2>2
    <2>3. CASE r.op = "failed" /\ ok
      <3>1. canMarkFailed(p)
        BY <2>3 DEF OutboundStage
      <3>2. q.status = "failed"
        BY <2>3 DEF markFailed, Ended, AbsentPrompt
      <3> QED
        BY <2>3, <3>1, <3>2 DEF canMarkFailed
    <2>4. CASE r.op \in {"responding", "response_ready", "returned"} /\ ok
      <3>1. p.status = StageFrom[r.op]
        BY <2>4 DEF OutboundStage
      <3>2. p.status \in {"submitted", "responding", "response_ready"}
        BY <2>4, <3>1 DEF StageFrom
      <3>3. q.status = r.op
        BY <1>2, <2>4 DEF OutboundPrompt
      <3> QED
        BY <2>4, <3>2, <3>3 DEF TerminalOutbound
    <2> QED
      BY <1>1, <2>1, <2>2, <2>3, <2>4 DEF StageCalls
  <1> HIDE DEF q
  <1>4. \A i \in PromptIds : prompts'[i] = IF i = r.id THEN q ELSE prompts[i]
    BY <1>1 DEF ServerTyped
  <1>5. OnlyExpiryUnsaved'
    <2>1. CASE ok
      BY <1>1, <2>1, PersistedSaved
    <2>2. CASE ~ok
      BY <1>1, <1>3, <1>4, <2>2 DEF OnlyExpiryUnsaved
    <2> QED
      BY <2>1, <2>2
  <1> QED
    BY <1>1, <1>3, <1>4, <1>5, RepliesUntouched DEF ServedWell, EndedKept, StageCalls

\* A message is made only for an operation that has none.
LEMMA ReturnServedWell ==
    ASSUME ServerTyped, OnlyExpiryUnsaved, OneInboundPerOutbound,
           NEW r \in GoodRequest, NEW ok \in BOOLEAN, ExtractReturn(r, ok)
    PROVE  ServedWell(r, ok)
  <1>1. /\ r.id \in PromptIds /\ r.op = "extract"
        /\ UNCHANGED prompts
    BY DEF ExtractReturn, GoodRequest, Carries, serverVars
  <1>2. EndedKept
    BY <1>1 DEF EndedKept
  <1>3. CASE UNCHANGED serverVars /\ (ok => Returned(r.id) # {})
    <2>1. ok => HasReply(r.id)'
      BY <1>3 DEF HasReply, Returned, serverVars
    <2> QED
      BY <1>1, <1>3, <2>1, ServerUntouchedWell DEF ServedWell
  <1>4. CASE Persist /\ UNCHANGED <<inbound>>
             /\ pending' = pending \cup {SessionOf[r.id]}
    <2>0. SessionOf[r.id] \in pending' /\ pending \subseteq pending'
      BY <1>4
    <2>1. RepliesKept /\ HasReply(r.id)'
      <3>1. HasReply(r.id)'
        BY <2>0 DEF HasReply
      <3>2. RepliesKept
        BY <1>4, <2>0 DEF RepliesKept, HasReply, Returned
      <3> QED
        BY <3>1, <3>2
    <2>2. OneInboundPerOutbound'
      BY <1>4 DEF OneInboundPerOutbound
    <2> QED
      BY <1>1, <1>2, <1>4, <2>1, <2>2, PersistedSaved DEF ServedWell
  <1>5. CASE Persist /\ UNCHANGED <<pending>> /\ Returned(r.id) = {}
             /\ inbound' = Append(inbound, r.id)
    <2> DEFINE m == Len(inbound) + 1
    <2>1. /\ inbound \in Seq(PromptIds)
          /\ DOMAIN inbound = 1..Len(inbound) /\ DOMAIN inbound' = 1..m
          /\ Len(inbound) \in Nat
          /\ \A n \in DOMAIN inbound : inbound'[n] = inbound[n]
          /\ inbound'[m] = r.id
      BY <1>5 DEF ServerTyped
    <2>2. \A n \in DOMAIN inbound : inbound[n] # r.id
      BY <1>5 DEF Returned
    <2> HIDE DEF m
    <2>3. DOMAIN inbound' = DOMAIN inbound \cup {m}
      BY <2>1 DEF m
    <2>4. OneInboundPerOutbound'
      BY <2>1, <2>2, <2>3 DEF OneInboundPerOutbound
    <2>5. RepliesKept /\ HasReply(r.id)'
      BY <1>5, <2>1, <2>3 DEF RepliesKept, HasReply, Returned
    <2> QED
      BY <1>1, <1>2, <1>5, <2>4, <2>5, PersistedSaved DEF ServedWell
  <1> QED
    BY <1>3, <1>4, <1>5 DEF ExtractReturn

LEMMA ServeWell ==
    ASSUME RelayInv, NEW r \in GoodRequest, NEW ok \in BOOLEAN, Serve(r, ok)
    PROVE  ServedWell(r, ok)
  <1>1. ServerTyped /\ OnlyExpiryUnsaved /\ OneInboundPerOutbound
    BY DEF RelayInv, SendInv, WellFormed
  <1> QED
    BY <1>1, NextServedWell, AckServedWell, StageServedWell, ReturnServedWell DEF Serve

\* Serving a request that may be asked, and what follows in the page that asked,
\* keeps replies known.
LEMMA ServedReplyKnown ==
    ASSUME RelayInv, NEW r \in GoodRequest, NEW ok \in BOOLEAN, ServedWell(r, ok),
           r.op = "returned" => HasReply(r.id),
           WellFormed',
           \A u \in Tabs : tabs'[u].pc = "returned" =>
                \/ tabs[u].pc = "returned" /\ tabs'[u].id = tabs[u].id
                \/ r.op = "extract" /\ ok /\ tabs'[u].id = r.id,
           \A q \in late' : q \in late \/ q.op # "returned" \/ q = r
    PROVE  SendInv' => RelayInv'
  <1>1. /\ RepliesKept
        /\ \A u \in Tabs : tabs[u].pc = "returned" => tabs[u].id \in PromptIds
        /\ \A q \in late : q.op = "returned" => q.id \in PromptIds
        /\ r.op = "returned" => r.id \in PromptIds
    BY DEF RelayInv, SendInv, WellFormed, ClientTyped, GoodTab, GoodRequest, Carries, ServedWell
  <1>2. \A i \in PromptIds : prompts'[i].status = "returned" => HasReply(i)'
    BY <1>1 DEF RelayInv, ReplyKnown, ReturnedHasReply, HasReply, ServedWell, RepliesKept
  <1>3. \A u \in Tabs : tabs'[u].pc = "returned" => HasReply(tabs[u].id)'
    BY <1>1 DEF RelayInv, ReplyKnown, ServedWell, RepliesKept
  <1>4. \A q \in late' : q.op = "returned" => HasReply(q.id)'
    BY <1>1 DEF RelayInv, ReplyKnown, RepliesKept
  <1>5. ReplyKnown'
    BY <1>2, <1>3, <1>4 DEF ReplyKnown, ReturnedHasReply, HasReply
  <1> QED
    BY <1>5 DEF RelayInv, ServedWell

LEMMA UntouchedWell ==
    ASSUME RelayInv, UNCHANGED serverVars, NEW r \in GoodRequest
    PROVE  ServedWell(r, FALSE)
  BY ServerUntouchedWell DEF RelayInv, ServedWell, serverVars

\* The other steps of a page and of ChatGPT report no prompt as returned.
LEMMA UntouchedRelayInv ==
    ASSUME RelayInv, SendInv', UNCHANGED serverVars, late' \subseteq late,
           \A u \in Tabs : tabs'[u].pc = "returned" =>
                tabs[u].pc = "returned" /\ tabs'[u].id = tabs[u].id
    PROVE  RelayInv' /\ EndedKept
  <1> DEFINE r == [op |-> "next", id |-> NoId, token |-> NoToken]
  <1>1. r \in GoodRequest /\ r.op = "next"
    BY DEF GoodRequest, Request, Carries, CallPcs, NoToken
  <1> HIDE DEF r
  <1>2. ServedWell(r, FALSE) /\ WellFormed'
    BY <1>1, UntouchedWell DEF SendInv
  <1> QED
    BY <1>1, <1>2, ServedReplyKnown DEF ServedWell

LEMMA AfterReturned ==
    ASSUME NEW tab \in GoodTab, tab.pc \in CallPcs, NEW ok \in BOOLEAN,
           After(tab, ok).pc = "returned"
    PROVE  tab.pc = "extract" /\ ok /\ After(tab, ok).id = tab.id
  <1>1. tab \in Tab
    BY DEF GoodTab
  <1>2. CASE tab.pc = "extract" /\ ok
    <2>1. After(tab, ok) = [tab EXCEPT !.pc = "returned"]
      BY <1>2 DEF After
    <2> QED
      BY <1>1, <1>2, <2>1 DEF Tab
  <1>3. CASE ~(tab.pc = "extract" /\ ok)
    <2>1. \/ \E pc \in {"responding", "wait", "extract", "failed"} :
               After(tab, ok) = [tab EXCEPT !.pc = pc]
          \/ After(tab, ok) = IdleTab
          \/ After(tab, ok) =
               [tab EXCEPT !.pc = "fill", !.id = NextClaim(prompts), !.token = tokens + 1]
          \/ After(tab, ok) = [tab EXCEPT !.pc = "submit", !.active = tab.id, !.activeAge = 0]
          \/ After(tab, ok) = [IdleTab EXCEPT !.active = tab.active, !.activeAge = tab.activeAge]
      BY <1>3 DEF After, CallPcs, StageCalls
    <2>2. \A pc \in {"responding", "wait", "extract", "failed"} :
            [tab EXCEPT !.pc = pc].pc # "returned"
      BY <1>1 DEF Tab
    <2>3. IdleTab.pc # "returned"
      BY DEF IdleTab
    <2>4. [tab EXCEPT !.pc = "fill", !.id = NextClaim(prompts), !.token = tokens + 1].pc
            # "returned"
      BY <1>1 DEF Tab
    <2>5. [tab EXCEPT !.pc = "submit", !.active = tab.id, !.activeAge = 0].pc # "returned"
      BY <1>1 DEF Tab
    <2>6. [IdleTab EXCEPT !.active = tab.active, !.activeAge = tab.activeAge].pc # "returned"
      BY DEF IdleTab
    <2> QED
      BY <2>1, <2>2, <2>3, <2>4, <2>5, <2>6
  <1> QED
    BY <1>2, <1>3

LEMMA CallRelayInv ==
    ASSUME RelayInv, NEW t \in Tabs, Call(t)
    PROVE  RelayInv' /\ EndedKept
  <1>1. /\ SendInv' /\ WellFormed'
        /\ tabs \in [Tabs -> GoodTab] /\ tabs[t] \in GoodTab
    BY CallSendInv DEF RelayInv, SendInv, WellFormed, ClientTyped
  <1>2. tabs[t].pc \in CallPcs
    BY DEF Call, Answered, AnswerLost, RequestLost
  <1>3. PICK r \in GoodRequest : r = RequestOf(tabs[t])
    BY <1>1, <1>2, RequestOfFacts
  <1>4. r.op = tabs[t].pc /\ r.id = tabs[t].id
    BY <1>3 DEF RequestOf
  <1>5. r.op = "returned" => HasReply(r.id)
    BY <1>4 DEF RelayInv, ReplyKnown
  <1>6. ASSUME NEW ok \in BOOLEAN, NEW seen \in BOOLEAN, seen => ok, ServedWell(r, ok),
               tabs' = [tabs EXCEPT ![t] = After(tabs[t], seen)],
               late' \subseteq late \cup {r}
        PROVE  RelayInv' /\ EndedKept
    <2>1. \A u \in Tabs : tabs'[u] = IF u = t THEN After(tabs[t], seen) ELSE tabs[u]
      BY <1>1, <1>6
    <2>2. After(tabs[t], seen).pc = "returned" =>
            r.op = "extract" /\ ok /\ After(tabs[t], seen).id = r.id
      BY <1>1, <1>2, <1>4, <1>6, AfterReturned
    <2>3. /\ \A u \in Tabs : tabs'[u].pc = "returned" =>
                \/ tabs[u].pc = "returned" /\ tabs'[u].id = tabs[u].id
                \/ r.op = "extract" /\ ok /\ tabs'[u].id = r.id
          /\ \A q \in late' : q \in late \/ q.op # "returned" \/ q = r
      BY <1>6, <2>1, <2>2
    <2> QED
      BY <1>1, <1>5, <1>6, <2>3, ServedReplyKnown DEF ServedWell
  <1>7. CASE Answered(t)
    <2>1. PICK ok \in BOOLEAN :
            Serve(r, ok) /\ tabs' = [tabs EXCEPT ![t] = After(tabs[t], ok)]
      BY <1>3, <1>7 DEF Answered
    <2> QED
      BY <1>6, <1>7, <2>1, ServeWell DEF Answered
  <1>8. CASE AnswerLost(t)
    <2>1. PICK ok \in BOOLEAN : Serve(r, ok)
      BY <1>3, <1>8 DEF AnswerLost
    <2>2. tabs' = [tabs EXCEPT ![t] = After(tabs[t], FALSE)] /\ late' = late
      BY <1>8 DEF AnswerLost
    <2> QED
      BY <1>6, <2>1, <2>2, ServeWell
  <1>9. CASE RequestLost(t)
    <2>1. /\ tabs' = [tabs EXCEPT ![t] = After(tabs[t], FALSE)]
          /\ late' \subseteq late \cup {r}
          /\ UNCHANGED serverVars
      BY <1>3, <1>9 DEF RequestLost, Abandon
    <2> QED
      BY <1>6, <2>1, UntouchedWell
  <1> QED
    BY <1>7, <1>8, <1>9 DEF Call

LEMMA LateRelayInv ==
    ASSUME RelayInv, SendInv', NEW r \in late, ServeLate(r)
    PROVE  RelayInv' /\ EndedKept
  <1>1. r \in GoodRequest /\ WellFormed'
    BY DEF RelayInv, SendInv, WellFormed, ClientTyped
  <1>2. PICK ok \in BOOLEAN : Serve(r, ok)
    BY DEF ServeLate
  <1>3. ServedWell(r, ok)
    BY <1>1, <1>2, ServeWell
  <1>4. r.op = "returned" => HasReply(r.id)
    BY DEF RelayInv, ReplyKnown
  <1>5. UNCHANGED tabs /\ late' \subseteq late
    BY DEF ServeLate
  <1> QED
    BY <1>1, <1>3, <1>4, <1>5, ServedReplyKnown DEF ServedWell

LEMMA PanelRelayInv ==
    ASSUME RelayInv, SendInv', NEW t \in Tabs, PanelReturn(t)
    PROVE  RelayInv' /\ EndedKept
  <1>1. /\ tabs \in [Tabs -> GoodTab] /\ tabs[t] \in Tab
        /\ WellFormed'
    BY DEF RelayInv, SendInv, WellFormed, ClientTyped, GoodTab
  <1>3. PICK r : r = [op |-> "extract", id |-> tabs[t].active, token |-> NoToken]
    OBVIOUS
  <1>2. SubmitReturn(t, r)
    BY <1>3 DEF PanelReturn
  <1>4. r.op = "extract" /\ r \in GoodRequest
    <2>1. tabs[t].active \in PromptIds
      BY <1>1 DEF PanelReturn, ActiveFresh, Tab
    <2> QED
      BY <1>3, <2>1 DEF GoodRequest, Request, Carries, CallPcs, NoToken
  <1>5. \A u \in Tabs : tabs'[u].pc = tabs[u].pc /\ tabs'[u].id = tabs[u].id
    BY PanelTyped DEF RelayInv, SendInv
  <1>6. PICK ok \in BOOLEAN : ServedWell(r, ok) /\ late' \subseteq late \cup {r}
    <2>1. CASE Abandon(r) /\ UNCHANGED <<serverVars, tokens, tabs>>
      BY <1>4, <2>1, UntouchedWell DEF Abandon
    <2>2. CASE UNCHANGED late /\ \E ok \in BOOLEAN : ExtractReturn(r, ok)
      BY <1>4, <2>2, ServeWell DEF Serve
    <2> QED
      BY <1>3, <1>2, <2>1, <2>2 DEF SubmitReturn
  <1> QED
    BY <1>1, <1>4, <1>5, <1>6, ServedReplyKnown DEF ServedWell

\* A step without a call and without a page.
LEMMA StoreRelayInv ==
    ASSUME RelayInv, SendInv', OnlyExpiryUnsaved',
           UNCHANGED <<inbound, pending, late>>,
           \A i \in PromptIds :
                prompts'[i].status = "returned" => prompts[i].status = "returned",
           \A u \in Tabs : tabs'[u].pc = tabs[u].pc /\ tabs'[u].id = tabs[u].id
    PROVE  RelayInv'
  <1>1. RepliesKept /\ OneInboundPerOutbound'
    BY RepliesUntouched DEF RelayInv
  <1>2. /\ \A u \in Tabs : tabs[u].pc = "returned" => tabs[u].id \in PromptIds
        /\ \A q \in late : q.op = "returned" => q.id \in PromptIds
    BY DEF RelayInv, SendInv, WellFormed, ClientTyped, GoodTab, GoodRequest, Carries
  <1>3. \A i \in PromptIds : prompts'[i].status = "returned" => HasReply(i)'
    BY <1>1 DEF RelayInv, ReplyKnown, ReturnedHasReply, HasReply, RepliesKept
  <1>4. \A u \in Tabs : tabs'[u].pc = "returned" => HasReply(tabs[u].id)'
    BY <1>1, <1>2 DEF RelayInv, ReplyKnown, RepliesKept
  <1>5. \A q \in late' : q.op = "returned" => HasReply(q.id)'
    BY <1>1, <1>2 DEF RelayInv, ReplyKnown, RepliesKept
  <1>6. ReplyKnown'
    BY <1>3, <1>4, <1>5 DEF ReplyKnown, ReturnedHasReply, HasReply
  <1> QED
    BY <1>1, <1>6 DEF RelayInv

LEMMA CreateRelayInv ==
    ASSUME RelayInv, SendInv', OutboundCreate
    PROVE  RelayInv' /\ EndedKept
  <1>1. created + 1 \in PromptIds /\ created + 1 > created
    BY RelayAssumption
    DEF OutboundCreate, RelayInv, SendInv, WellFormed, ClientTyped, PromptIds
  <1>2. Absent(prompts[created + 1])
    BY <1>1 DEF RelayInv, SendInv, FutureAbsent
  <1>3. /\ createOutboundPrompt.status = "queued"
        /\ \A i \in PromptIds :
             prompts'[i] = IF i = created + 1 THEN createOutboundPrompt ELSE prompts[i]
    BY DEF OutboundCreate, RelayInv, SendInv, WellFormed, ServerTyped, createOutboundPrompt,
           AbsentPrompt
  <1>4. EndedKept
    BY <1>2, <1>3 DEF EndedKept, Absent, TerminalOutbound
  <1>5. RelayInv'
    BY <1>3, PersistedSaved, StoreRelayInv DEF OutboundCreate
  <1> QED
    BY <1>4, <1>5

LEMMA CancelRelayInv ==
    ASSUME RelayInv, SendInv', NEW j \in PromptIds, OutboundCancel(j)
    PROVE  RelayInv' /\ EndedKept
  <1>1. /\ Ended("cancelled").status = "cancelled"
        /\ \A i \in PromptIds :
             prompts'[i] = IF i = j THEN Ended("cancelled") ELSE prompts[i]
    BY DEF OutboundCancel, RelayInv, SendInv, WellFormed, ServerTyped, cancel, Ended,
           AbsentPrompt
  <1>2. EndedKept
    BY <1>1 DEF EndedKept, OutboundCancel, canCancel, PreSubmission, TerminalOutbound
  <1>3. RelayInv'
    BY <1>1, PersistedSaved, StoreRelayInv DEF OutboundCancel
  <1> QED
    BY <1>2, <1>3

\* A restart brings back what was saved, which was returned in memory, too.
LEMMA OtherPersistsRelayInv ==
    ASSUME RelayInv, SendInv', OtherPersists
    PROVE  RelayInv' /\ EndedKept
  <1>1. OnlyExpiryUnsaved'
    BY PersistedSaved DEF OtherPersists
  <1>2. /\ UNCHANGED <<prompts, contexts, inbound, pending, tabs, late>>
    BY DEF OtherPersists
  <1>3. OneInboundPerOutbound' /\ EndedKept
    BY <1>2 DEF RelayInv, OneInboundPerOutbound, EndedKept
  <1>4. ReplyKnown'
    BY <1>2 DEF RelayInv, ReplyKnown, ReturnedHasReply, HasReply, Returned
  <1> QED
    BY <1>1, <1>3, <1>4 DEF RelayInv

LEMMA RestartRelayInv ==
    ASSUME RelayInv, SendInv', Restart
    PROVE  RelayInv'
  <1>1. /\ prompts' = disk.prompts
        /\ UNCHANGED <<contexts, inbound, pending, late, tabs, disk>>
    BY DEF Restart, RelayInv, OnlyExpiryUnsaved
  <1>2. OnlyExpiryUnsaved'
    BY <1>1 DEF RelayInv, OnlyExpiryUnsaved
  <1>3. \A i \in PromptIds :
          prompts'[i].status = "returned" => prompts[i].status = "returned"
    BY <1>1 DEF RelayInv, OnlyExpiryUnsaved
  <1> QED
    BY <1>1, <1>2, <1>3, StoreRelayInv

LEMMA AgeLapsed ==
    ASSUME NEW p \in OutboundPrompt, AuthorizationLapsed(p)
    PROVE  AuthorizationLapsed(Age(p))
  BY TTLAssumption DEF AuthorizationLapsed, Age, Older, OutboundPrompt

LEMMA TickRelayInv ==
    ASSUME RelayInv, SendInv', Tick
    PROVE  RelayInv' /\ EndedKept
  <1>1. /\ prompts \in [PromptIds -> OutboundPrompt]
        /\ disk.prompts \in [PromptIds -> OutboundPrompt]
        /\ disk \in Snapshot
    BY DEF RelayInv, SendInv, WellFormed, ServerTyped, Snapshot
  <1>2. \A i \in PromptIds : prompts'[i] = Age(prompts[i])
    BY DEF Tick
  <1>3. /\ \A i \in PromptIds : disk'.prompts[i] = Age(disk.prompts[i])
        /\ disk'.contexts = disk.contexts /\ disk'.inbound = disk.inbound
        /\ disk'.pending = disk.pending
    BY <1>1 DEF Tick, Snapshot
  <1>4. \A i \in PromptIds : /\ prompts'[i].status = prompts[i].status
                             /\ disk'.prompts[i].status = disk.prompts[i].status
    BY <1>1, <1>2, <1>3, AgeFacts
  <1>5. UNCHANGED <<contexts, inbound, pending, late>>
    BY DEF Tick
  <1>6. OnlyExpiryUnsaved'
    BY <1>1, <1>2, <1>3, <1>4, <1>5, AgeLapsed DEF RelayInv, OnlyExpiryUnsaved
  <1>7. \A u \in Tabs : tabs'[u].pc = tabs[u].pc /\ tabs'[u].id = tabs[u].id
    BY TickTyped DEF RelayInv, SendInv
  <1> QED
    BY <1>4, <1>5, <1>6, <1>7, StoreRelayInv DEF EndedKept

\* Steps of a page without a call, and of ChatGPT.
LEMMA PageRelayInv ==
    ASSUME RelayInv, SendInv', NEW t \in Tabs,
           \/ StartTick(t) \/ Fill(t) \/ Submit(t) \/ WaitReply(t) \/ Reload(t)
           \/ Chat(t)
    PROVE  RelayInv' /\ EndedKept
  <1>1. tabs \in [Tabs -> GoodTab] /\ tabs[t] \in Tab
    BY DEF RelayInv, SendInv, WellFormed, ClientTyped, GoodTab
  <1>2. UNCHANGED <<serverVars, late>>
    BY ChatFrame DEF StartTick, Fill, Submit, WaitReply, Reload, serverVars
  <1>3. /\ \A u \in Tabs : u # t => tabs'[u] = tabs[u]
        /\ tabs'[t].pc # "returned" \/ tabs'[t] = tabs[t]
    <2>1. CASE StartTick(t) \/ Reload(t)
      BY <1>1, <2>1 DEF StartTick, Reload, IdleTab
    <2>2. CASE Fill(t) \/ Submit(t)
      BY <1>1, <2>2 DEF Fill, Submit, Tab
    <2>3. CASE WaitReply(t)
      BY <1>1, <2>3 DEF WaitReply, Tab
    <2>4. CASE Chat(t)
      BY <2>4, ChatFrame
    <2> QED
      BY <2>1, <2>2, <2>3, <2>4
  <1> QED
    BY <1>2, <1>3, UntouchedRelayInv

LEMMA InitRelayInv == Init => RelayInv
  <1> SUFFICES ASSUME Init PROVE RelayInv
    OBVIOUS
  <1>1. SendInv
    BY InitSendInv
  <1>2. \A i \in PromptIds : prompts[i].status = "absent"
    BY DEF Init, EmptySnapshot, AbsentPrompt
  <1>3. OnlyExpiryUnsaved /\ OneInboundPerOutbound
    BY DEF Init, EmptySnapshot, OnlyExpiryUnsaved, OneInboundPerOutbound
  <1>4. ReplyKnown
    BY <1>2, IdleTabFacts DEF Init, ReplyKnown, ReturnedHasReply
  <1> QED
    BY <1>1, <1>3, <1>4 DEF RelayInv

\* A restart undoes an expiry that was not saved; nothing else moves what ended.
LEMMA NextRelayInv ==
    ASSUME RelayInv, [Next]_vars
    PROVE  RelayInv' /\ (EndedKept \/ Restart)
  <1>1. SendInv'
    BY NextSendInv DEF RelayInv
  <1>2. CASE OutboundCreate
    BY <1>1, <1>2, CreateRelayInv
  <1>3. CASE \E i \in PromptIds : OutboundCancel(i)
    BY <1>1, <1>3, CancelRelayInv
  <1>4. ASSUME NEW t \in Tabs, PollerStep(t) \/ PageStep(t)
        PROVE  RelayInv' /\ EndedKept
    BY <1>1, <1>4, CallRelayInv, PageRelayInv, PanelRelayInv DEF PollerStep, PageStep
  <1>5. CASE \E r \in late : ServeLate(r)
    BY <1>1, <1>5, LateRelayInv
  <1>6. CASE Restart
    BY <1>1, <1>6, RestartRelayInv
  <1>7. CASE Tick
    BY <1>1, <1>7, TickRelayInv
  <1>8. CASE UNCHANGED vars
    <2>1. UNCHANGED <<serverVars, late, tabs>>
      BY <1>8 DEF vars, serverVars
    <2> QED
      BY <1>1, <2>1, UntouchedRelayInv
  <1>9. CASE OtherPersists
    BY <1>1, <1>9, OtherPersistsRelayInv
  <1> QED
    BY <1>2, <1>3, <1>4, <1>5, <1>6, <1>7, <1>8, <1>9 DEF Next

LEMMA AlwaysRelayInv == Spec => []RelayInv
  BY InitRelayInv, NextRelayInv, PTL DEF Spec

\* However requests are repeated, raced by the panel, or served late: at most
\* one inbound message answers a prompt.
THEOREM AnsweredOnce == Spec => []OneInboundPerOutbound
  BY AlwaysRelayInv, PTL DEF RelayInv

\* At every point of every behaviour, a restart loses at most the expiry that
\* a refused stage has noticed.
THEOREM RestartLosesOnlyExpiry == Spec => []OnlyExpiryUnsaved
  BY AlwaysRelayInv, PTL DEF RelayInv

\* What the server calls returned has its reply on the server.
THEOREM ReturnedWithReply == Spec => []ReturnedHasReply
  BY AlwaysRelayInv, PTL DEF RelayInv, ReplyKnown

\* No request, in time or late, moves a prompt that has ended, and a restart
\* brings back none but one whose expiry was not saved, its authorization lapsed.
THEOREM EndedStays == Spec => EndedStaysEnded
  <1> DEFINE Step ==
        \A i \in PromptIds : prompts[i].status \in TerminalOutbound =>
          \/ prompts'[i].status = prompts[i].status
          \/ /\ prompts[i].status = "expired"
             /\ prompts'[i].status = "waiting_manual_send"
             /\ AuthorizationLapsed(prompts'[i])
  <1>1. RelayInv /\ [Next]_vars => [Step]_vars
    <2> SUFFICES ASSUME RelayInv, [Next]_vars PROVE Step
      OBVIOUS
    <2>1. CASE EndedKept
      BY <2>1 DEF EndedKept
    <2>2. CASE Restart
      <3>1. prompts' = disk.prompts
        BY <2>2 DEF Restart
      <3> QED
        BY <3>1 DEF RelayInv, OnlyExpiryUnsaved
    <2> QED
      BY <2>1, <2>2, NextRelayInv
  <1>2. EndedStaysEnded <=> [][Step]_vars
    BY DEF EndedStaysEnded
  <1> HIDE DEF Step
  <1> QED
    BY AlwaysRelayInv, <1>1, <1>2, PTL DEF Spec

-----------------------------------------------------------------------------
(* The relay keeps RelayContract.                                          *)
(*                                                                         *)
(* One fact is missing for that.  What a page is about to submit, and what *)
(* is a session's context, was acknowledged (`HandedWell'): the server's   *)
(* status has left the queue for good, so nothing hands the prompt over a  *)
(* second time, and an answer never precedes the hand-over.                *)

HandedWell ==
    /\ \A t \in Tabs : tabs[t].pc = "submit" => ~Early(prompts[tabs[t].id])
    /\ \A s \in Sessions : contexts[s] # NoId => ~Early(prompts[contexts[s]])

ContractInv == RelayInv /\ HandedWell

\* A step of the server leads no prompt back before its acknowledgement, makes
\* none and forgets none.
StatusMoves ==
    \A i \in PromptIds : /\ Early(prompts'[i]) => Early(prompts[i])
                         /\ Absent(prompts'[i]) <=> Absent(prompts[i])

\* Which answers the serving of a request adds.
AnswersMove(r) ==
    /\ \A i \in PromptIds :
         \/ Returned(i)' = Returned(i)
         \/ /\ r.op = "extract" /\ i = r.id
            /\ Returned(i) = {} /\ \E m : Returned(i)' = {m}
            /\ contexts[SessionOf[i]] = i
    /\ pending \subseteq pending'

ServedMoves(r, ok) ==
    /\ StatusMoves
    /\ \A s \in Sessions : contexts'[s] # NoId =>
         \/ contexts'[s] = contexts[s]
         \/ contexts'[s] = r.id /\ ~Early(prompts'[r.id])
    /\ r.op = "ackOk" /\ ok => prompts[r.id].status = "claimed" /\ ~Early(prompts'[r.id])
    /\ AnswersMove(r)

LEMMA AnswersUntouched ==
    ASSUME UNCHANGED <<inbound, pending>>, NEW r
    PROVE  AnswersMove(r)
  BY DEF AnswersMove, Returned

LEMMA ServerUntouchedMoves ==
    ASSUME UNCHANGED serverVars, NEW r
    PROVE  ServedMoves(r, FALSE)
  BY AnswersUntouched DEF serverVars, ServedMoves, StatusMoves

LEMMA NextServedMoves ==
    ASSUME ServerTyped, NEW r \in GoodRequest, NEW ok \in BOOLEAN, OutboundNext(r, ok)
    PROVE  ServedMoves(r, ok)
  <1>1. /\ prompts' = claimNext(prompts, tokens + 1)
        /\ tokens + 1 \in Nat
        /\ UNCHANGED <<contexts, inbound, pending>>
        /\ r.op = "next"
    BY DEF OutboundNext, ServerTyped
  <1>2. StatusMoves
    BY <1>1, PromptIdsNat, ClaimNextFacts DEF ServerTyped, StatusMoves
  <1> QED
    BY <1>1, <1>2, AnswersUntouched DEF ServedMoves

LEMMA AckServedMoves ==
    ASSUME ServerTyped, NEW r \in GoodRequest, NEW ok \in BOOLEAN, OutboundAck(r, ok)
    PROVE  ServedMoves(r, ok)
  <1>1. CASE ~ok
    <2>1. UNCHANGED serverVars
      BY <1>1 DEF OutboundAck
    <2> QED
      BY <1>1, <2>1, ServerUntouchedMoves DEF ServedMoves
  <1>2. CASE ok
    <2> DEFINE p == acknowledge(prompts[r.id], r.op = "ackOk")
    <2>1. /\ r.id \in PromptIds
          /\ prompts[r.id].status = "claimed"
          /\ prompts' = [prompts EXCEPT ![r.id] = p]
          /\ contexts' \in {contexts, [contexts EXCEPT ![SessionOf[r.id]] = r.id]}
          /\ UNCHANGED <<inbound, pending>>
      BY <1>2 DEF OutboundAck, GoodRequest, Carries, canAcknowledge
    <2>2. p.status \in {"waiting_manual_send", "failed"}
      BY DEF acknowledge, Ended, AbsentPrompt
    <2> HIDE DEF p
    <2>3. \A i \in PromptIds : prompts'[i] = IF i = r.id THEN p ELSE prompts[i]
      BY <2>1 DEF ServerTyped
    <2>4. StatusMoves /\ ~Early(prompts'[r.id])
      BY <2>1, <2>2, <2>3 DEF StatusMoves, Early, Absent
    <2>5. \A s \in Sessions : contexts'[s] \in {contexts[s], r.id}
      BY <2>1 DEF ServerTyped
    <2> QED
      BY <2>1, <2>4, <2>5, AnswersUntouched DEF ServedMoves
  <1> QED
    BY <1>1, <1>2

LEMMA StageServedMoves ==
    ASSUME ServerTyped, NEW r \in GoodRequest, NEW ok \in BOOLEAN, OutboundStage(r, ok)
    PROVE  ServedMoves(r, ok)
  <1> DEFINE p == prompts[r.id]
             q == IF r.op = "submitted" THEN markSubmitted(p)
                  ELSE IF ~ok THEN p
                  ELSE IF r.op = "failed" THEN markFailed(p)
                  ELSE [p EXCEPT !.status = r.op]
  <1>1. /\ r.id \in PromptIds
        /\ r.op \in StageCalls
        /\ prompts' = [prompts EXCEPT ![r.id] = q]
        /\ UNCHANGED <<contexts, inbound, pending>>
    BY DEF OutboundStage, GoodRequest, Carries, StageCalls
  <1>2. p \in OutboundPrompt
    BY <1>1 DEF ServerTyped
  <1>3. q = p \/ (~Absent(p) /\ ~Early(q))
    <2>1. CASE r.op = "submitted"
      <3>1. /\ Ended("expired").status = "expired"
            /\ [AbsentPrompt EXCEPT !.status = "submitted"].status = "submitted"
        BY DEF Ended, AbsentPrompt
      <3>2. q = markSubmitted(p)
        BY <2>1
      <3> HIDE DEF p, q
      <3> QED
        BY <3>1, <3>2 DEF markSubmitted, Early, Absent
    <2>2. CASE r.op # "submitted" /\ ~ok
      BY <2>2
    <2>3. CASE r.op = "failed" /\ ok
      <3>1. canMarkFailed(p)
        BY <2>3 DEF OutboundStage
      <3>2. q.status = "failed"
        BY <2>3 DEF markFailed, Ended, AbsentPrompt
      <3> QED
        BY <3>1, <3>2 DEF canMarkFailed, Early, Absent
    <2>4. CASE r.op \in {"responding", "response_ready", "returned"} /\ ok
      <3>1. p.status = StageFrom[r.op]
        BY <2>4 DEF OutboundStage
      <3>2. p.status \in {"submitted", "responding", "response_ready"}
        BY <2>4, <3>1 DEF StageFrom
      <3>3. q.status = r.op
        BY <1>2, <2>4 DEF OutboundPrompt
      <3> QED
        BY <2>4, <3>2, <3>3 DEF Early, Absent
    <2> QED
      BY <1>1, <2>1, <2>2, <2>3, <2>4 DEF StageCalls
  <1> HIDE DEF q
  <1>4. \A i \in PromptIds : prompts'[i] = IF i = r.id THEN q ELSE prompts[i]
    BY <1>1 DEF ServerTyped
  <1>5. StatusMoves
    BY <1>1, <1>3, <1>4 DEF StatusMoves, Early, Absent
  <1> QED
    BY <1>1, <1>5, AnswersUntouched DEF ServedMoves, StageCalls

LEMMA ReturnServedMoves ==
    ASSUME ServerTyped, NEW r \in GoodRequest, NEW ok \in BOOLEAN, ExtractReturn(r, ok)
    PROVE  ServedMoves(r, ok)
  <1>1. /\ r.id \in PromptIds /\ r.op = "extract"
        /\ UNCHANGED <<prompts, contexts>>
    BY DEF ExtractReturn, GoodRequest, Carries, serverVars
  <1>2. SUFFICES AnswersMove(r)
    BY <1>1 DEF ServedMoves, StatusMoves
  <1>3. CASE UNCHANGED serverVars
    BY <1>3, AnswersUntouched DEF serverVars
  <1>4. CASE /\ UNCHANGED <<inbound>>
             /\ pending' = pending \cup {SessionOf[r.id]}
    BY <1>1, <1>4 DEF AnswersMove, Returned
  <1>5. CASE /\ UNCHANGED <<pending>> /\ Returned(r.id) = {}
             /\ contexts[SessionOf[r.id]] = r.id
             /\ inbound' = Append(inbound, r.id)
    <2> DEFINE m == Len(inbound) + 1
    <2>1. /\ DOMAIN inbound' = DOMAIN inbound \cup {m}
          /\ m \notin DOMAIN inbound
          /\ \A n \in DOMAIN inbound : inbound'[n] = inbound[n]
          /\ inbound'[m] = r.id
      BY <1>5 DEF ServerTyped
    <2> HIDE DEF m
    <2>2. Returned(r.id)' = {m}
      BY <1>5, <2>1 DEF Returned
    <2>4. \A i \in PromptIds \ {r.id} : Returned(i)' = Returned(i)
      BY <2>1 DEF Returned
    <2> QED
      BY <1>1, <1>5, <2>2, <2>4 DEF AnswersMove
  <1> QED
    BY <1>3, <1>4, <1>5 DEF ExtractReturn

LEMMA ServeMoves ==
    ASSUME ServerTyped, NEW r \in GoodRequest, NEW ok \in BOOLEAN, Serve(r, ok)
    PROVE  ServedMoves(r, ok)
  BY NextServedMoves, AckServedMoves, StageServedMoves, ReturnServedMoves DEF Serve

-----------------------------------------------------------------------------
(* The page's side.                                                        *)

\* A call leads to the click only as an accepted acknowledgement.
LEMMA AfterSubmits ==
    ASSUME NEW tab \in GoodTab, tab.pc \in CallPcs, NEW ok \in BOOLEAN
    PROVE  After(tab, ok).pc = "submit" =>
                tab.pc = "ackOk" /\ ok /\ After(tab, ok).id = tab.id
  <1>1. tab \in Tab
    BY DEF GoodTab
  <1>2. CASE tab.pc = "ackOk" /\ ok
    <2>1. After(tab, ok) = [tab EXCEPT !.pc = "submit", !.active = tab.id, !.activeAge = 0]
      BY <1>2 DEF After
    <2> QED
      BY <1>1, <1>2, <2>1 DEF Tab
  <1>3. CASE ~(tab.pc = "ackOk" /\ ok)
    <2>1. \/ \E pc \in {"responding", "wait", "extract", "returned", "failed"} :
               After(tab, ok) = [tab EXCEPT !.pc = pc]
          \/ After(tab, ok) = IdleTab
          \/ After(tab, ok) =
               [tab EXCEPT !.pc = "fill", !.id = NextClaim(prompts), !.token = tokens + 1]
          \/ After(tab, ok) = [IdleTab EXCEPT !.active = tab.active, !.activeAge = tab.activeAge]
      BY <1>3 DEF After, CallPcs, StageCalls
    <2>2. \A pc \in {"responding", "wait", "extract", "returned", "failed"} :
            [tab EXCEPT !.pc = pc].pc # "submit"
      BY <1>1 DEF Tab
    <2>3. IdleTab.pc # "submit"
      BY DEF IdleTab
    <2> DEFINE claimed ==
                 [tab EXCEPT !.pc = "fill", !.id = NextClaim(prompts), !.token = tokens + 1]
    <2>4. claimed.pc # "submit"
      BY <1>1 DEF Tab
    <2> DEFINE left == [IdleTab EXCEPT !.active = tab.active, !.activeAge = tab.activeAge]
    <2>5. left.pc # "submit"
      BY DEF IdleTab
    <2> QED
      BY <2>1, <2>2, <2>3, <2>4, <2>5
  <1> QED
    BY <1>2, <1>3

-----------------------------------------------------------------------------
(* One prompt in one step.                                                 *)

\* Where a prompt is, by cases.
LEMMA StageCases ==
    ASSUME NEW i \in PromptIds, sends[i] \in Nat
    PROVE  /\ sends[i] > 0 => StageOf(i) = "posted"
           /\ sends[i] = 0 /\ Held(i) => StageOf(i) = "held"
           /\ sends[i] = 0 /\ ~Held(i) /\ Absent(prompts[i]) => StageOf(i) = "none"
           /\ sends[i] = 0 /\ ~Held(i) /\ Early(prompts[i]) /\ ~Absent(prompts[i]) =>
                StageOf(i) = "open"
           /\ sends[i] = 0 /\ ~Held(i) /\ ~Early(prompts[i]) => StageOf(i) = "over"
  BY DEF StageOf, Early, Absent

LEMMA StageCasesPrime ==
    ASSUME NEW i \in PromptIds, sends'[i] \in Nat
    PROVE  /\ sends'[i] > 0 => StageOf(i)' = "posted"
           /\ sends'[i] = 0 /\ Held(i)' => StageOf(i)' = "held"
           /\ sends'[i] = 0 /\ ~Held(i)' /\ Absent(prompts'[i]) => StageOf(i)' = "none"
           /\ sends'[i] = 0 /\ ~Held(i)' /\ Early(prompts'[i]) /\ ~Absent(prompts'[i]) =>
                StageOf(i)' = "open"
           /\ sends'[i] = 0 /\ ~Held(i)' /\ ~Early(prompts'[i]) => StageOf(i)' = "over"
  BY DEF StageOf, Early, Absent

\* A prompt that is not posted in the step moves as the contract says, if only
\* acknowledged prompts are held and one becomes held when it is acknowledged.
LEMMA PromptMoves ==
    ASSUME NEW i \in PromptIds, sends[i] \in Nat, sends'[i] = sends[i],
           Early(prompts'[i]) => Early(prompts[i]),
           Absent(prompts'[i]) <=> Absent(prompts[i]),
           Held(i) => ~Early(prompts[i]),
           Held(i)' => ~Early(prompts'[i]),
           Held(i)' => Held(i) \/ prompts[i].status = "claimed"
    PROVE  Contract!Moves(i)
  <1>1. /\ Absent(prompts[i]) => Early(prompts[i])
        /\ prompts[i].status = "claimed" => Early(prompts[i]) /\ ~Absent(prompts[i])
        /\ sends'[i] \in Nat
    BY DEF Early, Absent
  <1>2. CASE sends[i] > 0
    <2>1. StageOf(i) = "posted" /\ StageOf(i)' = "posted"
      BY <1>1, <1>2, StageCases, StageCasesPrime
    <2> QED
      BY <2>1 DEF Contract!Moves, Contract!Rests
  <1>3. CASE sends[i] = 0 /\ Held(i)
    <2>1. StageOf(i) = "held" /\ StageOf(i)' \in {"held", "over"}
      BY <1>1, <1>3, StageCases, StageCasesPrime
    <2> QED
      BY <2>1 DEF Contract!Moves, Contract!Rests, Contract!Ends
  <1>4. CASE sends[i] = 0 /\ ~Held(i) /\ Absent(prompts[i])
    <2>1. StageOf(i) = "none" /\ StageOf(i)' = "none"
      BY <1>1, <1>4, StageCases, StageCasesPrime
    <2> QED
      BY <2>1 DEF Contract!Moves, Contract!Rests
  <1>5. CASE sends[i] = 0 /\ ~Held(i) /\ Early(prompts[i]) /\ ~Absent(prompts[i])
    <2>1. StageOf(i) = "open" /\ StageOf(i)' \in {"held", "open", "over"}
      BY <1>1, <1>5, StageCases, StageCasesPrime
    <2> QED
      BY <2>1 DEF Contract!Moves, Contract!Rests, Contract!Ends, Contract!IsHandedOver
  <1>6. CASE sends[i] = 0 /\ ~Held(i) /\ ~Early(prompts[i])
    <2>1. StageOf(i) = "over" /\ StageOf(i)' = "over"
      BY <1>1, <1>6, StageCases, StageCasesPrime
    <2> QED
      BY <2>1 DEF Contract!Moves, Contract!Rests
  <1> QED
    BY <1>2, <1>3, <1>4, <1>5, <1>6

-----------------------------------------------------------------------------
(* The steps.                                                              *)

\* A step that serves a request, or none, and posts nothing.
LEMMA ServedContract ==
    ASSUME ContractInv, RelayInv', NEW r \in GoodRequest, NEW ok \in BOOLEAN,
           ServedMoves(r, ok), UNCHANGED sends,
           \A t \in Tabs : tabs'[t].pc = "submit" =>
                \/ tabs[t].pc = "submit" /\ tabs'[t].id = tabs[t].id
                \/ r.op = "ackOk" /\ ok /\ tabs'[t].id = r.id
    PROVE  ContractInv' /\ Contract!Next
  <1>1. /\ sends \in [PromptIds -> Nat] /\ tabs \in [Tabs -> GoodTab]
        /\ contexts \in [Sessions -> PromptIds \cup {NoId}]
        /\ contexts' \in [Sessions -> PromptIds \cup {NoId}]
        /\ r.op = "ackOk" => r.id \in PromptIds
        /\ r.op = "extract" => r.id \in PromptIds
        /\ \A t \in Tabs : tabs[t].pc = "submit" => tabs[t].id \in PromptIds
    BY DEF ContractInv, RelayInv, SendInv, WellFormed, ServerTyped, ClientTyped, GoodRequest,
           GoodTab, Carries
  <1>3. \A t \in Tabs : tabs'[t].pc = "submit" => ~Early(prompts'[tabs'[t].id])
    BY <1>1 DEF ContractInv, HandedWell, ServedMoves, StatusMoves
  <1>4. \A s \in Sessions : contexts'[s] # NoId => ~Early(prompts'[contexts'[s]])
    BY <1>1 DEF ContractInv, HandedWell, ServedMoves, StatusMoves
  <1>5. HandedWell'
    BY <1>3, <1>4 DEF HandedWell
  <1>6. \A i \in PromptIds : Contract!Moves(i)
    <2> TAKE i \in PromptIds
    <2>1. /\ Held(i) => ~Early(prompts[i])
          /\ Held(i)' => ~Early(prompts'[i])
          /\ Held(i)' => Held(i) \/ prompts[i].status = "claimed"
      BY <1>1, <1>3 DEF Held, ContractInv, HandedWell, ServedMoves
    <2>2. sends[i] \in Nat /\ sends'[i] = sends[i]
      BY <1>1
    <2>3. /\ Early(prompts'[i]) => Early(prompts[i])
          /\ Absent(prompts'[i]) <=> Absent(prompts[i])
      BY DEF ServedMoves, StatusMoves
    <2> QED
      BY <2>1, <2>2, <2>3, PromptMoves
  <1>8. \A i \in PromptIds : Returned(i)' = Returned(i) \/ Contract!IsAnswered(i)
    <2> TAKE i \in PromptIds
    <2>1. CASE Returned(i)' = Returned(i)
      BY <2>1
    <2>2. CASE /\ r.op = "extract"
               /\ Returned(i) = {} /\ \E m : Returned(i)' = {m}
               /\ contexts[SessionOf[i]] = i
      <3>1. ~Early(prompts[i]) /\ ~Absent(prompts[i])
        BY <2>2, RelayAssumption DEF ContractInv, HandedWell, NoId, PromptIds, Early, Absent
      <3>2. StageOf(i) \notin {"none", "open"}
        BY <1>1, <3>1, StageCases
      <3> QED
        BY <2>2, <3>2 DEF Contract!IsAnswered
    <2> QED
      BY <2>1, <2>2 DEF ServedMoves, AnswersMove
  <1>9. Contract!KeepUnrouted
    BY DEF Contract!KeepUnrouted, ServedMoves, AnswersMove
  <1>10. Contract!Next
    BY <1>6, <1>8, <1>9 DEF Contract!Next
  <1> QED
    BY <1>5, <1>10 DEF ContractInv

\* A step without a request, which posts nothing.
LEMMA StoreContract ==
    ASSUME ContractInv, RelayInv', StatusMoves,
           UNCHANGED <<contexts, inbound, pending, sends>>,
           \A t \in Tabs : tabs'[t].pc = "submit" =>
                tabs[t].pc = "submit" /\ tabs'[t].id = tabs[t].id
    PROVE  ContractInv' /\ Contract!Next
  <1> DEFINE r == [op |-> "next", id |-> NoId, token |-> NoToken]
  <1>1. r \in GoodRequest /\ r.op = "next"
    BY DEF GoodRequest, Request, Carries, CallPcs, NoToken
  <1> HIDE DEF r
  <1>2. ServedMoves(r, FALSE)
    BY <1>1, AnswersUntouched DEF ServedMoves
  <1> QED
    BY <1>1, <1>2, ServedContract

LEMMA CreateContract ==
    ASSUME ContractInv, RelayInv', OutboundCreate
    PROVE  ContractInv' /\ Contract!Next
  <1>0. PICK n \in PromptIds : n = created + 1 /\ n > created
    BY RelayAssumption
    DEF OutboundCreate, ContractInv, RelayInv, SendInv, WellFormed, ClientTyped, PromptIds
  <1>1. /\ UNCHANGED <<contexts, inbound, pending, tabs, pages, late, sends>>
        /\ sends \in [PromptIds -> Nat]
        /\ contexts \in [Sessions -> PromptIds \cup {NoId}]
        /\ \A t \in Tabs : tabs[t].pc = "submit" => tabs[t].id \in PromptIds
    BY DEF OutboundCreate, ContractInv, RelayInv, SendInv, WellFormed, ServerTyped, ClientTyped,
           GoodTab, Carries
  <1>2. Absent(prompts[n]) /\ Early(prompts[n])
    BY <1>0 DEF ContractInv, RelayInv, SendInv, FutureAbsent, Absent, Early
  <1>3. /\ createOutboundPrompt.status = "queued"
        /\ \A i \in PromptIds :
             prompts'[i] = IF i = n THEN createOutboundPrompt ELSE prompts[i]
    BY <1>0 DEF OutboundCreate, ContractInv, RelayInv, SendInv, WellFormed, ServerTyped,
                createOutboundPrompt, AbsentPrompt
  <1>4. Early(prompts'[n]) /\ ~Absent(prompts'[n])
    BY <1>1, <1>3 DEF Early, Absent
  <1>5. sends[n] = 0
    BY <1>1, <1>2 DEF ContractInv, RelayInv, SendInv, UnsentWhileClaimable, MayClaim, Fresh,
           Absent
  <1>6. ~Held(n) /\ \A i \in PromptIds : Held(i)' <=> Held(i)
    BY <1>1, <1>2 DEF Held, ContractInv, HandedWell
  <1>7. HandedWell'
    BY <1>1, <1>2, <1>3 DEF ContractInv, HandedWell
  <1>9. \A i \in PromptIds : Contract!Moves(i)
    <2> TAKE i \in PromptIds
    <2>1. CASE i = n
      <3>1. StageOf(n) = "none"
        BY <1>1, <1>2, <1>5, <1>6, StageCases
      <3>2. StageOf(n)' = "open"
        BY <1>1, <1>4, <1>5, <1>6, StageCasesPrime
      <3> QED
        BY <1>1, <2>1, <3>1, <3>2 DEF Contract!Moves, Contract!IsQueued
    <2>2. CASE i # n
      <3>1. prompts'[i] = prompts[i] /\ (Held(i)' <=> Held(i)) /\ sends'[i] = sends[i]
        BY <1>1, <1>3, <1>6, <2>2
      <3>2. sends[i] \in Nat /\ (Held(i) => ~Early(prompts[i]))
        BY <1>1 DEF Held, ContractInv, HandedWell
      <3> QED
        BY <3>1, <3>2, PromptMoves
    <2> QED
      BY <2>1, <2>2
  <1>10. \A i \in PromptIds : Returned(i)' = Returned(i)
    BY <1>1 DEF Returned
  <1>11. Contract!Next
    BY <1>1, <1>9, <1>10 DEF Contract!Next, Contract!KeepUnrouted
  <1> QED
    BY <1>7, <1>11 DEF ContractInv

\* The click posts a prompt that was held; without it the page holds it no more.
LEMMA SubmitContract ==
    ASSUME ContractInv, RelayInv', NEW t \in Tabs, Submit(t)
    PROVE  ContractInv' /\ Contract!Next
  <1> DEFINE n == tabs[t].id
  <1>0. /\ tabs \in [Tabs -> GoodTab] /\ tabs[t] \in Tab
        /\ sends \in [PromptIds -> Nat]
        /\ \A u \in Tabs : tabs[u].pc = "submit" => tabs[u].id \in PromptIds
    BY DEF ContractInv, RelayInv, SendInv, WellFormed, ClientTyped, GoodTab, Carries
  <1>1. /\ UNCHANGED <<prompts, contexts, inbound, pending, late>>
        /\ tabs[t].pc = "submit" /\ n \in PromptIds
        /\ \E pc \in {"submitted", "failed"} : tabs' = [tabs EXCEPT ![t].pc = pc]
    BY <1>0 DEF Submit
  <1>2. \A u \in Tabs : tabs'[u].pc = "submit" =>
          tabs[u].pc = "submit" /\ tabs'[u].id = tabs[u].id
    BY <1>0, <1>1 DEF Tab
  <1>3. CASE UNCHANGED <<pages, sends>>
    BY <1>1, <1>2, <1>3, StoreContract DEF StatusMoves
  <1>4. CASE sends' = [sends EXCEPT ![n] = @ + 1]
    <2>1. /\ sends[n] = 0
          /\ \A i \in PromptIds : sends'[i] = IF i = n THEN 1 ELSE sends[i]
      <3>1. Owns(t, n)
        BY <1>1 DEF Owns, OwnPcs
      <3>2. sends[n] = 0
        BY <1>1, <3>1 DEF ContractInv, RelayInv, SendInv, UnsentWhileOwned
      <3> QED
        BY <1>0, <1>4, <3>2
    <2>3. Held(n)
      BY <1>1 DEF Held
    <2>4. \A i \in PromptIds : /\ Held(i) => ~Early(prompts[i])
                               /\ i # n /\ Held(i)' => Held(i)
      BY <1>2 DEF Held, ContractInv, HandedWell
    <2> HIDE DEF n
    <2>8. HandedWell'
      BY <1>1, <1>2 DEF ContractInv, HandedWell
    <2>9. \A i \in PromptIds : Contract!Moves(i)
      <3> TAKE i \in PromptIds
      <3>1. CASE i = n
        <4>1. StageOf(i) = "held" /\ sends[i] = 0 /\ sends'[i] = 1
          BY <2>1, <2>3, <3>1, StageCases
        <4>2. StageOf(i)' = "posted"
          BY <4>1, StageCasesPrime
        <4> QED
          BY <4>1, <4>2 DEF Contract!Moves, Contract!IsPosted
      <3>2. CASE i # n
        <4>1. /\ sends'[i] = sends[i] /\ sends[i] \in Nat
              /\ prompts'[i] = prompts[i]
              /\ Held(i)' => Held(i)
              /\ Held(i) => ~Early(prompts[i])
          BY <1>0, <1>1, <2>1, <2>4, <3>2
        <4> QED
          BY <4>1, PromptMoves
      <3> QED
        BY <3>1, <3>2
    <2>10. \A i \in PromptIds : Returned(i)' = Returned(i)
      BY <1>1 DEF Returned
    <2>11. Contract!Next
      BY <1>1, <2>9, <2>10 DEF Contract!Next, Contract!KeepUnrouted
    <2> QED
      BY <2>8, <2>11 DEF ContractInv
  <1> QED
    BY <1>3, <1>4 DEF Submit

LEMMA CallContract ==
    ASSUME ContractInv, RelayInv', NEW t \in Tabs, Call(t)
    PROVE  ContractInv' /\ Contract!Next
  <1>1. /\ ServerTyped /\ tabs \in [Tabs -> GoodTab] /\ tabs[t] \in GoodTab
        /\ UNCHANGED <<pages, sends>> /\ tabs[t].pc \in CallPcs
    BY DEF ContractInv, RelayInv, SendInv, WellFormed, ClientTyped, Call, Answered, AnswerLost,
           RequestLost
  <1>2. PICK r \in GoodRequest : r = RequestOf(tabs[t])
    BY <1>1, RequestOfFacts
  <1>3. r.op = tabs[t].pc /\ r.id = tabs[t].id
    BY <1>2 DEF RequestOf
  <1>5. ASSUME NEW ok \in BOOLEAN, NEW seen \in BOOLEAN, seen => ok, ServedMoves(r, ok),
               tabs' = [tabs EXCEPT ![t] = After(tabs[t], seen)],
               late' \subseteq late \cup {r}
        PROVE  ContractInv' /\ Contract!Next
    <2>1. \A u \in Tabs : tabs'[u] = IF u = t THEN After(tabs[t], seen) ELSE tabs[u]
      BY <1>1, <1>5
    <2>2. After(tabs[t], seen).pc = "submit" =>
            r.op = "ackOk" /\ ok /\ After(tabs[t], seen).id = r.id
      BY <1>1, <1>3, <1>5, AfterSubmits
    <2>3. \A u \in Tabs : tabs'[u].pc = "submit" =>
            \/ tabs[u].pc = "submit" /\ tabs'[u].id = tabs[u].id
            \/ r.op = "ackOk" /\ ok /\ tabs'[u].id = r.id
      BY <1>1, <2>1, <2>2
    <2> QED
      BY <1>1, <1>5, <2>3, ServedContract
  <1>6. CASE Answered(t)
    <2>1. PICK ok \in BOOLEAN :
            Serve(r, ok) /\ tabs' = [tabs EXCEPT ![t] = After(tabs[t], ok)]
      BY <1>2, <1>6 DEF Answered
    <2> QED
      BY <1>1, <1>5, <1>6, <2>1, ServeMoves DEF Answered
  <1>7. CASE AnswerLost(t)
    <2>1. PICK ok \in BOOLEAN : Serve(r, ok)
      BY <1>2, <1>7 DEF AnswerLost
    <2>2. tabs' = [tabs EXCEPT ![t] = After(tabs[t], FALSE)] /\ late' = late
      BY <1>7 DEF AnswerLost
    <2> QED
      BY <1>1, <1>5, <2>1, <2>2, ServeMoves
  <1>8. CASE RequestLost(t)
    <2>1. /\ tabs' = [tabs EXCEPT ![t] = After(tabs[t], FALSE)]
          /\ late' \subseteq late \cup {r}
          /\ UNCHANGED serverVars
      BY <1>2, <1>8 DEF RequestLost, Abandon
    <2> QED
      BY <1>5, <2>1, ServerUntouchedMoves
  <1> QED
    BY <1>6, <1>7, <1>8 DEF Call

LEMMA LateContract ==
    ASSUME ContractInv, RelayInv', NEW r \in late, ServeLate(r)
    PROVE  ContractInv' /\ Contract!Next
  <1>1. /\ ServerTyped /\ r \in GoodRequest
        /\ UNCHANGED <<tabs, sends>>
    BY DEF ContractInv, RelayInv, SendInv, WellFormed, ClientTyped, ServeLate
  <1>2. PICK ok \in BOOLEAN : Serve(r, ok)
    BY DEF ServeLate
  <1> QED
    BY <1>1, <1>2, ServeMoves, ServedContract

\* What the panel returns may be any text: it answers the session's context.
LEMMA PanelContract ==
    ASSUME ContractInv, RelayInv', NEW t \in Tabs, PanelReturn(t)
    PROVE  ContractInv' /\ Contract!Next
  <1>1. /\ tabs \in [Tabs -> GoodTab] /\ tabs[t] \in Tab
        /\ ServerTyped /\ UNCHANGED sends
    BY DEF ContractInv, RelayInv, SendInv, WellFormed, ClientTyped, GoodTab, PanelReturn
  <1>3. PICK r : r = [op |-> "extract", id |-> tabs[t].active, token |-> NoToken]
    OBVIOUS
  <1>2. SubmitReturn(t, r)
    BY <1>3 DEF PanelReturn
  <1>4. r.op = "extract" /\ r \in GoodRequest
    <2>1. tabs[t].active \in PromptIds
      BY <1>1 DEF PanelReturn, ActiveFresh, Tab
    <2> QED
      BY <1>3, <2>1 DEF GoodRequest, Request, Carries, CallPcs, NoToken
  <1>5. \A u \in Tabs : tabs'[u].pc = tabs[u].pc /\ tabs'[u].id = tabs[u].id
    <2>1. tabs' = tabs \/ tabs' = [tabs EXCEPT ![t].active = NoId, ![t].activeAge = 0]
      BY <1>2 DEF SubmitReturn
    <2> QED
      BY <1>1, <2>1 DEF Tab
  <1>6. PICK ok \in BOOLEAN : ServedMoves(r, ok)
    <2>1. CASE Abandon(r) /\ UNCHANGED <<serverVars, tokens, tabs>>
      BY <2>1, ServerUntouchedMoves DEF Abandon
    <2>2. CASE UNCHANGED late /\ \E ok \in BOOLEAN : ExtractReturn(r, ok)
      BY <1>1, <1>4, <2>2, ServeMoves DEF Serve
    <2> QED
      BY <1>3, <1>2, <2>1, <2>2 DEF SubmitReturn
  <1> QED
    BY <1>1, <1>4, <1>5, <1>6, ServedContract

\* The other steps of a page, of ChatGPT, of an operator and of the server.
LEMMA OtherContract ==
    ASSUME ContractInv, RelayInv',
           \/ \E i \in PromptIds : OutboundCancel(i)
           \/ \E t \in Tabs :
                StartTick(t) \/ Fill(t) \/ WaitReply(t) \/ Reload(t) \/ Chat(t)
           \/ OtherPersists
           \/ Restart
           \/ Tick
           \/ UNCHANGED vars
    PROVE  ContractInv' /\ Contract!Next
  <1>1. /\ tabs \in [Tabs -> GoodTab] /\ \A u \in Tabs : tabs[u] \in Tab
        /\ prompts \in [PromptIds -> OutboundPrompt]
    BY DEF ContractInv, RelayInv, SendInv, WellFormed, ServerTyped, ClientTyped, GoodTab
  <1>2. ASSUME NEW i \in PromptIds, OutboundCancel(i)
        PROVE  ContractInv' /\ Contract!Next
    <2>1. /\ Ended("cancelled").status = "cancelled"
          /\ \A j \in PromptIds :
               prompts'[j] = IF j = i THEN Ended("cancelled") ELSE prompts[j]
      BY <1>1, <1>2 DEF OutboundCancel, cancel, Ended, AbsentPrompt
    <2>2. StatusMoves
      BY <1>2, <2>1 DEF StatusMoves, Early, Absent, OutboundCancel, canCancel, PreSubmission
    <2> QED
      BY <1>2, <2>2, StoreContract DEF OutboundCancel
  <1>3. ASSUME NEW t \in Tabs,
               StartTick(t) \/ Fill(t) \/ WaitReply(t) \/ Reload(t) \/ Chat(t)
        PROVE  ContractInv' /\ Contract!Next
    <2>1. UNCHANGED <<prompts, contexts, inbound, pending, sends>>
      BY <1>3, ChatFrame DEF StartTick, Fill, WaitReply, Reload, serverVars
    <2>2. /\ \A u \in Tabs \ {t} : tabs'[u] = tabs[u]
          /\ tabs'[t].pc # "submit" \/ tabs'[t] = tabs[t]
      <3>1. CASE StartTick(t) \/ Reload(t)
        BY <1>1, <3>1 DEF StartTick, Reload, IdleTab
      <3>2. CASE Fill(t)
        BY <1>1, <3>2 DEF Fill, Tab
      <3>3. CASE WaitReply(t)
        BY <1>1, <3>3 DEF WaitReply, Tab
      <3>4. CASE Chat(t)
        BY <3>4, ChatFrame
      <3> QED
        BY <1>3, <3>1, <3>2, <3>3, <3>4
    <2>3. \A u \in Tabs : tabs'[u].pc = "submit" =>
            tabs[u].pc = "submit" /\ tabs'[u].id = tabs[u].id
      BY <2>2
    <2>4. StatusMoves
      BY <2>1 DEF StatusMoves
    <2> QED
      BY <2>1, <2>3, <2>4, StoreContract
  <1>4. CASE Restart
    <2>1. UNCHANGED <<contexts, inbound, pending, sends, tabs>>
      BY <1>4 DEF Restart, ContractInv, RelayInv, OnlyExpiryUnsaved
    <2>2. StatusMoves
      BY <1>4 DEF Restart, ContractInv, RelayInv, OnlyExpiryUnsaved, StatusMoves, Early, Absent
    <2> QED
      BY <2>1, <2>2, StoreContract
  <1>5. CASE Tick
    <2>1. StatusMoves
      BY <1>1, <1>5, AgeFacts DEF Tick, StatusMoves, Early, Absent
    <2>2. \A u \in Tabs : tabs'[u].pc = tabs[u].pc /\ tabs'[u].id = tabs[u].id
      BY <1>1, <1>5 DEF Tick, Tab
    <2> QED
      BY <1>5, <2>1, <2>2, StoreContract DEF Tick
  <1>6. CASE OtherPersists \/ UNCHANGED vars
    <2>1. UNCHANGED <<prompts, contexts, inbound, pending, sends, tabs>>
      BY <1>6 DEF OtherPersists, vars
    <2>2. StatusMoves
      BY <2>1 DEF StatusMoves
    <2> QED
      BY <2>1, <2>2, StoreContract
  <1> QED
    BY <1>2, <1>3, <1>4, <1>5, <1>6

LEMMA NextContract ==
    ASSUME ContractInv, [Next]_vars
    PROVE  ContractInv' /\ Contract!Next
  <1>1. RelayInv'
    BY NextRelayInv DEF ContractInv
  <1>2. ASSUME NEW t \in Tabs, PollerStep(t) \/ PageStep(t)
        PROVE  ContractInv' /\ Contract!Next
    BY <1>1, <1>2, CallContract, SubmitContract, PanelContract, OtherContract
    DEF PollerStep, PageStep
  <1>3. CASE OutboundCreate
    BY <1>1, <1>3, CreateContract
  <1>4. CASE \E r \in late : ServeLate(r)
    BY <1>1, <1>4, LateContract
  <1>5. CASE \/ \E i \in PromptIds : OutboundCancel(i)
             \/ OtherPersists \/ Restart \/ Tick \/ UNCHANGED vars
    BY <1>1, <1>5, OtherContract
  <1> QED
    BY <1>2, <1>3, <1>4, <1>5 DEF Next

LEMMA InitContract == Init => ContractInv /\ Contract!Init
  <1> SUFFICES ASSUME Init PROVE ContractInv /\ Contract!Init
    OBVIOUS
  <1>1. /\ \A i \in PromptIds : Absent(prompts[i]) /\ sends[i] = 0
        /\ \A t \in Tabs : tabs[t].pc = "idle"
        /\ inbound = << >> /\ pending = {} /\ late = {}
        /\ \A s \in Sessions : contexts[s] = NoId
        /\ sends = [i \in PromptIds |-> 0]
    BY AbsentPromptFacts DEF Init, EmptySnapshot, IdleTab
  <1>2. ContractInv
    BY <1>1, InitRelayInv DEF Init, ContractInv, HandedWell
  <1>3. \A i \in PromptIds : StageOf(i) = "none" /\ Returned(i) = {}
    <2> TAKE i \in PromptIds
    <2>1. ~Held(i)
      BY <1>1 DEF Held
    <2>2. StageOf(i) = "none"
      BY <1>1, <2>1, StageCases
    <2>3. Returned(i) = {}
      BY <1>1 DEF Returned
    <2> QED
      BY <2>2, <2>3
  <1>4. Contract!Init
    BY <1>1, <1>3 DEF Contract!Init
  <1> QED
    BY <1>2, <1>4

\* The relay keeps its contract with the operator: what is submitted was handed
\* to its page while it was open, once; a prompt is answered once, after it was
\* handed over, and the answer stays (outbound-prompt-store.ts, the outbound and
\* extract-return routes, outbound-poller.ts and the panel).
THEOREM RefinesRelayContract == Spec => ImplementsRelayContract
  <1>1. ContractInv /\ [Next]_vars => ContractInv' /\ [Contract!Next]_(Contract!vars)
    BY NextContract
  <1> QED
    BY InitContract, <1>1, PTL DEF Spec, ImplementsRelayContract, Contract!Spec
-----------------------------------------------------------------------------
(* The pages are among the clients that WebRelayLoop admits.  It has any   *)
(* client make any outbound call in any order, and knows no claim tokens   *)
(* but one; here there are no loops, and operators queue the prompts.  So  *)
(* what is proved of the loops holds with these pages as their clients.    *)

\* The prompt as WebRelayLoop has it: claimed with the one token, or with none.
Blank(p) == [p EXCEPT !.token = IF @ = NoToken THEN NoToken ELSE 1]

Blanked(ps) == [i \in PromptIds |-> Blank(ps[i])]

NoLoops == [l \in {} |-> NoId]

OfNoLoop == [i \in PromptIds |-> "no loop"]

Client == INSTANCE WebRelayLoop WITH
    Loops <- {}, Replies <- {}, MaxRounds <- 1, NoProgressLimit <- 0, DeadlineTTL <- 0,
    prompts <- Blanked(prompts), loopOf <- OfNoLoop, loops <- NoLoops,
    disk <- [prompts |-> Blanked(disk.prompts), loopOf |-> OfNoLoop, loops |-> NoLoops],
    created <- 0

ClientCalls == Client!OutboundNext \/ \E i \in PromptIds : Client!OutboundCall(i)

\* Whatever pages do, and whenever their requests are served, the prompts and
\* their snapshot move as some client of WebRelayLoop moves them.
PagesAreClients ==
    [][\/ OutboundCreate
       \/ ClientCalls
       \/ Client!OtherPersists
       \/ Client!Restart
       \/ Client!Tick]_<<prompts, disk.prompts>>

\* The store is the same one there and here.
LEMMA SameStore ==
    /\ Client!createOutboundPrompt = createOutboundPrompt
    /\ \A p : /\ Client!recoverStale(p) = recoverStale(p)
              /\ Client!markSubmitted(p) = markSubmitted(p)
              /\ Client!markFailed(p) = markFailed(p)
              /\ Client!cancel(p) = cancel(p)
              /\ Client!Age(p) = Age(p)
              /\ Client!canMarkSubmitted(p) <=> canMarkSubmitted(p)
              /\ Client!canMarkFailed(p) <=> canMarkFailed(p)
              /\ Client!canCancel(p) <=> canCancel(p)
    /\ \A p, token : /\ Client!claim(p, token) = claim(p, token)
                     /\ Client!acknowledge(p, token) = acknowledge(p, token)
                     /\ Client!canAcknowledge(p, token) <=> canAcknowledge(p, token)
  <1> USE DEF Client!AbsentPrompt, AbsentPrompt, Client!NoToken, NoToken, Client!Ended, Ended,
              Client!PreSubmission, PreSubmission, Client!TerminalOutbound, TerminalOutbound,
              Client!AuthorizationLapsed, AuthorizationLapsed, Client!LeaseLapsed, LeaseLapsed
  <1>1. Client!createOutboundPrompt = createOutboundPrompt
    BY DEF Client!createOutboundPrompt, createOutboundPrompt
  <1>2. ASSUME NEW p
        PROVE  Client!recoverStale(p) = recoverStale(p)
    BY DEF Client!recoverStale, recoverStale
  <1>3. ASSUME NEW p
        PROVE  /\ Client!markSubmitted(p) = markSubmitted(p)
               /\ Client!markFailed(p) = markFailed(p)
               /\ Client!cancel(p) = cancel(p)
    BY DEF Client!markSubmitted, markSubmitted, Client!markFailed, markFailed, Client!cancel,
           cancel
  <1>4. ASSUME NEW p
        PROVE  Client!Age(p) = Age(p)
    BY DEF Client!Age, Age, Client!Older, Older
  <1>5. ASSUME NEW p
        PROVE  /\ Client!canMarkSubmitted(p) <=> canMarkSubmitted(p)
               /\ Client!canMarkFailed(p) <=> canMarkFailed(p)
               /\ Client!canCancel(p) <=> canCancel(p)
    BY DEF Client!canMarkSubmitted, canMarkSubmitted, Client!canMarkFailed, canMarkFailed,
           Client!canCancel, canCancel
  <1>6. ASSUME NEW p, NEW token
        PROVE  /\ Client!claim(p, token) = claim(p, token)
               /\ Client!acknowledge(p, token) = acknowledge(p, token)
               /\ Client!canAcknowledge(p, token) <=> canAcknowledge(p, token)
    BY DEF Client!claim, claim, Client!acknowledge, acknowledge, Client!canAcknowledge,
           canAcknowledge
  <1> QED
    BY <1>1, <1>2, <1>3, <1>4, <1>5, <1>6

\* What the store does to a prompt does not depend on the token it was claimed
\* with, except whether an acknowledgement is accepted.
LEMMA BlankFacts ==
    ASSUME NEW p \in OutboundPrompt
    PROVE  /\ Blank(p) \in OutboundPrompt /\ Blank(p).status = p.status
           /\ recoverStale(Blank(p)) = Blank(recoverStale(p))
           /\ markSubmitted(Blank(p)) = Blank(markSubmitted(p))
           /\ markFailed(Blank(p)) = Blank(markFailed(p))
           /\ cancel(Blank(p)) = Blank(cancel(p))
           /\ Age(Blank(p)) = Blank(Age(p))
           /\ canMarkSubmitted(Blank(p)) <=> canMarkSubmitted(p)
           /\ canMarkFailed(Blank(p)) <=> canMarkFailed(p)
           /\ canCancel(Blank(p)) <=> canCancel(p)
           /\ \A ok \in BOOLEAN : acknowledge(Blank(p), ok) = Blank(acknowledge(p, ok))
           /\ \A s \in OutboundPromptStatus :
                [Blank(p) EXCEPT !.status = s] = Blank([p EXCEPT !.status = s])
           /\ \A token \in Nat \ {NoToken} :
                /\ claim(Blank(p), 1) = Blank(claim(p, token))
                /\ canAcknowledge(p, token) => canAcknowledge(Blank(p), 1)
  <1> USE DEF NoToken
  <1> DEFINE token1 == IF p.token = NoToken THEN NoToken ELSE 1
  <1>1. /\ Blank(p) = [p EXCEPT !.token = token1] /\ token1 \in Nat
        /\ p.token \in Nat
    BY DEF Blank, OutboundPrompt
  <1>2. /\ Blank(p) \in OutboundPrompt
        /\ Blank(p).status = p.status /\ Blank(p).age = p.age /\ Blank(p).claimAge = p.claimAge
        /\ Blank(p).subAge = p.subAge /\ Blank(p).token = token1
    BY <1>1 DEF OutboundPrompt
  <1>3. \A s : Blank(Ended(s)) = Ended(s)
    BY DEF Blank, Ended, AbsentPrompt
  <1>4. /\ recoverStale(Blank(p)) = Blank(recoverStale(p))
        /\ markFailed(Blank(p)) = Blank(markFailed(p))
        /\ cancel(Blank(p)) = Blank(cancel(p))
    BY <1>2, <1>3 DEF recoverStale, markFailed, cancel, AuthorizationLapsed, LeaseLapsed
  <1>5. markSubmitted(Blank(p)) = Blank(markSubmitted(p))
    BY <1>2, <1>3 DEF markSubmitted, AuthorizationLapsed, Blank, AbsentPrompt
  <1>6. Age(Blank(p)) = Blank(Age(p))
    BY <1>1, <1>2 DEF Age, Blank, OutboundPrompt
  <1>7. /\ canMarkSubmitted(Blank(p)) <=> canMarkSubmitted(p)
        /\ canMarkFailed(Blank(p)) <=> canMarkFailed(p)
        /\ canCancel(Blank(p)) <=> canCancel(p)
    BY <1>2 DEF canMarkSubmitted, canMarkFailed, canCancel, AuthorizationLapsed
  <1>8. ASSUME NEW ok \in BOOLEAN
        PROVE  acknowledge(Blank(p), ok) = Blank(acknowledge(p, ok))
    BY <1>2, <1>3 DEF acknowledge, Blank, AbsentPrompt
  <1>9. ASSUME NEW s \in OutboundPromptStatus
        PROVE  [Blank(p) EXCEPT !.status = s] = Blank([p EXCEPT !.status = s])
    BY <1>1, <1>2 DEF Blank, OutboundPrompt
  <1>10. ASSUME NEW token \in Nat \ {NoToken}
         PROVE  /\ claim(Blank(p), 1) = Blank(claim(p, token))
                /\ canAcknowledge(p, token) => canAcknowledge(Blank(p), 1)
    <2>1. claim(Blank(p), 1) = Blank(claim(p, token))
      BY <1>1 DEF claim, Blank, OutboundPrompt
    <2>2. canAcknowledge(p, token) => canAcknowledge(Blank(p), 1)
      BY <1>2 DEF canAcknowledge
    <2> QED
      BY <2>1, <2>2
  <1> QED
    BY <1>2, <1>4, <1>5, <1>6, <1>7, <1>8, <1>9, <1>10

LeastOf(S) == CHOOSE i \in S : \A j \in S : i <= j

\* claimNext hands out the same prompt there.
LEMMA ClaimNextBlanked ==
    ASSUME NEW ps \in [PromptIds -> OutboundPrompt], NEW token \in Nat \ {NoToken}
    PROVE  Client!claimNext(Blanked(ps), 1) = Blanked(claimNext(ps, token))
  <1> DEFINE bs == Blanked(ps)
             rs == recoverStaleClaims(ps)
  <1>1. /\ DOMAIN ps = PromptIds /\ DOMAIN bs = PromptIds
        /\ \A i \in PromptIds : ps[i] \in OutboundPrompt /\ bs[i] = Blank(ps[i])
    BY DEF Blanked
  <1>2. /\ rs \in [PromptIds -> OutboundPrompt]
        /\ \A i \in PromptIds : rs[i] = recoverStale(ps[i])
    BY <1>1, RecoverStaleFacts DEF recoverStaleClaims
  <1>3. Client!recoverStaleClaims(bs) = Blanked(rs)
    BY <1>1, <1>2, SameStore, BlankFacts DEF Client!recoverStaleClaims, Blanked
  <1>4. Client!Claimable(bs) = Claimable(ps)
    BY <1>1, <1>2, <1>3, BlankFacts DEF Client!Claimable, Claimable, Blanked
  <1>5. Client!NextClaim(bs) = NextClaim(ps)
    <2>1. NextClaim(ps) = LeastOf(Claimable(ps))
      BY DEF NextClaim, LeastOf
    <2>2. Client!NextClaim(bs) = LeastOf(Client!Claimable(bs))
      BY DEF Client!NextClaim, LeastOf
    <2> QED
      BY <1>4, <2>1, <2>2
  <1> HIDE DEF bs, rs
  <1>6. CASE Claimable(ps) = {}
    <2>1. claimNext(ps, token) = rs
      BY <1>6 DEF claimNext, rs
    <2>2. Client!claimNext(bs, 1) = Client!recoverStaleClaims(bs)
      BY <1>4, <1>6 DEF Client!claimNext
    <2> QED
      BY <1>3, <2>1, <2>2 DEF bs
  <1>7. CASE Claimable(ps) # {}
    <2> DEFINE n == NextClaim(ps)
    <2>1. n \in PromptIds
      BY <1>7, PromptIdsNat, ClaimNextFacts
    <2> HIDE DEF n
    <2>2. claimNext(ps, token) = [rs EXCEPT ![n] = claim(rs[n], token)]
      BY <1>7 DEF claimNext, rs, n
    <2>3. Client!claimNext(bs, 1) = [Blanked(rs) EXCEPT ![n] = claim(Blanked(rs)[n], 1)]
      BY <1>3, <1>4, <1>5, <1>7, SameStore DEF Client!claimNext, n
    <2>4. Blanked(rs)[n] = Blank(rs[n]) /\ claim(Blank(rs[n]), 1) = Blank(claim(rs[n], token))
      BY <1>2, <2>1, BlankFacts DEF Blanked
    <2> QED
      BY <1>2, <2>1, <2>2, <2>3, <2>4 DEF Blanked, bs
  <1> QED
    BY <1>6, <1>7 DEF bs

\* What one change of one prompt is there.
LEMMA BlankedExcept ==
    ASSUME NEW ps \in [PromptIds -> OutboundPrompt], NEW i \in PromptIds, NEW p
    PROVE  /\ Blanked(ps)[i] = Blank(ps[i])
           /\ Blanked([ps EXCEPT ![i] = p]) = [Blanked(ps) EXCEPT ![i] = Blank(p)]
  BY DEF Blanked

\* Nothing but prompts and their snapshot moves there.
LEMMA ClientFrame ==
    /\ OfNoLoop' = OfNoLoop /\ NoLoops' = NoLoops
    /\ Persist => Client!Persist
  <1>1. OfNoLoop' = OfNoLoop /\ NoLoops' = NoLoops
    BY DEF OfNoLoop, NoLoops
  <1>2. ASSUME Persist PROVE Client!Persist
    <2>1. disk'.prompts = prompts'
      BY <1>2 DEF Persist
    <2>2. Blanked(disk'.prompts) = Blanked(prompts')
      BY <2>1
    <2> QED
      BY <2>2 DEF Client!Persist, Blanked
  <1> QED
    BY <1>1, <1>2

\* A step that PagesAreClients allows.
ClientStep ==
    \/ OutboundCreate \/ ClientCalls
    \/ Client!OtherPersists \/ Client!Restart \/ Client!Tick
    \/ UNCHANGED <<prompts, disk.prompts>>

LEMMA PersistIsClient ==
    ASSUME UNCHANGED prompts, Persist
    PROVE  Client!OtherPersists
  <1>1. Blanked(prompts)' = Blanked(prompts)
    BY DEF Blanked
  <1> QED
    BY <1>1, ClientFrame DEF Client!OtherPersists

LEMMA NextIsClient ==
    ASSUME ServerTyped, NEW r, NEW ok, OutboundNext(r, ok)
    PROVE  Client!OutboundNext
  <1>1. prompts' = claimNext(prompts, tokens + 1) /\ tokens + 1 \in Nat \ {NoToken} /\ Persist
    BY DEF OutboundNext, ServerTyped, NoToken
  <1>2. Blanked(prompts)' = Client!claimNext(Blanked(prompts), 1)
    <2>1. Blanked(prompts') = Client!claimNext(Blanked(prompts), 1)
      BY <1>1, ClaimNextBlanked DEF ServerTyped
    <2> QED
      BY <2>1 DEF Blanked
  <1> QED
    BY <1>1, <1>2, ClientFrame DEF Client!OutboundNext, Client!Token

LEMMA AckIsClient ==
    ASSUME ServerTyped, NEW r \in GoodRequest, NEW ok \in BOOLEAN, OutboundAck(r, ok)
    PROVE  Client!OutboundAck(r.id) \/ UNCHANGED <<prompts, disk>>
  <1>1. CASE ~ok
    BY <1>1 DEF OutboundAck, serverVars
  <1>2. CASE ok
    <2> DEFINE delivered == r.op = "ackOk"
    <2>1. /\ r.id \in PromptIds /\ r.token \in Nat \ {NoToken}
          /\ canAcknowledge(prompts[r.id], r.token)
          /\ prompts' = [prompts EXCEPT ![r.id] = acknowledge(prompts[r.id], delivered)]
          /\ Persist
      BY <1>2 DEF OutboundAck, GoodRequest, Request, Carries, canAcknowledge
    <2> HIDE DEF delivered
    <2>2. delivered \in BOOLEAN
      BY DEF delivered
    <2>3. prompts \in [PromptIds -> OutboundPrompt] /\ prompts[r.id] \in OutboundPrompt
      BY <2>1 DEF ServerTyped
    <2>4. Client!canAcknowledge(Blanked(prompts)[r.id], 1)
      BY <2>1, <2>3, SameStore, BlankFacts, BlankedExcept
    <2>5. Blanked(prompts') =
            [Blanked(prompts) EXCEPT ![r.id] = Client!acknowledge(Blanked(prompts)[r.id], delivered)]
      <3> DEFINE q == acknowledge(prompts[r.id], delivered)
      <3>1. Client!acknowledge(Blanked(prompts)[r.id], delivered) = Blank(q)
        BY <2>1, <2>2, <2>3, SameStore, BlankFacts, BlankedExcept
      <3>2. prompts' = [prompts EXCEPT ![r.id] = q]
        BY <2>1
      <3> HIDE DEF q
      <3>3. Blanked([prompts EXCEPT ![r.id] = q]) = [Blanked(prompts) EXCEPT ![r.id] = Blank(q)]
        BY <2>1, <2>3, BlankedExcept
      <3> QED
        BY <3>1, <3>2, <3>3
    <2>6. Blanked(prompts)' = Blanked(prompts')
      BY DEF Blanked
    <2> QED
      BY <2>1, <2>2, <2>4, <2>5, <2>6, ClientFrame DEF Client!OutboundAck, Client!Token
  <1> QED
    BY <1>1, <1>2

LEMMA StageIsClient ==
    ASSUME ServerTyped, NEW r \in GoodRequest, NEW ok \in BOOLEAN, OutboundStage(r, ok)
    PROVE  \/ Client!OutboundSubmitted(r.id) \/ Client!OutboundStage(r.id)
           \/ UNCHANGED <<prompts, disk>>
  <1> DEFINE p == prompts[r.id]
             b == Blanked(prompts)
  <1>1. /\ r.id \in PromptIds /\ r.op \in StageCalls
        /\ prompts \in [PromptIds -> OutboundPrompt] /\ p \in OutboundPrompt
        /\ IF ok THEN Persist ELSE UNCHANGED disk
    BY DEF OutboundStage, GoodRequest, Carries, StageCalls, ServerTyped
  <1>2. /\ b[r.id] = Blank(p) /\ b[r.id].status = p.status
        /\ Blanked(prompts)' = Blanked(prompts')
    <2>1. Blanked(prompts)' = Blanked(prompts')
      BY DEF Blanked
    <2> QED
      BY <1>1, <2>1, BlankFacts, BlankedExcept
  <1>3. CASE r.op = "submitted"
    <2>1. prompts' = [prompts EXCEPT ![r.id] = markSubmitted(p)] /\ ok = canMarkSubmitted(p)
      BY <1>3 DEF OutboundStage
    <2>2. CASE p.status # "waiting_manual_send"
      BY <1>1, <2>1, <2>2 DEF markSubmitted, canMarkSubmitted
    <2>3. CASE p.status = "waiting_manual_send"
      <3>1. Blanked(prompts') = [b EXCEPT ![r.id] = Client!markSubmitted(b[r.id])]
        <4> DEFINE q == markSubmitted(p)
        <4>1. Client!markSubmitted(b[r.id]) = Blank(q)
          BY <1>1, <1>2, SameStore, BlankFacts
        <4>2. prompts' = [prompts EXCEPT ![r.id] = q]
          BY <2>1
        <4> HIDE DEF q
        <4>3. Blanked([prompts EXCEPT ![r.id] = q]) = [b EXCEPT ![r.id] = Blank(q)]
          BY <1>1, BlankedExcept
        <4> QED
          BY <4>1, <4>2, <4>3
      <3>2. Client!canMarkSubmitted(b[r.id]) <=> ok
        BY <1>1, <1>2, <2>1, SameStore, BlankFacts
      <3> QED
        BY <1>1, <1>2, <2>3, <3>1, <3>2, ClientFrame DEF Client!OutboundSubmitted
    <2> QED
      BY <2>2, <2>3
  <1>4. CASE r.op # "submitted" /\ ~ok
    BY <1>1, <1>4 DEF OutboundStage
  <1>5. CASE r.op = "failed" /\ ok
    <2>1. prompts' = [prompts EXCEPT ![r.id] = markFailed(p)] /\ canMarkFailed(p)
      BY <1>5 DEF OutboundStage
    <2>2. Client!markFailed(b[r.id]) = Blank(markFailed(p)) /\ Client!canMarkFailed(b[r.id])
      BY <1>1, <1>2, <2>1, SameStore, BlankFacts
    <2>3. Blanked(prompts') = [b EXCEPT ![r.id] = Client!markFailed(b[r.id])]
      <3> DEFINE q == markFailed(p)
      <3>1. prompts' = [prompts EXCEPT ![r.id] = q] /\ Client!markFailed(b[r.id]) = Blank(q)
        BY <2>1, <2>2
      <3> HIDE DEF q
      <3>2. Blanked([prompts EXCEPT ![r.id] = q]) = [b EXCEPT ![r.id] = Blank(q)]
        BY <1>1, BlankedExcept
      <3> QED
        BY <3>1, <3>2
    <2> QED
      BY <1>1, <1>2, <1>5, <2>2, <2>3, ClientFrame DEF Client!OutboundStage
  <1>6. CASE r.op \notin {"submitted", "failed"} /\ ok
    <2>1. /\ r.op \in {"responding", "response_ready", "returned"}
          /\ prompts' = [prompts EXCEPT ![r.id] = [p EXCEPT !.status = r.op]]
          /\ p.status = StageFrom[r.op]
      BY <1>1, <1>6 DEF OutboundStage, StageCalls
    <2>2. r.op \in OutboundPromptStatus /\ r.op \in DOMAIN Client!StageFrom
          /\ Client!StageFrom[r.op] = StageFrom[r.op]
      BY <2>1 DEF OutboundPromptStatus, StageFrom, Client!StageFrom
    <2>3. Blanked(prompts') = [b EXCEPT ![r.id] = [b[r.id] EXCEPT !.status = r.op]]
      <3> DEFINE q == [p EXCEPT !.status = r.op]
      <3>1. prompts' = [prompts EXCEPT ![r.id] = q] /\ [b[r.id] EXCEPT !.status = r.op] = Blank(q)
        BY <1>1, <1>2, <2>1, <2>2, BlankFacts
      <3> HIDE DEF q
      <3>2. Blanked([prompts EXCEPT ![r.id] = q]) = [b EXCEPT ![r.id] = Blank(q)]
        BY <1>1, BlankedExcept
      <3> QED
        BY <3>1, <3>2
    <2> QED
      BY <1>1, <1>2, <1>6, <2>1, <2>2, <2>3, ClientFrame DEF Client!OutboundStage
  <1> QED
    BY <1>3, <1>4, <1>5, <1>6

LEMMA ReturnIsClient ==
    ASSUME NEW r, NEW ok, ExtractReturn(r, ok)
    PROVE  Client!OtherPersists \/ UNCHANGED <<prompts, disk>>
  BY PersistIsClient DEF ExtractReturn, serverVars

\* A request, answered, not heard of, or late, is some client's call.
LEMMA ServedIsClient ==
    ASSUME ServerTyped, NEW r \in GoodRequest, NEW ok \in BOOLEAN, Serve(r, ok)
    PROVE  ClientStep
  <1>1. CASE OutboundNext(r, ok)
    BY <1>1, NextIsClient DEF ClientStep, ClientCalls
  <1>2. CASE OutboundAck(r, ok) \/ OutboundStage(r, ok)
    <2>1. r.id \in PromptIds
      BY <1>2 DEF OutboundAck, OutboundStage, StageCalls, GoodRequest, Carries
    <2>2. \/ Client!OutboundAck(r.id) \/ Client!OutboundSubmitted(r.id) \/ Client!OutboundStage(r.id)
          \/ UNCHANGED <<prompts, disk>>
      BY <1>2, AckIsClient, StageIsClient
    <2> QED
      BY <2>1, <2>2 DEF ClientStep, ClientCalls, Client!OutboundCall
  <1>3. CASE ExtractReturn(r, ok)
    BY <1>3, ReturnIsClient DEF ClientStep
  <1> QED
    BY <1>1, <1>2, <1>3 DEF Serve

LEMMA CancelIsClient ==
    ASSUME ServerTyped, NEW i \in PromptIds, OutboundCancel(i)
    PROVE  ClientStep
  <1> DEFINE q == cancel(prompts[i])
  <1>1. /\ prompts' = [prompts EXCEPT ![i] = q] /\ canCancel(prompts[i]) /\ Persist
        /\ prompts \in [PromptIds -> OutboundPrompt] /\ prompts[i] \in OutboundPrompt
    BY DEF OutboundCancel, ServerTyped
  <1>2. /\ Blanked(prompts)[i] = Blank(prompts[i])
        /\ Client!cancel(Blanked(prompts)[i]) = Blank(q)
        /\ Client!canCancel(Blanked(prompts)[i])
    <2>1. Blanked(prompts)[i] = Blank(prompts[i])
      BY <1>1, BlankedExcept
    <2>2. cancel(Blank(prompts[i])) = Blank(q) /\ canCancel(Blank(prompts[i]))
      BY <1>1, BlankFacts
    <2>3. /\ Client!cancel(Blank(prompts[i])) = cancel(Blank(prompts[i]))
          /\ Client!canCancel(Blank(prompts[i])) <=> canCancel(Blank(prompts[i]))
      BY SameStore
    <2> QED
      BY <2>1, <2>2, <2>3
  <1> HIDE DEF q
  <1>3. Blanked([prompts EXCEPT ![i] = q]) = [Blanked(prompts) EXCEPT ![i] = Blank(q)]
    BY <1>1, BlankedExcept
  <1>4. Blanked(prompts)' = [Blanked(prompts) EXCEPT ![i] = Client!cancel(Blanked(prompts)[i])]
    <2>1. Blanked(prompts') = [Blanked(prompts) EXCEPT ![i] = Client!cancel(Blanked(prompts)[i])]
      BY <1>1, <1>2, <1>3
    <2> QED
      BY <2>1 DEF Blanked
  <1>5. Client!OutboundCancel(i)
    BY <1>1, <1>2, <1>4, ClientFrame DEF Client!OutboundCancel
  <1> QED
    BY <1>5 DEF ClientStep, ClientCalls, Client!OutboundCall

\* Without loops, a restart restores the snapshot and recovers nothing.
LEMMA RestartIsClient ==
    ASSUME Restart
    PROVE  Client!Restart
  <1>1. prompts' = disk.prompts /\ disk' = disk
    BY DEF Restart
  <1>2. /\ Blanked(prompts)' = Blanked(disk.prompts)
        /\ Blanked(disk.prompts)' = Blanked(disk.prompts)
    BY <1>1 DEF Blanked
  <1> DEFINE bs == Blanked(disk.prompts)
             old == [prompts |-> bs, loopOf |-> OfNoLoop, loops |-> NoLoops]
             stopped == {l \in {} : Client!Interrupted(old.loops[l], old.prompts)}
             current == {old.loops[l].current : l \in stopped}
  <1>3. NoLoops = [l \in {} |-> IF l \in stopped THEN [old.loops[l] EXCEPT !.status = "failed"]
                                                ELSE old.loops[l]]
    BY DEF NoLoops
  <1>4. bs = [i \in PromptIds |-> IF i \in current /\ Client!canMarkFailed(old.prompts[i])
                                     THEN Client!markFailed(old.prompts[i]) ELSE old.prompts[i]]
    BY DEF Blanked
  <1>5. Client!PromptIds = PromptIds
    BY DEF Client!PromptIds, PromptIds
  <1>6. old' = old /\ old.loopOf = OfNoLoop
    BY <1>2, ClientFrame
  <1>7. NoLoops' = NoLoops /\ OfNoLoop' = OfNoLoop
    BY ClientFrame
  <1> QED
    BY <1>2, <1>3, <1>4, <1>5, <1>6, <1>7, Zenon DEF Client!Restart

LEMMA TickIsClient ==
    ASSUME ServerTyped, Tick
    PROVE  Client!Tick
  <1>1. /\ prompts \in [PromptIds -> OutboundPrompt] /\ disk \in Snapshot
        /\ disk.prompts \in [PromptIds -> OutboundPrompt]
        /\ prompts' = [i \in PromptIds |-> Age(prompts[i])]
        /\ disk' = [disk EXCEPT !.prompts = [i \in PromptIds |-> Age(disk.prompts[i])]]
    BY DEF Tick, ServerTyped, Snapshot
  <1>2. ASSUME NEW ps \in [PromptIds -> OutboundPrompt]
        PROVE  Blanked([i \in PromptIds |-> Age(ps[i])])
                 = [i \in PromptIds |-> Client!Age(Blanked(ps)[i])]
    BY <1>2, SameStore, BlankFacts DEF Blanked
  <1>3. disk'.prompts = [i \in PromptIds |-> Age(disk.prompts[i])]
    BY <1>1 DEF Snapshot
  <1>4. /\ Blanked(prompts') = [i \in PromptIds |-> Client!Age(Blanked(prompts)[i])]
        /\ Blanked(disk'.prompts) = [i \in PromptIds |-> Client!Age(Blanked(disk.prompts)[i])]
    BY <1>1, <1>2, <1>3
  <1>5. NoLoops = [l \in {} |-> Client!LoopAge(NoLoops[l])]
    BY DEF NoLoops
  <1>6. /\ Blanked(prompts)' = Blanked(prompts')
        /\ Blanked(disk.prompts)' = Blanked(disk'.prompts)
    BY DEF Blanked
  <1> DEFINE bs == Blanked(disk.prompts)
             old == [prompts |-> bs, loopOf |-> OfNoLoop, loops |-> NoLoops]
             new == [prompts |-> Blanked(disk.prompts)', loopOf |-> OfNoLoop', loops |-> NoLoops']
  <1>7. new = [old EXCEPT !.prompts = [i \in PromptIds |-> Client!Age(old.prompts[i])],
                          !.loops = [l \in {} |-> Client!LoopAge(old.loops[l])]]
    <2> DEFINE aged == [i \in PromptIds |-> Client!Age(old.prompts[i])]
               none == [l \in {} |-> Client!LoopAge(old.loops[l])]
    <2>1. old.prompts = bs /\ old.loops = NoLoops
      OBVIOUS
    <2>2. aged = Blanked(disk.prompts)' /\ none = NoLoops
      BY <1>4, <1>5, <1>6, <2>1
    <2>3. [old EXCEPT !.prompts = aged, !.loops = none]
             = [prompts |-> aged, loopOf |-> OfNoLoop, loops |-> none]
      <3> HIDE DEF aged, none, bs
      <3>1. [old EXCEPT !.prompts = aged]
              = [prompts |-> aged, loopOf |-> OfNoLoop, loops |-> NoLoops]
        OBVIOUS
      <3>2. [[prompts |-> aged, loopOf |-> OfNoLoop, loops |-> NoLoops] EXCEPT !.loops = none]
              = [prompts |-> aged, loopOf |-> OfNoLoop, loops |-> none]
        OBVIOUS
      <3> QED
        BY <3>1, <3>2, Zenon
    <2>4. new = [prompts |-> aged, loopOf |-> OfNoLoop, loops |-> none]
      <3> HIDE DEF aged, none
      <3> QED
        BY <2>2, ClientFrame
    <2> QED
      BY <2>3, <2>4, Zenon
  <1>8. /\ Blanked(prompts)' = [i \in PromptIds |-> Client!Age(Blanked(prompts)[i])]
        /\ NoLoops' = [l \in {} |-> Client!LoopAge(NoLoops[l])]
    BY <1>4, <1>5, <1>6, ClientFrame
  <1>9. Client!PromptIds = PromptIds
    BY DEF Client!PromptIds, PromptIds
  <1>10. NoLoops' = NoLoops /\ OfNoLoop' = OfNoLoop
    BY ClientFrame
  <1> QED
    BY <1>7, <1>8, <1>9, <1>10, Zenon DEF Client!Tick

LEMMA NextIsClientStep ==
    ASSUME WellFormed, [Next]_vars
    PROVE  ClientStep
  <1>0. ServerTyped /\ ClientTyped
    BY DEF WellFormed
  <1>1. ASSUME NEW t \in Tabs, Answered(t) \/ AnswerLost(t)
        PROVE  ClientStep
    <2>1. PICK ok \in BOOLEAN : Serve(RequestOf(tabs[t]), ok)
      BY <1>1 DEF Answered, AnswerLost
    <2>2. RequestOf(tabs[t]) \in GoodRequest
      BY <1>0, <1>1, RequestOfFacts DEF ClientTyped, Answered, AnswerLost
    <2> QED
      BY <1>0, <2>1, <2>2, ServedIsClient
  <1>2. ASSUME NEW r \in late, ServeLate(r)
        PROVE  ClientStep
    <2>1. r \in GoodRequest
      BY <1>0 DEF ClientTyped
    <2> QED
      BY <1>0, <1>2, <2>1, ServedIsClient DEF ServeLate
  <1>3. ASSUME NEW t \in Tabs, PanelReturn(t)
        PROVE  ClientStep
    <2>1. (\E r, ok : ExtractReturn(r, ok)) \/ UNCHANGED serverVars
      BY <1>3 DEF PanelReturn, SubmitReturn
    <2> QED
      BY <2>1, ReturnIsClient DEF ClientStep, serverVars
  <1>4. ASSUME NEW t \in Tabs,
               \/ StartTick(t) \/ Fill(t) \/ Submit(t) \/ WaitReply(t) \/ RequestLost(t)
               \/ Reload(t) \/ Chat(t)
        PROVE  ClientStep
    BY <1>4, ChatFrame
    DEF StartTick, Fill, Submit, WaitReply, RequestLost, Reload, serverVars, ClientStep
  <1>5. CASE OutboundCreate \/ \E i \in PromptIds : OutboundCancel(i)
    BY <1>0, <1>5, CancelIsClient DEF ClientStep
  <1>6. CASE OtherPersists
    BY <1>6, PersistIsClient DEF OtherPersists, ClientStep
  <1>7. CASE Restart
    BY <1>7, RestartIsClient DEF ClientStep
  <1>8. CASE Tick
    BY <1>0, <1>8, TickIsClient DEF ClientStep
  <1>9. CASE UNCHANGED vars
    BY <1>9 DEF vars, ClientStep
  <1> QED
    BY <1>1, <1>2, <1>3, <1>4, <1>5, <1>6, <1>7, <1>8, <1>9
    DEF Next, PollerStep, PageStep, Call

\* WebRelayLoop's clients cover the pages of OutboundRelay: what holds of the
\* loops and their prompts whatever clients call holds with these pages
\* (outbound-poller.ts and the panel as clients of the outbound routes).
THEOREM PagesActAsClients == Spec => PagesAreClients
  <1>1. WellFormed /\ [Next]_vars =>
          [\/ OutboundCreate
           \/ ClientCalls
           \/ Client!OtherPersists
           \/ Client!Restart
           \/ Client!Tick]_<<prompts, disk.prompts>>
    BY NextIsClientStep DEF ClientStep
  <1> QED
    BY <1>1, AlwaysWellFormed, PTL DEF Spec, PagesAreClients
=============================================================================
