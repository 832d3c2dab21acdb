--------------------- MODULE OutboundPromptStore_proofs ---------------------
(***************************************************************************)
(* Lemmas about the operators of OutboundPromptStore, on which the proofs  *)
(* about the relay and about the loops rest.                               *)
(***************************************************************************)
EXTENDS OutboundPromptStore, WellFoundedInduction, TLAPS

-----------------------------------------------------------------------------
(* The least element of a set of prompt ids, which claimNext takes.        *)

LEMMA LeastElement ==
    ASSUME NEW S \in SUBSET Nat, S # {}
    PROVE  \E i \in S : \A j \in S : i <= j
  <1> DEFINE Less == OpToRel(<, Nat)
  <1>1. IsWellFoundedOn(Less, Nat)
    BY NatLessThanWellFounded
  <1>2. \A i, j \in Nat : i < j => <<i, j>> \in Less
    BY DEF OpToRel
  <1> HIDE DEF Less
  <1>3. \E i \in S : \A j \in S : <<j, i>> \notin Less
    BY <1>1, WFMin
  <1> QED
    <2> PICK i \in S : \A j \in S : <<j, i>> \notin Less
      BY <1>3
    <2> SUFFICES ASSUME NEW j \in S PROVE i <= j
      OBVIOUS
    <2>1. i \in Nat /\ j \in Nat /\ ~(j < i)
      BY <1>2
    <2> QED
      BY <2>1

-----------------------------------------------------------------------------
(* The store's operators on one prompt: they yield prompts, and none makes *)
(* a prompt claimable (again) or brings one into being.                    *)

\* Not handed to any page yet.
Fresh(p) == p.status \in {"absent", "queued"}

Absent(p) == p.status = "absent"

\* Not acknowledged by any page yet.
Early(p) == p.status \in {"absent", "queued", "claimed"}

LEMMA AgeRanges ==
    /\ 0 \in 0..(AuthTTL + 1) /\ 0 \in 0..(ClaimTTL + 1) /\ 0 \in 0..(RoundTTL + 1)
    /\ \A ttl \in Nat : \A n \in 0..(ttl + 1) : Older(n, ttl) \in 0..(ttl + 1)
  BY TTLAssumption DEF Older

LEMMA AbsentPromptFacts ==
    /\ AbsentPrompt \in OutboundPrompt
    /\ Absent(AbsentPrompt)
    /\ createOutboundPrompt \in OutboundPrompt
    /\ \A s \in OutboundPromptStatus : Ended(s) \in OutboundPrompt /\ Ended(s).status = s
  BY TTLAssumption
  DEF AbsentPrompt, OutboundPrompt, Absent, createOutboundPrompt, Ended,
      OutboundPromptStatus, NoToken

LEMMA AgeFacts ==
    ASSUME NEW p \in OutboundPrompt
    PROVE  /\ Age(p) \in OutboundPrompt
           /\ Age(p).status = p.status
  <1>1. /\ p.age \in 0..(AuthTTL + 1) /\ p.claimAge \in 0..(ClaimTTL + 1)
        /\ p.subAge \in 0..(RoundTTL + 1)
    BY DEF OutboundPrompt
  <1>2. /\ Older(p.age, AuthTTL) \in 0..(AuthTTL + 1)
        /\ Older(p.claimAge, ClaimTTL) \in 0..(ClaimTTL + 1)
        /\ Older(p.subAge, RoundTTL) \in 0..(RoundTTL + 1)
    BY <1>1, AgeRanges, TTLAssumption
  <1> QED
    BY <1>1, <1>2 DEF Age, OutboundPrompt

LEMMA RecoverStaleFacts ==
    ASSUME NEW p \in OutboundPrompt
    PROVE  /\ recoverStale(p) \in OutboundPrompt
           /\ Fresh(recoverStale(p)) => recoverStale(p) = p
           /\ Absent(p) => recoverStale(p) = p
           /\ p.status \in TerminalOutbound => recoverStale(p) = p
           /\ recoverStale(p).status = "returned" => recoverStale(p) = p
           /\ Early(recoverStale(p)) => recoverStale(p) = p
  BY AbsentPromptFacts
  DEF recoverStale, Fresh, Absent, Early, PreSubmission, OutboundPromptStatus, TerminalOutbound

LEMMA ClaimFacts ==
    ASSUME NEW p \in OutboundPrompt, NEW token \in Nat
    PROVE  /\ claim(p, token) \in OutboundPrompt
           /\ claim(p, token).status = "claimed" /\ ~Fresh(claim(p, token))
  BY AgeRanges DEF claim, OutboundPrompt, OutboundPromptStatus, Fresh

LEMMA AcknowledgeFacts ==
    ASSUME NEW p \in OutboundPrompt, NEW ok \in BOOLEAN
    PROVE  acknowledge(p, ok) \in OutboundPrompt /\ ~Fresh(acknowledge(p, ok))
  <1>1. [AbsentPrompt EXCEPT !.status = "waiting_manual_send", !.age = p.age]
          \in OutboundPrompt
    BY AgeRanges DEF AbsentPrompt, OutboundPrompt, OutboundPromptStatus, NoToken
  <1>2. [AbsentPrompt EXCEPT !.status = "waiting_manual_send", !.age = p.age].status
          = "waiting_manual_send"
    BY DEF AbsentPrompt
  <1> QED
    BY <1>1, <1>2, AbsentPromptFacts DEF acknowledge, Fresh, OutboundPromptStatus

LEMMA MarkSubmittedFacts ==
    ASSUME NEW p \in OutboundPrompt
    PROVE  /\ markSubmitted(p) \in OutboundPrompt
           /\ markSubmitted(p) = p \/ (~Fresh(markSubmitted(p)) /\ ~Fresh(p))
  <1>1. /\ [AbsentPrompt EXCEPT !.status = "submitted"] \in OutboundPrompt
        /\ [AbsentPrompt EXCEPT !.status = "submitted"].status = "submitted"
    BY AbsentPromptFacts DEF AbsentPrompt, OutboundPrompt, OutboundPromptStatus
  <1> QED
    BY <1>1, AbsentPromptFacts DEF markSubmitted, Fresh, OutboundPromptStatus

\* claimNext hands out a queued prompt, the least one; nothing else becomes or
\* stays claimable that was not, and what has ended stays as it is.
LEMMA ClaimNextFacts ==
    ASSUME NEW S \in SUBSET Nat, NEW ps \in [S -> OutboundPrompt], NEW token \in Nat
    PROVE  /\ claimNext(ps, token) \in [S -> OutboundPrompt]
           /\ \A i \in S :
                /\ Fresh(claimNext(ps, token)[i]) => Fresh(ps[i])
                /\ Absent(ps[i]) <=> Absent(claimNext(ps, token)[i])
                /\ Early(claimNext(ps, token)[i]) => Early(ps[i])
                /\ ps[i].status \in TerminalOutbound => claimNext(ps, token)[i] = ps[i]
                /\ claimNext(ps, token)[i].status = "returned" => ps[i].status = "returned"
           /\ Claimable(ps) # {} =>
                /\ NextClaim(ps) \in S
                /\ Fresh(ps[NextClaim(ps)])
                /\ ~Fresh(claimNext(ps, token)[NextClaim(ps)])
  <1> DEFINE rs == recoverStaleClaims(ps)
  <1>1. /\ rs \in [S -> OutboundPrompt]
        /\ \A i \in S : rs[i] = recoverStale(ps[i])
    BY RecoverStaleFacts DEF recoverStaleClaims
  <1>2. \A i \in S : /\ Fresh(rs[i]) => rs[i] = ps[i]
                     /\ Absent(ps[i]) => rs[i] = ps[i]
                     /\ ps[i].status \in TerminalOutbound => rs[i] = ps[i]
                     /\ rs[i].status = "returned" => rs[i] = ps[i]
                     /\ Early(rs[i]) => rs[i] = ps[i]
                     /\ Absent(rs[i]) => rs[i] = ps[i]
    BY <1>1, RecoverStaleFacts DEF Early, Absent
  <1>3. CASE Claimable(ps) = {}
    BY <1>1, <1>2, <1>3 DEF claimNext
  <1>4. CASE Claimable(ps) # {}
    <2> DEFINE n == NextClaim(ps)
    <2>1. Claimable(ps) \subseteq S /\ S \subseteq Nat
      BY DEF Claimable
    <2>2. n \in Claimable(ps)
      BY <1>4, <2>1, LeastElement DEF NextClaim
    <2>3. n \in S /\ rs[n].status = "queued"
      BY <2>1, <2>2 DEF Claimable
    <2>4. rs[n] = ps[n] /\ Fresh(ps[n]) /\ ~Absent(ps[n]) /\ ps[n].status \notin TerminalOutbound
      BY <1>2, <2>3 DEF Fresh, Absent, TerminalOutbound
    <2> HIDE DEF n, rs
    <2>5. claimNext(ps, token) = [rs EXCEPT ![n] = claim(rs[n], token)]
      BY <1>4 DEF claimNext, n, rs
    <2>6. /\ claim(rs[n], token) \in OutboundPrompt
          /\ claim(rs[n], token).status = "claimed" /\ ~Fresh(claim(rs[n], token))
      BY <1>1, <2>3, ClaimFacts
    <2>7. claimNext(ps, token) \in [S -> OutboundPrompt]
      BY <1>1, <2>5, <2>6
    <2>8. claimNext(ps, token)[n].status = "claimed" /\ ~Fresh(claimNext(ps, token)[n])
      BY <1>1, <2>3, <2>5, <2>6
    <2>9. \A i \in S : i # n => claimNext(ps, token)[i] = rs[i]
      BY <1>1, <2>5
    <2>10. Early(ps[n]) /\ ~Absent(claimNext(ps, token)[n])
      BY <2>3, <2>4, <2>8 DEF Early, Absent
    <2> QED
      BY <1>2, <2>3, <2>4, <2>7, <2>8, <2>9, <2>10 DEF n
  <1> QED
    BY <1>3, <1>4
=============================================================================
