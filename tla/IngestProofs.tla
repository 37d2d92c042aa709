---------------------------- MODULE IngestProofs ----------------------------
(* What holds of Ingest for any source, any prices and any number of polls  *)
(* that overlap.                                                            *)
EXTENDS Ingest, TLAPS

-----------------------------------------------------------------------------
(* The inductive invariant.                                                 *)

(* Rows and messages of an offer, and the polls between the two.            *)
CountInv ==
  /\ OneTaskPerItem
  /\ \A r \in Poller : stage[r] = "enqueue" =>
       rows[item[r]] = 1 /\ queued[item[r]] = 0
  /\ \A r, s \in Poller :
       stage[r] = "enqueue" /\ stage[s] = "enqueue" /\ item[r] = item[s] =>
         r = s

Inv == TypeOK /\ CountInv

LEMMA InitInv == Init => Inv
BY Assumptions DEF Init, Inv, TypeOK, CountInv, OneTaskPerItem

(* A poll past the selection is at an offer.                                *)
LEMMA ItemTyped ==
  ASSUME TypeOK, NEW r \in Poller, stage[r] \in {"accept", "commit", "enqueue"}
  PROVE  item[r] \in Item
BY DEF TypeOK

LEMMA NextTypeOK == TypeOK /\ [Next]_vars => TypeOK'
<1> SUFFICES ASSUME TypeOK, [Next]_vars PROVE TypeOK'
  OBVIOUS
<1>0. NoItem \notin Item /\ MaxFaults \in Nat
  BY Assumptions
<1> USE <1>0 DEF TypeOK, Goto, Stop
<1>1. CASE \E r \in Poller : Poll(r)
  <2>1. \A r \in Poller : Offers(r) \subseteq Item
    BY DEF Offers
  <2>2. QED
    BY <1>1, <2>1 DEF Poll
<1>2. CASE \E r \in Poller, i \in Item : Select(r, i)
  BY <1>2 DEF Select
<1>3. CASE \E r \in Poller : Accept(r)
  BY <1>3, ItemTyped DEF Accept
<1>4. CASE \E r \in Poller : Commit(r)
  BY <1>4, ItemTyped DEF Commit
<1>5. CASE \E r \in Poller : Enqueue(r)
  BY <1>5, ItemTyped DEF Enqueue
<1>6. CASE \E r \in Poller : Finish(r)
  BY <1>6 DEF Finish
<1>7. CASE \E r \in Poller : Fail(r)
  BY <1>7 DEF Fail
<1>8. CASE UNCHANGED vars
  BY <1>8 DEF vars
<1>9. QED
  BY <1>1, <1>2, <1>3, <1>4, <1>5, <1>6, <1>7, <1>8 DEF Next, Walk

(* The steps that commit nothing and publish nothing: no poll reaches the   *)
(* publication by one of them.                                              *)
LEMMA KeepsCounts ==
  ASSUME CountInv, rows' = rows, queued' = queued,
         \A r \in Poller : stage'[r] = "enqueue" =>
           stage[r] = "enqueue" /\ item'[r] = item[r]
  PROVE  CountInv'
BY DEF CountInv, OneTaskPerItem

LEMMA NextCountInv == Inv /\ [Next]_vars => CountInv'
<1> SUFFICES ASSUME Inv, [Next]_vars PROVE CountInv'
  OBVIOUS
<1>1. CASE \E r \in Poller : Commit(r) /\ ~Duplicate(item[r])
  <2> PICK r \in Poller : Commit(r) /\ ~Duplicate(item[r])
    BY <1>1
  <2>1. /\ item[r] \in Item
        /\ rows[item[r]] = 0
        /\ queued[item[r]] = 0
    BY ItemTyped DEF Commit, Duplicate, Inv, TypeOK, CountInv, OneTaskPerItem
  <2>2. /\ rows' = [rows EXCEPT ![item[r]] = 1]
        /\ queued' = queued
        /\ item' = item
        /\ stage' = [stage EXCEPT ![r] = "enqueue"]
    BY <2>1 DEF Commit, Goto
  <2>3. OneTaskPerItem'
    BY <2>1, <2>2 DEF Inv, TypeOK, CountInv, OneTaskPerItem
  <2>4. \A s \in Poller : s # r /\ stage[s] = "enqueue" => item[s] # item[r]
    BY <2>1 DEF Inv, CountInv
  <2>5. ASSUME NEW s \in Poller, stage'[s] = "enqueue"
        PROVE  rows'[item'[s]] = 1 /\ queued'[item'[s]] = 0
    <3>1. CASE s = r
      BY <2>1, <2>2, <3>1 DEF Inv, TypeOK
    <3>2. CASE s # r
      <4>1. stage[s] = "enqueue" /\ item[s] \in Item
        BY <2>2, <2>5, <3>2, ItemTyped DEF Inv, TypeOK
      <4>2. QED
        BY <2>2, <2>4, <3>2, <4>1 DEF Inv, TypeOK, CountInv
    <3>3. QED
      BY <3>1, <3>2
  <2>6. ASSUME NEW s \in Poller, NEW u \in Poller,
               stage'[s] = "enqueue", stage'[u] = "enqueue",
               item'[s] = item'[u]
        PROVE  s = u
    BY <2>2, <2>4, <2>6 DEF Inv, TypeOK, CountInv
  <2>7. QED
    BY <2>3, <2>5, <2>6 DEF CountInv
<1>2. CASE \E r \in Poller : Enqueue(r)
  <2> PICK r \in Poller : Enqueue(r)
    BY <1>2
  <2>1. /\ item[r] \in Item
        /\ rows[item[r]] = 1
        /\ queued[item[r]] = 0
    BY ItemTyped DEF Enqueue, Inv, CountInv
  <2>2. /\ rows' = rows
        /\ queued' = [queued EXCEPT ![item[r]] = 1]
        /\ item' = [item EXCEPT ![r] = NoItem]
        /\ stage' = [stage EXCEPT ![r] = "select"]
    BY <2>1 DEF Enqueue, Goto
  <2>3. OneTaskPerItem'
    BY <2>1, <2>2 DEF Inv, TypeOK, CountInv, OneTaskPerItem
  <2>4. \A s \in Poller : stage'[s] = "enqueue" =>
          s # r /\ stage[s] = "enqueue" /\ item'[s] = item[s]
    BY <2>2 DEF Inv, TypeOK
  <2>5. \A s \in Poller : stage'[s] = "enqueue" => item[s] # item[r]
    BY <2>4 DEF Enqueue, Inv, CountInv
  <2>6. \A s \in Poller : stage'[s] = "enqueue" =>
          item[s] \in Item /\ queued'[item[s]] = queued[item[s]]
    BY <2>2, <2>4, <2>5, ItemTyped DEF Inv, TypeOK
  <2>7. QED
    BY <2>2, <2>3, <2>4, <2>6 DEF Inv, CountInv
<1>3. CASE \E r \in Poller :
             \/ Poll(r)
             \/ \E i \in Item : Select(r, i)
             \/ Accept(r)
             \/ (Commit(r) /\ Duplicate(item[r]))
             \/ Finish(r)
             \/ Fail(r)
  <2>1. rows' = rows /\ queued' = queued
    BY <1>3 DEF Poll, Select, Accept, Commit, Finish, Fail
  <2>2. \A s \in Poller : stage'[s] = "enqueue" =>
          stage[s] = "enqueue" /\ item'[s] = item[s]
    BY <1>3 DEF Poll, Select, Accept, Commit, Finish, Fail, Stop, Goto,
                Inv, TypeOK
  <2>3. QED
    BY <2>1, <2>2, KeepsCounts DEF Inv
<1>4. CASE UNCHANGED vars
  BY <1>4, KeepsCounts DEF vars, Inv
<1>5. QED
  BY <1>1, <1>2, <1>3, <1>4 DEF Next, Walk

LEMMA SpecInv == Spec => []Inv
<1>1. Inv /\ [Next]_vars => Inv'
  BY NextTypeOK, NextCountInv DEF Inv
<1>2. QED
  BY InitInv, <1>1, PTL DEF Spec

-----------------------------------------------------------------------------

(* Every reachable state has the declared types.                           *)
THEOREM TypeCorrect == Spec => []TypeOK
<1>1. Inv => TypeOK
  BY DEF Inv
<1>2. QED
  BY SpecInv, <1>1, PTL

(* However many polls overlap, an offer gets one task and one message:     *)
(* the loser of a race ends at its commit, before it publishes.            *)
THEOREM OffersTakenOnce == Spec => []OneTaskPerItem
<1>1. Inv => OneTaskPerItem
  BY DEF Inv, CountInv
<1>2. QED
  BY SpecInv, <1>1, PTL

(* What each step does to the rows, the messages and the publications.     *)
LEMMA CommitStep ==
  ASSUME Inv, NEW r \in Poller, Commit(r), ~Duplicate(item[r])
  PROVE  /\ item[r] \in Item
         /\ rows[item[r]] = 0 /\ queued[item[r]] = 0
         /\ rows' = [rows EXCEPT ![item[r]] = 1]
         /\ queued' = queued
         /\ \A i \in Item : i = item[r] => Publishing(i)'
         /\ \A i \in Item : i # item[r] => (Publishing(i)' <=> Publishing(i))
<1>1. /\ item[r] \in Item
      /\ rows[item[r]] = 0
      /\ queued[item[r]] = 0
  BY ItemTyped DEF Commit, Duplicate, Inv, TypeOK, CountInv, OneTaskPerItem
<1>2. /\ rows' = [rows EXCEPT ![item[r]] = 1]
      /\ queued' = queued
      /\ item' = item
      /\ stage' = [stage EXCEPT ![r] = "enqueue"]
  BY <1>1 DEF Commit, Goto
<1>3. stage \in [Poller -> {"idle", "select", "accept", "commit", "enqueue"}]
  BY DEF Inv, TypeOK
<1>4. \A i \in Item : i = item[r] => Publishing(i)'
  BY <1>2, <1>3 DEF Publishing
<1>5. stage[r] = "commit"
  BY DEF Commit
<1>6. ASSUME NEW i \in Item, i # item[r]
      PROVE  Publishing(i)' <=> Publishing(i)
  BY <1>2, <1>3, <1>5, <1>6 DEF Publishing
<1>7. QED
  BY <1>1, <1>2, <1>4, <1>6

(* A poll leaves the publication: it has published, or it fails.           *)
LEMMA LeaveStep ==
  ASSUME Inv, NEW r \in Poller, stage[r] = "enqueue",
         Enqueue(r) \/ Fail(r)
  PROVE  /\ item[r] \in Item
         /\ \A i \in Item : i = item[r] => Publishing(i) /\ ~Publishing(i)'
         /\ \A i \in Item : i # item[r] => (Publishing(i)' <=> Publishing(i))
<1>1. item[r] \in Item
  BY ItemTyped DEF Inv
<1>2. /\ stage \in [Poller -> {"idle", "select", "accept", "commit", "enqueue"}]
      /\ item \in [Poller -> Item \cup {NoItem}]
  BY DEF Inv, TypeOK
<1>3. stage'[r] # "enqueue"
  BY <1>2 DEF Enqueue, Fail, Stop, Goto
<1>4. \A s \in Poller : s # r => stage'[s] = stage[s] /\ item'[s] = item[s]
  BY <1>2 DEF Enqueue, Fail, Stop, Goto
<1>5. \A s \in Poller : s # r /\ stage[s] = "enqueue" => item[s] # item[r]
  BY DEF Inv, CountInv
<1>6. ASSUME NEW i \in Item, i = item[r]
      PROVE  Publishing(i) /\ ~Publishing(i)'
  BY <1>3, <1>4, <1>5, <1>6 DEF Publishing
<1>7. ASSUME NEW i \in Item, i # item[r]
      PROVE  Publishing(i)' <=> Publishing(i)
  BY <1>3, <1>4, <1>7 DEF Publishing
<1>8. QED
  BY <1>1, <1>6, <1>7

(* Every other step leaves all of them as they are.                        *)
Other(r) ==
  \/ Poll(r)
  \/ \E i \in Item : Select(r, i)
  \/ Accept(r)
  \/ (Commit(r) /\ Duplicate(item[r]))
  \/ Finish(r)
  \/ (Fail(r) /\ stage[r] # "enqueue")

LEMMA OtherStep ==
  ASSUME Inv, NEW r \in Poller, Other(r)
  PROVE  /\ rows' = rows /\ queued' = queued
         /\ \A i \in Item : Publishing(i)' <=> Publishing(i)
<1>1. rows' = rows /\ queued' = queued
  BY DEF Other, Poll, Select, Accept, Commit, Finish, Fail
<1>2. \A s \in Poller :
        /\ stage'[s] = "enqueue" <=> stage[s] = "enqueue"
        /\ stage[s] = "enqueue" => item'[s] = item[s]
  BY DEF Other, Poll, Select, Accept, Commit, Finish, Fail, Stop, Goto,
         Inv, TypeOK
<1>3. QED
  BY <1>1, <1>2 DEF Publishing

LEMMA Steps ==
  ASSUME Inv, [Next]_vars
  PROVE  \/ \E r \in Poller : Commit(r) /\ ~Duplicate(item[r])
         \/ \E r \in Poller : Enqueue(r)
         \/ \E r \in Poller : Fail(r) /\ stage[r] = "enqueue"
         \/ \E r \in Poller : Other(r)
         \/ UNCHANGED vars
BY DEF Next, Walk, Other

(* Without a fault every committed task is published or about to be, so    *)
(* the batch that a lost race abandons strands nothing.                    *)
THEOREM RacesStrandNothing == Spec => []StrandedOnlyByFault
<1>1. Init => StrandedOnlyByFault
  BY DEF Init, StrandedOnlyByFault
<1>2. Inv /\ StrandedOnlyByFault /\ [Next]_vars => StrandedOnlyByFault'
  <2> SUFFICES ASSUME Inv, StrandedOnlyByFault, [Next]_vars, faults' = 0,
                      NEW i \in Item, rows'[i] > queued'[i]
               PROVE  Publishing(i)'
    BY DEF StrandedOnlyByFault
  <2>1. CASE \E r \in Poller : Commit(r) /\ ~Duplicate(item[r])
    <3> PICK r \in Poller : Commit(r) /\ ~Duplicate(item[r])
      BY <2>1
    <3>1. faults = 0
      BY DEF Commit
    <3>2. CASE i = item[r]
      BY <3>2, CommitStep
    <3>3. CASE i # item[r]
      <4>1. rows'[i] = rows[i] /\ queued'[i] = queued[i]
        BY <3>3, CommitStep DEF Inv, TypeOK
      <4>2. QED
        BY <3>1, <3>3, <4>1, CommitStep DEF StrandedOnlyByFault
    <3>4. QED
      BY <3>2, <3>3
  <2>2. CASE \E r \in Poller : Enqueue(r)
    <3> PICK r \in Poller : Enqueue(r)
      BY <2>2
    <3>1. faults = 0 /\ rows' = rows /\ stage[r] = "enqueue"
      BY DEF Enqueue
    <3>2. /\ item[r] \in Item
          /\ rows[item[r]] = 1 /\ queued[item[r]] = 0
      BY <3>1, ItemTyped DEF Inv, CountInv
    <3>3. queued' = [queued EXCEPT ![item[r]] = 1]
      BY <3>2 DEF Enqueue
    <3>4. i # item[r]
      BY <3>1, <3>2, <3>3 DEF Inv, TypeOK
    <3>5. queued'[i] = queued[i]
      BY <3>3, <3>4 DEF Inv, TypeOK
    <3>6. QED
      BY <3>1, <3>4, <3>5, LeaveStep DEF StrandedOnlyByFault
  <2>3. CASE \E r \in Poller : Fail(r)
    BY <2>3 DEF Fail, Inv, TypeOK
  <2>4. CASE \E r \in Poller : Other(r) /\ ~Fail(r)
    <3> PICK r \in Poller : Other(r) /\ ~Fail(r)
      BY <2>4
    <3>1. faults = 0
      BY DEF Other, Poll, Select, Accept, Commit, Finish
    <3>2. QED
      BY <3>1, OtherStep DEF StrandedOnlyByFault
  <2>5. CASE UNCHANGED vars
    BY <2>5 DEF vars, StrandedOnlyByFault, Publishing
  <2>6. QED
    BY Steps, <2>1, <2>2, <2>3, <2>4, <2>5
<1>3. QED
  BY <1>1, <1>2, SpecInv, PTL DEF Spec

-----------------------------------------------------------------------------
(* The refinement of AdmitOnce.                                            *)

LEMMA NextAdmits == Inv /\ Inv' /\ [Next]_vars => [Once!Next]_admission
<1> SUFFICES ASSUME Inv, Inv', [Next]_vars
             PROVE  Once!Next \/ admission' = admission
  BY DEF Once!Next
<1>0. /\ rows \in [Item -> Nat] /\ queued \in [Item -> Nat]
      /\ rows' \in [Item -> Nat] /\ queued' \in [Item -> Nat]
  BY DEF Inv, TypeOK
<1>1. CASE \E r \in Poller : Commit(r) /\ ~Duplicate(item[r])
  <2> PICK r \in Poller : Commit(r) /\ ~Duplicate(item[r])
    BY <1>1
  <2>1. /\ item[r] \in Item
        /\ admission[item[r]] = "new"
        /\ admission'[item[r]] = "committed"
    BY <1>0, CommitStep DEF admission
  <2>2. ASSUME NEW i \in Item, i # item[r]
        PROVE  admission'[i] = admission[i]
    BY <1>0, <2>2, CommitStep DEF admission
  <2>3. admission' = [admission EXCEPT ![item[r]] = "committed"]
    BY <2>1, <2>2 DEF admission
  <2>4. QED
    BY <2>1, <2>3 DEF Once!Next, Once!Create, Once!Step
<1>2. CASE \E r \in Poller : Enqueue(r)
  <2> PICK r \in Poller : Enqueue(r)
    BY <1>2
  <2>1. /\ stage[r] = "enqueue" /\ item[r] \in Item
        /\ rows[item[r]] = 1 /\ queued[item[r]] = 0
        /\ rows' = rows
    BY ItemTyped DEF Enqueue, Inv, CountInv
  <2>2. queued' = [queued EXCEPT ![item[r]] = 1]
    BY <2>1 DEF Enqueue
  <2>3. /\ admission[item[r]] = "committed"
        /\ admission'[item[r]] = "enqueued"
    BY <1>0, <2>1, <2>2, LeaveStep DEF admission
  <2>4. ASSUME NEW i \in Item, i # item[r]
        PROVE  admission'[i] = admission[i]
    BY <1>0, <2>1, <2>2, <2>4, LeaveStep DEF admission
  <2>5. admission' = [admission EXCEPT ![item[r]] = "enqueued"]
    BY <2>1, <2>3, <2>4 DEF admission
  <2>6. QED
    BY <2>1, <2>3, <2>5 DEF Once!Next, Once!Enqueue, Once!Step
<1>3. CASE \E r \in Poller : Fail(r) /\ stage[r] = "enqueue"
  <2> PICK r \in Poller : Fail(r) /\ stage[r] = "enqueue"
    BY <1>3
  <2>1. /\ item[r] \in Item
        /\ rows[item[r]] = 1 /\ queued[item[r]] = 0
        /\ rows' = rows /\ queued' = queued
    BY ItemTyped DEF Fail, Inv, CountInv
  <2>2. /\ admission[item[r]] = "committed"
        /\ admission'[item[r]] = "lost"
    BY <1>0, <2>1, LeaveStep DEF admission
  <2>3. ASSUME NEW i \in Item, i # item[r]
        PROVE  admission'[i] = admission[i]
    BY <1>0, <2>1, <2>3, LeaveStep DEF admission
  <2>4. admission' = [admission EXCEPT ![item[r]] = "lost"]
    BY <2>1, <2>2, <2>3 DEF admission
  <2>5. QED
    BY <2>1, <2>2, <2>4 DEF Once!Next, Once!Lose, Once!Step
<1>4. CASE \E r \in Poller : Other(r)
  <2>1. ASSUME NEW i \in Item PROVE admission'[i] = admission[i]
    BY <1>4, <2>1, OtherStep DEF admission
  <2>2. QED
    BY <2>1 DEF admission
<1>5. CASE UNCHANGED vars
  BY <1>5 DEF vars, admission, Publishing
<1>6. QED
  BY Steps, <1>1, <1>2, <1>3, <1>4, <1>5

(* The polls admit an offer at most once and publish what they admitted at *)
(* most once, whatever fails.                                              *)
THEOREM IngestRefines == Spec => AdmitsOnce
<1>1. Init => Once!Init
  BY DEF Init, Once!Init, admission
<1>2. QED
  BY <1>1, SpecInv, NextAdmits, PTL DEF Spec, AdmitsOnce, Once!Spec
=============================================================================
