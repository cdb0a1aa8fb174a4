---------------------------- MODULE CashierProofs ---------------------------
(***************************************************************************)
(* Proofs about the ticket desk: for any number of tourists and any        *)
(* capacity of the queue, every waiting tourist has exactly one message    *)
(* under way and the statistics count exactly the tickets sold; and a      *)
(* queue with room for as many messages as there are tourists never lets   *)
(* the desk block itself.                                                  *)
(***************************************************************************)
EXTENDS Cashier, FiniteSetTheorems, FunctionTheorems, SequenceTheorems, WellFoundedInduction,
        TLAPS

-----------------------------------------------------------------------------
(* Sequences and numbers *)

\* msgrcv finds a first message if there is one.
LEMMA FirstIn ==
  ASSUME NEW S \in SUBSET Nat, S # {}
  PROVE  First(S) \in S /\ \A j \in S : First(S) <= j
<1> DEFINE R == OpToRel(<, Nat)
<1>1. \E i \in S : \A j \in S : ~(<<j, i>> \in R)
  BY NatLessThanWellFounded, WFMin
<1>2. \A i, j \in Nat : j < i => <<j, i>> \in R
  BY DEF OpToRel
<1> HIDE DEF R
<1>3. \E i \in S : \A j \in S : i <= j
  <2>1. PICK i \in S : \A j \in S : ~(<<j, i>> \in R)
    BY <1>1
  <2>2. \A j \in S : ~(j < i)
    BY <1>2, <2>1
  <2>3. QED
    BY <2>2
<1>4. QED
  BY <1>3 DEF First

\* Taking a message out of the queue leaves the others in their order.
LEMMA RemoveAtProperties ==
  ASSUME NEW M, NEW s \in Seq(M), NEW i \in 1..Len(s)
  PROVE  /\ RemoveAt(s, i) \in Seq(M)
         /\ Len(RemoveAt(s, i)) = Len(s) - 1
         /\ \A k \in 1..(Len(s) - 1) : RemoveAt(s, i)[k] = s[IF k < i THEN k ELSE k + 1]
<1>1. /\ SubSeq(s, 1, i - 1) \in Seq(M) /\ Len(SubSeq(s, 1, i - 1)) = i - 1
      /\ \A k \in 1..(i - 1) : SubSeq(s, 1, i - 1)[k] = s[k]
  <2>1. Len(s) \in Nat /\ i \in Int /\ 1 <= i /\ i <= Len(s)
    BY LenProperties
  <2>2. QED
    BY <2>1, SubSeqProperties
<1>2. /\ SubSeq(s, i + 1, Len(s)) \in Seq(M) /\ Len(SubSeq(s, i + 1, Len(s))) = Len(s) - i
      /\ \A k \in 1..(Len(s) - i) : SubSeq(s, i + 1, Len(s))[k] = s[k + i]
  <2>1. Len(s) \in Nat /\ i \in Int /\ 1 <= i /\ i <= Len(s)
    BY LenProperties
  <2>2. QED
    BY <2>1, SubSeqProperties
<1>3. Len(s) \in Nat
  BY LenProperties
<1> DEFINE a == SubSeq(s, 1, i - 1)
<1> DEFINE b == SubSeq(s, i + 1, Len(s))
<1>4. /\ a \o b \in Seq(M) /\ Len(a \o b) = Len(a) + Len(b)
      /\ \A k \in 1..(Len(a) + Len(b)) :
           (a \o b)[k] = IF k <= Len(a) THEN a[k] ELSE b[k - Len(a)]
  BY <1>1, <1>2, ConcatProperties
<1> HIDE DEF a, b
<1>5. RemoveAt(s, i) = a \o b
  BY DEF RemoveAt, a, b
<1>6. /\ Len(a) = i - 1 /\ Len(b) = Len(s) - i
      /\ \A k \in 1..(i - 1) : a[k] = s[k]
      /\ \A k \in 1..(Len(s) - i) : b[k] = s[k + i]
  BY <1>1, <1>2 DEF a, b
<1>7. ASSUME NEW k \in 1..(Len(s) - 1)
      PROVE  (a \o b)[k] = s[IF k < i THEN k ELSE k + 1]
  <2>1. CASE k < i
    BY <1>3, <1>4, <1>6, <2>1
  <2>2. CASE ~(k < i)
    <3>1. (a \o b)[k] = b[k - (i - 1)]
      BY <1>3, <1>4, <1>6, <2>2
    <3>2. b[k - (i - 1)] = s[k + 1]
      <4>1. k - (i - 1) \in 1..(Len(s) - i) /\ k - (i - 1) + i = k + 1
        BY <1>3, <2>2
      <4>2. QED
        BY <1>6, <4>1
    <3>3. QED
      BY <2>2, <3>1, <3>2
  <2>3. QED
    BY <2>1, <2>2
<1>8. Len(a \o b) = Len(s) - 1
  BY <1>3, <1>4, <1>6
<1>9. QED
  BY <1>4, <1>5, <1>7, <1>8, Zenon
-----------------------------------------------------------------------------
(* The invariant *)

Places == 1..Len(mq_cashier)

\* The part of the types the proofs need.
DeskTypes ==
  /\ mq_cashier \in Seq(CashierMsg)
  /\ tpc \in [Tourists -> {"arrive", "send", "wait", "ticket", "gone"}]
  /\ cpc \in {"head", "recv", "check", "count", "refuse", "sell", "exited"}
  /\ request \in Tourists \cup {NoTourist}

\* No two messages in the queue concern the same tourist, and the one they concern
\* is waiting.
OneInQueue ==
  /\ \A i, j \in Places : mq_cashier[i].tourist = mq_cashier[j].tourist => i = j
  /\ \A i \in Places : tpc[mq_cashier[i].tourist] = "wait"

\* The tourist in the cashier's hands is waiting, and has nothing in the queue.
OneInHand ==
  /\ request # NoTourist <=> cpc \in {"check", "count", "refuse", "sell"}
  /\ request # NoTourist => \A i \in Places : mq_cashier[i].tourist # request
  /\ request # NoTourist /\ ~mq_removed => tpc[request] = "wait"

\* The semaphores are removed after the queue.
QueueFirst ==
  /\ mq_removed => mq_cashier = <<>>
  /\ sem_removed \/ mpc \in {"handler_sem", "remove_sem"} => mq_removed

\* Nobody waits for nothing before the end of the day.
NobodyForgotten ==
  ~mq_removed /\ g_running /\ cpc # "exited" =>
    \A t \in Tourists : tpc[t] = "wait" =>
      request = t \/ \E i \in Places : mq_cashier[i].tourist = t

DeskInv == DeskTypes /\ OneInQueue /\ OneInHand /\ QueueFirst /\ NobodyForgotten

-----------------------------------------------------------------------------
(* The queue *)

\* Every message concerns a tourist.
LEMMA Addressed ==
  ASSUME DeskTypes
  PROVE  /\ Len(mq_cashier) \in Nat
         /\ \A i \in Places : mq_cashier[i] \in CashierMsg /\ mq_cashier[i].tourist \in Tourists
<1>1. Len(mq_cashier) \in Nat /\ \A i \in Places : mq_cashier[i] \in CashierMsg
  BY ElementOfSeq, LenProperties DEF DeskTypes, Places
<1>2. QED
  BY <1>1 DEF CashierMsg

\* msgsnd puts a message behind the others.
LEMMA Sent ==
  ASSUME DeskTypes, NEW k \in {"request", "ticket", "refusal"}, NEW t \in Tourists,
         mq_cashier' = Append(mq_cashier, [kind |-> k, tourist |-> t])
  PROVE  /\ mq_cashier' \in Seq(CashierMsg)
         /\ Places' = Places \cup {Len(mq_cashier) + 1} /\ Len(mq_cashier) + 1 \notin Places
         /\ \A i \in Places : mq_cashier'[i] = mq_cashier[i]
         /\ mq_cashier'[Len(mq_cashier) + 1].tourist = t
         /\ mq_cashier'[Len(mq_cashier) + 1].kind = k
<1>1. /\ [kind |-> k, tourist |-> t] \in CashierMsg
      /\ [kind |-> k, tourist |-> t].tourist = t /\ [kind |-> k, tourist |-> t].kind = k
  BY DEF CashierMsg
<1>2. /\ mq_cashier' \in Seq(CashierMsg) /\ Len(mq_cashier') = Len(mq_cashier) + 1
      /\ \A i \in 1..Len(mq_cashier) : mq_cashier'[i] = mq_cashier[i]
      /\ mq_cashier'[Len(mq_cashier) + 1] = [kind |-> k, tourist |-> t]
  BY <1>1, AppendProperties DEF DeskTypes
<1>3. Places' = Places \cup {Len(mq_cashier) + 1} /\ Len(mq_cashier) + 1 \notin Places
  BY <1>2, Addressed DEF Places
<1>4. QED
  BY <1>1, <1>2, <1>3 DEF Places

\* msgrcv takes one message out; the others stay, each of them once.
LEMMA Taken ==
  ASSUME DeskTypes, OneInQueue, NEW i \in Places, mq_cashier' = RemoveAt(mq_cashier, i)
  PROVE  /\ mq_cashier' \in Seq(CashierMsg)
         /\ \A k, l \in Places' : mq_cashier'[k].tourist = mq_cashier'[l].tourist => k = l
         /\ \A k \in Places' : \E j \in Places \ {i} : mq_cashier'[k] = mq_cashier[j]
         /\ \A j \in Places \ {i} : \E k \in Places' : mq_cashier'[k] = mq_cashier[j]
<1> DEFINE from(k) == IF k < i THEN k ELSE k + 1
<1>1. /\ mq_cashier' \in Seq(CashierMsg) /\ Len(mq_cashier') = Len(mq_cashier) - 1
      /\ \A k \in 1..(Len(mq_cashier) - 1) : mq_cashier'[k] = mq_cashier[from(k)]
  BY RemoveAtProperties DEF DeskTypes, Places
<1>2. Len(mq_cashier) \in Nat /\ i \in 1..Len(mq_cashier)
  BY Addressed DEF Places
<1>3. Places' = 1..(Len(mq_cashier) - 1)
  BY <1>1 DEF Places
<1>4. \A k \in Places' : from(k) \in Places \ {i} /\ mq_cashier'[k] = mq_cashier[from(k)]
  BY <1>1, <1>2, <1>3 DEF Places
<1>5. \A k, l \in Places' : from(k) = from(l) => k = l
  BY <1>2, <1>3
<1>6. \A j \in Places \ {i} : \E k \in Places' : from(k) = j
  <2> SUFFICES ASSUME NEW j \in Places \ {i} PROVE \E k \in Places' : from(k) = j
    OBVIOUS
  <2>1. CASE j < i
    BY <1>2, <1>3, <2>1 DEF Places
  <2>2. CASE ~(j < i)
    <3>1. j - 1 \in Places' /\ from(j - 1) = j
      BY <1>2, <1>3, <2>2 DEF Places
    <3>2. QED
      BY <3>1
  <2>3. QED
    BY <2>1, <2>2
<1> HIDE DEF from
<1>7. \A k, l \in Places' : mq_cashier'[k].tourist = mq_cashier'[l].tourist => k = l
  BY <1>4, <1>5 DEF OneInQueue
<1>8. QED
  BY <1>1, <1>4, <1>6, <1>7

-----------------------------------------------------------------------------
(* The steps *)

\* A tourist sends its request, and waits.
LEMMA SendRequestKeeps ==
  ASSUME DeskInv, NEW t \in Tourists, SendRequest(t)
  PROVE  DeskInv'
<1> DEFINE n == Len(mq_cashier) + 1
<1>1. /\ tpc[t] = "send" /\ tpc' = [tpc EXCEPT ![t] = "wait"] /\ ~mq_removed
      /\ mq_cashier' = Append(mq_cashier, [kind |-> "request", tourist |-> t])
      /\ UNCHANGED <<mq_removed, sem_removed, cpc, request, g_running, mpc>>
  BY DEF SendRequest, Goto, cashierVars, mainVars
<1>2. DeskTypes /\ OneInQueue /\ OneInHand /\ QueueFirst /\ NobodyForgotten
  BY DEF DeskInv
<1>3. /\ mq_cashier' \in Seq(CashierMsg)
      /\ Places' = Places \cup {n} /\ n \notin Places
      /\ \A i \in Places : mq_cashier'[i] = mq_cashier[i]
      /\ mq_cashier'[n].tourist = t
  BY <1>1, <1>2, Sent
<1>4. \A i \in Places : mq_cashier[i].tourist \in Tourists /\ mq_cashier[i].tourist # t
  BY <1>1, <1>2, Addressed DEF OneInQueue
<1> HIDE DEF n
<1>5. DeskTypes'
  BY <1>1, <1>2, <1>3 DEF DeskTypes
<1>6. OneInQueue'
  <2>1. \A i \in Places : mq_cashier'[i].tourist # t
    BY <1>3, <1>4
  <2>2. \A i, j \in Places' : mq_cashier'[i].tourist = mq_cashier'[j].tourist => i = j
    BY <1>2, <1>3, <2>1 DEF OneInQueue
  <2>3. tpc'[t] = "wait" /\ \A u \in Tourists : u # t => tpc'[u] = tpc[u]
    BY <1>1, <1>2 DEF DeskTypes
  <2>4. \A i \in Places : tpc'[mq_cashier'[i].tourist] = "wait"
    BY <1>2, <1>3, <1>4, <2>3 DEF OneInQueue
  <2>5. \A i \in Places' : tpc'[mq_cashier'[i].tourist] = "wait"
    BY <1>3, <2>3, <2>4
  <2>6. QED
    BY <2>2, <2>5 DEF OneInQueue
<1>7. OneInHand'
  BY <1>1, <1>2, <1>3, <1>4 DEF OneInHand, DeskTypes
<1>8. QueueFirst'
  BY <1>1, <1>2 DEF QueueFirst
<1>9. NobodyForgotten'
  <2> SUFFICES ASSUME g_running, cpc # "exited", NEW u \in Tourists, tpc'[u] = "wait"
               PROVE  request = u \/ \E i \in Places' : mq_cashier'[i].tourist = u
    BY <1>1 DEF NobodyForgotten
  <2>1. CASE u = t
    BY <1>3, <2>1
  <2>2. CASE u # t
    <3>1. tpc[u] = "wait"
      BY <1>1, <1>2, <2>2 DEF DeskTypes
    <3>2. request = u \/ \E i \in Places : mq_cashier[i].tourist = u
      BY <1>1, <1>2, <3>1 DEF NobodyForgotten
    <3>3. QED
      BY <1>3, <3>2
  <2>3. QED
    BY <2>1, <2>2
<1>10. QED
  BY <1>5, <1>6, <1>7, <1>8, <1>9 DEF DeskInv

\* A tourist takes the answer that is for it, the only message that is.
LEMMA ReceiveAnswerKeeps ==
  ASSUME DeskInv, NEW t \in Tourists, ReceiveAnswer(t)
  PROVE  DeskInv'
<1> DEFINE mine == {i \in Places : ~IsRequest(mq_cashier[i]) /\ mq_cashier[i].tourist = t}
<1> DEFINE f == First(mine)
<1>1. mine \in SUBSET Nat /\ mine # {}
  BY Addressed DEF ReceiveAnswer, Matching, Places, DeskInv
<1>2. f \in Places /\ mq_cashier[f].tourist = t
  <2>1. f \in mine
    BY <1>1, FirstIn
  <2>2. QED
    BY <2>1
<1>3. /\ tpc[t] = "wait" /\ ~mq_removed
      /\ \E p \in {"ticket", "gone"} : tpc' = [tpc EXCEPT ![t] = p]
      /\ mq_cashier' = RemoveAt(mq_cashier, f)
      /\ UNCHANGED <<mq_removed, sem_removed, cpc, request, g_running, mpc>>
  BY DEF ReceiveAnswer, Matching, Places, Goto, cashierVars, mainVars
<1> HIDE DEF mine, f
<1>4. DeskTypes /\ OneInQueue /\ OneInHand /\ QueueFirst /\ NobodyForgotten
  BY DEF DeskInv
<1>5. /\ mq_cashier' \in Seq(CashierMsg)
      /\ \A k, l \in Places' : mq_cashier'[k].tourist = mq_cashier'[l].tourist => k = l
      /\ \A k \in Places' : \E j \in Places \ {f} : mq_cashier'[k] = mq_cashier[j]
      /\ \A j \in Places \ {f} : \E k \in Places' : mq_cashier'[k] = mq_cashier[j]
  BY <1>2, <1>3, <1>4, Taken
<1>6. \A j \in Places \ {f} : mq_cashier[j].tourist \in Tourists /\ mq_cashier[j].tourist # t
  BY <1>2, <1>4, Addressed DEF OneInQueue
<1>7. request # t
  BY <1>2, <1>4, DeskAssumption DEF OneInHand
<1>8. DeskTypes'
  BY <1>3, <1>4, <1>5 DEF DeskTypes
<1>9. OneInQueue'
  BY <1>3, <1>4, <1>5, <1>6 DEF OneInQueue, DeskTypes
<1>10. OneInHand'
  BY <1>3, <1>4, <1>5, <1>7 DEF OneInHand, DeskTypes
<1>11. QueueFirst'
  BY <1>3, <1>4 DEF QueueFirst
<1>12. NobodyForgotten'
  BY <1>2, <1>3, <1>4, <1>5, <1>6 DEF NobodyForgotten, DeskTypes
<1>13. QED
  BY <1>8, <1>9, <1>10, <1>11, <1>12 DEF DeskInv

\* The cashier takes a request into its hands.
LEMMA ReceiveRequestKeeps ==
  ASSUME DeskInv, ReceiveRequest
  PROVE  DeskInv'
<1> DEFINE requests == {i \in Places : IsRequest(mq_cashier[i])}
<1> DEFINE f == First(requests)
<1>1. requests \in SUBSET Nat /\ requests # {}
  BY Addressed DEF ReceiveRequest, Matching, Places, DeskInv
<1>2. f \in Places
  BY <1>1, FirstIn
<1>3. /\ cpc = "recv" /\ cpc' = "check" /\ ~mq_removed
      /\ request' = mq_cashier[f].tourist
      /\ mq_cashier' = RemoveAt(mq_cashier, f)
      /\ UNCHANGED <<mq_removed, sem_removed, tpc, g_running, mpc>>
  BY DEF ReceiveRequest, Matching, Places, CashierAt, mainVars
<1> HIDE DEF requests, f
<1>4. DeskTypes /\ OneInQueue /\ OneInHand /\ QueueFirst /\ NobodyForgotten
  BY DEF DeskInv
<1>5. /\ mq_cashier' \in Seq(CashierMsg)
      /\ \A k, l \in Places' : mq_cashier'[k].tourist = mq_cashier'[l].tourist => k = l
      /\ \A k \in Places' : \E j \in Places \ {f} : mq_cashier'[k] = mq_cashier[j]
      /\ \A j \in Places \ {f} : \E k \in Places' : mq_cashier'[k] = mq_cashier[j]
  BY <1>2, <1>3, <1>4, Taken
<1>6. \A j \in Places \ {f} : mq_cashier[j].tourist # mq_cashier[f].tourist
  BY <1>2, <1>4 DEF OneInQueue
<1>7. request' \in Tourists /\ request' # NoTourist /\ tpc[request'] = "wait"
      /\ request = NoTourist
  BY <1>2, <1>3, <1>4, Addressed, DeskAssumption DEF OneInQueue, OneInHand
<1>8. DeskTypes'
  BY <1>3, <1>4, <1>5, <1>7 DEF DeskTypes
<1>9. OneInQueue'
  BY <1>3, <1>4, <1>5 DEF OneInQueue
<1>10. OneInHand'
  BY <1>3, <1>5, <1>6, <1>7 DEF OneInHand
<1>11. QueueFirst'
  BY <1>3, <1>4 DEF QueueFirst
<1>12. NobodyForgotten'
  <2> SUFFICES ASSUME g_running, NEW t \in Tourists, tpc[t] = "wait"
               PROVE  request' = t \/ \E k \in Places' : mq_cashier'[k].tourist = t
    BY <1>3 DEF NobodyForgotten
  <2>1. PICK i \in Places : mq_cashier[i].tourist = t
    BY <1>3, <1>4, <1>7, DeskAssumption DEF NobodyForgotten
  <2>2. CASE i = f
    BY <1>3, <2>1, <2>2
  <2>3. CASE i # f
    BY <1>5, <2>1, <2>3
  <2>4. QED
    BY <2>2, <2>3
<1>13. QED
  BY <1>8, <1>9, <1>10, <1>11, <1>12 DEF DeskInv

\* The cashier puts its answer into the queue.
LEMMA SendAnswerKeeps ==
  ASSUME DeskInv, SendAnswer
  PROVE  DeskInv'
<1> DEFINE n == Len(mq_cashier) + 1
<1>1. DeskTypes /\ OneInQueue /\ OneInHand /\ QueueFirst /\ NobodyForgotten
  BY DEF DeskInv
<1>2. PICK answer \in {"ticket", "refusal"} :
        mq_cashier' = Append(mq_cashier, [kind |-> answer, tourist |-> request])
  BY DEF SendAnswer
<1>3. /\ cpc \in {"sell", "refuse"} /\ cpc' = "head" /\ ~mq_removed /\ request' = NoTourist
      /\ UNCHANGED <<mq_removed, sem_removed, tpc, g_running, mpc>>
  BY DEF SendAnswer, CashierAt, mainVars
<1>4. request \in Tourists
  BY <1>1, <1>3 DEF OneInHand, DeskTypes
<1>5. /\ mq_cashier' \in Seq(CashierMsg)
      /\ Places' = Places \cup {n} /\ n \notin Places
      /\ \A i \in Places : mq_cashier'[i] = mq_cashier[i]
      /\ mq_cashier'[n].tourist = request
  BY <1>1, <1>2, <1>4, Sent
<1> HIDE DEF n
<1>6. /\ \A i \in Places : mq_cashier[i].tourist # request
      /\ tpc[request] = "wait"
  BY <1>1, <1>3, <1>4, DeskAssumption DEF OneInHand
<1>7. DeskTypes'
  BY <1>1, <1>3, <1>5 DEF DeskTypes
<1>8. OneInQueue'
  BY <1>1, <1>3, <1>5, <1>6 DEF OneInQueue
<1>9. OneInHand'
  BY <1>3 DEF OneInHand
<1>10. QueueFirst'
  BY <1>1, <1>3 DEF QueueFirst
<1>11. NobodyForgotten'
  BY <1>1, <1>3, <1>5, <1>6 DEF NobodyForgotten
<1>12. QED
  BY <1>7, <1>8, <1>9, <1>10, <1>11 DEF DeskInv

\* The other steps of the tourists: arriving, giving up, a signal.
LEMMA TouristKeeps ==
  ASSUME DeskInv, NEW t \in Tourists, Arrive(t) \/ PurchaseFails(t) \/ TouristInterrupted(t)
  PROVE  DeskInv'
<1>1. UNCHANGED <<mq_cashier, mq_removed, sem_removed, cpc, request, g_running, mpc>>
  BY DEF Arrive, PurchaseFails, TouristInterrupted, queueVars, cashierVars, mainVars
<1>2. DeskTypes /\ OneInQueue /\ OneInHand /\ QueueFirst /\ NobodyForgotten
  BY DEF DeskInv
<1>3. DeskTypes' /\ (mq_removed \/ tpc[t] # "wait" \/ tpc' = tpc)
      /\ (\A u \in Tourists \ {t} : tpc'[u] = tpc[u])
      /\ (tpc' = tpc \/ tpc'[t] # "wait")
  BY <1>1, <1>2 DEF Arrive, PurchaseFails, TouristInterrupted, Goto, DeskTypes
<1>4. Places' = Places
  BY <1>1 DEF Places
<1>5. mq_removed => Places = {}
  BY <1>2, EmptySeq DEF QueueFirst, Places
<1>6. OneInQueue'
  BY <1>1, <1>2, <1>3, <1>4, <1>5, Addressed DEF OneInQueue
<1>7. OneInHand'
  BY <1>1, <1>2, <1>3, <1>4 DEF OneInHand, DeskTypes
<1>8. QueueFirst'
  BY <1>1, <1>2 DEF QueueFirst
<1>9. NobodyForgotten'
  BY <1>1, <1>2, <1>3, <1>4 DEF NobodyForgotten
<1>10. QED
  BY <1>3, <1>6, <1>7, <1>8, <1>9 DEF DeskInv

\* The other steps of the cashier: going round, counting, giving up, a signal.
LEMMA CashierKeeps ==
  ASSUME DeskInv,
         LoopHead \/ CheckClosing \/ CountSale \/ CashierQueueGone \/ CashierInterrupted
  PROVE  DeskInv'
<1>1. UNCHANGED <<mq_cashier, mq_removed, sem_removed, tpc, mpc>>
  BY DEF LoopHead, CheckClosing, CountSale, CashierQueueGone, CashierInterrupted, queueVars,
     mainVars
<1>2. DeskTypes /\ OneInQueue /\ OneInHand /\ QueueFirst /\ NobodyForgotten
  BY DEF DeskInv
<1>3. Places' = Places
  BY <1>1 DEF Places
<1>4. /\ request' = request \/ request' = NoTourist
      /\ cpc' \in {"head", "recv", "check", "count", "refuse", "sell", "exited"}
      /\ request' # NoTourist <=> cpc' \in {"check", "count", "refuse", "sell"}
  <2>1. CASE LoopHead
    BY <1>2, <2>1 DEF LoopHead, CashierAt, OneInHand
  <2>2. CASE CheckClosing
    BY <1>2, <2>2 DEF CheckClosing, CashierAt, OneInHand
  <2>3. CASE CountSale
    BY <1>2, <2>3 DEF CountSale, CashierAt, OneInHand
  <2>4. CASE CashierQueueGone
    BY <1>2, <2>4 DEF CashierQueueGone, CashierAt, OneInHand
  <2>5. CASE CashierInterrupted
    BY <1>2, <2>5 DEF CashierInterrupted, CashierAt, OneInHand, DeskTypes
  <2>6. QED
    BY <2>1, <2>2, <2>3, <2>4, <2>5
<1>5. DeskTypes'
  BY <1>1, <1>2, <1>4 DEF DeskTypes
<1>6. OneInQueue' /\ QueueFirst'
  BY <1>1, <1>2, <1>3 DEF OneInQueue, QueueFirst
<1>7. OneInHand'
  BY <1>1, <1>2, <1>3, <1>4 DEF OneInHand
<1>8. ASSUME ~mq_removed, g_running', cpc' # "exited"
      PROVE  g_running /\ cpc # "exited" /\ request' = request
  <2>1. ~sem_removed
    BY <1>2, <1>8 DEF QueueFirst
  <2>2. QED
    BY <1>8, <2>1 DEF LoopHead, CheckClosing, CountSale, CashierQueueGone, CashierInterrupted,
       CashierAt
<1>9. NobodyForgotten'
  BY <1>1, <1>2, <1>3, <1>8 DEF NobodyForgotten
<1>10. QED
  BY <1>5, <1>6, <1>7, <1>9 DEF DeskInv

\* main empties the queue when it removes it, and touches no message otherwise.
LEMMA MainKeeps ==
  ASSUME DeskInv, EndOfDay \/ Interrupt \/ Shutdown \/ Finished \/ UNCHANGED vars
  PROVE  DeskInv'
<1>1. DeskTypes /\ OneInQueue /\ OneInHand /\ QueueFirst /\ NobodyForgotten
  BY DEF DeskInv
<1>2. CASE HandlerRemovesQueue \/ RemoveQueue
  <2>1. mq_cashier' = <<>> /\ mq_removed' = TRUE
        /\ UNCHANGED <<tpc, cpc, request, g_running>>
    BY <1>2 DEF HandlerRemovesQueue, RemoveQueue, cashierVars
  <2>2. Places' = {} /\ mq_cashier' \in Seq(CashierMsg)
    BY <2>1 DEF Places
  <2>3. DeskTypes' /\ OneInQueue'
    BY <1>1, <2>1, <2>2 DEF DeskTypes, OneInQueue
  <2>4. OneInHand' /\ QueueFirst' /\ NobodyForgotten'
    BY <1>1, <2>1, <2>2 DEF OneInHand, QueueFirst, NobodyForgotten
  <2>5. QED
    BY <2>3, <2>4 DEF DeskInv
<1>3. CASE \/ EndOfDay \/ Interrupt \/ HandlerRemovesSemaphores \/ StopRunning \/ TermCashier
           \/ RemoveSemaphores \/ WorkersReaped \/ UNCHANGED vars
  <2>1. UNCHANGED <<mq_cashier, mq_removed, tpc, cpc, request, g_running>>
    BY <1>3 DEF EndOfDay, Interrupt, HandlerRemovesSemaphores, StopRunning, TermCashier,
       RemoveSemaphores, WorkersReaped, vars, queueVars, cashierVars
  <2>2. QueueFirst'
    BY <1>1, <1>3 DEF QueueFirst, EndOfDay, Interrupt, HandlerRemovesSemaphores, StopRunning,
       TermCashier, RemoveSemaphores, WorkersReaped, MainAt, vars, queueVars, mainVars
  <2>3. DeskTypes' /\ OneInQueue' /\ OneInHand' /\ NobodyForgotten'
    BY <1>1, <2>1 DEF DeskTypes, OneInQueue, OneInHand, NobodyForgotten, Places
  <2>4. QED
    BY <2>2, <2>3 DEF DeskInv
<1>4. QED
  BY <1>2, <1>3 DEF Shutdown, Finished

-----------------------------------------------------------------------------
(* Theorems *)

\* The invariant holds at the start.
LEMMA DeskInit == Init => DeskInv
<1> SUFFICES ASSUME Init PROVE DeskInv
  OBVIOUS
<1>1. Places = {} /\ DeskTypes
  BY DEF Init, Places, DeskTypes
<1>2. OneInQueue /\ OneInHand /\ QueueFirst /\ NobodyForgotten
  BY <1>1 DEF Init, OneInQueue, OneInHand, QueueFirst, NobodyForgotten
<1>3. QED
  BY <1>1, <1>2 DEF DeskInv

\* The inductive invariant: the messages in the queue and the request in the
\* cashier's hands belong to different tourists, who are all waiting
\* (cashier.c:152-220, lifecycle.c:25-54).
THEOREM DeskInvariant == Spec => []DeskInv
<1>1. DeskInv /\ [Next]_vars => DeskInv'
  <2> SUFFICES ASSUME DeskInv, [Next]_vars PROVE DeskInv'
    OBVIOUS
  <2>1. CASE \E t \in Tourists : TouristStep(t) \/ TouristInterrupted(t)
    BY <2>1, SendRequestKeeps, ReceiveAnswerKeeps, TouristKeeps DEF TouristStep
  <2>2. CASE CashierStep \/ CashierInterrupted
    BY <2>2, ReceiveRequestKeeps, SendAnswerKeeps, CashierKeeps DEF CashierStep
  <2>3. CASE EndOfDay \/ Interrupt \/ Shutdown \/ Finished \/ UNCHANGED vars
    BY <2>3, MainKeeps
  <2>4. QED
    BY <2>1, <2>2, <2>3 DEF Next
<1>2. QED
  BY <1>1, DeskInit, PTL DEF Spec

\* The messages that concern a tourist: none, or one.
LEMMA MessagesOf ==
  ASSUME DeskInv, NEW t \in Tourists
  PROVE  \/ /\ Matching(LAMBDA m : m.tourist = t) = {}
            /\ ~\E i \in Places : mq_cashier[i].tourist = t
         \/ /\ \E i \in Places : mq_cashier[i].tourist = t
            /\ Cardinality(Matching(LAMBDA m : m.tourist = t)) = 1
<1> DEFINE S == {i \in Places : mq_cashier[i].tourist = t}
<1>1. Matching(LAMBDA m : m.tourist = t) = S
  BY DEF Matching, Places
<1>2. CASE S = {}
  BY <1>1, <1>2
<1>3. CASE S # {}
  <2>1. PICK i \in Places : mq_cashier[i].tourist = t
    BY <1>3
  <2>2. S = {i}
    BY <2>1 DEF DeskInv, OneInQueue
  <2>3. Cardinality(S) = 1
    BY <2>2, FS_Singleton
  <2>4. QED
    BY <1>1, <2>1, <2>3
<1>4. QED
  BY <1>2, <1>3

\* A tourist waiting for its ticket has exactly one message under way, its request
\* or the answer to it, and nobody else has any (cashier.c:152-220).
THEOREM OneMessageEachHolds == Spec => []OneMessageEach
<1>1. DeskInv => OneMessageEach
  <2> SUFFICES ASSUME DeskInv, ~mq_removed, NEW t \in Tourists
               PROVE  /\ UnderWay(t) <= (IF tpc[t] = "wait" THEN 1 ELSE 0)
                      /\ g_running /\ cpc # "exited" /\ tpc[t] = "wait" => UnderWay(t) = 1
    BY DEF OneMessageEach
  <2> DEFINE M == Matching(LAMBDA m : m.tourist = t)
  <2>1. request = t => request # NoTourist
    BY DeskAssumption
  <2>2. CASE M = {} /\ ~\E i \in Places : mq_cashier[i].tourist = t
    <3>1. Cardinality(M) = 0
      BY <2>2, FS_EmptySet
    <3>2. request = t => tpc[t] = "wait"
      BY <2>1 DEF DeskInv, OneInHand
    <3>3. g_running /\ cpc # "exited" /\ tpc[t] = "wait" => request = t
      BY <2>2 DEF DeskInv, NobodyForgotten
    <3> HIDE DEF M
    <3>4. QED
      BY <3>1, <3>2, <3>3 DEF UnderWay, M
  <2>3. CASE (\E i \in Places : mq_cashier[i].tourist = t) /\ Cardinality(M) = 1
    <3>1. request # t /\ tpc[t] = "wait"
      BY <2>1, <2>3 DEF DeskInv, OneInHand, OneInQueue
    <3>2. QED
      BY <2>3, <3>1 DEF UnderWay
  <2>4. QED
    BY <2>2, <2>3, MessagesOf
<1>2. QED
  BY <1>1, DeskInvariant, PTL

\* With room for one message of every tourist the desk never blocks itself: the
\* queue is full only if everybody has a message in it, also the tourist whose
\* request the cashier holds, which has none (cashier.c:212 against lifecycle.c:35).
\* With less room it does: the run desk_full.
THEOREM RoomForEveryone == Cardinality(Tourists) <= QueueCapacity => (Spec => []~Stuck)
<1> SUFFICES ASSUME Cardinality(Tourists) <= QueueCapacity PROVE Spec => []~Stuck
  OBVIOUS
<1>1. DeskInv => ~Stuck
  <2> SUFFICES ASSUME DeskInv, cpc \in {"sell", "refuse"}, Full PROVE FALSE
    BY DEF Stuck
  <2> DEFINE others == Tourists \ {request}
  <2> DEFINE sender == [i \in Places |-> mq_cashier[i].tourist]
  <2>1. request \in Tourists /\ \A i \in Places : mq_cashier[i].tourist # request
    BY DEF DeskInv, DeskTypes, OneInHand
  <2>2. sender \in Injection(Places, others)
    BY <2>1, Addressed DEF DeskInv, OneInQueue, Injection, IsInjective
  <2>3. /\ IsFiniteSet(others) /\ Cardinality(others) = Cardinality(Tourists) - 1
        /\ Cardinality(Tourists) \in Nat
    BY <2>1, DeskAssumption, FS_RemoveElement, FS_CardinalityType
  <2>4. Cardinality(Places) <= Cardinality(others)
    BY <2>2, <2>3, FS_Injection
  <2>5. Cardinality(Places) = Len(mq_cashier) /\ Len(mq_cashier) \in Nat
    <3>1. Len(mq_cashier) \in Nat
      BY Addressed DEF DeskInv
    <3>2. QED
      BY <3>1, FS_Interval DEF Places
  <2>6. QED
    BY <2>3, <2>4, <2>5, DeskAssumption DEF Full
<1>2. QED
  BY <1>1, DeskInvariant, PTL

-----------------------------------------------------------------------------
(* The statistics *)

Heads(S) == {p \in S \X (0..2) : p[2] <= KidCount[p[1]]}

LEMMA HeadsFinite ==
  ASSUME NEW S \in SUBSET Tourists
  PROVE  IsFiniteSet(Heads(S)) /\ PersonsOf(S) = Cardinality(Heads(S)) /\ PersonsOf(S) \in Nat
<1>1. IsFiniteSet(S)
  BY DeskAssumption, FS_Subset
<1>2. IsFiniteSet(0..2)
  <2>1. 0 \in Int /\ 2 \in Int
    OBVIOUS
  <2>2. QED
    BY <2>1, FS_Interval, Zenon
<1>3. IsFiniteSet(S \X (0..2))
  BY <1>1, <1>2, FS_Product
<1>4. Heads(S) \in SUBSET (S \X (0..2))
  BY DEF Heads
<1>5. IsFiniteSet(Heads(S))
  BY <1>3, <1>4, FS_Subset
<1>6. PersonsOf(S) = Cardinality(Heads(S))
  BY DEF PersonsOf, Heads
<1>7. QED
  BY <1>5, <1>6, FS_CardinalityType

\* Fewer tourists are not more persons.
LEMMA PersonsMonotone ==
  ASSUME NEW S \in SUBSET Tourists, NEW T \in SUBSET S
  PROVE  PersonsOf(T) <= PersonsOf(S)
<1>1. Heads(T) \in SUBSET Heads(S)
  BY DEF Heads
<1>2. Cardinality(Heads(T)) <= Cardinality(Heads(S))
  BY <1>1, HeadsFinite, FS_Subset
<1>3. QED
  BY <1>2, HeadsFinite

\* One more tourist is as many more persons as it stands for.
LEMMA PersonsMore ==
  ASSUME NEW S \in SUBSET Tourists, NEW t \in Tourists, t \notin S
  PROVE  PersonsOf(S \cup {t}) = PersonsOf(S) + Persons(t) /\ Persons(t) \in Nat
<1>1. KidCount[t] \in 0..2 /\ Persons(t) = KidCount[t] + 1
  BY DeskAssumption DEF Persons
<1> DEFINE more == {t} \X (0..KidCount[t])
<1>2. IsFiniteSet(more) /\ Cardinality(more) = KidCount[t] + 1
  <2>1. IsFiniteSet({t}) /\ Cardinality({t}) = 1
    BY FS_Singleton
  <2>2. IsFiniteSet(0..KidCount[t]) /\ Cardinality(0..KidCount[t]) = KidCount[t] + 1
    BY <1>1, FS_Interval
  <2>3. IsFiniteSet(more) /\ Cardinality(more) = 1 * (KidCount[t] + 1)
    BY <2>1, <2>2, FS_Product
  <2>4. QED
    BY <1>1, <2>3
<1>3. Heads(S \cup {t}) = Heads(S) \cup more /\ Heads(S) \cap more = {}
  BY <1>1 DEF Heads
<1> HIDE DEF more
<1>4. IsFiniteSet(Heads(S)) /\ Cardinality(Heads(S)) = PersonsOf(S) /\ PersonsOf(S) \in Nat
  BY HeadsFinite
<1>5. Cardinality(Heads(S) \cup more)
        = Cardinality(Heads(S)) + Cardinality(more) - Cardinality(Heads(S) \cap more)
  BY <1>2, <1>4, FS_Union
<1>6. Cardinality(Heads(S) \cap more) = 0
  BY <1>3, FS_EmptySet
<1>7. Cardinality(Heads(S \cup {t})) = PersonsOf(S) + Persons(t)
  <2>1. Cardinality(Heads(S \cup {t})) = Cardinality(Heads(S) \cup more)
    BY <1>3
  <2>2. Cardinality(Heads(S) \cup more) = PersonsOf(S) + (KidCount[t] + 1) - 0
    BY <1>2, <1>4, <1>5, <1>6
  <2>3. QED
    BY <1>1, <1>4, <2>1, <2>2
<1>8. S \cup {t} \in SUBSET Tourists
  OBVIOUS
<1>9. QED
  BY <1>1, <1>7, <1>8, HeadsFinite

\* A ticket for t is in the queue.
TicketSent(t) == \E i \in Places : mq_cashier[i].kind = "ticket" /\ mq_cashier[i].tourist = t

LEMMA SoldIs ==
  Sold = {t \in Tourists : tpc[t] = "ticket" \/ TicketSent(t) \/ (cpc = "sell" /\ request = t)}
BY DEF Sold, Matching, TicketSent, Places

LEMMA SoldIsNext ==
  (Sold = {t \in Tourists : tpc[t] = "ticket" \/ TicketSent(t) \/ (cpc = "sell" /\ request = t)})'
BY SoldIs, PTL

\* Every ticket sold is counted, and as long as nothing interrupts a sale nothing
\* else is.
SalesInv ==
  /\ total_tourists \in Nat
  /\ PersonsOf(Sold) <= total_tourists
  /\ g_running /\ ~mq_removed => total_tourists = PersonsOf(Sold)

LEMMA SalesKept ==
  ASSUME SalesInv, UNCHANGED total_tourists, Sold' \subseteq Sold,
         g_running' /\ ~mq_removed' => g_running /\ ~mq_removed /\ Sold' = Sold
  PROVE  SalesInv'
<1>1. Sold \in SUBSET Tourists /\ Sold' \in SUBSET Sold
  BY DEF Sold
<1>2. PersonsOf(Sold') <= PersonsOf(Sold)
  BY <1>1, PersonsMonotone
<1>3. PersonsOf(Sold) \in Nat /\ PersonsOf(Sold') \in Nat
  BY <1>1, HeadsFinite
<1>4. PersonsOf(Sold)' = PersonsOf(Sold')
  BY DEF PersonsOf
<1>5. QED
  BY <1>2, <1>3, <1>4 DEF SalesInv

\* The cashier counts before it answers: the tourist in its hands had no ticket.
LEMMA SalesCount ==
  ASSUME DeskInv, SalesInv, CountSale
  PROVE  SalesInv'
<1>0. /\ UNCHANGED <<mq_cashier, mq_removed, tpc, g_running>> /\ cpc = "count"
      /\ Places' = Places
  BY DEF CountSale, CashierAt, queueVars, Places
<1>1. \A t \in Tourists : TicketSent(t)' <=> TicketSent(t)
  BY <1>0 DEF TicketSent
<1>2. CASE sem_removed
  <2>1. cpc' = "head" /\ UNCHANGED total_tourists
    BY <1>2 DEF CountSale, CashierAt
  <2>2. Sold' = Sold
    BY <1>0, <1>1, <2>1, SoldIs, SoldIsNext
  <2>3. QED
    BY <1>0, <2>1, <2>2, SalesKept
<1>3. CASE ~sem_removed
  <2>1. cpc' = "sell" /\ UNCHANGED request /\ total_tourists' = total_tourists + Persons(request)
    BY <1>3 DEF CountSale, CashierAt
  <2>2. request \in Tourists
    BY <1>0 DEF DeskInv, OneInHand, DeskTypes
  <2>3. Sold' = Sold \cup {request}
    BY <1>0, <1>1, <2>1, <2>2, SoldIs, SoldIsNext
  <2>4. ~mq_removed => request \notin Sold
    <3> SUFFICES ASSUME ~mq_removed PROVE request \notin Sold
      OBVIOUS
    <3>1. request # NoTourist
      BY <2>2, DeskAssumption
    <3>2. tpc[request] = "wait" /\ \A i \in Places : mq_cashier[i].tourist # request
      BY <3>1 DEF DeskInv, OneInHand
    <3>3. QED
      BY <1>0, <3>2, SoldIs DEF TicketSent
  <2>5. Sold \in SUBSET Tourists /\ PersonsOf(Sold) \in Nat
    BY HeadsFinite DEF Sold
  <2>6. Persons(request) \in Nat
    BY <2>2, DeskAssumption DEF Persons
  <2>7. PersonsOf(Sold)' = PersonsOf(Sold')
    BY DEF PersonsOf
  <2>8. CASE request \in Sold
    <3>1. Sold' = Sold /\ mq_removed
      BY <2>3, <2>4, <2>8
    <3>2. PersonsOf(Sold') = PersonsOf(Sold)
      BY <3>1
    <3>3. QED
      BY <1>0, <2>1, <2>5, <2>6, <2>7, <3>1, <3>2 DEF SalesInv
  <2>9. CASE request \notin Sold
    <3>1. PersonsOf(Sold') = PersonsOf(Sold) + Persons(request)
      BY <2>2, <2>3, <2>5, <2>9, PersonsMore
    <3>2. QED
      BY <1>0, <2>1, <2>5, <2>6, <2>7, <3>1 DEF SalesInv
  <2>10. QED
    BY <2>8, <2>9
<1>4. QED
  BY <1>2, <1>3

\* Sending keeps the tickets in the queue, and adds the one the cashier sold.
LEMMA SalesSent ==
  ASSUME DeskInv, SalesInv, SendAnswer \/ \E t \in Tourists : SendRequest(t)
  PROVE  SalesInv'
<1> DEFINE n == Len(mq_cashier) + 1
<1>0. DeskTypes
  BY DEF DeskInv
<1>1. ASSUME NEW t \in Tourists, SendRequest(t)
      PROVE  SalesInv'
  <2>1. /\ tpc[t] = "send" /\ tpc' = [tpc EXCEPT ![t] = "wait"]
        /\ mq_cashier' = Append(mq_cashier, [kind |-> "request", tourist |-> t])
        /\ UNCHANGED <<mq_removed, cpc, request, g_running, total_tourists>>
    BY <1>1 DEF SendRequest, Goto, cashierVars
  <2>2. /\ Places' = Places \cup {n} /\ \A i \in Places : mq_cashier'[i] = mq_cashier[i]
        /\ mq_cashier'[n].kind = "request"
    BY <1>0, <2>1, Sent
  <2> HIDE DEF n
  <2>3. \A u \in Tourists : TicketSent(u)' <=> TicketSent(u)
    BY <2>2 DEF TicketSent
  <2>4. \A u \in Tourists : tpc'[u] = "ticket" <=> tpc[u] = "ticket"
    BY <1>0, <2>1 DEF DeskTypes
  <2>5. Sold' = Sold
    BY <2>1, <2>3, <2>4, SoldIs, SoldIsNext
  <2>6. QED
    BY <2>1, <2>5, SalesKept
<1>2. CASE SendAnswer
  <2>1. PICK answer \in {"ticket", "refusal"} :
          /\ cpc = (IF answer = "ticket" THEN "sell" ELSE "refuse") /\ cpc' = "head"
          /\ mq_cashier' = Append(mq_cashier, [kind |-> answer, tourist |-> request])
    BY <1>2 DEF SendAnswer, CashierAt
  <2>2. UNCHANGED <<mq_removed, tpc, g_running, total_tourists>>
    BY <1>2 DEF SendAnswer
  <2>3. request \in Tourists
    BY <2>1 DEF DeskInv, OneInHand, DeskTypes
  <2>4. /\ Places' = Places \cup {n} /\ \A i \in Places : mq_cashier'[i] = mq_cashier[i]
        /\ mq_cashier'[n].kind = answer /\ mq_cashier'[n].tourist = request
    BY <1>0, <2>1, <2>3, Sent
  <2> HIDE DEF n
  <2>5. \A u \in Tourists :
          TicketSent(u)' <=> TicketSent(u) \/ (answer = "ticket" /\ u = request)
    BY <2>4 DEF TicketSent
  <2>6. cpc = "sell" <=> answer = "ticket"
    BY <2>1
  <2>7. Sold' = Sold
    BY <2>1, <2>2, <2>5, <2>6, SoldIs, SoldIsNext
  <2>8. QED
    BY <2>2, <2>7, SalesKept
<1>3. QED
  BY <1>1, <1>2

\* The tourist who takes its ticket out of the queue has it in its hands.
LEMMA SalesReceived ==
  ASSUME DeskInv, SalesInv, NEW t \in Tourists, ReceiveAnswer(t)
  PROVE  SalesInv'
<1> DEFINE mine == {i \in Places : ~IsRequest(mq_cashier[i]) /\ mq_cashier[i].tourist = t}
<1>1. mine \in SUBSET Nat /\ mine # {}
  BY Addressed DEF ReceiveAnswer, Matching, Places, DeskInv
<1>2. PICK f : f = First(mine)
  OBVIOUS
<1>3. f \in Places /\ mq_cashier[f].tourist = t
  <2>1. f \in mine
    BY <1>1, <1>2, FirstIn
  <2>2. QED
    BY <2>1
<1>4. /\ tpc[t] = "wait"
      /\ tpc' = [tpc EXCEPT ![t] = IF mq_cashier[f].kind = "ticket" THEN "ticket" ELSE "gone"]
      /\ mq_cashier' = RemoveAt(mq_cashier, f)
      /\ UNCHANGED <<mq_removed, cpc, request, g_running, total_tourists>>
  BY <1>2 DEF ReceiveAnswer, Matching, Places, Goto, cashierVars
<1> HIDE DEF mine
<1>5. /\ \A k \in Places' : \E j \in Places \ {f} : mq_cashier'[k] = mq_cashier[j]
      /\ \A j \in Places \ {f} : \E k \in Places' : mq_cashier'[k] = mq_cashier[j]
  BY <1>3, <1>4, Taken DEF DeskInv
<1>6. \A j \in Places \ {f} : mq_cashier[j].tourist # t
  BY <1>3 DEF DeskInv, OneInQueue
<1>7. request # t
  BY <1>3, DeskAssumption DEF DeskInv, OneInHand
<1>8. ~TicketSent(t)' /\ (TicketSent(t) <=> mq_cashier[f].kind = "ticket")
  <2>1. \A k \in Places' : mq_cashier'[k].tourist # t
    BY <1>5, <1>6
  <2>2. ~TicketSent(t)'
    BY <2>1 DEF TicketSent
  <2>3. TicketSent(t) <=> mq_cashier[f].kind = "ticket"
    BY <1>3, <1>6 DEF TicketSent
  <2>4. QED
    BY <2>2, <2>3
<1>9. \A u \in Tourists \ {t} : TicketSent(u)' <=> TicketSent(u)
  BY <1>3, <1>5 DEF TicketSent
<1>10. /\ tpc'[t] = "ticket" <=> mq_cashier[f].kind = "ticket"
       /\ \A u \in Tourists \ {t} : tpc'[u] = tpc[u]
  BY <1>4 DEF DeskInv, DeskTypes
<1>11. Sold' = Sold
  <2>1. t \in Sold' <=> t \in Sold
    BY <1>4, <1>7, <1>8, <1>10, SoldIs, SoldIsNext
  <2>2. \A u \in Tourists \ {t} : u \in Sold' <=> u \in Sold
    BY <1>4, <1>9, <1>10, SoldIs, SoldIsNext
  <2>3. Sold \subseteq Tourists /\ Sold' \subseteq Tourists
    BY DEF Sold
  <2>4. QED
    BY <2>1, <2>2, <2>3
<1>12. QED
  BY <1>4, <1>11, SalesKept

\* Taking a request takes no ticket.
LEMMA SalesRequested ==
  ASSUME DeskInv, SalesInv, ReceiveRequest
  PROVE  SalesInv'
<1> DEFINE requests == {i \in Places : IsRequest(mq_cashier[i])}
<1>1. requests \in SUBSET Nat /\ requests # {}
  BY Addressed DEF ReceiveRequest, Matching, Places, DeskInv
<1>2. PICK f : f = First(requests)
  OBVIOUS
<1>3. f \in Places /\ mq_cashier[f].kind # "ticket"
  <2>1. f \in requests
    BY <1>1, <1>2, FirstIn
  <2>2. QED
    BY <2>1 DEF IsRequest
<1>4. /\ cpc = "recv" /\ cpc' = "check" /\ mq_cashier' = RemoveAt(mq_cashier, f)
      /\ UNCHANGED <<mq_removed, tpc, g_running, total_tourists>>
  BY <1>2 DEF ReceiveRequest, Matching, Places, CashierAt
<1> HIDE DEF requests
<1>5. /\ \A k \in Places' : \E j \in Places \ {f} : mq_cashier'[k] = mq_cashier[j]
      /\ \A j \in Places \ {f} : \E k \in Places' : mq_cashier'[k] = mq_cashier[j]
  BY <1>3, <1>4, Taken DEF DeskInv
<1>6. \A u \in Tourists : TicketSent(u)' <=> TicketSent(u)
  BY <1>3, <1>5 DEF TicketSent
<1>7. Sold' = Sold
  BY <1>4, <1>6, SoldIs, SoldIsNext
<1>8. QED
  BY <1>4, <1>7, SalesKept

\* Everybody else leaves the tickets alone, or loses some in the shutdown.
LEMMA SalesRest ==
  ASSUME DeskInv, SalesInv,
         \/ \E t \in Tourists : Arrive(t) \/ PurchaseFails(t) \/ TouristInterrupted(t)
         \/ LoopHead \/ CheckClosing \/ CashierQueueGone \/ CashierInterrupted
         \/ EndOfDay \/ Interrupt \/ Shutdown \/ Finished \/ UNCHANGED vars
  PROVE  SalesInv'
<1>1. CASE \E t \in Tourists : Arrive(t) \/ PurchaseFails(t) \/ TouristInterrupted(t)
  <2>1. UNCHANGED <<mq_cashier, mq_removed, cpc, request, g_running, total_tourists>>
    BY <1>1 DEF Arrive, PurchaseFails, TouristInterrupted, queueVars, cashierVars
  <2>2. \A u \in Tourists : tpc'[u] = "ticket" <=> tpc[u] = "ticket"
    BY <1>1 DEF Arrive, PurchaseFails, TouristInterrupted, Goto, DeskInv, DeskTypes
  <2>3. \A u \in Tourists : TicketSent(u)' <=> TicketSent(u)
    BY <2>1 DEF TicketSent, Places
  <2>4. Sold' = Sold
    BY <2>1, <2>2, <2>3, SoldIs, SoldIsNext
  <2>5. QED
    BY <2>1, <2>4, SalesKept
<1>2. CASE LoopHead \/ CheckClosing \/ CashierQueueGone \/ CashierInterrupted
  <2>1. UNCHANGED <<mq_cashier, mq_removed, tpc, total_tourists>>
    BY <1>2 DEF LoopHead, CheckClosing, CashierQueueGone, CashierInterrupted, queueVars
  <2>2. \A u \in Tourists : TicketSent(u)' <=> TicketSent(u)
    BY <2>1 DEF TicketSent, Places
  <2>3. cpc' = "sell" => cpc = "sell" /\ request' = request
    BY <1>2 DEF LoopHead, CheckClosing, CashierQueueGone, CashierInterrupted, CashierAt
  <2>4. Sold' \subseteq Sold
    BY <2>1, <2>2, <2>3, SoldIs, SoldIsNext
  <2>5. g_running' /\ ~mq_removed' => g_running /\ ~mq_removed /\ Sold' = Sold
    <3> SUFFICES ASSUME g_running', ~mq_removed PROVE g_running /\ Sold' = Sold
      BY <2>1
    <3>1. g_running /\ (cpc' # "sell" /\ cpc # "sell")
      BY <1>2 DEF LoopHead, CheckClosing, CashierQueueGone, CashierInterrupted, CashierAt
    <3>2. QED
      BY <2>1, <2>2, <3>1, SoldIs, SoldIsNext
  <2>6. QED
    BY <2>1, <2>4, <2>5, SalesKept
<1>3. CASE HandlerRemovesQueue \/ RemoveQueue
  <2>1. mq_cashier' = <<>> /\ mq_removed' = TRUE /\ UNCHANGED <<tpc, cpc, request, total_tourists>>
    BY <1>3 DEF HandlerRemovesQueue, RemoveQueue, cashierVars
  <2>2. Places' = {}
    BY <2>1 DEF Places
  <2>3. Sold' \subseteq Sold
    BY <2>1, <2>2, SoldIs, SoldIsNext DEF TicketSent
  <2>4. QED
    BY <2>1, <2>3, SalesKept
<1>4. CASE \/ EndOfDay \/ Interrupt \/ HandlerRemovesSemaphores \/ StopRunning \/ TermCashier
           \/ RemoveSemaphores \/ WorkersReaped \/ UNCHANGED vars
  <2>1. UNCHANGED <<mq_cashier, mq_removed, tpc, cpc, request, g_running, total_tourists>>
    BY <1>4 DEF EndOfDay, Interrupt, HandlerRemovesSemaphores, StopRunning, TermCashier,
       RemoveSemaphores, WorkersReaped, vars, queueVars, cashierVars
  <2>2. Sold' = Sold
    BY <2>1, SoldIs, SoldIsNext DEF TicketSent, Places
  <2>3. QED
    BY <2>1, <2>2, SalesKept
<1>5. QED
  BY <1>1, <1>2, <1>3, <1>4 DEF Shutdown, Finished

\* total_tourists is the number of persons, kids included, whose ticket is sold,
\* exactly as long as nothing interrupts a sale, and never fewer than hold one
\* (cashier.c:198-204 counts before it answers).
THEOREM SalesAccountingHolds == Spec => []SalesAccounting
<1>1. Init => SalesInv
  <2> SUFFICES ASSUME Init PROVE SalesInv
    OBVIOUS
  <2>1. Places = {}
    BY DEF Init, Places
  <2>2. Sold = {}
    BY <2>1, SoldIs DEF Init, TicketSent
  <2>3. Heads({}) = {}
    BY DEF Heads
  <2>4. PersonsOf({}) = 0
    BY <2>3, HeadsFinite, FS_EmptySet
  <2>5. QED
    BY <2>2, <2>4 DEF Init, SalesInv
<1>2. DeskInv /\ SalesInv /\ [Next]_vars => SalesInv'
  BY SalesCount, SalesSent, SalesReceived, SalesRequested, SalesRest
     DEF Next, TouristStep, CashierStep
<1>3. SalesInv => SalesAccounting
  <2> SUFFICES ASSUME SalesInv PROVE SalesAccounting
    OBVIOUS
  <2> DEFINE T == {t \in Tourists : tpc[t] = "ticket"}
  <2>1. Sold \in SUBSET Tourists /\ T \in SUBSET Sold /\ T \in SUBSET Tourists
    BY DEF Sold
  <2>2. PersonsOf(T) <= PersonsOf(Sold)
    BY <2>1, PersonsMonotone
  <2>3. PersonsOf(T) \in Nat /\ PersonsOf(Sold) \in Nat
    BY <2>1, HeadsFinite
  <2> HIDE DEF T
  <2>4. PersonsOf(T) <= total_tourists
    BY <2>2, <2>3 DEF SalesInv
  <2>5. total_tourists >= PersonsOf(T)
    BY <2>3, <2>4 DEF SalesInv
  <2>6. QED
    BY <2>5 DEF SalesInv, SalesAccounting, T
<1>4. QED
  BY <1>1, <1>2, <1>3, DeskInvariant, PTL DEF Spec
=============================================================================
