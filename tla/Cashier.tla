------------------------------ MODULE Cashier ------------------------------
(***************************************************************************)
(* The ticket desk: the cashier process (processes/cashier.c), the tourist *)
(* processes buying their tickets (tourist/lifecycle.c) and the part of    *)
(* main.c that ends the day under them.                                    *)
(*                                                                         *)
(* Requests and answers travel through ONE System V queue, MQ_CASHIER:     *)
(* requests with mtype MSG_CASHIER_REQUEST, answers with an mtype of their *)
(* tourist.  The queue holds a bounded number of bytes, and all its        *)
(* messages have the same size, so its bound is a number of messages.      *)
(* What a ticket costs and how long it lasts is not modelled here.         *)
(***************************************************************************)
EXTENDS Integers, Sequences, FiniteSets, SequencesExt

CONSTANTS
  Tourists,        \* tourist processes
  NoTourist,       \* no request in the cashier's hands
  KidCount,        \* [Tourists -> 0..2]
  QueueCapacity    \* messages that fit into MQ_CASHIER (msg_qbytes)

ASSUME DeskAssumption ==
  /\ IsFiniteSet(Tourists)
  /\ NoTourist \notin Tourists
  /\ KidCount \in [Tourists -> 0..2]
  /\ QueueCapacity \in Nat \ {0}

VARIABLES
  mq_cashier,      \* FIFO of messages
  mq_removed,      \* MQ_CASHIER was removed with IPC_RMID
  sem_removed,     \* and the semaphore set
  tpc,             \* where each tourist is in its purchase
  cpc,             \* where the cashier is in its loop
  request,         \* whose request the cashier is serving
  g_running,       \* the cashier's flag, cleared by its signal handler
  signalled,       \* processes with a SIGTERM or SIGINT still to be handled
  total_tourists,  \* SharedState: persons with a ticket
  closing,         \* SharedState
  running,         \* SharedState
  mpc              \* where main is in its shutdown

queueVars   == <<mq_cashier, mq_removed, sem_removed>>
cashierVars == <<cpc, request, g_running, total_tourists>>
mainVars    == <<closing, running, mpc>>
vars        == <<queueVars, tpc, cashierVars, signalled, mainVars>>

CashierMsg == [kind : {"request", "ticket", "refusal"}, tourist : Tourists]

Persons(t) == 1 + KidCount[t]

Full == Len(mq_cashier) >= QueueCapacity

\* msgrcv with an mtype takes the first message that has it.
Matching(P(_)) == {i \in 1..Len(mq_cashier) : P(mq_cashier[i])}

First(S) == CHOOSE i \in S : \A j \in S : i <= j

IsRequest(m) == m.kind = "request"

Init ==
  /\ mq_cashier = <<>>
  /\ mq_removed = FALSE
  /\ sem_removed = FALSE
  /\ tpc = [t \in Tourists |-> "arrive"]
  /\ cpc = "head"
  /\ request = NoTourist
  /\ g_running = TRUE
  /\ signalled = {}
  /\ total_tourists = 0
  /\ closing = FALSE
  /\ running = TRUE
  /\ mpc = "day"
-----------------------------------------------------------------------------
(* A tourist buying its ticket. *)

Goto(t, from, to) == tpc[t] = from /\ tpc' = [tpc EXCEPT ![t] = to]

\* ipc_attach fails once main has removed the queue.
Arrive(t) ==
  /\ Goto(t, "arrive", IF mq_removed THEN "gone" ELSE "send")
  /\ UNCHANGED <<queueVars, cashierVars, signalled, mainVars>>

\* msgsnd blocks while the queue is full.
SendRequest(t) ==
  /\ ~mq_removed /\ ~Full
  /\ Goto(t, "send", "wait")
  /\ mq_cashier' = Append(mq_cashier, [kind |-> "request", tourist |-> t])
  /\ UNCHANGED <<mq_removed, sem_removed, cashierVars, signalled, mainVars>>

\* Mutant of ReceiveAnswer: the mtype does not tell the tourists apart.
ReceiveAnyAnswer(t) ==
  LET answers == Matching(LAMBDA m : ~IsRequest(m)) IN
  /\ ~mq_removed
  /\ answers # {}
  /\ Goto(t, "wait", IF mq_cashier[First(answers)].kind = "ticket" THEN "ticket"
                                                                  ELSE "gone")
  /\ mq_cashier' = RemoveAt(mq_cashier, First(answers))
  /\ UNCHANGED <<mq_removed, sem_removed, cashierVars, signalled, mainVars>>

\* The answer addressed to this tourist: a ticket, or a refusal at closing time.
ReceiveAnswer(t) ==
  LET mine == Matching(LAMBDA m : ~IsRequest(m) /\ m.tourist = t) IN
  /\ ~mq_removed
  /\ mine # {}
  /\ Goto(t, "wait", IF mq_cashier[First(mine)].kind = "ticket" THEN "ticket"
                                                               ELSE "gone")
  /\ mq_cashier' = RemoveAt(mq_cashier, First(mine))
  /\ UNCHANGED <<mq_removed, sem_removed, cashierVars, signalled, mainVars>>

\* The queue is gone: both calls give up.
PurchaseFails(t) ==
  /\ mq_removed
  /\ Goto(t, "send", "gone") \/ Goto(t, "wait", "gone")
  /\ UNCHANGED <<queueVars, cashierVars, signalled, mainVars>>

\* The signal handler runs.  A blocked msgsnd gives up on EINTR, while msgrcv
\* is called again without a look at the running flag.
TouristInterrupted(t) ==
  /\ t \in signalled
  /\ signalled' = signalled \ {t}
  /\ \/ UNCHANGED tpc
     \/ ~mq_removed /\ Full /\ Goto(t, "send", "gone")
  /\ UNCHANGED <<queueVars, cashierVars, mainVars>>
-----------------------------------------------------------------------------
(* The cashier. *)

CashierAt(from, to) == cpc = from /\ cpc' = to

\* The loop condition and the first look at closing.
LoopHead ==
  /\ CashierAt("head", IF g_running /\ running /\ ~closing THEN "recv" ELSE "exited")
  /\ UNCHANGED <<queueVars, tpc, request, g_running, total_tourists, signalled,
                 mainVars>>

\* Requests only, never the answers in the same queue.
ReceiveRequest ==
  LET requests == Matching(IsRequest) IN
  /\ ~mq_removed
  /\ requests # {}
  /\ CashierAt("recv", "check")
  /\ request' = mq_cashier[First(requests)].tourist
  /\ mq_cashier' = RemoveAt(mq_cashier, First(requests))
  /\ UNCHANGED <<mq_removed, sem_removed, tpc, g_running, total_tourists,
                 signalled, mainVars>>

\* Second look at closing.
CheckClosing ==
  /\ CashierAt("check", IF closing THEN "refuse" ELSE "count")
  /\ UNCHANGED <<queueVars, tpc, request, g_running, total_tourists, signalled,
                 mainVars>>

\* Mutant of CountSale: the kids are forgotten.
CountParentOnly ==
  /\ IF sem_removed
     THEN CashierAt("count", "head") /\ request' = NoTourist
          /\ UNCHANGED total_tourists
     ELSE CashierAt("count", "sell") /\ UNCHANGED request
          /\ total_tourists' = total_tourists + 1
  /\ UNCHANGED <<queueVars, tpc, g_running, signalled, mainVars>>

\* The statistics, under SEM_STATS; without the semaphore the request is dropped.
CountSale ==
  /\ IF sem_removed
     THEN CashierAt("count", "head") /\ request' = NoTourist
          /\ UNCHANGED total_tourists
     ELSE CashierAt("count", "sell") /\ UNCHANGED request
          /\ total_tourists' = total_tourists + Persons(request)
  /\ UNCHANGED <<queueVars, tpc, g_running, signalled, mainVars>>

\* Mutant of SendAnswer: with IPC_NOWAIT the answer is dropped if the queue is full.
SendAnswerNoWait ==
  /\ ~mq_removed
  /\ \E answer \in {"ticket", "refusal"} :
       /\ CashierAt(IF answer = "ticket" THEN "sell" ELSE "refuse", "head")
       /\ mq_cashier' = IF Full THEN mq_cashier
                        ELSE Append(mq_cashier, [kind |-> answer, tourist |-> request])
  /\ request' = NoTourist
  /\ UNCHANGED <<mq_removed, sem_removed, tpc, g_running, total_tourists,
                 signalled, mainVars>>

\* The ticket or the refusal.  The cashier, too, waits while the queue is full.
SendAnswer ==
  /\ ~mq_removed /\ ~Full
  /\ \E answer \in {"ticket", "refusal"} :
       /\ CashierAt(IF answer = "ticket" THEN "sell" ELSE "refuse", "head")
       /\ mq_cashier' = Append(mq_cashier, [kind |-> answer, tourist |-> request])
  /\ request' = NoTourist
  /\ UNCHANGED <<mq_removed, sem_removed, tpc, g_running, total_tourists,
                 signalled, mainVars>>

\* The queue is gone.  A blocked call fails with EIDRM and ends the loop; a call
\* made afterwards fails with EINVAL and the loop goes round.
CashierQueueGone ==
  /\ mq_removed
  /\ \E from \in {"recv", "sell", "refuse"}, to \in {"head", "exited"} :
       CashierAt(from, to)
  /\ request' = NoTourist
  /\ UNCHANGED <<queueVars, tpc, g_running, total_tourists, signalled, mainVars>>

\* The signal handler clears g_running.  If the cashier is blocked at that moment
\* the call fails with EINTR and an answer not yet sent is lost.
CashierInterrupted ==
  /\ "cashier" \in signalled
  /\ signalled' = signalled \ {"cashier"}
  /\ g_running' = FALSE
  /\ \/ UNCHANGED <<cpc, request>>
     \/ /\ ~mq_removed
        /\ \/ CashierAt("recv", "head") /\ Matching(IsRequest) = {}
           \/ \E from \in {"sell", "refuse"} : CashierAt(from, "head") /\ Full
        /\ request' = NoTourist
  /\ UNCHANGED <<queueVars, tpc, total_tourists, mainVars>>
-----------------------------------------------------------------------------
(* main ends the day. *)

MainAt(from, to) == mpc = from /\ mpc' = to

\* time_is_simulation_over: the station closes and main leaves its loop.
EndOfDay ==
  /\ MainAt("day", "stop")
  /\ closing' = TRUE
  /\ UNCHANGED <<queueVars, tpc, cashierVars, signalled, running>>

\* Ctrl-C reaches the whole group.  Of the tourists at the desk only those in
\* msgsnd can notice: msgrcv is retried, and the flag is not read before.
Interrupt ==
  /\ MainAt("day", "handler")
  /\ signalled' = signalled \cup {"cashier"} \cup {t \in Tourists : tpc[t] = "send"}
  /\ UNCHANGED <<queueVars, tpc, cashierVars, closing, running>>

\* main's handler removes the IPC objects at once, before any flag is set.
HandlerRemovesQueue ==
  /\ MainAt("handler", "handler_sem")
  /\ mq_removed' = TRUE
  /\ mq_cashier' = <<>>
  /\ UNCHANGED <<sem_removed, tpc, cashierVars, signalled, closing, running>>

HandlerRemovesSemaphores ==
  /\ MainAt("handler_sem", "stop")
  /\ sem_removed' = TRUE
  /\ UNCHANGED <<mq_cashier, mq_removed, tpc, cashierVars, signalled, closing, running>>

StopRunning ==
  /\ MainAt("stop", "term")
  /\ running' = FALSE
  /\ UNCHANGED <<queueVars, tpc, cashierVars, signalled, closing>>

\* shutdown_workers: SIGTERM first ...
TermCashier ==
  /\ MainAt("term", "remove")
  /\ signalled' = signalled \cup (IF cpc = "exited" THEN {} ELSE {"cashier"})
  /\ UNCHANGED <<queueVars, tpc, cashierVars, closing, running>>

\* Mutant of RemoveQueue: the workers are only signalled.
RemoveQueueForgotten ==
  /\ MainAt("remove", "remove_sem")
  /\ UNCHANGED <<queueVars, tpc, cashierVars, signalled, closing, running>>

\* ... then the queues, which wakes whoever is blocked on them ...
RemoveQueue ==
  /\ MainAt("remove", "remove_sem")
  /\ mq_removed' = TRUE
  /\ mq_cashier' = <<>>
  /\ UNCHANGED <<sem_removed, tpc, cashierVars, signalled, closing, running>>

\* ... then the semaphores.
RemoveSemaphores ==
  /\ MainAt("remove_sem", "wait")
  /\ sem_removed' = TRUE
  /\ UNCHANGED <<mq_cashier, mq_removed, tpc, cashierVars, signalled, closing, running>>

\* Nobody of this desk is left waiting or serving.
DeskEmpty == cpc = "exited" /\ \A t \in Tourists : tpc[t] \in {"ticket", "gone"}

\* wait_for_workers: the cashier, and through the generator the tourists.
WorkersReaped ==
  /\ MainAt("wait", "done")
  /\ DeskEmpty
  /\ UNCHANGED <<queueVars, tpc, cashierVars, signalled, closing, running>>

Finished == mpc = "done" /\ UNCHANGED vars

TouristStep(t) == \/ Arrive(t) \/ SendRequest(t) \/ ReceiveAnswer(t)
                  \/ PurchaseFails(t)

CashierStep == \/ LoopHead \/ ReceiveRequest \/ CheckClosing \/ CountSale
               \/ SendAnswer \/ CashierQueueGone

Shutdown == \/ HandlerRemovesQueue \/ HandlerRemovesSemaphores \/ StopRunning \/ TermCashier
            \/ RemoveQueue \/ RemoveSemaphores \/ WorkersReaped

Next ==
  \/ \E t \in Tourists : TouristStep(t) \/ TouristInterrupted(t)
  \/ CashierStep \/ CashierInterrupted
  \/ EndOfDay \/ Interrupt \/ Shutdown
  \/ Finished

Spec == Init /\ [][Next]_vars

\* Every process that can run keeps running and signals are delivered; when the
\* day ends, if it does, is left open.
FairSpec ==
  /\ Spec
  /\ \A t \in Tourists : WF_vars(TouristStep(t)) /\ WF_vars(TouristInterrupted(t))
  /\ WF_vars(CashierStep)
  /\ WF_vars(CashierInterrupted)
  /\ WF_vars(Shutdown)
-----------------------------------------------------------------------------
(* Properties. *)

\* The persons, kids included, that the tourists of S stand for.
PersonsOf(S) == Cardinality({p \in S \X (0..2) : p[2] <= KidCount[p[1]]})

\* Types; no purchase is counted twice (cashier.c:198-204).
TypeOK ==
  /\ mq_cashier \in Seq(CashierMsg) /\ Len(mq_cashier) <= QueueCapacity
  /\ mq_removed \in BOOLEAN /\ sem_removed \in BOOLEAN
  /\ tpc \in [Tourists -> {"arrive", "send", "wait", "ticket", "gone"}]
  /\ cpc \in {"head", "recv", "check", "count", "refuse", "sell", "exited"}
  /\ request \in Tourists \cup {NoTourist}
  /\ g_running \in BOOLEAN
  /\ signalled \subseteq Tourists \cup {"cashier"}
  /\ total_tourists \in 0..PersonsOf(Tourists)
  /\ closing \in BOOLEAN /\ running \in BOOLEAN
  /\ mpc \in {"day", "handler", "handler_sem", "stop", "term", "remove", "remove_sem",
              "wait", "done"}

\* Messages of t under way: in the queue or in the cashier's hands.
UnderWay(t) == Cardinality(Matching(LAMBDA m : m.tourist = t))
               + (IF request = t THEN 1 ELSE 0)

\* A tourist waiting for its ticket has exactly one message under way, its
\* request or the answer to it, and nobody else has any: the cashier neither
\* loses a request nor takes an answer for one.  Only the end of the day, a
\* signal or the removal of the queue, may lose one (cashier.c:152-220).
OneMessageEach ==
  ~mq_removed => \A t \in Tourists :
    /\ UnderWay(t) <= (IF tpc[t] = "wait" THEN 1 ELSE 0)
    /\ g_running /\ cpc # "exited" /\ tpc[t] = "wait" => UnderWay(t) = 1

\* Tourists whose ticket is sold: in hand, in the queue, or about to be sent.
Sold == {t \in Tourists :
           \/ tpc[t] = "ticket"
           \/ Matching(LAMBDA m : m.kind = "ticket" /\ m.tourist = t) # {}
           \/ cpc = "sell" /\ request = t}

\* total_tourists is the number of persons, kids included, whose ticket is sold:
\* exactly as long as nothing interrupts a sale, and never fewer than hold one
\* (cashier.c:198-204 counts before it answers).
SalesAccounting ==
  /\ total_tourists >= PersonsOf({t \in Tourists : tpc[t] = "ticket"})
  /\ g_running /\ ~mq_removed => total_tourists = PersonsOf(Sold)

\* The desk has blocked itself: the cashier waits for room in a queue full of
\* requests, which only the cashier takes out (cashier.c:212 against
\* lifecycle.c:35).
Stuck ==
  /\ cpc \in {"sell", "refuse"}
  /\ Full
  /\ \A i \in 1..Len(mq_cashier) : IsRequest(mq_cashier[i])

\* During the day the desk never blocks itself ("No timeout (deadlock)",
\* tests/test5_stress.sh:12).
DeskNotStuck == mpc = "day" => ~Stuck

\* Every purchase ends, with a ticket, a refusal or the end of the day, however
\* long the day lasts (lifecycle.c:43-54 waits without a timeout), unless the
\* desk blocks itself.
EveryoneAnswered ==
  \A t \in Tourists :
    tpc[t] \in {"send", "wait"} ~> (tpc[t] \in {"ticket", "gone"} \/ Stuck)

\* Once main leaves its loop the desk empties and main gets past
\* wait_for_workers: signals may be handled before the call they should
\* interrupt, so it is the removal of the queue that frees everybody
\* (main.c:53-109).
ShutdownCompletes == mpc = "stop" ~> mpc = "done"
=============================================================================
